\* A session and its retry, two requests at a time, no tender that may refuse.
SPECIFICATION Spec
CONSTANTS
    s1 = s1  s2 = s2
    q1 = q1  q2 = q2
    cart = cart
    Sessions <- MCTwoSessions
    Carts = {cart}
    Requests <- MCRequests
    Tenders <- MCNoTenders
    Failures = {"FAILED"}
    MaxSales = 2
    MaxDeaths = 0
SYMMETRY MCSymmetry
INVARIANTS
    SalesArePaid
    PostedOnce
