\* Recovery and liveness: one session paid with two tenders, two requests at a time, one of which may die.
SPECIFICATION FairSpec
CONSTANTS
    s1 = s1  s2 = s2
    q1 = q1  q2 = q2
    cart = cart
    Sessions <- MCOneSession
    Carts = {cart}
    Requests <- MCRequests
    Tenders <- MCTenders
    Failures = {"FAILED"}
    MaxSales = 2
    MaxDeaths = 1
INVARIANTS
    LinkedSaleIsPosted
PROPERTIES
    PaidIsFinalized
