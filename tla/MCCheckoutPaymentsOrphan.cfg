\* One request at a time: a tender that refuses leaves a sale at every attempt.
SPECIFICATION Spec
CONSTANTS
    s1 = s1  s2 = s2
    q1 = q1  q2 = q2
    cart = cart
    Sessions <- MCOneSession
    Carts = {cart}
    Requests = {q1}
    Tenders <- MCTenders
    Failures = {"FAILED"}
    MaxSales = 2
    MaxDeaths = 0
INVARIANTS
    OneSalePerPayment
