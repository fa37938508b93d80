\* A sale, its return and two approvals of it, in every order.
SPECIFICATION Spec
CONSTANTS
    r1 = r1 r2 = r2 r3 = r3 r4 = r4
    plain = plain serial = serial unit = unit
    Requests <- MCFour
    Products <- MCOneProduct
    Price <- MCPrice
    Opening <- MCOpening
    Serials <- MCSerials
    MaxQty = 1
    MaxSecond = 0
SYMMETRY MCSymmetry
INVARIANTS
    CreditMatchesApproval
