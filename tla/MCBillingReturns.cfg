\* A return with two lines of the one product sold.
SPECIFICATION Spec
CONSTANTS
    r1 = r1 r2 = r2 r3 = r3 r4 = r4
    plain = plain serial = serial unit = unit
    Requests <- MCTwo
    Products <- MCOneProduct
    Price <- MCPrice
    Opening <- MCOpening
    Serials <- MCSerials
    MaxQty = 1
    MaxSecond = 1
SYMMETRY MCSymmetry
INVARIANTS
    ReturnsWithinSold
