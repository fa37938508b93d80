\* Three requests, two products, quantities up to two.
SPECIFICATION Spec
CONSTANTS
    r1 = r1 r2 = r2 r3 = r3 r4 = r4
    plain = plain serial = serial unit = unit
    Requests <- MCThree
    Products <- MCProducts
    Price <- MCPrice
    Opening <- MCOpening
    Serials <- MCSerials
    MaxQty = 2
    MaxSecond = 0
SYMMETRY MCSymmetry
INVARIANTS
    NumbersWithoutGap
    UnitSoldOnce
    StockCovered
    ReturnsSettle
PROPERTIES
    ImplementsBranchLedger
