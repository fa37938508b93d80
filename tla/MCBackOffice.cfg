\* Two branches, one purchase order, one goods receipt with its lots, one sale to export, one
\* customer, two codes and a voucher of limited campaigns, and 1080 previews; two requests of the
\* control plane at a time, none begins after one row that an overtaken one has written.
SPECIFICATION OfficeSpec
CONSTANTS
    r1 = r1  r2 = r2  b1 = b1  b2 = b2
    order = order  receipt = receipt  sale = sale
    code1 = code1  code2 = code2  voucher = voucher
    Desks = {r1, r2}
    MaxBlind = 1
    Branches = {b1, b2}
    PurchaseOrders = {order}
    Ordered <- MCOrdered
    OrderedAt <- MCOrderedAt
    MaxDocuments = 2
    Amounts = {1}
    ReceivedQuantity = 2
    Splits <- MCSplits
    MaxWriteOffs = 2
    MaxExpiryReviews = 2
    GoodsReceipts = {receipt}
    ReceiptTotal <- MCReceiptTotal
    MaxFacts = 3
    MaxSnapshots = 2
    ExportSales = {sale}
    MaxTasks = 4
    MaxLapses = 2
    RedeemStep = 2
    MinimumRedeem = 1
    MaxValue = 2
    MaxAsked = 4
    Codes = {code1, code2}
    Vouchers = {voucher}
    CampaignLimit = 3
    CodeLimit = 2
    MaxSwitches = 1
    Carts <- MCCarts
    Automatic <- MCAutomatic
    ByHand <- MCByHand
    NoOffer = NoOffer
    Tenders <- MCTenders
SYMMETRY MCSymmetry
CHECK_DEADLOCK FALSE
INVARIANTS
    DocumentsSettle
    StockRequestsHold
    FirstExpiryFirstOut
    
    NeverOverpaid
    
    ExportsAgree
    ValueFollowsLedger
    RedeemedWithinLimits
    
