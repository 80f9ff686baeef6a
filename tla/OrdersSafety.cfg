\* A sale and a review copy of one buyer, two requests at a time.
SPECIFICATION RetrySpec
CONSTANTS
    o1 = o1
    o2 = o2
    o3 = o3
    b1 = b1
    k1 = k1
    r1 = r1
    r2 = r2
    Orders = {o1, o3}
    Buyers = {b1}
    Operators = {op}
    Books = {k1}
    OrderRow <- SaleAndCopy
    Requests = {r1, r2}
    Prices = {9900}
    NoPrice = NoPrice
    NoOrder = NoOrder
INVARIANTS
    TypeOK
    SettledIsPaid
    PaidIsCaptured
    RefundedIsCanceled
PROPERTIES
    CapturedIsRecorded
    ImplementsLifecycle
