\* A buyer refunds what was delivered; no operator is there.
SPECIFICATION Spec
CONSTANTS
    o1 = o1
    o2 = o2
    o3 = o3
    b1 = b1
    k1 = k1
    r1 = r1
    r2 = r2
    Orders = {o1}
    Buyers = {b1}
    Operators = {}
    Books = {k1}
    OrderRow <- OneOrder
    Requests = {r1}
    Prices = {9900}
    NoPrice = NoPrice
    NoOrder = NoOrder
PROPERTY
    NoWithdrawalAfterDelivery
