\* An order placed with a channel the settlement engine does not know.
SPECIFICATION Spec
CONSTANTS
    o1 = o1
    o2 = o2
    o3 = o3
    b1 = b1
    k1 = k1
    r1 = r1
    r2 = r2
    Orders = {o1, o3}
    Buyers = {b1}
    Operators = {op}
    Books = {k1}
    OrderRow <- SaleAndCopy
    Requests = {r1, r2}
    Prices = {9900}
    NoPrice = NoPrice
    NoOrder = NoOrder
SYMMETRY Symmetry
INVARIANT
    CapturedIsSettleable
