\* A sale and a review copy; one request to billing, one for a payout.
SPECIFICATION MoneySpec
CONSTANTS
    o1 = o1
    o3 = o3
    b1 = b1
    k1 = k1
    a1 = a1
    Orders = {o1, o3}
    Buyers = {b1}
    Operators = {op}
    Books = {k1}
    OrderRow <- SaleAndCopy
    Requests = {r1}
    Prices = {9900}
    NoPrice = NoPrice
    NoOrder = NoOrder
    Authors = {a1}
    AuthorOf <- SameAuthor
    Payouts = {p1, p2}
    Callers = {c1}
    Schedulers = {}
    Writers = {w1}
    MaxRejects = 1
    NoAuthor = NoAuthor
    NoPayout = NoPayout
INVARIANTS
    TypeOK
    PayoutsAreBacked
CHECK_DEADLOCK FALSE
