\* Two sales of one author, whose request for a payout races with the weekly
\* batch; and two server processes that tick while two authors sell.
SPECIFICATION SceneSpec
CONSTANTS
    o1 = o1
    o2 = o2
    o3 = o3
    a1 = a1
    a2 = a2
    p1 = p1
    p2 = p2
    p3 = p3
    c1 = c1
    s1 = s1
    s2 = s2
    w1 = w1
    w2 = w2
    Scenes = {"requests", "batches"}
    Orders = {o1, o2, o3}
    Settled = {o1, o2, o3}
    Authors = {a1, a2}
    AuthorOf <- TwoAuthors
    Payouts = {p1, p2, p3}
    Callers = {c1}
    Schedulers = {s1, s2}
    Writers = {w1, w2}
    MaxRejects = 1
    NoAuthor = NoAuthor
    NoPayout = NoPayout
INVARIANTS
    TypeOK
    PayoutOwnsItsRows
    OneBatchPerWednesday
    BoundIsRefundSafe
PROPERTIES
    PaidIsFinal
    ImplementsLedger
    OldSaleIsPaidOut
