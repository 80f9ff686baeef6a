\* The components people act on, two requests at a time.  They come to rest when
\* their bounds are reached.
SPECIFICATION PlatformSpec
CONSTANTS
    acct1 = acct1 acct2 = acct2 bk1 = bk1 h1 = h1 h2 = h2
    c1 = c1 c2 = c2 c3 = c3 r1 = r1 r2 = r2
    po = po ag = ag ord = ord acc = acc bk = bk rep = rep
    Parts = {"campaigns", "notifications", "identity", "age", po, ag, ord, acc, bk, rep, "woncheon", "sharing", "pictures", "sums"}
    Campaigns = {c1, c2, c3}
    Reviewers = {r1, r2}
    CampaignHandlers = {h1, h2}
    Worlds <- MCWorlds
    Slots = 1
    ReviewDays = 1
    BlockDays = 1
    OperatorBlockDays = 2
    MissLimit = 2
    LastDay = 6
    MaxRow = 2
    Accounts = {acct1, acct2}
    Books = {bk1}
    BookAuthor <- WrittenBySomebody
    Fanouts = {h1, h2}
    Profiles = {p1, p2}
    EmailOf <- OneEmail
    LoginHandlers = {h1, h2}
    Operators = {po}
    ProofIds = {k1, k2}
    AgeHandlers = {h1, h2}
    Reviewing = {h1, h2}
    Clerks = {h1, h2}
    Entities = {po, ag, ord, acc, bk, rep}
    KindOf <- KindOfEntity
    MaxActs = 3
    PaidOuts = {w1, w2}
    IncomeTypes = {i1, i2}
    Reporters = {h1, h2}
    MaxPosts = 2
    Documents = {d}
    Links = {l}
    Pictures = {p}
    DocHandlers = {h1, h2}
    Sales = {0, 1, 5, 22, 65, 1500, 9900}
    MaxRows = 2
    IsIndividual = TRUE
SYMMETRY Symmetry
INVARIANTS
    PlatformTypeOK
    CampaignSafety
    IdentitySafety
    AgeSafety
    ConsoleSafety
    WoncheonSafety
    ExportHasItsPictures
    PayoutBalances
    WithholdingDriftBounded
PROPERTIES
    BlockIsEarned
    NewsIsToldOnce
    ImplementsTaxReports
    WritesAreEntitled
CHECK_DEADLOCK FALSE
