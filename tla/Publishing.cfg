\* What a book passes on its way to its readers.  A file of at most three parts;
\* two calls, backups, logins or requests at a time.
SPECIFICATION PublishingSpec
CONSTANTS
    acct1 = acct1
    bk1 = bk1
    Parts = {"files", "store", "backup", "login", "publish", "write", "rate", "read", "catalog"}
    FileFormats <- FileParts
    MaxParts = 3
    Images <- OnePicture
    Shared <- SharedStrings
    DocStyles <- WordStyles
    Chapters = {ch1, ch2}
    Texts = {t0, t1}
    DefaultHtml = t0
    Threads = {h1, h2}
    AutoInterval = 1
    MaxSnapshots = 1
    MaxClock = 1
    MaxSnapshotId = 3
    Seed = ch1
    NoText = NoText
    Keys = {key}
    Owners = {w1, w2}
    Backups = {b1, b2}
    MaxRevisions = 1
    MaxSave = 1
    MaxRevision = 3
    NoOwner = NoOwner
    Logins = {l1, l2}
    Timeout = 2
    MaxTime = 3
    MaxBacklog = 1
    ManualToken = ManualToken
    NoToken = NoToken
    RemoteBooks = {k1, k2, k3}
    Contents = {good, bad}
    Publishable = {good}
    Publishes = {p1, p2}
    MaxLoss = 1
    NoRemoteBook = NoRemoteBook
    NoContent = NoContent
    Accounts = {acct1, acct2}
    Books = {bk1}
    BookAuthor <- WrittenBySomebody
    CatalogHandlers = {h1, h2}
    Times = {1}
    LastHour = 1
    BookHandlers = {h1, h2}
    Criteria = {"theme"}
    TopTier = 1
    PreviewLimits <- WholeBook
    DefaultPreview = 1
    MaxUpload = 3
    MaxChapters = 2
INVARIANTS
    PublishingTypeOK
    ImportsKeepTheText
    SavingIsIdempotent
    WordFileKeepsTheDocument
    TocLeadsToItsHeadings
    PublishedBookKeepsTheText
    BackupSafety
    ListenerClosed
    PublishSafety
    BooksSafety
PROPERTIES
    SnapshotsSurvive
    TakedownHolds
    DueIsPublished
    ImplementsPublication
CHECK_DEADLOCK FALSE
