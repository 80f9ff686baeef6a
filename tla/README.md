# A TLA+ model of hanjul

hanjul is a platform for self-published Korean e-books: authors write and
typeset books, readers buy them, the platform settles every sale with the author
and pays authors out once a week. This directory holds TLA+ modules that model
it, the TLC configurations that check them on small instances, and proofs,
checked by TLAPS, of what holds for instances of every size.

The models follow two threads through the code: the money (an order and its
payment, the settlement of a sale, the payouts made of settlements, the tax
reported on them) and the text (a file that is imported, kept and backed up on
the author's desktop, published, taken down, read). Around them stand the people:
accounts, proof of age, review campaigns, notices, shared documents, operators.

## 1. The system

The backend is a FastAPI application over PostgreSQL (READ COMMITTED), one
database session per request. Handlers are coroutines: every `await` is a point
where other requests run and where the process may stop. One asyncio task per
server process is the scheduler (`backend/main.py`, `_publish_scheduler`), which
ticks every 30 seconds. The desktop editor is a pywebview application whose page
calls Python on a thread per call, over a SQLite file.

| Component | State | Operations | What is hard | What makes it correct |
|---|---|---|---|---|
| settlement engine (`engine/settlement`) | none | split a sale between author, tax office and platform | rounding of each order against sums of many | the parts add up to the sale; the tax does not drift |
| billing (`features/billing`) | `bill.book_order`, `bill.settlement`; the payment at the PG (Toss Payments) | order, confirm, refund (buyer, operator), webhook, mark delivered, grant review copy | reads before a PG call and writes after it; lost, late and repeated PG answers; lost webhooks; crashes between the two systems | entitlement, settlement and money stand and fall together; refunds are final |
| payouts (`features/payouts`, scheduler) | `bill.payout`, `settlement.payout_id`, `bill.bank_account`, `bill.settlement_run` | request a payout, approve, pay, reject, weekly batch, register an account | row locks at READ COMMITTED, batch against requests, claim of a date, a batch cut short | no share is paid twice, only final sales are paid, and every author is paid in the end |
| woncheon (`features/woncheon`, `scripts/woncheon_retry_report.py`) | withholding subjects, report marker of a payout | report a withholding to the tax service, retry | lost answers, a crash between report and marker, script against request | a payment is filed once, and what is marked is filed |
| campaigns (`features/campaigns`), reviews | campaigns, slots, applications, deadlines, reviewer blocks, reviews | apply, assign, cancel, close, complete, sweep, block | reads without locks; assignment, review copy and notice are three transactions | no more copies than slots, completion means a review, blocks only for misses |
| catalog (`features/catalog`, scheduler) | publication status, price, schedule, takedown | price, submit, publish, schedule, unpublish, take down, restore, delete | the scheduler against author and operator; a row loaded before it is written | a takedown holds; what is due is published |
| notifications (`features/notifications`) | follows, notices | notify followers, buyers, reviewers; read | a unique conflict rolls the whole batch back; relighting against reading | news is told once |
| accounts, auth | accounts, credentials, tokens | sign in, suspend, withdraw | two first sign-ins at once; an email that is taken; tokens that outlive the account | one account per profile; a withdrawn one is anonymous for good |
| age_verification | requests, verified tier, ID photo on disk | submit, approve, reject | a disk, a request and an account changed one after another; two operators | a verified account was approved; a decided photo is gone |
| potato (operator console), reports | operators, audit log, reports | sign in, act on six kinds of things, record | act and record are two transactions; two operators with the same page | one decision each; records are of deeds |
| books (`features/books`) | chapters and blocks, preview limit, content rating | create, import, replace, rate, read, download | transactions without locks; an await of the classifier; three SELECTs per reading | uploads whole or not at all; delivery is recorded of what was read or is being answered |
| documents (`features/doc`) | documents, share links, pictures in an object store | create, save, delete, share, revoke, upload, export | the right is checked before the write; a picture is stored in parts | writes are entitled; exports have their pictures |
| desktop store (`desktop/store.py`) | chapters, snapshots in SQLite | save, take, restore, prune | reads outside the transaction, threads | snapshots are lost to newer ones only |
| desktop backup and `features/manuscript` | settings, revisions of chapters | back up by hand and by clock, push, prune | a push that goes on after the client gave up; a row inserted, pruned against and committed at different times | a recorded backup is on the server or gave way to newer ones |
| desktop login | keychain, listener on a loopback port | log in, log out, paste a token | clicks that overlap, connections that are no callback or say nothing | the port is given back, in time |
| desktop publication | remote id of the book | preflight, create, upload, release | lost answers, crashes between requests | nothing unchecked is sent, a retry makes no second book |
| document engine (`engine/doc`, `engine/imports`, `engine/publishing/epub.py`) | none (a parse loop) | nine importers, the dialect, the Word and EPUB exporters | six notions of heading, list, table and picture meet | no text is lost; saving is idempotent; the contents lead to their headings |
| typesetting (`packages/doc`), front ends, e-mail, covers, distribution, business verification | little | rendering, best-effort calls | | not modelled |

How they interact: `billing` writes the settlement row that `payouts` binds;
`campaigns` grants a review copy through `billing`; `books` tells `billing` that
a full text was opened (delivery), which ends the right to withdraw and makes
the settlement payable; the scheduler of `main.py` publishes what is due, tells the
followers, reminds reviewers and, on Wednesdays, runs the batch of `payouts`;
`payouts` calls `woncheon` after a payment; operators act through `potato`, which
calls the same services; the desktop imports with the document engine, keeps its
chapters in its store, pushes them to `manuscript` and publishes them to `books` and
`catalog`.

`PROJECT.json` lists the components with their status, and every hazard found in
the code with the line where it bites and the properties that would catch it.

## 2. Modules

| Module | What it is | Code |
|---|---|---|
| `Settlement`, `PayoutSums` | the split of one sale; settlements summed into payouts | `calculate.py`, `create_payout` |
| `OrderLifecycle` | abstract: place, pay, refund, deliver, grant | what billing promises |
| `Orders` | billing in detail: requests, database, PG | `billing/`, `books` delivery |
| `SettlementLedger` | abstract: a share is credited, bound, returned, paid | what payouts promise |
| `Payouts` | payouts in detail: row locks, batch, scheduler, accounts; its environment is `OrderLifecycle` | `payouts/`, `main.py` |
| `Money` | `Orders` and `Payouts` over the same tables | |
| `People` | accounts, books and their authors, as constants | |
| `Campaigns` | review campaigns, reviews, reviewer blocks | `campaigns/`, `reviews/` |
| `Notifications` | follows and the inbox | `notifications/`, `main.py` |
| `Identity` | sign-in, suspension, withdrawal | `auth/`, `accounts/` |
| `AgeVerification` | proof of age | `age_verification/` |
| `Console` | operators, their acts, audit, reports | `potato/`, `reports/` |
| `TaxReports` | abstract: a payment is made, entered once, marked | what the tax reports promise |
| `Woncheon` | tax reports | `woncheon/`, `scripts/woncheon_retry_report.py` |
| `Documents` | documents, links, pictures | `doc/` |
| `Publication` | abstract: a book is priced, published, withdrawn, taken down, bought, deleted | what the catalog promises |
| `Catalog` | publication and its scheduler | `catalog/`, `main.py` |
| `Books` | manuscripts on the server, rating, reading | `books/` |
| `DesktopStore`, `DesktopBackup`, `DesktopLogin`, `DesktopPublish` | the desktop editor and, of the server, what it calls | `desktop/`, `manuscript/` |
| `Dialect` | canonical HTML: tokens, sanitising parser, serializer | `engine/doc/dialect.py` |
| `DocxFormat`, `EpubFormat` | the Word importer and exporter, the EPUB exporter | `parsers/docx.py`, `exporters/` |
| `TextFormats`, `OfficeFormats` | Markdown, HTML, CSV, text, PDF; HWP, HWPX, PPTX, XLSX | `engine/doc/parsers/` |
| `BookImports` | text and PDF to blocks, block grammar, chapters, preview, a book's EPUB | `engine/imports/`, `engine/publishing/epub.py`, `desktop/importer.py`, `desktop/publisher.py` |
| `DocEngine` | a file is written part by part, imported and carried on | `engine/doc/ingest.py` |
| `MCOrders`, `MCPayouts`, `MCMoney`, `MCPlatform`, `MCFiles`, `MCDesk`, `MCPublishing` | instances; `MCDesk` is the desktop, the books and the catalog, to which `MCPublishing` adds the files | |
| `OrdersProofs`, `PayoutsProofs`, `PayoutSumsProofs` | proofs about the money; `OrdersProofs` also of `Money` | |
| `CampaignsProofs` | proofs about `Campaigns` | |
| `PeopleProofs` | proofs about `Identity`, `AgeVerification`, `Notifications`, `Woncheon`, `Console` | |
| `BooksProofs` | proofs about `Books`, `Catalog`, `Documents` | |
| `DesktopProofs` | proofs about the four `Desktop` modules, and of `MCDesk` | |
| `PlatformProofs` | the components of `MCPlatform` taken together | |

`Orders` implements `OrderLifecycle` and `Payouts` EXTENDS `OrderLifecycle`: what
is shown of payouts therefore holds whatever billing does, and neither model has
to carry the other's state. `Payouts` implements `SettlementLedger`, `Catalog` implements
`Publication`, `Woncheon` implements `TaxReports`. `Money` puts `Orders` where `Payouts` has the
abstract lifecycle: the two share `book_order` and `settlement`, and each step is one of
billing (or of the PG) or one of payouts. In the same way
`Campaigns` takes copies and purchases as what orders say, `Books` takes prices, PAID
orders and verified ages as things that change at any time, and `Catalog` takes
orders of a book so: each component meets the others as they are seen from it.

One convention holds everywhere. A request, a transaction, a login, a fan-out is a
record in a function over a small set of handlers; each stretch of the code between
two awaits (in the desktop: between two statements that begin a transaction) is one
action; what the code read before an await is a field of the record and may be stale
when used. A database constraint that the code relies on is the guard of the action
that commits, and its violation an action of its own.

### Orders

`status`, `settled`, `pgTx`, `delivered` are the columns of `book_order` and the
existence of the settlement row. What is written once with the row (buyer, book,
channel) is the constant function `OrderRow` of the order id, and an id is
`Fresh` until a request draws it. `pg` is the payment at the PG, `lateConfirm` and
`lateCancel` are calls that timed out and may still be carried out, `notices` are
webhooks not yet answered. A request is a record `[pc, order]`: where the handler
stands and the order it has read. Each stretch of a handler between two awaits is
one action:

- `create_order`: `StartOrder` (consent, price, age tier, ownership -- in this
  order), `InsertOrder`; `grant_review_copy`: `StartGrant`, `InsertGrant`.
- `confirm_payment`: `StartConfirm`, then `VerifyOk`, `VerifyRefused` or
  `VerifyTimeout`, then `RecordPaid` or `RecordNothing` (unknown channel, already
  PAID, or a settlement exists: the UNIQUE constraint on its order).
- `refund`, `refund_by_operator`: `StartRefund`, `CancelOk` / `CancelRefused` /
  `CancelTimeout`, `MarkRefunded`.
- webhook: `StartReconcile`, `LookupCanceled` / `LookupFails`, `MarkRefunded`.
- `mark_delivered` is one UPDATE: `MarkDelivered`.
- `Crash` ends a request at any await. A webhook is sent again only if it was not
  answered, and the endpoint answers 200 to everything.
- The PG (external): `Capture` and `Cancel` are idempotent by key, `LateCapture`,
  `LateCancel` carry out what timed out, `DashboardCancel` is a cancel that does
  not come from the program.

Amounts, mail and read-only queries are left out; a payment key other than the
order's own is not modelled.

### Payouts

A settlement row is named by its order. `binding` is `settlement.payout_id`,
`items` remembers which rows were added up into a payout (its amount columns),
`aged` are the sales paid more than seven days ago. `create_payout` is a
transaction record `[author, todo, locked]`: `Select` is the statement's snapshot,
`LockRow` takes one row lock -- waiting while another transaction holds it, and
dropping the row if its new version is bound, as PostgreSQL does at READ COMMITTED
-- and `CreatePayout` inserts the payout, binds the rows and commits.
`RequestPayout` starts one for an author, `PayAuthor` for the batch. `Abort` is any
rollback, deadlock victims included. `Approve`, `MarkPaid`, `Reject` lock the payout
row and look at its state again, so each is one step; a rejection frees the rows in
the same transaction. The batch goes through `Tick`, `Claim` (UNIQUE run_dt),
`ListAuthors`, then per author `PayAuthor` or `SkipAuthor`, then `FinishBatch`;
`LookupRaises` is an author with two primary accounts, `Die` a process that stops.
`NextWednesday` lets a week go by.

`MaxRejects` is the only bound in a guard: it limits how often operators reject,
since every rejection frees rows for another payout and payout ids are finite in an
instance. `Sales` and `MaxRows` bound `PayoutSums`.

### The server's other components

- `Campaigns`. A request takes its time once, when it begins (`now`). `apply` is a sweep
  of overdue assignments, which may block the reviewer, then `CheckApply` and
  `InsertApplication`; looking at one's applications or standing sweeps too. The sweep is
  `StartSweep` (the select), `FlushSweep` (the UPDATEs, which wait for the row locks of
  another sweep, and the block there is), `CountSweep` (its own misses and those committed
  by then) and `CommitSweep`, all with that one `now`; `SweepRaises` is a row that was
  deleted meanwhile. A sweep is overtaken when another commits that has a later time, or
  that has set a block it did not see.
  Only `assign` locks the campaign's row (`LockCampaign`, `Assign`) and gives the copy in
  a later transaction (`GrantCopy`). `WriteReview` completes the reviewer's assignments
  in later steps (`PickAssigned`, `CompleteApplication`). A cancel reads and then
  deletes by key: `rows` numbers the rows of a pair, so that a delete that comes too
  late does not hit a later row. Histories of the property are `missed` (rows found
  overdue), `atoned` (those a block was for), `raced` (whose block an overtaken sweep set)
  and `lifted` (whose block an operator set or lifted).
- `Notifications`. A fan-out collects recipients (`NotifyNewBook`, `NotifyRevision`,
  `NotifyReviewer`), reads who has the notice (`SelectExisting`) and commits one batch
  (`CommitNotices`) or collides with another on the unique key (`NoticesCollide`).
- `Identity`. `StartSignIn` reads the credential, `CreateAccount` inserts account and
  credential in one transaction, `CreateRaises` is the loser of a race, `IssueToken` and
  `TokenExpires` the token. `Withdraw` and `SetStanding` write what they loaded before.
- `AgeVerification`. `SavePhoto`, `CreateProof`; `Decide` under the row's lock,
  `SetVerifiedTier`, `DeletePhoto`; `AgeCrash` between any two of them.
- `Console`. `Act(kind)` gives each act the statuses it starts from -- read again under
  a lock for payouts and proofs of age, written regardless for the others -- `TakeEffect`
  is the transaction of the component acted on, `RecordDeed` the audit record.
- `Woncheon`. `MarkPaid` or `RetryReport`, `ReadSubject`, `Post` (the request may or may
  not arrive, the answer may or may not come), `MarkReported`. The outside service files
  a payment once per idempotency key; `filed` is what it has; `TaxEntries` is the same
  as the books of `TaxReports`.
- `Documents`. `BeginOwnerOp`, `BeginLinkOp`, `BeginRevoke`, `BeginMedia` take up a request;
  entitlement is checked in one step (`EnsureCanModify`, `ResolveActiveShare`) and used in
  a later one. A document's content is the set of hosted pictures it shows, a picture in
  the store is its variants, put one by one.
- `Catalog`. A request checks the row (`StartCatalog`), loads it again (`LoadBook`) and
  writes the columns that differ (`WriteBook`, `DeleteBook`); the scheduler's pass is
  `SelectDue`, `PublishDue`, `NotifyNext`, and may fail at each (`PassFails`). Seen as a shelf
  (`ShelfOf` a row) it is `Publication`, where nothing is read before it is written.
- `Books`. An import appends (`FinishImport`) and a replacement deletes the chapters it
  saw (`FinishReplace`); a rating awaits the classifier (`LoadRating`, `WriteRating`); a
  reading goes through `StartReading`, `PassAgeGate`, `CheckOwned`, `MarkDelivered` -- which
  commits before the answer is built -- and `AnswerReader`; `ReaderIsCutOff` is an answer
  that fails, before or after the delivery is committed (`cutOff` remembers the latter).

### The desktop

`DesktopStore`: an automatic snapshot is decided on what is read before the transaction
begins (`StartSave`, `SaveChapter`), as is the text a restore keeps (`StartRestore`,
`RestoreSnapshot`). `DesktopBackup` has both sides: the client reads chapters one by one,
sends, times out or dies; the server goes on, a transaction a chapter, with `BeginStore` (is
the text the latest one already?), `InsertRevision` (the flush: the row has its time, and
nobody else sees it), `PickStale` (the rows to prune, of those committed by then and its
own) and `CommitChapter`. `DesktopLogin` gives each click its own listener, deadline and
backlog; a connection that sends nothing holds `HandleRequest` until it closes, whatever
the clock says. `DesktopPublish` is `Preflight`, `PostBook`, `SetRemoteBookId`, `PutContent`,
`PublishNow`, with `AnswerLost` at any of them.

### The document engine

HTML is a sequence of tokens (open with attributes, text pieces, close), a text a sequence
of words, line breaks and pieces that look like a tag (`Tagish`), a format's file what its importer sees of it: lines, runs with
style names, records with their levels, cells, OLE sectors with their chains. Each
importer, the dialect and each exporter are operators over these, written with the folds
of the community modules, one operator per function of the source; the loop of the
Markdown importer is taken an iteration at a time, because it need not end. The programs
that write HWP, HWPX and PPTX files are part of `DocEngine`, and give the importers work:
chains that run backwards, sections last first, long record headers.

Left out: XML and ZIP packaging, compression, CSS values beyond a small set, and
everything about layout.

## 3. What the runs check

| Run | Result | Instance |
|---|---|---|
| `OrdersSafety.cfg` | holds: `TypeOK`, `SettledIsPaid`, `PaidIsCaptured`, `RefundedIsCanceled`, `CapturedIsRecorded`, `ImplementsLifecycle` | a sale and a review copy of one buyer, two requests (76,395 states) |
| `OrdersOneCopy.cfg` | violated: `OneCopyPerBuyer` | two orders for one book |
| `OrdersChannel.cfg` | violated: `CapturedIsSettleable` | an order with a channel without a rate |
| `OrdersWithdrawal.cfg` | violated: `NoWithdrawalAfterDelivery` | one sale, no operator |
| `OrdersWebhook.cfg` | violated: `CanceledIsReconciled` | one sale, a server that finishes what it begins |
| `PayoutsSafety.cfg` | holds: `TypeOK`, `PayoutOwnsItsRows`, `PaidIsFinal`, `ImplementsLedger`, `OneBatchPerWednesday`, `BoundIsRefundSafe`, `OldSaleIsPaidOut` | two scenes: two sales of one author, a request and a batch, one rejection, two concurrent account registrations; and two server processes, two authors (149,848 states) |
| `PayoutsTwoAccounts.cfg` | violated: `OldSaleIsPaidOut` | two authors, two concurrent account registrations |
| `PayoutsRefundRace.cfg` | violated: `PayoutOfPaidOrdersOnly` | one sale, one request |
| `Platform.cfg` | holds: `PlatformTypeOK`, `CampaignSafety`, `BlockIsEarned`, `NewsIsToldOnce`, `IdentitySafety`, `AgeSafety`, `ConsoleSafety`, `WoncheonSafety`, `ImplementsTaxReports`, `WritesAreEntitled`, `ExportHasItsPictures`, `PayoutBalances`, `WithholdingDriftBounded` | each component with two requests at a time (411,384 states) |
| `Publishing.cfg` | holds: `PublishingTypeOK`, `ImportsKeepTheText`, `SavingIsIdempotent`, `WordFileKeepsTheDocument`, `TocLeadsToItsHeadings`, `PublishedBookKeepsTheText`, `SnapshotsSurvive`, `BackupSafety`, `ListenerClosed`, `PublishSafety`, `BooksSafety`, `TakedownHolds`, `DueIsPublished`, `ImplementsPublication` | every file of at most three parts, and each component with two requests at a time, in the catalog for different things or to restore (398,221 states) |
| `LoginWait.cfg` | violated: `WaitEndsInTime` | one login, one connection that waits |
| `MarkdownHang.cfg` | violated: `LinesAreConsumed` | Markdown files of two lines, one with a tag |

`MCPlatform` and `MCPublishing` are unions of instances: the variable `part` says which
component moves while the others stand still, and in some parts what it looks at (in
the store, for one, a second chapter is only made; its texts are not
edited). The components meet only where one module says so, so nothing is lost, and
the product of their states is not explored.

What the properties of `Platform.cfg` and `Publishing.cfg` say:

- `CampaignSafety`: concurrent assignments never exceed the slots, and what is completed
  was assigned, to a reviewer who has the copy and wrote a review. That the review was
  written since the assignment is not so: the review and what it completes are two
  transactions, and an assignment of another day that comes between them is completed
  by the older review. `BlockIsEarned`: a block set by rule has `MissLimit` rows behind it
  that were found overdue, and as many that no earlier block of the rule had counted --
  unless an overtaken sweep set a block of that reviewer, whose misses do count again (see
  section 5).
- `NewsIsToldOnce`: a notice that was read is not lit again but by a revision.
- `IdentitySafety`: one account per profile that has not withdrawn; a withdrawn account
  never has a credential or an email again, whoever loaded it before.
- `AgeSafety`: verified means approved, though two operators decide differently; a decided
  photo is gone unless the process died on the way.
- `ConsoleSafety`: payouts, refunds and proofs are decided once and the log names one
  operator; no record without its deed.
- `WoncheonSafety`: a payment is filed at most once and after it was paid; what left the
  list of unreported payouts is filed. `ImplementsTaxReports`: an entry at the tax office is
  made once and stands, under the income type of the report that came first; what is
  registered later does not reach it.
- `WritesAreEntitled`: no text changes but by its owner or a link that could edit, and never
  by a request that came in after deletion or revocation. `ExportHasItsPictures`: an
  export has every picture whose upload was answered before it.
- `SnapshotsSurvive`: a snapshot goes only when the cap is filled with newer ones, and a
  restore keeps the text it saw unless the cap was filled with newer ones since it looked
  (its snapshot bears the time of that reading, so that it is then pruned as it is made;
  it takes a third snapshot to see this, which is why `MaxSnapshotId` is 3).
- `BackupSafety`: one automatic backup at a time; what a recorded backup had read was stored, in a row that is there or has as many *newer*
  ones of its chapter as are kept; concurrent prunes pass the cap by one row each at most.
- `PublishSafety`: only checked content is sent, public books have it, and the number of
  books is one plus the lost answers and overlaps. `ListenerClosed`: however a login ends its
  port is closed, and requests that are served do not make the wait longer: beyond
  `timeout_s` the port is open only while a silent connection is served. That this too is
  bounded is what `wait_for_callback` promises and `LoginWait.cfg` refutes.
- `BooksSafety`: uploads are whole; a delivery is recorded only of a text that was read or
  whose answer is next -- or whose answer failed when the delivery was committed already.
- `TakedownHolds`: only an operator's restore lifts a takedown, whatever row an author's
  request had loaded. `DueIsPublished`: what is due and priced is published.
  `ImplementsPublication`: what a request checked, loaded or selected before a takedown, a
  withdrawal, an order or a deletion does no more than `Publication` allows at the time of
  the write: only a priced book goes up, one that is gone does not come back, one that was
  bought is not deleted, a takedown ends by a restore that was asked for (or with the book).
- `ImportsKeepTheText`: the words of a file are in the document, all and in order, for nine
  formats; the marks of a PDF's spans too. Exempt are pieces of text that look like a tag in
  the formats whose importers do not escape them (`RawFormats`: the sanitiser takes them for
  tags); the files of the run have such pieces in every format but HTML, and with `RawFormats` empty
  the property is violated. `SavingIsIdempotent`: the sanitiser applied to
  its own output changes nothing. `WordFileKeepsTheDocument`: export to Word and import
  again gives the words, headings and pictures. `TocLeadsToItsHeadings` and
  `PublishedBookKeepsTheText` are about the EPUB and about cutting into chapters.

`docs/settlement-schema.md` prescribes the tax of a payout as the rounded tax of the
sum; the code adds up rounded parts. `WithholdingDriftBounded` says how far the two
can be apart: half a won per order.

Why the instances are large enough. Races in `Orders` need two requests that hold
the same order across an await, and an entitlement without settlement next to one
with; two requests and one order per channel give every such pair, late PG answers
being actions of their own. Races in `Payouts` need two transactions over the same
two rows (so that locks are taken in different orders and partly), a third payout to
bind what a rejection freed, and a batch with an author to skip and one to pay. For
larger instances there are the proofs. In `Campaigns` three worlds bound what happens:
two reviewers after one slot, one reviewer who misses the deadlines of three campaigns
while two sweeps overlap, with a day between them or not (`MissLimit` is 2, so that a third
miss meets a block; `LastDay` is 6, so that a miss may come before, in and after it), and
one application to which everything else happens; the rows in `applied` are there when the
behaviour begins. `CampaignsPartNext` leaves out of the second world what the others have:
it lets sweeps race with sweeps only, and assigns the three copies in turn. Elsewhere two
handlers race over one row, which is all a lost update, a double insert or a stale check
takes; two profiles share an email; a third revision, snapshot or book is what pruning or a
retry makes, and a third upload is what the second of two replacements that both delete an
earlier one makes. Three revisions with a cap of 1 are what two concurrent prunes need to
pass the cap, and a newer row to take the place of a recorded one. A time-out of 2 on a
clock of 3 lets a request be served, and a silent connection be held, before and after the
deadline. Files of three parts put
every kind of part before, between and after every other. `MaxActs`, `MaxRow`, `MaxPosts`,
`MaxUpload`, `MaxChapters`, `MaxSave`, `MaxRevision`, `MaxSnapshotId`, `MaxClock`, `MaxTime`,
`MaxBacklog`, `MaxLoss`, `LastDay`, `LastHour`, `Times`, `ProofIds` and `MaxParts` are the bounds in
guards; when they are reached the instance comes to rest, which is why these runs do not
check deadlock. `h1` and `h2` are interchangeable in `Platform.cfg`, which has no liveness
property.

The violated properties are disagreements between the code and what its comments,
documents or tests say; `PROJECT.json` quotes them under "findings":

- two PENDING orders of one buyer for one book both become PAID;
- a payment is captured for an order whose channel cannot be settled;
- a buyer's refund does not look at delivery, after which there is no withdrawal;
- a webhook that cannot be carried out is dropped for good;
- two first registrations of a bank account break the weekly batch for all authors;
- a refund during `create_payout` puts the refunded sale into the payout, and
  without the warning that is meant for refunds after a payout;
- a connection that sends nothing holds the wait for a login, and the port, beyond the time
  after which both are to end;
- the Markdown importer never ends on a file with a line such as `#tag`, because the test
  for the start of a block and the branches that read blocks disagree on it.

### Fairness

Safety properties assume none. `CapturedIsRecorded` assumes `RequestFairness` (a request
that was begun goes on) and `RetryFairness`: the buyer keeps confirming a pending order,
and not every attempt is refused or dies. The code has no retry of its own -- the web
client's confirmation page is what calls again -- so this is an assumption on the
environment and is named so. `CanceledIsReconciled` is refuted under `ServerFairness`:
requests that are begun go on, notices are delivered; nothing is assumed of the PG's
answers, which is what the counterexample uses.

`OldSaleIsPaidOut` assumes `SchedulerFairness`. The scheduler is an endless loop whose
exceptions are caught, so it ticks again and its batch goes on (weak fairness); row
locks are held for one transaction only, so a row that is waited for is obtained in
the end (strong fairness of `LockRow` for schedulers); a transaction that could commit
again and again commits at last (strong fairness of `CreatePayout`). Weeks go by, and
there is a time after which the process survives its batches: without that
assumption the property is false, because the run is claimed before the work. Nothing
is assumed of the order in which the database lists authors, and a request may be
rolled back as often as it likes except at its commit. `NextWednesday` waits for the
batches of the day: a batch of a week's length is not considered. `SceneFairness` of
`MCPayouts` states the same of the processes that take part in a scene, and nothing of the
scene of requests, where no time passes over the sales.

`DueIsPublished` assumes `CatalogFairness`: the same loop selects what is due and goes on
with what it selected (weak fairness), and a pass that could commit again and again does
(strong fairness of `PublishDue`, since `PassFails` may end a pass at any step).
`MCPublishing` states the same of the part that is the catalog. `LinesAreConsumed` is an
action property and `WaitEndsInTime` an invariant: they need no fairness, and the login has
none. What is refuted is not that the silent connection never closes but that the wait
ends at its deadline while it is open.

## 4. What is proved

All for any sets of orders, buyers, requests, authors, payouts and server processes;
the assumptions are those stated by ASSUME in the modules (the kinds of the constants,
and that ids and "no such thing" values differ).

`OrdersProofs`. The inductive invariant is

    IInv == TypeOK /\ Drawn /\ SettledTogether /\ Witnessed /\ PaidIsCaptured /\ RefundedIsCanceled

`SettledIsPaid` alone is not inductive: a request that stands between two awaits will
write on the strength of something it saw. `Drawn` says that a request about to insert
holds an id nobody has used; `Witnessed` says what a request that has had an answer
of the PG may rely on (a captured payment before "recording", money returned before
"marking"); `SettledTogether` ties status, settlement and PG reference of a row. From it
follow `SettledIsPaid`, `PaidIsCaptured`, `RefundedIsCanceled`, the action property
`RefundIsFinal`, and the refinement of `OrderLifecycle`: five kinds of steps touch its
variables, each maps to one abstract action, all others stutter. (`RefundIsFinal` follows
from the refinement too, so that no run checks it by itself.)

`Money`. `MoneyKeepsItsSpecs` shows that a behaviour of billing and payouts over one
database is one of `Orders` and one of `Payouts`: every step of billing is, to payouts, a
step of the lifecycle they take for their environment, by the refinement above, and the
steps of payouts leave the orders alone. So what is proved of payouts against an abstract
environment holds with the real billing in its place. `PayoutsAreBackedHolds` is a statement
neither could make alone: what is added up into a payout has had its money captured at
the PG, and a sale among it that was refunded was canceled there. It joins the invariants
of `Orders` with `SettledFirst` (whatever a transaction has selected, locked or added up is
settled, and settlements stay).

`PayoutsProofs`. `StepKinds` splits the steps by what they do to the books: leave them,
move one transaction, commit one, or an operator's transition. The inductive
invariant is

    IInv == TypeOK /\ PayoutOwnsItsRows /\ LockedRowsAreFree /\ Selected /\ BoundIsRefundSafe

`PayoutOwnsItsRows` needs `LockedRowsAreFree` (a commit binds only free rows, so no other
payout loses one); `BoundIsRefundSafe` needs `Selected`, which says that what a snapshot
chose is delivered or old, and stays so, and belongs to the call's author.
`OneBatchPerWednesday` has an invariant of its own. `PaidIsFinal` follows from the same
invariant, and `LedgerImplemented` shows that payouts implement `SettlementLedger`:
paying an order is Credit, a commit Bind, a rejection Return, a payment PayOut, and
every other step stutters.

`PayoutSumsProofs`. For every amount and any number of rows, a payout's sales are
assigned to the won, and the tax is off from 3.3% by at most half a won per row. The
lemmas say what rounding half up does to one amount; the invariant carries it to sums.

Every other component but the document engine has its type correctness and its safety property
proved, from an inductive invariant that says what a request under way may rely on.
Each has the same plan: lemmas about what a record of the module is and becomes; the
initial states; one step per action; and the theorems that follow.

| Component | Beside types and the property, the invariant says | Theorems |
|---|---|---|
| `Campaigns` | `RowsAreKept`: what was assigned has a day, completed means a review and a copy. `SoundRequests`: the holder of a campaign's lock still sees the slots it counted; a row a sweep or a completion read is still assigned or beyond, unless it was deleted and made anew. `LocksExclude`. `MissesAreNoted`: every row a sweep may count was noted and is past its deadline. `AtonedAreOver`: what a block was for has no deadline after the block's first day. `SoundSweep`: a sweep that was not overtaken has a time later than the deadline of every miss noted so far, and the misses it is about to block for are new to the block it read | `CampaignSafetyHolds`, `BlockIsEarnedHolds` |
| `Identity` | `RowsAreMadeForProfiles`: the credential of a profile leads to the one account made for it until it withdraws, then nothing does. `RequestsAreOnRows`: sign-ins, tokens and operators hold rows that exist | `IdentitySafetyHolds` |
| `AgeVerification` | `SubmissionsAreFresh`: one submission per saved photo. `ReviewsAreOfRequests`: who sets a tier has approved. `PhotosAreLookedAfter`: somebody is at every photo whose request is not pending, unless the process died | `AgeSafetyHolds` |
| `Notifications` | nothing more: the unique key is in the guard of the commit | `NewsIsToldOnceHolds` |
| `Woncheon` | `FilingsAreOfPayments`: what the service filed is under its payout's key. `ReportsAreOfPayments`: who is about to mark has had it filed | `WoncheonSafetyHolds`, `TaxReportsImplemented`, `FilingsStand` |
| `Console` | `DecisionsEnd`: from what a final act leads to, no act starts. `DeedsAreRecorded`: there are no more records of a deed than deeds, fewer while one waits for its record | `ConsoleSafetyHolds` |
| `Books` | `StoredUploads`: an upload's number was given out. `SoundReads`: who read a chapter of an upload has read all of them that are still there, so that it deletes all or none; who is about to record a delivery is an account | `BooksSafetyHolds` |
| `Catalog` | `SoundAsk`: who is about to publish a book that is still there finds it priced, whatever wrote it since the check; the scheduler likewise. `SoundRow`: a published book has a price, a deleted one is not taken down | `TakedownHoldsAlways`, `PublicationImplemented`, `OrderedBooksStay` |
| `Documents` | `SoundCalls`: what a request found out about owner, link and capability stays so; what it has rendered or has still to fetch includes what was ready when it began. `LinksAreToDocuments`, `HostedIsStored` | `ExportHasItsPicturesHolds`, `WritesAreEntitledHolds` |
| `DesktopLogin` | `KeepsDeadline`: a wait keeps the deadline it began with, whatever was served in between | `ListenerClosedHolds` |
| `DesktopPublish` | `BooksAreCounted`: books at the server are no more than lost answers and overlaps, and one if the client knows of one. `SoundPublish`, `RemoteIsThere` | `PublishSafetyHolds` |
| `DesktopBackup` | `AutoIsAlone`. `RowsAreNumbered`: rows are told apart by their number, those not yet committed included. `SoundBackups`: a text a push was asked for is still to do, in its open transaction, or safe on the server. `SoundStep`: what a transaction is going to prune has enough newer rows above it, its own included. `CapIsKept`: whichever of the open transactions commit first, the others still find room | `BackupSafetyHolds` |
| `DesktopStore` | snapshots are numbered, and what is to become one is a text | `SnapshotsSurviveAlways` |

Three of these arguments are about numbers of rows. The slots of a campaign: `Assign`
adds one to a set of given applications whose size the lock holder knows, and no other
action makes it larger. The revisions of a chapter: two prunes may choose the same
victims, and then the second deletes nothing, so that a count of rows and of open
transactions is not inductive; `CapIsKept` therefore speaks of every subset of the open
transactions, as the ones that have committed. The newest `n` of a finite ordered
set, which is what both pruning rules keep: `KeptAreFew`, `DroppedForHigher` and
`HigherHasLessAbove` prove of any order that at most `n` are kept, and that whatever is
dropped has `n` kept ones above it; `DesktopBackup` and `DesktopStore` only say which
order is theirs.

`PlatformProofs` shows that a behaviour of the whole is one of each component
(`PartsKeepTheirSpecs`), so that everything proved of one holds of all together:
`PlatformTypeCorrect` and `PlatformIsSafe` state the properties of `Platform.cfg` for every
instance. `DesktopProofs` does the same for `MCDesk`: `DeskKeepsItsSpecs`, then
`PublishingTypeCorrect` and `PublishingIsSafe` for the safety properties of `Publishing.cfg` that
are not about the document engine, the refinement of the catalog included. `MCPublishing` has `MCDesk`'s next-state relation as a
conjunct, so they are statements about that run's behaviours as well.

The assumptions on constants are of four kinds: a value that stands for "none" is not
one of the things; bounds are natural numbers; caps, slots and rates of the code are
what the code has (`MaxRevisions`, `MaxSnapshots`, `Slots` at least one); a set that is
counted is finite. Nothing is assumed of the number of requests, accounts, books,
operators or chapters, save that `Books`, `Campaigns`, `Reviewers`, `Accounts`, `Profiles`
are not empty where a request's record needs a value, and that backups at a time and
rating criteria are finitely many.

Two attempts at a proof failed because the property was wrong, and TLC then found the
counterexample on a larger instance. `CompletedMeansReviewed` said that a completed
application has a review written since its assignment, and `RestoreIsKept` that a restore
always keeps the text it saw; both are stated above as they are.

Only model-checked:

- the liveness properties (`CapturedIsRecorded`, `OldSaleIsPaidOut`, `DueIsPublished`),
  which rest on fairness and are outside the prover's reach;
- the properties of the document engine (`ImportsKeepTheText`, `SavingIsIdempotent`,
  `WordFileKeepsTheDocument`, `TocLeadsToItsHeadings`, `PublishedBookKeepsTheText`): what its
  recursive and folded definitions compute takes induction over data, and its
  modules have RECURSIVE operators (HTML nests, and so do its parsers), of which the
  prover has no translation.

## 5. What is not modelled, and the plan

Not modelled: the wording of answers, pagination of lists, mails, covers and the adapters
of outside stores (best-effort calls that write one column or row nobody decides upon),
the OAuth exchange, the checksum of business numbers, ONIX and sitemap feeds and the HTML
viewer (functions from a book to a text, with no decision a property could be about),
typesetting in the browser, and the user interfaces. PostgreSQL's lock on a row that was
skipped after a wait is released earlier in the model than in a batch that goes on without
committing; nothing that is stated depends on it. Deadlocks of two transactions appear as
`Abort` or `Die`.

What the models show but no property forbids is listed under the hazards with a note:
among them an application that is overwritten after its completion, a book that is
unpublished and still scheduled, two pending proofs of one account, texts doubled by two
replacements at once, an act without its record after a crash, tokens that outlive an
account, and text the importers drop (beside a table of an HWPX run, in nested tables, in
cells under overlapping spans).

Three losses are reached by the models, and a property exempts exactly them:

- Text that looks like a tag. The importers of txt, md, hwp, hwpx, pptx and pdf files put raw
  text into the content of blocks (`parsers/text.py:26`, `hwp.py:304`, `hwpx.py:147`,
  `pptx.py:191`, `pdf.py:155`); the sanitiser unwraps the unknown tag (`dialect.py:289-294`),
  though `dialect.py:15-18` holds it safe on plain text. `ImportsKeepTheText` exempts such
  pieces in those formats. A piece such as `<script>` also takes along what follows it; no
  file of the run has one.
- A delivery of what was never read. `mark_delivered` commits before the text or the EPUB is
  built and sent (`books/presentation/endpoints.py:128-140`, `162-186`); an answer that fails
  in between leaves a sale that can no longer be withdrawn from and is due for payout.
  `DeliveredHasRead` exempts it (`cutOff`).
- A miss that counts twice. A sweep has one time for its select, its count and its block
  (`campaign_repo.py:273-305`). A slow one that took its time before another's commit, and
  counts that one's misses afterwards, sets a block that begins before the deadlines of
  those misses, so that they count again towards the next block, against the comment at
  `campaign_repo.py:293`. `BlockIsEarned` exempts reviewers blocked by a sweep that was
  overtaken so (`raced`); that there were `MissLimit` misses holds even then.

What comes next:

1. `Pagination`: the page breaking of `packages/doc` as a pure function, checked against
   a definition by quantifiers.
2. Abstract specifications that `Documents` (who may change what) and `DesktopBackup` (a
   mailbox of revisions) implement, as there are for the money, the catalog and the reports.

## 6. Running it

    tlc -config OrdersSafety.cfg MCOrders.tla
    tlc -config PayoutsSafety.cfg MCPayouts.tla
    tlc -config Platform.cfg MCPlatform.tla
    tlc -config Publishing.cfg MCPublishing.tla
    tlc -config MarkdownHang.cfg MCFiles.tla
    tlc -config Money.cfg MCMoney.tla
    tlapm OrdersProofs.tla
    tlapm PlatformProofs.tla

`Money.cfg` checks `TypeOK` and `PayoutsAreBacked` on one sale and one review copy (252,454
states); it is the instance on which the composition was tried before it was proved, and it is
not among the twelve runs above. A configuration named `Orders...` belongs to `MCOrders`, one
named `Payouts...` to `MCPayouts`, and `LoginWait.cfg` to `DesktopLogin`. `Platform.cfg` and `Publishing.cfg` take two to four minutes; a part of them alone
is checked by shortening the set `Parts`.
