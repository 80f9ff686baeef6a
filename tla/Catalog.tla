------------------------------- MODULE Catalog -------------------------------
(***************************************************************************)
(* The publication of books: review, publication at once or scheduled,     *)
(* withdrawal, takedown by an operator, deletion.  A request checks a row, *)
(* loads it again and writes the columns that differ from what it loaded.  *)
(* A publication then starts a fan-out (module Notifications).             *)
(***************************************************************************)
EXTENDS Integers, People

CONSTANTS CatalogHandlers,  \* requests at a time
          Times,            \* bound: the hours a publication may be scheduled for
          LastHour          \* bound: the clock

ASSUME CatalogAssumption == Books # {} /\ LastHour \in Nat /\ Times \subseteq 0..LastHour

VARIABLES book,        \* pub.book
          orderedBy,   \* buyers with an order of a book, of any status
          hour,        \* now
          ask,         \* the requests under way
          pass         \* the scheduler's pass: idle, or the books it selected or published

catalogVars == <<book, orderedBy, hour, ask, pass>>

NotScheduled == -1
BookStatus == {"DRAFT", "REVIEW", "PUBLISHED"}
IdleAsk == [op |-> "idle", step |-> "idle", b |-> CHOOSE b \in Books : TRUE, status |-> "DRAFT",
            blocked |-> FALSE, when |-> NotScheduled]
IdlePass == [step |-> "idle", books |-> {}]
Publications == {"publish", "publish_now"}
\* "describe": the meta data, the ISBN, a discount: columns nothing here reads.
CatalogOps == {"price", "describe", "submit", "unpublish", "schedule", "delete", "takedown", "restore"}
              \cup Publications

BookRow == [exists : BOOLEAN, status : BookStatus, priced : BOOLEAN, blocked : BOOLEAN,
            scheduled : {NotScheduled} \cup Times]
CatalogAsk == [op : CatalogOps \cup {"idle"}, step : {"idle", "load", "write"}, b : Books,
               status : BookStatus, blocked : BOOLEAN, when : {NotScheduled} \cup Times]

CatalogTypeOK ==
    /\ book \in [Books -> BookRow]
    /\ orderedBy \in [Books -> SUBSET Accounts]
    /\ hour \in 0..LastHour
    /\ ask \in [CatalogHandlers -> CatalogAsk]
    /\ pass \in [step : {"idle", "selected", "notify"}, books : SUBSET Books]

CatalogInit ==
    /\ book = [b \in Books |-> [exists |-> TRUE, status |-> "DRAFT", priced |-> FALSE, blocked |-> FALSE,
                                scheduled |-> NotScheduled]]
    /\ orderedBy = [b \in Books |-> {}]
    /\ hour = 0
    /\ ask = [h \in CatalogHandlers |-> IdleAsk]
    /\ pass = IdlePass

-----------------------------------------------------------------------------
(* A request *)

Answer(h) == ask' = [ask EXCEPT ![h] = IdleAsk]
rest == <<orderedBy, hour, pass>>

\* What lets a request go on: submit_for_review, publish, auto_publish,
\* schedule_publish, and delete's has_any_order.
Allowed(op, row, buyers) ==
    /\ row.exists
    /\ op = "submit" => row.status = "DRAFT"
    /\ op = "publish" => row.status = "REVIEW"
    /\ op \in Publications \cup {"schedule"} => row.priced
    /\ op = "delete" => buyers = {}

\* The owner, or for a takedown an operator, asks for op; a refusal changes
\* nothing.
StartCatalog(h, op, b, when) ==
    /\ ask[h] = IdleAsk
    /\ (when # NotScheduled) <=> (op = "schedule")
    /\ Allowed(op, book[b], orderedBy[b])
    /\ ask' = [ask EXCEPT ![h] = [IdleAsk EXCEPT !.op = op, !.step = "load", !.b = b, !.when = when]]
    /\ UNCHANGED <<book, rest>>

LoadBook(h) ==
    LET row == book[ask[h].b] IN
    /\ ask[h].step = "load"
    /\ IF row.exists
       THEN ask' = [ask EXCEPT ![h].step = "write", ![h].status = row.status, ![h].blocked = row.blocked]
       ELSE Answer(h)
    /\ UNCHANGED <<book, rest>>

\* Mutant: a change of the status lifts a takedown.
SetStatusAndUnblock(row, loaded, status) ==
    IF loaded = status THEN row ELSE [row EXCEPT !.status = status, !.blocked = FALSE]

\* Only a column whose value differs from the loaded one is written.
SetStatus(row, loaded, status) == IF loaded = status THEN row ELSE [row EXCEPT !.status = status]

BookAfter(row, op, q) ==
    CASE op = "price"         -> [row EXCEPT !.priced = TRUE]
      [] op = "describe"      -> row
      [] op = "submit"        -> SetStatus(row, q.status, "REVIEW")
      [] op \in Publications  -> SetStatus(row, q.status, "PUBLISHED")
      [] op = "unpublish"     -> SetStatus(row, q.status, "DRAFT")
      [] op = "schedule"      -> [row EXCEPT !.scheduled = q.when]
      [] op = "takedown"      -> [row EXCEPT !.blocked = TRUE]
      [] op = "restore"       -> IF q.blocked THEN [row EXCEPT !.blocked = FALSE] ELSE row

WriteBook(h) ==
    LET q == ask[h] IN
    /\ q.op # "delete" /\ q.step = "write"
    /\ book[q.b].exists
    /\ book' = [book EXCEPT ![q.b] = BookAfter(@, q.op, q)]
    /\ Answer(h)
    /\ UNCHANGED rest

Erase(b) ==
    book' = [book EXCEPT ![b] = [exists |-> FALSE, status |-> "DRAFT", priced |-> FALSE, blocked |-> FALSE,
                                 scheduled |-> NotScheduled]]

\* Mutant: the foreign key of an order lets the deletion through.
DeleteOrdered(h) ==
    /\ ask[h].op = "delete" /\ ask[h].step = "write"
    /\ Erase(ask[h].b)
    /\ Answer(h)
    /\ UNCHANGED <<orderedBy, hour, pass>>

\* The foreign key of an order restricts it.
DeleteBook(h) ==
    LET b == ask[h].b IN
    /\ ask[h].op = "delete" /\ ask[h].step = "write"
    /\ orderedBy[b] = {}
    /\ Erase(b)
    /\ Answer(h)
    /\ UNCHANGED <<orderedBy, hour, pass>>

\* The row is gone, or an order keeps it: an error.
WriteFails(h) ==
    LET q == ask[h] IN
    /\ q.step = "write"
    /\ ~book[q.b].exists \/ (q.op = "delete" /\ orderedBy[q.b] # {})
    /\ Answer(h)
    /\ UNCHANGED <<book, rest>>

-----------------------------------------------------------------------------
(* The scheduler *)

Due(b) == /\ book[b].exists /\ book[b].priced /\ book[b].status # "PUBLISHED"
          /\ book[b].scheduled \in 0..hour

\* Mutant: only what an editor reviewed is published.
SelectReviewed ==
    /\ pass = IdlePass
    /\ \E b \in Books : Due(b) /\ book[b].status = "REVIEW"
    /\ pass' = [step |-> "selected", books |-> {b \in Books : Due(b) /\ book[b].status = "REVIEW"}]
    /\ UNCHANGED <<book, orderedBy, hour, ask>>

SelectDue ==
    /\ pass = IdlePass
    /\ \E b \in Books : Due(b)
    /\ pass' = [step |-> "selected", books |-> {b \in Books : Due(b)}]
    /\ UNCHANGED <<book, orderedBy, hour, ask>>

\* One commit for all of them; a row that is gone fails it.
PublishDue ==
    /\ pass.step = "selected"
    /\ \A b \in pass.books : book[b].exists
    /\ book' = [b \in Books |-> IF b \in pass.books
                                THEN [book[b] EXCEPT !.status = "PUBLISHED", !.scheduled = NotScheduled]
                                ELSE book[b]]
    /\ pass' = [pass EXCEPT !.step = "notify"]
    /\ UNCHANGED <<orderedBy, hour, ask>>

\* One fan-out after the other, each with its errors to itself.
NotifyNext ==
    /\ pass.step = "notify"
    /\ \E b \in pass.books :
        pass' = IF pass.books = {b} THEN IdlePass ELSE [pass EXCEPT !.books = @ \ {b}]
    /\ UNCHANGED <<book, orderedBy, hour, ask>>

\* The process dies, or an exception ends the pass: what was published stays.
PassFails ==
    /\ pass # IdlePass
    /\ pass' = IdlePass
    /\ UNCHANGED <<book, orderedBy, hour, ask>>

-----------------------------------------------------------------------------
(* Orders, time *)

\* The foreign key needs the book; what create_order checked may have changed.
OrderBook(r, b) ==
    /\ book[b].exists /\ r # BookAuthor[b]
    /\ orderedBy' = [orderedBy EXCEPT ![b] = @ \cup {r}]
    /\ UNCHANGED <<book, hour, ask, pass>>

NextHour ==
    /\ hour < LastHour
    /\ hour' = hour + 1
    /\ UNCHANGED <<book, orderedBy, ask, pass>>

CatalogNext ==
    \/ \E h \in CatalogHandlers :
        \/ \E b \in Books : \/ \E op \in CatalogOps : StartCatalog(h, op, b, NotScheduled)
                            \/ \E when \in Times : StartCatalog(h, "schedule", b, when)
        \/ LoadBook(h) \/ WriteBook(h) \/ DeleteBook(h) \/ WriteFails(h)
    \/ SelectDue \/ PublishDue \/ NotifyNext \/ PassFails
    \/ \E r \in Accounts, b \in Books : OrderBook(r, b)
    \/ NextHour

CatalogSpec == CatalogInit /\ [][CatalogNext]_catalogVars

\* The scheduler keeps running, and no deployment cuts off every pass.
CatalogFairness ==
    /\ WF_catalogVars(SelectDue)
    /\ SF_catalogVars(PublishDue)
    /\ WF_catalogVars(NotifyNext)

-----------------------------------------------------------------------------
InStore(b) == book[b].exists /\ book[b].status = "PUBLISHED" /\ ~book[b].blocked

\* A takedown is lifted by an operator's restore and by nothing an author does.
TakedownHolds ==
    [][\A b \in Books : ~InStore(b) /\ InStore(b)' /\ book[b].blocked =>
         \E h \in CatalogHandlers : ask[h].op = "restore" /\ ask[h].b = b]_catalogVars

\* The catalog seen as the store: publications that were asked for, scheduled or
\* selected before a takedown, a withdrawal, an order or a deletion change
\* nothing but what Publication lets them.
ShelfOf(row) == IF ~row.exists THEN "gone"
                ELSE IF row.status = "PUBLISHED" THEN "published"
                ELSE IF row.priced THEN "priced" ELSE "unpriced"
Shelf == [b \in Books |-> ShelfOf(book[b])]
TakenDown == {b \in Books : book[b].blocked}
AskedToRestore == {b \in Books : \E h \in CatalogHandlers : ask[h].op = "restore" /\ ask[h].b = b}
Shelves == INSTANCE Publication WITH
    Buyers <- Accounts, shelf <- Shelf, down <- TakenDown, lifting <- AskedToRestore, bought <- orderedBy
ImplementsPublication == Shelves!PublicationSpec

\* A priced book whose hour has come is published, or no longer due.
DueIsPublished == \A b \in Books : Due(b) ~> ~Due(b)

=============================================================================
