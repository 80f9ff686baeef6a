------------------------------ MODULE Payouts ------------------------------
(***************************************************************************)
(* Payouts: how the settlement rows of an author are bound into payouts,  *)
(* and what operators make of them.  A settlement row is named by its     *)
(* order (order_id is UNIQUE).                                             *)
(*                                                                         *)
(* create_payout is one transaction at READ COMMITTED: a SELECT ... FOR   *)
(* UPDATE OF settlement takes a snapshot, locks the rows one by one, and  *)
(* after a wait looks again at the locked row -- not at the joined order, *)
(* which is neither locked nor read again.  Authors request payouts while *)
(* the weekly batch runs; orders are refunded and delivered meanwhile.    *)
(***************************************************************************)
EXTENDS OrderLifecycle, FiniteSets, Integers

CONSTANTS Authors,
          AuthorOf,    \* the author of every order's book
          Payouts,     \* payout ids
          Callers,     \* requests of authors for a payout
          Schedulers,  \* server processes that run the scheduler task
          Writers,     \* requests that register a bank account
          MaxRejects,  \* bound: payouts that are rejected
          NoAuthor, NoPayout

ASSUME PayoutsAssumption ==
    /\ AuthorOf \in [Orders -> Authors]
    /\ NoAuthor \notin Authors
    /\ NoPayout \notin Payouts
    /\ Callers \cap Schedulers = {}
    /\ MaxRejects \in Nat

Workers == Callers \cup Schedulers

VARIABLES aged,     \* orders paid more than seven days ago
          binding,  \* settlement.payout_id
          pstatus,  \* payout.status_cd
          items,    \* the rows whose amounts were added up into a payout
          bank,     \* how many primary bank_account rows an author has
          writer,   \* the author whose first account a request is inserting
          call,     \* the create_payout transactions under way
          runRow,   \* this Wednesday's settlement_run row: "none" or "exists"
          batch     \* the run_weekly_settlement calls

orderVars == <<status, settled, delivered, aged>>
batchVars == <<runRow, batch>>
bankVars  == <<bank, writer>>
vars == <<status, settled, delivered, aged, binding, pstatus, items, bank, writer,
          call, runRow, batch>>

PayoutStatus == {"NONE", "REQUESTED", "APPROVED", "PAID", "REJECTED"}
Live == {"REQUESTED", "APPROVED", "PAID"}

NoCall  == [author |-> NoAuthor, todo |-> {}, locked |-> {}]
Calls   == [author : Authors \cup {NoAuthor}, todo : SUBSET Orders, locked : SUBSET Orders]
NoBatch == [pc |-> "idle", authors |-> {}]
Batches == [pc : {"idle", "claiming", "listing", "paying"}, authors : SUBSET Authors]

TypeOK ==
    /\ LifeTypeOK
    /\ aged \subseteq Orders
    /\ binding \in [Orders -> Payouts \cup {NoPayout}]
    /\ pstatus \in [Payouts -> PayoutStatus]
    /\ items \in [Payouts -> SUBSET Orders]
    /\ bank \in [Authors -> Nat]
    /\ writer \in [Writers -> Authors \cup {NoAuthor}]
    /\ call \in [Workers -> Calls]
    /\ runRow \in {"none", "exists"}
    /\ batch \in [Schedulers -> Batches]

Init ==
    /\ LifeInit
    /\ aged = {}
    /\ binding = [o \in Orders |-> NoPayout]
    /\ pstatus = [p \in Payouts |-> "NONE"]
    /\ items = [p \in Payouts |-> {}]
    /\ bank = [a \in Authors |-> 0]
    /\ writer = [w \in Writers |-> NoAuthor]
    /\ call = [w \in Workers |-> NoCall]
    /\ runRow = "none"
    /\ batch = [s \in Schedulers |-> NoBatch]

-----------------------------------------------------------------------------
(* The orders go on as the lifecycle lets them; seven days pass. *)

OrderStep == LifeNext /\ UNCHANGED <<aged, binding, pstatus, items, bankVars, call, batchVars>>

Age(o) == /\ o \in settled \ aged
          /\ aged' = aged \cup {o}
          /\ UNCHANGED <<lifeVars, binding, pstatus, items, bankVars, call, batchVars>>

-----------------------------------------------------------------------------
(* The bank account: a read, and an insert if the read found none.  An    *)
(* update of the one row there is changes nothing that is modelled, and   *)
(* two rows make the read raise.                                           *)

StartUpsert(w, a) ==
    /\ writer[w] = NoAuthor
    /\ bank[a] = 0
    /\ writer' = [writer EXCEPT ![w] = a]
    /\ UNCHANGED <<orderVars, binding, pstatus, items, bank, call, batchVars>>

InsertAccount(w, a) ==
    /\ writer[w] = a
    /\ bank' = [bank EXCEPT ![a] = @ + 1]
    /\ writer' = [writer EXCEPT ![w] = NoAuthor]
    /\ UNCHANGED <<orderVars, binding, pstatus, items, call, batchVars>>

-----------------------------------------------------------------------------
(* create_payout *)

\* Mutant: the gate forgets that a sale may still be withdrawn from.
PayableUnsafe(a) == {o \in settled : /\ AuthorOf[o] = a
                                     /\ status[o] = "PAID"
                                     /\ binding[o] = NoPayout}

\* The refund-safe, unpaid settlement rows of an author.
Payable(a) == {o \in settled : /\ AuthorOf[o] = a
                               /\ status[o] = "PAID"
                               /\ binding[o] = NoPayout
                               /\ o \in delivered \/ o \in aged}

CallGoes(w, a, todo, locked) ==
    call' = [call EXCEPT ![w] = [author |-> a, todo |-> todo, locked |-> locked]]

Select(w, a) == CallGoes(w, a, Payable(a), {})
EndCall(w)   == call' = [call EXCEPT ![w] = NoCall]

RequestPayout(c, a) ==
    /\ call[c] = NoCall
    /\ bank[a] = 1         \* none: NoBankAccount; two: the lookup raises
    /\ Payable(a) # {}     \* NothingToPayout
    /\ Select(c, a)
    /\ UNCHANGED <<orderVars, binding, pstatus, items, bankVars, batchVars>>

\* Mutant: after the wait the row is taken as the snapshot saw it.
LockRowStale(w, o) ==
    /\ o \in call[w].todo
    /\ \A v \in Workers \ {w} : o \notin call[v].locked
    /\ CallGoes(w, call[w].author, call[w].todo \ {o}, call[w].locked \cup {o})
    /\ UNCHANGED <<orderVars, binding, pstatus, items, bankVars, batchVars>>

\* Lock a row that nobody holds; skip it if it was bound in the meantime.
LockRow(w, o) ==
    /\ o \in call[w].todo
    /\ \A v \in Workers \ {w} : o \notin call[v].locked
    /\ CallGoes(w, call[w].author, call[w].todo \ {o},
                IF binding[o] = NoPayout THEN call[w].locked \cup {o} ELSE call[w].locked)
    /\ UNCHANGED <<orderVars, binding, pstatus, items, bankVars, batchVars>>

BatchGoes(s, pc, authors) == batch' = [batch EXCEPT ![s] = [pc |-> pc, authors |-> authors]]
AuthorDone(s, a) == BatchGoes(s, batch[s].pc, batch[s].authors \ {a})

\* The scheduler's call is over: this author is done.
Return(w) == IF w \in Schedulers THEN AuthorDone(w, call[w].author) ELSE UNCHANGED batch

NothingLeft(w) ==
    /\ call[w] # NoCall
    /\ call[w].todo = {}
    /\ call[w].locked = {}
    /\ EndCall(w)
    /\ Return(w)
    /\ UNCHANGED <<orderVars, binding, pstatus, items, bankVars, runRow>>

CreatePayout(w, p) ==
    /\ call[w].todo = {}
    /\ call[w].locked # {}
    /\ pstatus[p] = "NONE"
    /\ pstatus' = [pstatus EXCEPT ![p] = "REQUESTED"]
    /\ items' = [items EXCEPT ![p] = call[w].locked]
    /\ binding' = [o \in Orders |-> IF o \in call[w].locked THEN p ELSE binding[o]]
    /\ EndCall(w)
    /\ Return(w)
    /\ UNCHANGED <<orderVars, bankVars, runRow>>

\* A caller's transaction is rolled back: an error, a deadlock of two callers
\* that lock the same rows in different orders, or the end of the process.
Abort(c) ==
    /\ call[c] # NoCall
    /\ EndCall(c)
    /\ UNCHANGED <<orderVars, binding, pstatus, items, bankVars, batchVars>>

-----------------------------------------------------------------------------
(* What operators do.  Every transition locks the payout row and looks at *)
(* its status again; a rejection also frees the settlement rows.          *)

\* Mutant: the transition forgets the states it may start from.
ApproveAny(p) ==
    /\ pstatus[p] # "NONE"
    /\ pstatus' = [pstatus EXCEPT ![p] = "APPROVED"]
    /\ UNCHANGED <<orderVars, binding, items, bankVars, call, batchVars>>

Approve(p) ==
    /\ pstatus[p] = "REQUESTED"
    /\ pstatus' = [pstatus EXCEPT ![p] = "APPROVED"]
    /\ UNCHANGED <<orderVars, binding, items, bankVars, call, batchVars>>

MarkPaid(p) ==
    /\ pstatus[p] = "APPROVED"
    /\ pstatus' = [pstatus EXCEPT ![p] = "PAID"]
    /\ UNCHANGED <<orderVars, binding, items, bankVars, call, batchVars>>

Rejected == {p \in Payouts : pstatus[p] = "REJECTED"}
Freed(p) == [o \in Orders |-> IF binding[o] = p THEN NoPayout ELSE binding[o]]

\* Mutants: a rejection stored under the name the schema draft gives it, and one
\* that leaves the rows bound.
RejectAsFailed(p) ==
    /\ pstatus[p] \in {"REQUESTED", "APPROVED"}
    /\ Cardinality(Rejected) < MaxRejects
    /\ pstatus' = [pstatus EXCEPT ![p] = "FAILED"]
    /\ binding' = Freed(p)
    /\ UNCHANGED <<orderVars, items, bankVars, call, batchVars>>

RejectOnly(p) ==
    /\ pstatus[p] \in {"REQUESTED", "APPROVED"}
    /\ Cardinality(Rejected) < MaxRejects
    /\ pstatus' = [pstatus EXCEPT ![p] = "REJECTED"]
    /\ UNCHANGED <<orderVars, binding, items, bankVars, call, batchVars>>

Reject(p) ==
    /\ pstatus[p] \in {"REQUESTED", "APPROVED"}
    /\ Cardinality(Rejected) < MaxRejects
    /\ pstatus' = [pstatus EXCEPT ![p] = "REJECTED"]
    /\ binding' = Freed(p)
    /\ UNCHANGED <<orderVars, items, bankVars, call, batchVars>>

-----------------------------------------------------------------------------
(* The weekly batch.  The scheduler ticks every 30 seconds all Wednesday;  *)
(* the first tick that writes the settlement_run row of the day runs the  *)
(* batch, one create_payout after the other.                               *)

BatchIs(s, pc) == batch[s].pc = pc

Tick(s) ==
    /\ BatchIs(s, "idle")
    /\ runRow = "none"
    /\ BatchGoes(s, "claiming", {})
    /\ UNCHANGED <<orderVars, binding, pstatus, items, bankVars, call, runRow>>

\* Mutant: run_dt is not UNIQUE.
ClaimTwice(s) ==
    /\ BatchIs(s, "claiming")
    /\ runRow' = "exists"
    /\ BatchGoes(s, "listing", {})
    /\ UNCHANGED <<orderVars, binding, pstatus, items, bankVars, call>>

\* run_dt is UNIQUE: a second insert raises, which ends this tick.
Claim(s) ==
    /\ BatchIs(s, "claiming")
    /\ runRow' = "exists"
    /\ BatchGoes(s, IF runRow = "exists" THEN "idle" ELSE "listing", {})
    /\ UNCHANGED <<orderVars, binding, pstatus, items, bankVars, call>>

ListAuthors(s) ==
    /\ BatchIs(s, "listing")
    /\ BatchGoes(s, "paying", {a \in Authors : Payable(a) # {}})
    /\ UNCHANGED <<orderVars, binding, pstatus, items, bankVars, call, runRow>>

\* The next author: skipped without an account, and without payable rows.
PayAuthor(s, a) ==
    /\ BatchIs(s, "paying")
    /\ call[s] = NoCall
    /\ a \in batch[s].authors
    /\ bank[a] = 1
    /\ Payable(a) # {}
    /\ Select(s, a)
    /\ UNCHANGED <<orderVars, binding, pstatus, items, bankVars, batchVars>>

\* Mutant: an author without an account ends the batch.
SkipAuthorEndsBatch(s, a) ==
    /\ BatchIs(s, "paying")
    /\ call[s] = NoCall
    /\ a \in batch[s].authors
    /\ bank[a] = 0 \/ (bank[a] = 1 /\ Payable(a) = {})
    /\ BatchGoes(s, "idle", {})
    /\ UNCHANGED <<orderVars, binding, pstatus, items, bankVars, call, runRow>>

SkipAuthor(s, a) ==
    /\ BatchIs(s, "paying")
    /\ call[s] = NoCall
    /\ a \in batch[s].authors
    /\ bank[a] = 0 \/ (bank[a] = 1 /\ Payable(a) = {})
    /\ AuthorDone(s, a)
    /\ UNCHANGED <<orderVars, binding, pstatus, items, bankVars, call, runRow>>

\* An author with two primary accounts: the lookup raises, the batch is over.
LookupRaises(s, a) ==
    /\ BatchIs(s, "paying")
    /\ call[s] = NoCall
    /\ a \in batch[s].authors
    /\ bank[a] > 1
    /\ BatchGoes(s, "idle", {})
    /\ UNCHANGED <<orderVars, binding, pstatus, items, bankVars, call, runRow>>

FinishBatch(s) ==
    /\ BatchIs(s, "paying")
    /\ call[s] = NoCall
    /\ batch[s].authors = {}
    /\ BatchGoes(s, "idle", {})
    /\ UNCHANGED <<orderVars, binding, pstatus, items, bankVars, call, runRow>>

\* The process dies or an exception reaches the scheduler's loop: the open
\* transaction is rolled back, and what is left of the batch is lost.
Die(s) ==
    /\ batch[s] # NoBatch
    /\ BatchGoes(s, "idle", {})
    /\ EndCall(s)
    /\ UNCHANGED <<orderVars, binding, pstatus, items, bankVars, runRow>>

\* A week goes by: the batches of a Wednesday are over before the next one.
NextWednesday ==
    /\ runRow = "exists"
    /\ \A s \in Schedulers : batch[s] = NoBatch
    /\ runRow' = "none"
    /\ UNCHANGED <<orderVars, binding, pstatus, items, bankVars, call, batch>>

-----------------------------------------------------------------------------
BatchStep(s) ==
    \/ Tick(s) \/ Claim(s) \/ ListAuthors(s) \/ FinishBatch(s) \/ Die(s)
    \/ \E a \in Authors : PayAuthor(s, a) \/ SkipAuthor(s, a) \/ LookupRaises(s, a)

Next ==
    \/ OrderStep
    \/ \E o \in Orders : Age(o)
    \/ \E w \in Writers, a \in Authors : StartUpsert(w, a) \/ InsertAccount(w, a)
    \/ \E c \in Callers : Abort(c)
    \/ \E c \in Callers, a \in Authors : RequestPayout(c, a)
    \/ \E w \in Workers :
        \/ NothingLeft(w)
        \/ \E o \in Orders : LockRow(w, o)
        \/ \E p \in Payouts : CreatePayout(w, p)
    \/ \E p \in Payouts : Approve(p) \/ MarkPaid(p) \/ Reject(p)
    \/ \E s \in Schedulers : BatchStep(s)
    \/ NextWednesday

Spec == Init /\ [][Next]_vars

-----------------------------------------------------------------------------
(* Properties *)

BoundTo(p) == {o \in Orders : binding[o] = p}

\* No share is paid twice: the amounts added up into a live payout are those
\* of the rows bound to it, a row belongs to one payout, and a rejected payout
\* keeps none -- whoever requests, locks, waits and rejects at the same time.
PayoutOwnsItsRows ==
    \A p \in Payouts : /\ pstatus[p] \in Live => items[p] # {} /\ items[p] = BoundTo(p)
                       /\ pstatus[p] \notin Live => BoundTo(p) = {}

\* Rows that a transaction has locked are free and locked by it alone.
LockedRowsAreFree ==
    \A w \in Workers : \A o \in call[w].locked :
        /\ binding[o] = NoPayout
        /\ \A v \in Workers \ {w} : o \notin call[v].locked

\* The money of a sale reaches a payout only after the sale was delivered or
\* is a week old, and a payout takes the shares of one author only.
BoundIsRefundSafe ==
    /\ \A o \in Orders : binding[o] # NoPayout => o \in settled /\ o \in delivered \cup aged
    /\ \A o, q \in Orders : binding[o] = binding[q] /\ binding[o] # NoPayout
                              => AuthorOf[o] = AuthorOf[q]

\* A payout that was paid stays paid, and its rows stay bound to it.
PaidIsFinal ==
    [][\A p \in Payouts : pstatus[p] = "PAID" =>
          /\ pstatus'[p] = "PAID"
          /\ items'[p] = items[p]
          /\ \A o \in Orders : binding[o] = p => binding'[o] = p]_vars

\* However many server processes tick, one batch runs on a Wednesday.
OneBatchPerWednesday ==
    \A s \in Schedulers : batch[s].pc \in {"listing", "paying"} =>
        /\ runRow = "exists"
        /\ \A t \in Schedulers \ {s} : batch[t].pc \notin {"listing", "paying"}

\* Payouts implements the ledger of shares.
ShareOf(o) == CASE o \notin settled             -> "none"
                [] o \in settled /\ binding[o] = NoPayout -> "open"
                [] o \in settled /\ binding[o] # NoPayout ->
                      IF pstatus[binding[o]] = "PAID" THEN "paid" ELSE "bound"
Ledger == INSTANCE SettlementLedger WITH share <- [o \in Orders |-> ShareOf(o)]
ImplementsLedger == Ledger!LedgerSpec

\* test_payout_refund_safe_gate_e2e.py says a payout contains settlements of
\* refund-safe orders only; a sale that was refunded is none of them.
PayoutOfPaidOrdersOnly ==
    [][\A p \in Payouts : pstatus[p] = "NONE" /\ pstatus'[p] = "REQUESTED"
          => \A o \in items'[p] : status[o] = "PAID"]_vars

\* The share of a week-old sale of an author with a bank account (and one
\* only) is bound into a payout sooner or later -- or refunded -- because the
\* weekly batch comes again: also if requests collide with it, the process
\* dies now and then, and whatever accounts other authors have.
\* run_weekly_settlement says that it goes through all such authors.
OldSaleIsPaidOut ==
    \A o \in Orders : (status[o] = "PAID" /\ o \in aged /\ bank[AuthorOf[o]] = 1)
                        ~> (binding[o] # NoPayout \/ status[o] = "REFUNDED" \/ bank[AuthorOf[o]] # 1)

\* A step of the batch itself: where it brings the batch to an end, the
\* process did not die.
EndsByItself(s) == Claim(s) \/ FinishBatch(s)
                     \/ \E a \in Authors : SkipAuthor(s, a) \/ LookupRaises(s, a)

\* The scheduler task ticks and goes on, in whatever order the database lists
\* the authors.
GoesOn(s) == \/ Tick(s) \/ Claim(s) \/ ListAuthors(s) \/ FinishBatch(s) \/ NothingLeft(s)
             \/ \E a \in Authors : PayAuthor(s, a) \/ SkipAuthor(s, a) \/ LookupRaises(s, a)
Commits(w) == \E p \in Payouts : CreatePayout(w, p)
Locks(s) == \E o \in Orders : LockRow(s, o)

\* A request goes on or is rolled back, and is not rolled back every time it
\* could be committed.  The scheduler task ticks and goes on, in whatever order
\* the database lists the authors, and gets a lock it waits for if the lock is
\* free again and again.  Weeks go by, and the time comes when the process
\* lives through its batches.
SchedulerFairness ==
    /\ \A w \in Workers : SF_vars(Commits(w))
    /\ \A c \in Callers : WF_vars(NothingLeft(c) \/ Abort(c))
    /\ \A s \in Schedulers : WF_vars(GoesOn(s)) /\ SF_vars(Locks(s))
    /\ WF_vars(NextWednesday)
    /\ <>[][\A s \in Schedulers : Die(s) => EndsByItself(s)]_vars

FairSpec == Spec /\ SchedulerFairness
=============================================================================
