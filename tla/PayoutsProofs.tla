---------------------------- MODULE PayoutsProofs ----------------------------
(***************************************************************************)
(* Payouts, for any number of sales, authors, requests and server         *)
(* processes: no share is paid twice, whoever acts at the same time.      *)
(***************************************************************************)
EXTENDS Payouts, TLAPS

-----------------------------------------------------------------------------
(* Type correctness *)

LEMMA InitTypeOK == Init => TypeOK
  BY DEF Init, LifeInit, TypeOK, LifeTypeOK, OrderStatus, PayoutStatus, Calls, NoCall,
     Batches, NoBatch

LEMMA LifeTyped == LifeTypeOK /\ LifeNext => LifeTypeOK'
  BY DEF LifeTypeOK, OrderStatus, LifeNext, Place, Grant, Pay, Refund, Deliver

LEMMA CallTyped ==
    ASSUME TypeOK, NEW w \in Workers
    PROVE  /\ EndCall(w) => call' \in [Workers -> Calls]
           /\ \A a \in Authors \cup {NoAuthor}, todo, locked \in SUBSET Orders :
                 CallGoes(w, a, todo, locked) => call' \in [Workers -> Calls]
  <1>1. NoCall \in Calls
    BY DEF NoCall, Calls
  <1>2. ASSUME NEW a \in Authors \cup {NoAuthor}, NEW todo \in SUBSET Orders, NEW locked \in SUBSET Orders,
               CallGoes(w, a, todo, locked)
        PROVE  call' \in [Workers -> Calls]
    <2>1. [author |-> a, todo |-> todo, locked |-> locked] \in Calls
      BY DEF Calls
    <2>2. QED
      BY <1>2, <2>1 DEF CallGoes, TypeOK
  <1>3. QED
    BY <1>1, <1>2 DEF EndCall, TypeOK

LEMMA SelectTyped ==
    ASSUME TypeOK, NEW w \in Workers, NEW a \in Authors, Select(w, a)
    PROVE  call' \in [Workers -> Calls]
  <1>1. a \in Authors \cup {NoAuthor} /\ Payable(a) \in SUBSET Orders /\ {} \in SUBSET Orders
    BY LifecycleAssumption DEF Payable, TypeOK, LifeTypeOK
  <1>2. QED
    BY <1>1, CallTyped DEF Select

LEMMA BatchTyped ==
    ASSUME TypeOK, NEW s \in Schedulers,
           NEW pc \in {"idle", "claiming", "listing", "paying"}, NEW authors \in SUBSET Authors,
           BatchGoes(s, pc, authors)
    PROVE  batch' \in [Schedulers -> Batches]
  <1>1. [pc |-> pc, authors |-> authors] \in Batches
    BY DEF Batches
  <1>2. QED
    BY <1>1 DEF BatchGoes, TypeOK

LEMMA AuthorDoneTyped ==
    ASSUME TypeOK, NEW s \in Schedulers, NEW a, AuthorDone(s, a)
    PROVE  batch' \in [Schedulers -> Batches]
  <1>1. batch[s] \in Batches
    BY DEF TypeOK
  <1>2. batch[s].pc \in {"idle", "claiming", "listing", "paying"}
        /\ batch[s].authors \ {a} \in SUBSET Authors
    BY <1>1 DEF Batches
  <1>3. QED
    BY <1>2, BatchTyped DEF AuthorDone

LEMMA ReturnTyped ==
    ASSUME TypeOK, NEW w \in Workers, Return(w)
    PROVE  batch' \in [Schedulers -> Batches]
  BY AuthorDoneTyped DEF Return, TypeOK

LEMMA NextTypeOK == TypeOK /\ [Next]_vars => TypeOK'
  <1> SUFFICES ASSUME TypeOK, [Next]_vars
               PROVE  TypeOK'
    OBVIOUS
  <1>a. Callers \subseteq Workers /\ Schedulers \subseteq Workers
    BY DEF Workers
  <1> USE DEF LifeTypeOK, orderVars, lifeVars, batchVars, bankVars
  <1>1. CASE OrderStep
    BY <1>1, LifeTyped DEF OrderStep, TypeOK
  <1>2. ASSUME NEW o \in Orders, Age(o)
        PROVE  TypeOK'
    BY <1>2 DEF Age, TypeOK
  <1>3. ASSUME NEW w \in Writers, NEW a \in Authors, StartUpsert(w, a) \/ InsertAccount(w, a)
        PROVE  TypeOK'
    BY <1>3 DEF StartUpsert, InsertAccount, TypeOK
  <1>4. ASSUME NEW c \in Callers, Abort(c)
        PROVE  TypeOK'
    BY <1>4, <1>a, CallTyped DEF Abort, TypeOK
  <1>5. ASSUME NEW c \in Callers, NEW a \in Authors, RequestPayout(c, a)
        PROVE  TypeOK'
    BY <1>5, <1>a, SelectTyped DEF RequestPayout, TypeOK
  <1>6. ASSUME NEW w \in Workers, NothingLeft(w)
        PROVE  TypeOK'
    BY <1>6, CallTyped, ReturnTyped DEF NothingLeft, TypeOK
  <1>7. ASSUME NEW w \in Workers, NEW o \in Orders, LockRow(w, o)
        PROVE  TypeOK'
    <2>1. /\ call[w].author \in Authors \cup {NoAuthor}
          /\ call[w].todo \ {o} \in SUBSET Orders
          /\ call[w].locked \in SUBSET Orders /\ call[w].locked \cup {o} \in SUBSET Orders
      BY <1>7 DEF TypeOK, Calls
    <2>2. call' \in [Workers -> Calls]
      BY <1>7, <2>1, CallTyped DEF LockRow
    <2>3. QED
      BY <1>7, <2>2 DEF LockRow, TypeOK
  <1>8. ASSUME NEW w \in Workers, NEW p \in Payouts, CreatePayout(w, p)
        PROVE  TypeOK'
    <2>1. call[w].locked \in SUBSET Orders
      BY <1>8 DEF TypeOK, Calls
    <2>2. QED
      BY <1>8, <2>1, CallTyped, ReturnTyped DEF CreatePayout, TypeOK, PayoutStatus
  <1>9. ASSUME NEW p \in Payouts, Approve(p) \/ MarkPaid(p) \/ Reject(p)
        PROVE  TypeOK'
    BY <1>9 DEF Approve, MarkPaid, Reject, Freed, PayoutStatus, TypeOK
  <1>10. ASSUME NEW s \in Schedulers, BatchStep(s)
        PROVE  TypeOK'
    <2>1. CASE Tick(s) \/ Claim(s) \/ ListAuthors(s) \/ FinishBatch(s)
      <3>1. {a \in Authors : Payable(a) # {}} \in SUBSET Authors /\ {} \in SUBSET Authors
        OBVIOUS
      <3>2. batch' \in [Schedulers -> Batches]
        BY <2>1, <3>1, BatchTyped DEF Tick, Claim, ListAuthors, FinishBatch
      <3>3. QED
        BY <2>1, <3>2 DEF Tick, Claim, ListAuthors, FinishBatch, TypeOK
    <2>2. CASE Die(s)
      BY <2>2, <1>a, BatchTyped, CallTyped DEF Die, TypeOK
    <2>3. ASSUME NEW a \in Authors, PayAuthor(s, a)
          PROVE  TypeOK'
      BY <2>3, <1>a, SelectTyped DEF PayAuthor, TypeOK
    <2>4. ASSUME NEW a \in Authors, SkipAuthor(s, a) \/ LookupRaises(s, a)
          PROVE  TypeOK'
      BY <2>4, BatchTyped, AuthorDoneTyped DEF SkipAuthor, LookupRaises, TypeOK
    <2>5. QED
      BY <1>10, <2>1, <2>2, <2>3, <2>4 DEF BatchStep
  <1>11. CASE NextWednesday
    BY <1>11 DEF NextWednesday, TypeOK
  <1>12. CASE UNCHANGED vars
    BY <1>12 DEF vars, TypeOK
  <1>13. QED
    BY <1>1, <1>2, <1>3, <1>4, <1>5, <1>6, <1>7, <1>8, <1>9, <1>10, <1>11, <1>12 DEF Next

\* Every variable keeps its type.
THEOREM TypeCorrect == Spec => []TypeOK
  BY InitTypeOK, NextTypeOK, PTL DEF Spec

-----------------------------------------------------------------------------
(* What a step may do.  Sales are only ever credited, delivered and aged; *)
(* the books (binding, pstatus, items) change in create_payout and in an  *)
(* operator's transition, and nowhere else.                                *)

BooksStay == UNCHANGED <<binding, pstatus, items>>

CallStep(w) == \/ EndCall(w)
               \/ \E a \in Authors : Select(w, a)
               \/ \E o \in Orders : LockRow(w, o)

LEMMA SalesGrow ==
    ASSUME [Next]_vars
    PROVE  settled \subseteq settled' /\ delivered \subseteq delivered' /\ aged \subseteq aged'
  <1> USE DEF orderVars, lifeVars
  <1>1. CASE OrderStep
    BY <1>1 DEF OrderStep, LifeNext, Place, Grant, Pay, Refund, Deliver
  <1>2. CASE \E o \in Orders : Age(o)
    BY <1>2 DEF Age
  <1>3. ASSUME UNCHANGED orderVars
        PROVE  settled \subseteq settled' /\ delivered \subseteq delivered' /\ aged \subseteq aged'
    BY <1>3
  <1>4. ASSUME NEW s \in Schedulers, BatchStep(s)
        PROVE  UNCHANGED orderVars
    BY <1>4 DEF BatchStep, Tick, Claim, ListAuthors, FinishBatch, Die, PayAuthor, SkipAuthor,
       LookupRaises
  <1>5. ASSUME NEW w \in Workers,
               \/ NothingLeft(w)
               \/ \E o \in Orders : LockRow(w, o)
               \/ \E p \in Payouts : CreatePayout(w, p)
        PROVE  UNCHANGED orderVars
    BY <1>5 DEF NothingLeft, LockRow, CreatePayout
  <1>6. ASSUME NEW p \in Payouts, Approve(p) \/ MarkPaid(p) \/ Reject(p)
        PROVE  UNCHANGED orderVars
    BY <1>6 DEF Approve, MarkPaid, Reject
  <1>7. ASSUME NEW a \in Authors,
               \/ \E w \in Writers : StartUpsert(w, a) \/ InsertAccount(w, a)
               \/ \E c \in Callers : RequestPayout(c, a) \/ Abort(c)
        PROVE  UNCHANGED orderVars
    BY <1>7 DEF StartUpsert, InsertAccount, RequestPayout, Abort
  <1>8. CASE (\E c \in Callers : Abort(c)) \/ NextWednesday \/ UNCHANGED vars
    BY <1>8 DEF Abort, NextWednesday, vars
  <1>9. QED
    BY <1>1, <1>2, <1>3, <1>4, <1>5, <1>6, <1>7, <1>8 DEF Next

LEMMA StepKinds ==
    ASSUME [Next]_vars
    PROVE  \/ BooksStay /\ UNCHANGED call
           \/ BooksStay /\ \E w \in Workers : CallStep(w)
           \/ \E w \in Workers, p \in Payouts : CreatePayout(w, p)
           \/ \E p \in Payouts : Approve(p) \/ MarkPaid(p) \/ Reject(p)
  <1> DEFINE Goal == \/ BooksStay /\ UNCHANGED call
                     \/ BooksStay /\ \E w \in Workers : CallStep(w)
                     \/ \E w \in Workers, p \in Payouts : CreatePayout(w, p)
                     \/ \E p \in Payouts : Approve(p) \/ MarkPaid(p) \/ Reject(p)
  <1>a. Callers \subseteq Workers /\ Schedulers \subseteq Workers
    BY DEF Workers
  <1>1. CASE OrderStep \/ (\E o \in Orders : Age(o)) \/ NextWednesday \/ UNCHANGED vars
    BY <1>1 DEF OrderStep, Age, NextWednesday, vars, BooksStay
  <1>2. CASE \E w \in Writers, a \in Authors : StartUpsert(w, a) \/ InsertAccount(w, a)
    BY <1>2 DEF StartUpsert, InsertAccount, BooksStay
  <1>3. ASSUME NEW c \in Callers, Abort(c) \/ \E a \in Authors : RequestPayout(c, a)
        PROVE  BooksStay /\ CallStep(c)
    BY <1>3 DEF Abort, RequestPayout, BooksStay, CallStep
  <1>4. ASSUME NEW w \in Workers, NothingLeft(w) \/ \E o \in Orders : LockRow(w, o)
        PROVE  BooksStay /\ CallStep(w)
    <2>1. CASE NothingLeft(w)
      BY <2>1 DEF NothingLeft, BooksStay, CallStep
    <2>2. ASSUME NEW o \in Orders, LockRow(w, o)
          PROVE  BooksStay /\ CallStep(w)
      <3>1. BooksStay
        BY <2>2 DEF LockRow, BooksStay
      <3>2. QED
        BY <2>2, <3>1 DEF CallStep
    <2>3. QED
      BY <1>4, <2>1, <2>2
  <1>5. ASSUME NEW s \in Schedulers, BatchStep(s)
        PROVE  BooksStay /\ (UNCHANGED call \/ CallStep(s))
    BY <1>5 DEF BatchStep, Tick, Claim, ListAuthors, FinishBatch, Die, PayAuthor, SkipAuthor,
       LookupRaises, BooksStay, CallStep
  <1>6. QED
    BY <1>a, <1>1, <1>2, <1>3, <1>4, <1>5 DEF Next

-----------------------------------------------------------------------------
(* One batch on a Wednesday.  The row of the day outlives every batch of   *)
(* the day, and the batch that wrote it saw that there was none.           *)

OneBatch == TypeOK /\ OneBatchPerWednesday

LEMMA OneBatchStep == OneBatch /\ [Next]_vars => OneBatchPerWednesday'
  <1> SUFFICES ASSUME OneBatch, [Next]_vars
               PROVE  OneBatchPerWednesday'
    OBVIOUS
  <1> DEFINE Running(s) == batch[s].pc \in {"listing", "paying"}
  <1>t. batch \in [Schedulers -> Batches] /\ \A s \in Schedulers : batch[s] \in Batches
    BY DEF OneBatch, TypeOK
  <1>a. ASSUME runRow' = runRow,
               \A s \in Schedulers : batch'[s].pc \in {"listing", "paying"} => Running(s)
        PROVE  OneBatchPerWednesday'
    BY <1>a DEF OneBatch, OneBatchPerWednesday
  <1>b. ASSUME NEW s \in Schedulers, NEW pc, NEW authors, BatchGoes(s, pc, authors)
        PROVE  batch'[s].pc = pc /\ \A t \in Schedulers \ {s} : batch'[t] = batch[t]
    BY <1>t, <1>b DEF BatchGoes
  <1>1. CASE UNCHANGED batchVars
    BY <1>1, <1>a DEF batchVars
  <1>2. ASSUME NEW s \in Schedulers, runRow' = runRow,
               \/ BatchGoes(s, "idle", {})
               \/ BatchGoes(s, "claiming", {})
               \/ \E authors : BatchIs(s, "listing") /\ BatchGoes(s, "paying", authors)
               \/ \E a : AuthorDone(s, a)
        PROVE  OneBatchPerWednesday'
    BY <1>2, <1>a, <1>b DEF AuthorDone, BatchIs
  <1>3. ASSUME NEW s \in Schedulers, Claim(s)
        PROVE  OneBatchPerWednesday'
    <2>1. CASE runRow = "exists"
      BY <1>2, <1>3, <2>1 DEF Claim
    <2>2. CASE runRow # "exists"
      BY <1>b, <1>3, <2>2 DEF Claim, OneBatch, OneBatchPerWednesday
    <2>3. QED
      BY <2>1, <2>2
  <1>4. ASSUME NEW s \in Schedulers, BatchStep(s)
        PROVE  OneBatchPerWednesday'
    BY <1>1, <1>2, <1>3, <1>4 DEF BatchStep, Tick, ListAuthors, FinishBatch, Die, PayAuthor,
       SkipAuthor, LookupRaises
  <1>5. ASSUME NEW w \in Workers, NothingLeft(w) \/ \E p \in Payouts : CreatePayout(w, p)
        PROVE  OneBatchPerWednesday'
    BY <1>1, <1>2, <1>5 DEF NothingLeft, CreatePayout, Return, batchVars
  <1>6. CASE NextWednesday
    BY <1>6 DEF NextWednesday, NoBatch, OneBatchPerWednesday
  <1>7. ASSUME \/ \E w \in Workers, o \in Orders : LockRow(w, o)
               \/ \E p \in Payouts : Approve(p) \/ MarkPaid(p) \/ Reject(p)
        PROVE  UNCHANGED batchVars
    BY <1>7 DEF LockRow, Approve, MarkPaid, Reject
  <1>8. ASSUME \/ \E w \in Writers, a \in Authors : StartUpsert(w, a) \/ InsertAccount(w, a)
               \/ \E c \in Callers : Abort(c)
               \/ \E c \in Callers, a \in Authors : RequestPayout(c, a)
        PROVE  UNCHANGED batchVars
    BY <1>8 DEF StartUpsert, InsertAccount, Abort, RequestPayout
  <1>9. CASE OrderStep \/ (\E o \in Orders : Age(o)) \/ UNCHANGED vars
    BY <1>1, <1>9 DEF OrderStep, Age, vars, batchVars
  <1>10. QED
    BY <1>1, <1>4, <1>5, <1>6, <1>7, <1>8, <1>9 DEF Next

\* The UNIQUE date of a settlement run admits one batch a day, however many
\* server processes tick and whenever they die.
THEOREM OneBatchPerWednesdayHolds == Spec => []OneBatchPerWednesday
  <1>1. Init => OneBatchPerWednesday
    BY DEF Init, NoBatch, OneBatchPerWednesday
  <1>2. OneBatch /\ [Next]_vars => OneBatch'
    BY OneBatchStep, NextTypeOK DEF OneBatch
  <1>3. QED
    BY <1>1, <1>2, InitTypeOK, PTL DEF Spec, OneBatch

-----------------------------------------------------------------------------
(* The books.  That the rows of a payout are those bound to it rests on   *)
(* the lock: a row that a transaction has locked stays free until it is   *)
(* bound.  That only refund-safe rows are bound rests on what the snapshot *)
(* selected, for a sale stays delivered, or old.                           *)

Selected == \A w \in Workers : \A o \in call[w].todo \cup call[w].locked :
                /\ o \in settled
                /\ o \in delivered \cup aged
                /\ AuthorOf[o] = call[w].author

IInv == /\ TypeOK
        /\ PayoutOwnsItsRows
        /\ LockedRowsAreFree
        /\ Selected
        /\ BoundIsRefundSafe

LEMMA InitBooks == Init => IInv
  <1> SUFFICES ASSUME Init
               PROVE  IInv
    OBVIOUS
  <1>1. PayoutOwnsItsRows /\ BoundIsRefundSafe
    BY PayoutsAssumption DEF Init, PayoutOwnsItsRows, BoundTo, Live, BoundIsRefundSafe
  <1>2. LockedRowsAreFree /\ Selected
    BY DEF Init, NoCall, LockedRowsAreFree, Selected
  <1>3. QED
    BY <1>1, <1>2, InitTypeOK DEF IInv

\* A step of a transaction that does not commit: one call changes, and what
\* it has locked and still has to lock is free, or was selected.
LEMMA CallStepEffect ==
    ASSUME IInv, NEW w \in Workers, CallStep(w)
    PROVE  /\ \A v \in Workers \ {w} : call'[v] = call[v]
           /\ \A o \in call'[w].locked :
                 \/ o \in call[w].locked
                 \/ binding[o] = NoPayout /\ \A v \in Workers \ {w} : o \notin call[v].locked
           /\ \A o \in call'[w].todo \cup call'[w].locked :
                 /\ o \in settled
                 /\ o \in delivered \cup aged
                 /\ AuthorOf[o] = call'[w].author
  <1>t. call \in [Workers -> Calls] /\ call[w] \in Calls
    BY DEF IInv, TypeOK
  <1>1. CASE EndCall(w)
    BY <1>t, <1>1 DEF EndCall, NoCall
  <1>2. ASSUME NEW a \in Authors, NEW todo, NEW locked, CallGoes(w, a, todo, locked)
        PROVE  /\ call'[w].author = a /\ call'[w].todo = todo /\ call'[w].locked = locked
               /\ \A v \in Workers \ {w} : call'[v] = call[v]
    BY <1>t, <1>2 DEF CallGoes
  <1>3. ASSUME NEW a \in Authors, Select(w, a)
        PROVE  /\ call'[w].author = a /\ call'[w].todo = Payable(a) /\ call'[w].locked = {}
               /\ \A v \in Workers \ {w} : call'[v] = call[v]
    BY <1>2, <1>3 DEF Select
  <1>4. CASE \E a \in Authors : Select(w, a)
    BY <1>3, <1>4 DEF Payable
  <1>5. ASSUME NEW o \in Orders, LockRow(w, o)
        PROVE  /\ call'[w].author = call[w].author
               /\ call'[w].todo \subseteq call[w].todo
               /\ call'[w].locked = IF binding[o] = NoPayout THEN call[w].locked \cup {o}
                                                            ELSE call[w].locked
               /\ o \in call[w].todo
               /\ \A v \in Workers \ {w} : call'[v] = call[v] /\ o \notin call[v].locked
    BY <1>t, <1>5 DEF LockRow, CallGoes
  <1>6. CASE \E o \in Orders : LockRow(w, o)
    <2>1. PICK o \in Orders : LockRow(w, o)
      BY <1>6
    <2>2. \A r \in call'[w].todo \cup call'[w].locked : r \in call[w].todo \cup call[w].locked
      BY <1>5, <2>1
    <2>3. \A r \in call'[w].locked :
            \/ r \in call[w].locked
            \/ binding[r] = NoPayout /\ \A v \in Workers \ {w} : r \notin call[v].locked
      BY <1>5, <2>1
    <2>4. QED
      BY <1>5, <2>1, <2>2, <2>3 DEF IInv, Selected
  <1>7. QED
    BY <1>1, <1>4, <1>6 DEF CallStep

LEMMA CommitEffect ==
    ASSUME IInv, NEW w \in Workers, NEW p \in Payouts, CreatePayout(w, p)
    PROVE  /\ pstatus[p] = "NONE" /\ BoundTo(p) = {}
           /\ pstatus' = [pstatus EXCEPT ![p] = "REQUESTED"]
           /\ items' = [items EXCEPT ![p] = call[w].locked]
           /\ call[w].locked # {} /\ call[w].locked \subseteq Orders
           /\ \A o \in call[w].locked : binding[o] = NoPayout /\ binding'[o] = p
           /\ \A o \in Orders \ call[w].locked : binding'[o] = binding[o]
           /\ call'[w].locked = {} /\ call'[w].todo = {}
           /\ \A v \in Workers \ {w} : call'[v] = call[v] /\ call[v].locked \cap call[w].locked = {}
  <1>t. call \in [Workers -> Calls] /\ call[w] \in Calls
    BY DEF IInv, TypeOK
  <1>1. call'[w].locked = {} /\ call'[w].todo = {} /\ \A v \in Workers \ {w} : call'[v] = call[v]
    BY <1>t DEF CreatePayout, EndCall, NoCall
  <1>2. call[w].locked \subseteq Orders
    BY <1>t DEF Calls
  <1>3. pstatus[p] = "NONE" /\ BoundTo(p) = {}
    BY DEF CreatePayout, IInv, PayoutOwnsItsRows, Live
  <1>4. /\ \A o \in call[w].locked : binding[o] = NoPayout /\ binding'[o] = p
        /\ \A o \in Orders \ call[w].locked : binding'[o] = binding[o]
        /\ \A v \in Workers \ {w} : call[v].locked \cap call[w].locked = {}
    BY <1>2 DEF CreatePayout, IInv, LockedRowsAreFree
  <1>5. QED
    BY <1>1, <1>2, <1>3, <1>4 DEF CreatePayout

LEMMA RejectEffect ==
    ASSUME IInv, NEW p \in Payouts, Reject(p)
    PROVE  /\ pstatus[p] \in {"REQUESTED", "APPROVED"}
           /\ pstatus' = [pstatus EXCEPT ![p] = "REJECTED"]
           /\ items' = items /\ call' = call
           /\ \A o \in Orders : binding'[o] = IF binding[o] = p THEN NoPayout ELSE binding[o]
  BY DEF Reject, Freed

LEMMA OwnsStep == IInv /\ [Next]_vars => PayoutOwnsItsRows'
  <1> SUFFICES ASSUME IInv, [Next]_vars
               PROVE  PayoutOwnsItsRows'
    OBVIOUS
  <1>t. pstatus \in [Payouts -> PayoutStatus] /\ items \in [Payouts -> SUBSET Orders]
    BY DEF IInv, TypeOK
  <1> USE DEF PayoutOwnsItsRows, BoundTo, Live
  <1>1. CASE BooksStay
    BY <1>1 DEF BooksStay, IInv
  <1>2. ASSUME NEW w \in Workers, NEW p \in Payouts, CreatePayout(w, p)
        PROVE  PayoutOwnsItsRows'
    <2>1. pstatus'[p] = "REQUESTED" /\ items'[p] = call[w].locked
      BY <1>t, <1>2, CommitEffect
    <2>2. call[w].locked # {} /\ BoundTo(p)' = call[w].locked
      BY <1>2, CommitEffect
    <2>3. ASSUME NEW q \in Payouts \ {p}
          PROVE  pstatus'[q] = pstatus[q] /\ items'[q] = items[q]
      BY <1>t, <1>2, CommitEffect
    <2>4. ASSUME NEW q \in Payouts \ {p}
          PROVE  BoundTo(q)' = BoundTo(q)
      BY <1>2, CommitEffect, PayoutsAssumption
    <2>5. QED
      BY <2>1, <2>2, <2>3, <2>4 DEF IInv
  <1>3. ASSUME NEW p \in Payouts, Approve(p) \/ MarkPaid(p)
        PROVE  PayoutOwnsItsRows'
    <2>1. /\ pstatus[p] \in Live /\ pstatus'[p] \in Live
          /\ \A q \in Payouts \ {p} : pstatus'[q] = pstatus[q]
      BY <1>t, <1>3 DEF Approve, MarkPaid
    <2>2. items' = items /\ binding' = binding
      BY <1>3 DEF Approve, MarkPaid
    <2>3. QED
      BY <2>1, <2>2 DEF IInv
  <1>4. ASSUME NEW p \in Payouts, Reject(p)
        PROVE  PayoutOwnsItsRows'
    <2>1. pstatus'[p] = "REJECTED" /\ \A q \in Payouts \ {p} : pstatus'[q] = pstatus[q]
      BY <1>t, <1>4, RejectEffect
    <2>2. BoundTo(p)' = {} /\ \A q \in Payouts \ {p} : BoundTo(q)' = BoundTo(q)
      BY <1>4, RejectEffect, PayoutsAssumption
    <2>3. items' = items
      BY <1>4, RejectEffect
    <2>4. QED
      BY <2>1, <2>2, <2>3 DEF IInv
  <1>5. QED
    BY <1>1, <1>2, <1>3, <1>4, StepKinds

LEMMA LockedStep == IInv /\ [Next]_vars => LockedRowsAreFree'
  <1> SUFFICES ASSUME IInv, [Next]_vars
               PROVE  LockedRowsAreFree'
    OBVIOUS
  <1> USE DEF LockedRowsAreFree
  <1>1. CASE BooksStay /\ UNCHANGED call
    BY <1>1 DEF BooksStay, IInv
  <1>2. ASSUME NEW w \in Workers, CallStep(w), BooksStay
        PROVE  LockedRowsAreFree'
    <2>1. ASSUME NEW v \in Workers, NEW o \in call'[v].locked, NEW u \in Workers \ {v}
          PROVE  o \notin call'[u].locked
      BY <1>2, <2>1, CallStepEffect DEF IInv
    <2>2. ASSUME NEW v \in Workers, NEW o \in call'[v].locked
          PROVE  binding'[o] = NoPayout
      BY <1>2, CallStepEffect DEF BooksStay, IInv
    <2>3. QED
      BY <2>1, <2>2
  <1>3. ASSUME NEW w \in Workers, NEW p \in Payouts, CreatePayout(w, p)
        PROVE  LockedRowsAreFree'
    <2>1. ASSUME NEW v \in Workers, NEW o \in call'[v].locked
          PROVE  v # w /\ o \in call[v].locked /\ o \notin call[w].locked /\ o \in Orders
      BY <1>3, CommitEffect DEF IInv, TypeOK, Calls
    <2>2. ASSUME NEW v \in Workers, NEW o \in call'[v].locked
          PROVE  binding'[o] = NoPayout
      BY <1>3, <2>1, CommitEffect DEF IInv
    <2>3. ASSUME NEW v \in Workers, NEW o \in call'[v].locked, NEW u \in Workers \ {v}
          PROVE  o \notin call'[u].locked
      BY <1>3, <2>1, CommitEffect DEF IInv
    <2>4. QED
      BY <2>2, <2>3
  <1>4. ASSUME NEW p \in Payouts, Approve(p) \/ MarkPaid(p)
        PROVE  LockedRowsAreFree'
    BY <1>4 DEF Approve, MarkPaid, IInv
  <1>5. ASSUME NEW p \in Payouts, Reject(p)
        PROVE  LockedRowsAreFree'
    <2>1. \A v \in Workers : call[v].locked \subseteq Orders
      BY DEF IInv, TypeOK, Calls
    <2>2. QED
      BY <1>5, <2>1, RejectEffect DEF IInv
  <1>6. QED
    BY <1>1, <1>2, <1>3, <1>4, <1>5, StepKinds

LEMMA SelectedStep == IInv /\ [Next]_vars => Selected'
  <1> SUFFICES ASSUME IInv, [Next]_vars
               PROVE  Selected'
    OBVIOUS
  <1> USE DEF Selected
  <1>1. CASE UNCHANGED call
    BY <1>1, SalesGrow DEF IInv
  <1>2. ASSUME NEW w \in Workers, CallStep(w)
        PROVE  Selected'
    <2>1. \A o \in call'[w].todo \cup call'[w].locked :
             o \in settled' /\ o \in (delivered \cup aged)' /\ AuthorOf[o] = call'[w].author
      BY <1>2, CallStepEffect, SalesGrow
    <2>2. \A v \in Workers \ {w} : call'[v] = call[v]
      BY <1>2, CallStepEffect
    <2>3. QED
      BY <2>1, <2>2, SalesGrow DEF IInv
  <1>3. ASSUME NEW w \in Workers, NEW p \in Payouts, CreatePayout(w, p)
        PROVE  Selected'
    BY <1>3, CommitEffect, SalesGrow DEF IInv
  <1>4. ASSUME NEW p \in Payouts, Approve(p) \/ MarkPaid(p) \/ Reject(p)
        PROVE  UNCHANGED call
    BY <1>4 DEF Approve, MarkPaid, Reject
  <1>5. QED
    BY <1>1, <1>2, <1>3, <1>4, StepKinds

LEMMA RefundSafeStep == IInv /\ [Next]_vars => BoundIsRefundSafe'
  <1> SUFFICES ASSUME IInv, [Next]_vars
               PROVE  BoundIsRefundSafe'
    OBVIOUS
  <1> USE DEF BoundIsRefundSafe
  <1>1. ASSUME \A o \in Orders : binding'[o] = binding[o] \/ binding'[o] = NoPayout
        PROVE  BoundIsRefundSafe'
    BY <1>1, SalesGrow DEF IInv
  <1>2. CASE BooksStay
    BY <1>1, <1>2 DEF BooksStay
  <1>3. ASSUME NEW w \in Workers, NEW p \in Payouts, CreatePayout(w, p)
        PROVE  BoundIsRefundSafe'
    <2>1. ASSUME NEW o \in Orders, binding'[o] # NoPayout
          PROVE  o \in settled' /\ o \in (delivered \cup aged)'
      BY <1>3, <2>1, CommitEffect, SalesGrow DEF IInv, Selected
    <2>2. ASSUME NEW o \in Orders, binding'[o] = p
          PROVE  o \in call[w].locked
      BY <1>3, <2>2, CommitEffect DEF BoundTo
    <2>3. ASSUME NEW o \in Orders, NEW q \in Orders, binding'[o] = binding'[q], binding'[o] # NoPayout
          PROVE  AuthorOf[o] = AuthorOf[q]
      <3>1. CASE binding'[o] = p
        BY ZenonT(60), <2>2, <2>3, <3>1 DEF IInv, Selected
      <3>2. CASE binding'[o] # p
        BY <1>3, <2>3, <3>2, CommitEffect DEF IInv
      <3>3. QED
        BY <3>1, <3>2
    <2>4. QED
      BY <2>1, <2>3
  <1>4. ASSUME NEW p \in Payouts, Approve(p) \/ MarkPaid(p)
        PROVE  BoundIsRefundSafe'
    BY <1>1, <1>4 DEF Approve, MarkPaid
  <1>5. ASSUME NEW p \in Payouts, Reject(p)
        PROVE  BoundIsRefundSafe'
    BY <1>1, <1>5, RejectEffect
  <1>6. QED
    BY <1>2, <1>3, <1>4, <1>5, StepKinds

\* The inductive invariant.
THEOREM BooksInvariant == Spec => []IInv
  <1>1. IInv /\ [Next]_vars => IInv'
    BY NextTypeOK, OwnsStep, LockedStep, SelectedStep, RefundSafeStep DEF IInv
  <1>2. QED
    BY <1>1, InitBooks, PTL DEF Spec

\* No share is in two payouts, and a payout's amount is that of the rows
\* bound to it: create_payout's row locks and the rejection's release suffice.
THEOREM PayoutOwnsItsRowsHolds == Spec => []PayoutOwnsItsRows
  BY BooksInvariant, PTL DEF IInv

\* A row that create_payout has locked is free until it commits.
THEOREM LockedRowsAreFreeHolds == Spec => []LockedRowsAreFree
  BY BooksInvariant, PTL DEF IInv

\* Only delivered or week-old sales of one author are bound into a payout.
THEOREM BoundIsRefundSafeHolds == Spec => []BoundIsRefundSafe
  BY BooksInvariant, PTL DEF IInv

-----------------------------------------------------------------------------
(* What is paid stays paid *)

LEMMA PaidStays ==
    ASSUME IInv, [Next]_vars, NEW p \in Payouts, pstatus[p] = "PAID"
    PROVE  /\ pstatus'[p] = "PAID"
           /\ items'[p] = items[p]
           /\ \A o \in Orders : binding[o] = p => binding'[o] = p
  <1> USE DEF IInv, TypeOK
  <1>1. CASE BooksStay
    BY <1>1 DEF BooksStay
  <1>2. ASSUME NEW w \in Workers, NEW q \in Payouts, CreatePayout(w, q)
        PROVE  /\ pstatus'[p] = "PAID" /\ items'[p] = items[p]
               /\ \A o \in Orders : binding[o] = p => binding'[o] = p
    <2>1. p # q
      BY <1>2, CommitEffect
    <2>2. \A o \in Orders : binding[o] = p => o \notin call[w].locked
      BY <1>2, CommitEffect, PayoutsAssumption
    <2>3. QED
      BY <1>2, <2>1, <2>2, CommitEffect
  <1>3. ASSUME NEW q \in Payouts, Approve(q) \/ MarkPaid(q)
        PROVE  /\ pstatus'[p] = "PAID" /\ items'[p] = items[p] /\ binding' = binding
    BY <1>3 DEF Approve, MarkPaid
  <1>4. ASSUME NEW q \in Payouts, Reject(q)
        PROVE  /\ pstatus'[p] = "PAID" /\ items'[p] = items[p]
               /\ \A o \in Orders : binding[o] = p => binding'[o] = p
    BY <1>4, RejectEffect
  <1>5. QED
    BY <1>1, <1>2, <1>3, <1>4, StepKinds

\* Neither a transition nor a rejection nor a request touches a paid payout.
THEOREM PaidIsFinalHolds == Spec => PaidIsFinal
  <1>1. IInv /\ [Next]_vars =>
          \A p \in Payouts : pstatus[p] = "PAID" =>
              /\ pstatus'[p] = "PAID"
              /\ items'[p] = items[p]
              /\ \A o \in Orders : binding[o] = p => binding'[o] = p
    BY PaidStays
  <1>2. QED
    BY <1>1, BooksInvariant, PTL DEF Spec, PaidIsFinal

-----------------------------------------------------------------------------
(* Payouts implements the ledger of shares: paying an order credits its   *)
(* share, create_payout binds what it has locked, an operator's rejection *)
(* returns and its payment pays out what is bound, and no other step is    *)
(* seen.                                                                   *)

PaidOnce == LifeTypeOK /\ \A o \in settled : status[o] \in {"PAID", "REFUNDED"}

LEMMA LifeSteps ==
    ASSUME [Next]_vars
    PROVE  (LifeNext /\ BooksStay) \/ UNCHANGED lifeVars
  <1> USE DEF orderVars, lifeVars
  <1>1. CASE OrderStep
    BY <1>1 DEF OrderStep, BooksStay
  <1>2. ASSUME NEW s \in Schedulers, BatchStep(s)
        PROVE  UNCHANGED lifeVars
    BY <1>2 DEF BatchStep, Tick, Claim, ListAuthors, FinishBatch, Die, PayAuthor, SkipAuthor,
       LookupRaises
  <1>3. ASSUME NEW w \in Workers,
               \/ NothingLeft(w)
               \/ \E o \in Orders : LockRow(w, o)
               \/ \E p \in Payouts : CreatePayout(w, p)
        PROVE  UNCHANGED lifeVars
    BY <1>3 DEF NothingLeft, LockRow, CreatePayout
  <1>4. ASSUME \/ \E p \in Payouts : Approve(p) \/ MarkPaid(p) \/ Reject(p)
               \/ \E c \in Callers : Abort(c)
               \/ \E c \in Callers, a \in Authors : RequestPayout(c, a)
        PROVE  UNCHANGED lifeVars
    BY <1>4 DEF Approve, MarkPaid, Reject, Abort, RequestPayout
  <1>5. ASSUME \/ \E w \in Writers, a \in Authors : StartUpsert(w, a) \/ InsertAccount(w, a)
               \/ \E o \in Orders : Age(o)
               \/ NextWednesday
               \/ UNCHANGED vars
        PROVE  UNCHANGED lifeVars
    BY <1>5 DEF StartUpsert, InsertAccount, Age, NextWednesday, vars
  <1>6. QED
    BY <1>1, <1>2, <1>3, <1>4, <1>5 DEF Next

LEMMA PaidOnceHolds == Spec => []PaidOnce
  <1>1. Init => PaidOnce
    BY DEF Init, LifeInit, PaidOnce, LifeTypeOK, OrderStatus
  <1>2. PaidOnce /\ LifeNext => PaidOnce'
    <2> SUFFICES ASSUME PaidOnce, LifeNext
                 PROVE  \A o \in settled' : status'[o] \in {"PAID", "REFUNDED"}
      BY LifeTyped DEF PaidOnce
    <2>t. status \in [Orders -> OrderStatus] /\ settled \subseteq Orders
      BY LifecycleAssumption DEF PaidOnce, LifeTypeOK
    <2>1. ASSUME NEW o \in Orders, Place(o) \/ Grant(o) \/ Refund(o)
          PROVE  \A q \in settled' : status'[q] \in {"PAID", "REFUNDED"}
      BY <2>t, <2>1 DEF PaidOnce, Place, Grant, Refund
    <2>2. ASSUME NEW o \in Orders, Pay(o)
          PROVE  \A q \in settled' : status'[q] \in {"PAID", "REFUNDED"}
      BY <2>t, <2>2 DEF PaidOnce, Pay
    <2>3. QED
      BY <2>1, <2>2 DEF LifeNext, Deliver, PaidOnce
  <1>3. PaidOnce /\ UNCHANGED lifeVars => PaidOnce'
    BY DEF PaidOnce, LifeTypeOK, lifeVars
  <1>4. QED
    BY <1>1, <1>2, <1>3, LifeSteps, PTL DEF Spec

LEMMA Moves ==
    ASSUME NEW sales \in SUBSET Orders, NEW from, NEW to, sales # {},
           \A o \in sales : ShareOf(o) = from /\ ShareOf(o)' = to,
           \A o \in Orders \ sales : ShareOf(o)' = ShareOf(o)
    PROVE  Ledger!Move(sales, from, to)
  BY DEF Ledger!Move

LEMMA LedgerInitHolds == Init => Ledger!LedgerInit
  BY DEF Init, LifeInit, ShareOf, Ledger!LedgerInit

LEMMA LedgerStep == IInv /\ PaidOnce /\ [Next]_vars => [Ledger!LedgerNext]_([o \in Orders |-> ShareOf(o)])
  <1> SUFFICES ASSUME IInv, PaidOnce, [Next]_vars
               PROVE  Ledger!LedgerNext \/ UNCHANGED [o \in Orders |-> ShareOf(o)]
    OBVIOUS
  <1> DEFINE Moved == \E sales \in SUBSET Orders : Ledger!Bind(sales) \/ Ledger!Return(sales) \/ Ledger!PayOut(sales)
  <1>t. /\ binding \in [Orders -> Payouts \cup {NoPayout}]
        /\ pstatus \in [Payouts -> PayoutStatus]
    BY DEF IInv, TypeOK
  <1>1. ASSUME LifeNext, BooksStay
        PROVE  Ledger!LedgerNext \/ UNCHANGED [o \in Orders |-> ShareOf(o)]
    <2>1. ASSUME NEW o \in Orders, Pay(o)
          PROVE  Ledger!Credit(o)
      <3>1. o \notin settled /\ settled' = settled \cup {o} /\ binding[o] = NoPayout
        BY <2>1 DEF Pay, PaidOnce, IInv, BoundIsRefundSafe
      <3>2. ShareOf(o) = "none" /\ ShareOf(o)' = "open"
        BY <1>1, <3>1 DEF ShareOf, BooksStay
      <3>3. \A q \in Orders \ {o} : ShareOf(q)' = ShareOf(q)
        BY <1>1, <3>1 DEF ShareOf, BooksStay
      <3>4. QED
        BY <3>2, <3>3, Moves DEF Ledger!Credit
    <2>2. CASE UNCHANGED settled
      BY <1>1, <2>2 DEF ShareOf, BooksStay
    <2>3. QED
      BY <1>1, <2>1, <2>2 DEF LifeNext, Place, Grant, Refund, Deliver, Ledger!LedgerNext
  <1>2. ASSUME UNCHANGED settled, BooksStay
        PROVE  UNCHANGED [o \in Orders |-> ShareOf(o)]
    BY <1>2 DEF ShareOf, BooksStay
  <1>3. ASSUME NEW w \in Workers, NEW p \in Payouts, CreatePayout(w, p)
        PROVE  Moved
    <2>1. \A o \in call[w].locked : ShareOf(o) = "open" /\ ShareOf(o)' = "bound"
      <3>1. settled' = settled /\ \A o \in call[w].locked : o \in settled
        BY <1>3 DEF CreatePayout, orderVars, IInv, Selected
      <3>2. pstatus'[p] = "REQUESTED"
        BY <1>t, <1>3, CommitEffect
      <3>3. QED
        BY <1>3, <3>1, <3>2, CommitEffect, PayoutsAssumption DEF ShareOf
    <2>2. \A o \in Orders \ call[w].locked : ShareOf(o)' = ShareOf(o)
      <3>1. settled' = settled
        BY <1>3 DEF CreatePayout, orderVars
      <3>2. ASSUME NEW o \in Orders \ call[w].locked
            PROVE  binding[o] # p /\ binding'[o] = binding[o]
        BY <1>3, CommitEffect DEF BoundTo
      <3>3. \A q \in Payouts \ {p} : pstatus'[q] = pstatus[q]
        BY <1>t, <1>3, CommitEffect
      <3>4. QED
        BY <1>t, <3>1, <3>2, <3>3 DEF ShareOf
    <2>3. Ledger!OfOneAuthor(call[w].locked)
      BY DEF Ledger!OfOneAuthor, IInv, Selected
    <2>4. call[w].locked # {} /\ call[w].locked \in SUBSET Orders
      BY <1>3, CommitEffect
    <2>5. QED
      BY <2>1, <2>2, <2>3, <2>4, Moves DEF Ledger!Bind
  <1>4. ASSUME NEW p \in Payouts
        PROVE  /\ BoundTo(p) \in SUBSET Orders
               /\ Ledger!OfOneAuthor(BoundTo(p))
               /\ pstatus[p] \in Live => BoundTo(p) # {}
               /\ \A o \in BoundTo(p) : o \in settled /\ binding[o] = p /\ binding[o] # NoPayout
    <2>1. \A o \in BoundTo(p) : o \in Orders /\ binding[o] = p /\ binding[o] # NoPayout
      BY PayoutsAssumption DEF BoundTo
    <2>2. /\ Ledger!OfOneAuthor(BoundTo(p))
          /\ \A o \in BoundTo(p) : o \in settled
      BY <2>1 DEF Ledger!OfOneAuthor, IInv, BoundIsRefundSafe
    <2>3. pstatus[p] \in Live => BoundTo(p) # {}
      BY DEF IInv, PayoutOwnsItsRows
    <2>4. QED
      BY <2>1, <2>2, <2>3
  <1>5. ASSUME NEW p \in Payouts, Approve(p)
        PROVE  UNCHANGED [o \in Orders |-> ShareOf(o)]
    <2>1. /\ settled' = settled /\ binding' = binding
          /\ \A q \in Payouts : pstatus'[q] = "PAID" <=> pstatus[q] = "PAID"
      BY <1>t, <1>5 DEF Approve, orderVars
    <2>2. \A o \in Orders : ShareOf(o)' = ShareOf(o)
      BY <1>t, <2>1 DEF ShareOf
    <2>3. QED
      BY <2>2
  <1>6. ASSUME NEW p \in Payouts, MarkPaid(p)
        PROVE  Moved
    <2>1. /\ settled' = settled /\ binding' = binding
          /\ pstatus[p] = "APPROVED" /\ pstatus'[p] = "PAID"
          /\ \A q \in Payouts \ {p} : pstatus'[q] = pstatus[q]
      BY <1>t, <1>6 DEF MarkPaid, orderVars
    <2>2. \A o \in BoundTo(p) : ShareOf(o) = "bound" /\ ShareOf(o)' = "paid"
      BY <1>4, <2>1 DEF ShareOf
    <2>3. \A o \in Orders \ BoundTo(p) : ShareOf(o)' = ShareOf(o)
      BY <1>t, <2>1 DEF ShareOf, BoundTo
    <2>4. QED
      BY <1>4, <2>1, <2>2, <2>3, Moves DEF Ledger!PayOut, Live
  <1>7. ASSUME NEW p \in Payouts, Reject(p)
        PROVE  Moved
    <2>1. /\ settled' = settled
          /\ pstatus[p] \in {"REQUESTED", "APPROVED"}
          /\ \A q \in Payouts \ {p} : pstatus'[q] = pstatus[q]
          /\ \A o \in Orders : binding'[o] = IF binding[o] = p THEN NoPayout ELSE binding[o]
      BY <1>t, <1>7, RejectEffect DEF Reject, orderVars
    <2>2. \A o \in BoundTo(p) : ShareOf(o) = "bound" /\ ShareOf(o)' = "open"
      BY <1>4, <2>1 DEF ShareOf, BoundTo
    <2>3. \A o \in Orders \ BoundTo(p) : ShareOf(o)' = ShareOf(o)
      BY <1>t, <2>1 DEF ShareOf, BoundTo
    <2>4. QED
      BY <1>4, <2>1, <2>2, <2>3, Moves DEF Ledger!Return, Live
  <1>8. QED
    BY <1>1, <1>2, <1>3, <1>5, <1>6, <1>7, StepKinds, LifeSteps DEF Ledger!LedgerNext, lifeVars

\* Requests, batches and operators together keep the books of an author's
\* shares: each is credited once, in one payout at a time, and paid once.
THEOREM LedgerImplemented == Spec => ImplementsLedger
  BY BooksInvariant, PaidOnceHolds, LedgerInitHolds, LedgerStep, PTL
     DEF Spec, ImplementsLedger, Ledger!LedgerSpec
=============================================================================
