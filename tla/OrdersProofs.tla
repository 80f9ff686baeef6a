----------------------------- MODULE OrdersProofs -----------------------------
(***************************************************************************)
(* Billing, for any number of orders, buyers and concurrent requests.     *)
(***************************************************************************)
EXTENDS Money, TLAPS

-----------------------------------------------------------------------------
(* Type correctness *)

\* What a request's record may become.
LEMMA ReqTyped ==
    ASSUME TypeOK, NEW r \in Requests, NEW o \in Orders, NEW pc \in Steps
    PROVE  /\ Begin(r, pc, o) => req' \in [Requests -> Running \cup {Idle}]
           /\ End(r) => req' \in [Requests -> Running \cup {Idle}]
           /\ \A at \in Steps : At(r, at, o) /\ GoOn(r, pc)
                                  => req' \in [Requests -> Running \cup {Idle}]
  BY DEF TypeOK, Begin, End, GoOn, At, Running, Idle

\* A payment only takes the states the PG knows.
LEMMA PgTyped ==
    ASSUME TypeOK, NEW o \in Orders, NEW state \in PaymentStatus, PgBecomes(o, state)
    PROVE  pg' \in [Orders -> PaymentStatus] /\ notices' \subseteq Orders
  BY DEF TypeOK, PgBecomes

LEMMA CaptureTyped ==
    ASSUME TypeOK, NEW o \in Orders, Capture(o)
    PROVE  pg' \in [Orders -> PaymentStatus] /\ notices' \subseteq Orders
  <1>1. (IF pg[o] = "READY" THEN "DONE" ELSE pg[o]) \in PaymentStatus
    BY DEF TypeOK, PaymentStatus
  <1>2. QED
    BY <1>1, PgTyped DEF Capture

LEMMA CancelTyped ==
    ASSUME TypeOK, NEW o \in Orders, Cancel(o)
    PROVE  pg' \in [Orders -> PaymentStatus] /\ notices' \subseteq Orders
  BY PgTyped DEF Cancel, PaymentStatus

LEMMA InitTypeOK == Init => TypeOK
  BY DEF Init, TypeOK, OrderStatus, PaymentStatus

LEMMA NextTypeOK == TypeOK /\ [Next]_vars => TypeOK'
  <1> SUFFICES ASSUME TypeOK, [Next]_vars
               PROVE  TypeOK'
    OBVIOUS
  <1> USE DEF dbVars, pgVars
  <1>1. ASSUME NEW r \in Requests, NEW o \in Orders, Step(r, o)
        PROVE  TypeOK'
    <2>1. CASE InsertOrder(r, o)
      BY <2>1, ReqTyped DEF InsertOrder, TypeOK, OrderStatus, Steps
    <2>2. CASE StartGrant(r, o)
      BY <2>2, ReqTyped DEF StartGrant, TypeOK, Steps
    <2>3. CASE InsertGrant(r, o)
      BY <2>3, ReqTyped DEF InsertGrant, TypeOK, OrderStatus, Steps
    <2>4. CASE VerifyOk(r, o)
      BY <2>4, ReqTyped, CaptureTyped DEF VerifyOk, TypeOK, Steps
    <2>5. CASE VerifyRefused(r, o)
      BY <2>5, ReqTyped DEF VerifyRefused, TypeOK, Steps
    <2>6. CASE VerifyTimeout(r, o)
      BY <2>6, ReqTyped DEF VerifyTimeout, TypeOK, Steps
    <2>7. CASE RecordPaid(r, o)
      BY <2>7, ReqTyped DEF RecordPaid, TypeOK, OrderStatus, Steps
    <2>8. CASE RecordNothing(r, o)
      BY <2>8, ReqTyped DEF RecordNothing, TypeOK, Steps
    <2>9. CASE CancelOk(r, o)
      BY <2>9, ReqTyped, CancelTyped DEF CancelOk, TypeOK, Steps
    <2>10. CASE CancelRefused(r, o)
      BY <2>10, ReqTyped DEF CancelRefused, TypeOK, Steps
    <2>11. CASE CancelTimeout(r, o)
      BY <2>11, ReqTyped DEF CancelTimeout, TypeOK, Steps
    <2>12. CASE MarkRefunded(r, o)
      BY <2>12, ReqTyped DEF MarkRefunded, TypeOK, OrderStatus, Steps
    <2>13. CASE StartReconcile(r, o)
      BY <2>13, ReqTyped DEF StartReconcile, TypeOK, Steps
    <2>14. CASE LookupCanceled(r, o)
      BY <2>14, ReqTyped DEF LookupCanceled, TypeOK, Steps
    <2>15. CASE LookupFails(r, o)
      BY <2>15, ReqTyped DEF LookupFails, TypeOK, Steps
    <2>16. QED
      BY <1>1, <2>1, <2>2, <2>3, <2>4, <2>5, <2>6, <2>7, <2>8, <2>9, <2>10,
         <2>11, <2>12, <2>13, <2>14, <2>15 DEF Step
  <1>2. ASSUME NEW r \in Requests, NEW o \in Orders, NEW consent \in BOOLEAN,
               NEW price \in Prices \cup {NoPrice}, NEW rating \in Tiers, NEW tier \in Tiers,
               StartOrder(r, o, consent, price, rating, tier)
        PROVE  TypeOK'
    BY <1>2, ReqTyped DEF StartOrder, TypeOK, Steps
  <1>3. ASSUME NEW r \in Requests, NEW o \in Orders, NEW caller \in Buyers,
               StartConfirm(r, o, caller)
        PROVE  TypeOK'
    BY <1>3, ReqTyped DEF StartConfirm, TypeOK, Steps
  <1>4. ASSUME NEW r \in Requests, NEW o \in Orders, NEW caller \in Buyers \cup Operators,
               StartRefund(r, o, caller)
        PROVE  TypeOK'
    BY <1>4, ReqTyped DEF StartRefund, TypeOK, Steps
  <1>5. ASSUME NEW o \in Orders, LateCapture(o)
        PROVE  TypeOK'
    BY <1>5, CaptureTyped DEF LateCapture, TypeOK
  <1>6. ASSUME NEW o \in Orders, LateCancel(o)
        PROVE  TypeOK'
    BY <1>6, CancelTyped DEF LateCancel, TypeOK
  <1>7. ASSUME NEW o \in Orders, NEW state \in MoneyBack, DashboardCancel(o, state)
        PROVE  TypeOK'
    BY <1>7, PgTyped DEF DashboardCancel, TypeOK, MoneyBack, PaymentStatus
  <1>8. ASSUME NEW buyer \in Buyers, NEW book \in Books, MarkDelivered(buyer, book)
        PROVE  TypeOK'
    BY <1>8 DEF MarkDelivered, TypeOK
  <1>9. ASSUME NEW r \in Requests, Crash(r)
        PROVE  TypeOK'
    BY <1>9 DEF Crash, End, TypeOK, Idle, Running
  <1>10. CASE UNCHANGED vars
    BY <1>10 DEF vars, TypeOK
  <1>11. QED
    BY <1>1, <1>2, <1>3, <1>4, <1>5, <1>6, <1>7, <1>8, <1>9, <1>10 DEF Next

\* Every variable keeps its type, whatever the handlers, the PG and the crashes do.
THEOREM TypeCorrect == Spec => []TypeOK
  BY InitTypeOK, NextTypeOK, PTL DEF Spec

-----------------------------------------------------------------------------
(* The inductive invariant: what a request may rely on at the step where  *)
(* it stands, although others ran since it read the order.                *)

\* An id that was drawn for an insert is still unused and held by nobody else;
\* a grant is drawn for the review channel.
Drawn == \A r \in Requests :
    req[r].pc \in {"inserting", "granting"} =>
        /\ status[req[r].order] = "NONE"
        /\ \A r2 \in Requests \ {r} : req[r2].order # req[r].order
        /\ req[r].pc = "granting" => OrderRow[req[r].order].channel = REVIEW

\* The settlement, the PG reference and (for a sale) the entitlement agree.
SettledTogether ==
    /\ pgTx = settled
    /\ settled \subseteq Rated
    /\ \A o \in settled : status[o] \in {"PAID", "REFUNDED"}
    /\ \A o \in Rated : status[o] \in {"PAID", "REFUNDED"} => o \in settled
    /\ \A o \in Orders : status[o] = "REFUNDED" => o \in settled

\* A request that records a payment comes from a capture, one that records a
\* refund from a cancellation at the PG.
Witnessed == \A r \in Requests :
    /\ req[r].pc = "recording" => status[req[r].order] # "NONE" /\ pg[req[r].order] # "READY"
    /\ req[r].pc \in {"marking", "syncing"} =>
          req[r].order \in settled /\ pg[req[r].order] \in MoneyBack
    /\ req[r].pc \in {"verifying", "cancelling"} => status[req[r].order] # "NONE"
    /\ req[r].pc = "lookup" => req[r].order \in settled

IInv == /\ TypeOK /\ Drawn /\ SettledTogether /\ Witnessed
        /\ PaidIsCaptured /\ RefundedIsCanceled

LEMMA InitIInv == Init => IInv
  BY InitTypeOK DEF Init, IInv, Drawn, SettledTogether, Witnessed, PaidIsCaptured,
     RefundedIsCanceled, Idle, Rated

LEMMA IInvSettledIsPaid == IInv => SettledIsPaid
  BY DEF IInv, SettledTogether, SettledIsPaid, Rated

\* A review copy has no author rate, so that a grant settles nothing.
LEMMA ReviewIsUnrated == REVIEW \notin DOMAIN AuthorRate
  BY DEF AuthorRate, REVIEW, SELF, EXTERNAL

LEMMA NextIInv == IInv /\ [Next]_vars => IInv'
  <1> SUFFICES ASSUME IInv, [Next]_vars
               PROVE  IInv'
    OBVIOUS
  <1>0. TypeOK'
    BY NextTypeOK DEF IInv
  <1> USE <1>0, OrdersAssumption DEF IInv, TypeOK, Drawn, SettledTogether, Witnessed,
      PaidIsCaptured, RefundedIsCanceled, Rated, dbVars, pgVars,
      Begin, GoOn, End, At, Running, Idle, Steps
  <1>1. ASSUME NEW r \in Requests, NEW o \in Orders, Step(r, o)
        PROVE  IInv'
    <2>1. CASE InsertOrder(r, o)
      BY <2>1 DEF InsertOrder
    <2>2. CASE StartGrant(r, o)
      BY <2>2 DEF StartGrant, Fresh
    <2>3. CASE InsertGrant(r, o)
      <3>1. status[o] = "NONE" /\ o \notin Rated
        BY <2>3, ReviewIsUnrated DEF InsertGrant
      <3>2. QED
        BY <2>3, <3>1 DEF InsertGrant
    <2>4. CASE VerifyOk(r, o)
      BY <2>4 DEF VerifyOk, Capture, PgBecomes
    <2>5. CASE VerifyRefused(r, o)
      BY <2>5 DEF VerifyRefused
    <2>6. CASE VerifyTimeout(r, o)
      BY <2>6 DEF VerifyTimeout
    <2>7. CASE RecordPaid(r, o)
      <3>1. o \in Rated /\ pg[o] # "READY" /\ status[o] # "NONE"
        BY <2>7 DEF RecordPaid
      <3>2. Drawn'
        BY <2>7, <3>1 DEF RecordPaid
      <3>3. SettledTogether'
        BY <2>7, <3>1 DEF RecordPaid
      <3>4. Witnessed'
        BY <2>7, <3>1 DEF RecordPaid
      <3>5. PaidIsCaptured' /\ RefundedIsCanceled'
        BY <2>7, <3>1 DEF RecordPaid
      <3>6. QED
        BY <3>2, <3>3, <3>4, <3>5
    <2>8. CASE RecordNothing(r, o)
      BY <2>8 DEF RecordNothing
    <2>9. CASE CancelOk(r, o)
      BY <2>9 DEF CancelOk, Cancel, PgBecomes, MoneyBack
    <2>10. CASE CancelRefused(r, o)
      BY <2>10 DEF CancelRefused
    <2>11. CASE CancelTimeout(r, o)
      BY <2>11 DEF CancelTimeout
    <2>12. CASE MarkRefunded(r, o)
      <3>1. o \in settled /\ pg[o] \in MoneyBack
        BY <2>12 DEF MarkRefunded
      <3>2. Drawn' /\ Witnessed'
        BY <2>12, <3>1 DEF MarkRefunded
      <3>3. SettledTogether' /\ PaidIsCaptured' /\ RefundedIsCanceled'
        BY <2>12, <3>1 DEF MarkRefunded
      <3>4. QED
        BY <3>2, <3>3
    <2>13. CASE StartReconcile(r, o)
      BY SMTT(30), <2>13 DEF StartReconcile
    <2>14. CASE LookupCanceled(r, o)
      BY <2>14 DEF LookupCanceled, MoneyBack
    <2>15. CASE LookupFails(r, o)
      BY <2>15 DEF LookupFails
    <2>16. QED
      BY <1>1, <2>1, <2>2, <2>3, <2>4, <2>5, <2>6, <2>7, <2>8, <2>9, <2>10, <2>11, <2>12, <2>13, <2>14, <2>15 DEF Step
  <1>2. ASSUME NEW r \in Requests, NEW o \in Orders, NEW consent \in BOOLEAN,
               NEW price \in Prices \cup {NoPrice}, NEW rating \in Tiers, NEW tier \in Tiers,
               StartOrder(r, o, consent, price, rating, tier)
        PROVE  IInv'
    BY <1>2 DEF StartOrder, Fresh
  <1>3. ASSUME NEW r \in Requests, NEW o \in Orders, NEW caller \in Buyers,
               StartConfirm(r, o, caller)
        PROVE  IInv'
    BY <1>3 DEF StartConfirm
  <1>4. ASSUME NEW r \in Requests, NEW o \in Orders, NEW caller \in Buyers \cup Operators,
               StartRefund(r, o, caller)
        PROVE  IInv'
    BY <1>4 DEF StartRefund
  <1>5. ASSUME NEW o \in Orders, LateCapture(o)
        PROVE  IInv'
    BY <1>5 DEF LateCapture, Capture, PgBecomes
  <1>6. ASSUME NEW o \in Orders, LateCancel(o)
        PROVE  IInv'
    BY <1>6 DEF LateCancel, Cancel, PgBecomes, MoneyBack
  <1>7. ASSUME NEW o \in Orders, NEW state \in MoneyBack, DashboardCancel(o, state)
        PROVE  IInv'
    BY <1>7 DEF DashboardCancel, PgBecomes, MoneyBack
  <1>8. ASSUME NEW buyer \in Buyers, NEW book \in Books, MarkDelivered(buyer, book)
        PROVE  IInv'
    BY <1>8 DEF MarkDelivered
  <1>9. ASSUME NEW r \in Requests, Crash(r)
        PROVE  IInv'
    BY <1>9 DEF Crash
  <1>10. CASE UNCHANGED vars
    BY <1>10 DEF vars
  <1> HIDE <1>0, OrdersAssumption DEF IInv, TypeOK, Drawn, SettledTogether, Witnessed,
      PaidIsCaptured, RefundedIsCanceled, Rated, dbVars, pgVars,
      Begin, GoOn, End, At, Running, Idle, Steps
  <1>11. QED
    BY <1>1, <1>2, <1>3, <1>4, <1>5, <1>6, <1>7, <1>8, <1>9, <1>10 DEF Next

LEMMA SpecIInv == Spec => []IInv
  BY InitIInv, NextIInv, PTL DEF Spec

-----------------------------------------------------------------------------
(* What follows *)

\* However requests interleave and die: an order is paid or refunded exactly
\* when its settlement and its PG reference exist.
THEOREM SettledIsPaidHolds == Spec => []SettledIsPaid
  BY SpecIInv, IInvSettledIsPaid, PTL

\* No settlement without a capture at the PG.
THEOREM PaidIsCapturedHolds == Spec => []PaidIsCaptured
  <1>1. IInv => PaidIsCaptured
    BY DEF IInv
  <1>2. QED
    BY <1>1, SpecIInv, PTL

\* No refund in the books without money back at the PG, however late the
\* answers of the PG come.
THEOREM RefundedIsCanceledHolds == Spec => []RefundedIsCanceled
  <1>1. IInv => RefundedIsCanceled
    BY DEF IInv
  <1>2. QED
    BY <1>1, SpecIInv, PTL

LEMMA RefundStays ==
    IInv /\ [Next]_vars => \A o \in Orders : status[o] = "REFUNDED" => status'[o] = "REFUNDED"
  <1> SUFFICES ASSUME IInv, [Next]_vars, NEW o \in Orders, status[o] = "REFUNDED"
               PROVE  status'[o] = "REFUNDED"
    OBVIOUS
  <1>1. o \in settled
    BY DEF IInv, SettledTogether
  <1>2. CASE UNCHANGED status
    BY <1>2
  <1>3. ASSUME NEW r \in Requests, NEW q \in Orders,
               InsertOrder(r, q) \/ InsertGrant(r, q)
        PROVE  status'[o] = "REFUNDED"
    <2>1. status[q] = "NONE"
      BY <1>3 DEF IInv, Drawn, InsertOrder, InsertGrant, At
    <2>2. QED
      BY <1>3, <2>1 DEF IInv, TypeOK, InsertOrder, InsertGrant
  <1>4. ASSUME NEW r \in Requests, NEW q \in Orders, RecordPaid(r, q)
        PROVE  status'[o] = "REFUNDED"
    BY <1>1, <1>4 DEF IInv, TypeOK, RecordPaid
  <1>5. ASSUME NEW r \in Requests, NEW q \in Orders, MarkRefunded(r, q)
        PROVE  status'[o] = "REFUNDED"
    BY <1>5 DEF IInv, TypeOK, MarkRefunded
  <1>6. QED
    BY <1>2, <1>3, <1>4, <1>5 DEF Next, Step, vars, dbVars, pgVars, StartOrder, StartGrant,
       StartConfirm, VerifyOk, VerifyRefused, VerifyTimeout, RecordNothing, StartRefund,
       CancelOk, CancelRefused, CancelTimeout, StartReconcile, LookupCanceled, LookupFails,
       LateCapture, LateCancel, DashboardCancel, MarkDelivered, Crash

\* A refund is final, although a refunded order can be confirmed again.
THEOREM RefundIsFinalHolds == Spec => RefundIsFinal
  BY SpecIInv, RefundStays, PTL DEF Spec, RefundIsFinal

-----------------------------------------------------------------------------
(* Billing implements the order lifecycle: only five kinds of steps touch *)
(* its variables, and each of them maps to one of its actions.             *)

LEMMA LifeInitHolds == Init => Life!LifeInit
  BY DEF Init, Life!LifeInit

LEMMA LifeStep == IInv /\ [Next]_vars => [Life!LifeNext]_(Life!lifeVars)
  <1> SUFFICES ASSUME IInv, [Next]_vars
               PROVE  Life!LifeNext \/ UNCHANGED <<status, settled, delivered>>
    BY DEF Life!lifeVars
  <1>1. ASSUME NEW r \in Requests, NEW o \in Orders, InsertOrder(r, o)
        PROVE  Life!Place(o)
    BY <1>1 DEF IInv, Drawn, At, InsertOrder, Life!Place
  <1>2. ASSUME NEW r \in Requests, NEW o \in Orders, InsertGrant(r, o)
        PROVE  Life!Grant(o)
    BY <1>2, ReviewIsUnrated DEF IInv, Drawn, At, InsertGrant, Life!Grant, Rated
  <1>3. ASSUME NEW r \in Requests, NEW o \in Orders, RecordPaid(r, o)
        PROVE  Life!Pay(o)
    <2>1. o \in Rated /\ status[o] # "NONE"
      BY <1>3 DEF RecordPaid, At, IInv, Witnessed, Rated
    <2>2. status[o] = "PENDING"
      BY <1>3, <2>1 DEF RecordPaid, IInv, SettledTogether, TypeOK, OrderStatus
    <2>3. QED
      BY <1>3, <2>1, <2>2 DEF RecordPaid, Life!Pay
  <1>4. ASSUME NEW r \in Requests, NEW o \in Orders, MarkRefunded(r, o)
        PROVE  Life!Refund(o) \/ UNCHANGED <<status, settled, delivered>>
    <2>1. o \in settled
      BY <1>4 DEF MarkRefunded, At, IInv, Witnessed
    <2>2. QED
      BY <1>4, <2>1 DEF MarkRefunded, Life!Refund
  <1>5. ASSUME NEW buyer \in Buyers, NEW book \in Books, MarkDelivered(buyer, book)
        PROVE  \E copies \in SUBSET Orders : Life!Deliver(copies)
    BY <1>5 DEF MarkDelivered, Life!Deliver
  <1>6. QED
    BY <1>1, <1>2, <1>3, <1>4, <1>5 DEF Life!LifeNext, Next, Step, vars, dbVars, pgVars,
       StartOrder, StartGrant, StartConfirm, VerifyOk, VerifyRefused, VerifyTimeout,
       RecordNothing, StartRefund, CancelOk, CancelRefused, CancelTimeout, StartReconcile,
       LookupCanceled, LookupFails, LateCapture, LateCancel, DashboardCancel, Crash

\* Seen from outside an order is placed, paid with its settlement, and perhaps
\* refunded: once each and in this order.
THEOREM LifecycleImplemented == Spec => ImplementsLifecycle
  BY SpecIInv, LifeInitHolds, LifeStep, PTL DEF Spec, ImplementsLifecycle, Life!LifeSpec

-----------------------------------------------------------------------------
(* Billing and payouts together: what the one does is what the other        *)
(* expects of its environment.                                              *)

\* A step of billing is a step of the orders as payouts see them, or none.
LEMMA BillingIsTheEnvironment ==
    ASSUME IInv, Next, UNCHANGED payoutVars
    PROVE  Payout!Next \/ UNCHANGED Payout!vars
  <1>1. Life!LifeNext \/ UNCHANGED <<status, settled, delivered>>
    BY LifeStep DEF Life!lifeVars
  <1>2. CASE Life!LifeNext
    <2>1. Payout!LifeNext
      BY <1>2 DEF Life!LifeNext, Life!Place, Life!Grant, Life!Pay, Life!Refund, Life!Deliver,
         Payout!LifeNext, Payout!Place, Payout!Grant, Payout!Pay, Payout!Refund, Payout!Deliver
    <2>2. Payout!OrderStep
      BY <2>1 DEF payoutVars, Payout!OrderStep, Payout!bankVars, Payout!batchVars
    <2>3. QED
      BY <2>2 DEF Payout!Next
  <1>3. CASE UNCHANGED <<status, settled, delivered>>
    BY <1>3 DEF payoutVars, Payout!vars
  <1>4. QED
    BY <1>1, <1>2, <1>3

LEMMA MoneySteps ==
    ASSUME IInv, [MoneyNext]_moneyVars
    PROVE  [Next]_vars /\ [Payout!Next]_(Payout!vars)
  <1>1. CASE Next /\ UNCHANGED payoutVars
    BY <1>1, BillingIsTheEnvironment
  <1>2. CASE Payout!Next /\ UNCHANGED vars
    BY <1>2
  <1>3. CASE UNCHANGED moneyVars
    BY <1>3 DEF moneyVars, payoutVars, vars, Payout!vars
  <1>4. QED
    BY <1>1, <1>2, <1>3 DEF MoneyNext

LEMMA BillingGoesOn == MoneySpec => Spec
  <1>1. MoneyInit => Init
    BY DEF MoneyInit
  <1>2. [MoneyNext]_moneyVars => [Next]_vars
    BY DEF MoneyNext, moneyVars
  <1>3. QED
    BY <1>1, <1>2, PTL DEF MoneySpec, Spec

\* Billing and payouts over one database behave each as its own specification says:
\* what is proved of payouts under any lifecycle of orders holds of them under
\* billing as it is.
THEOREM MoneyKeepsItsSpecs == MoneySpec => Spec /\ Payout!Spec
  <1>1. MoneyInit => Payout!Init
    BY DEF MoneyInit
  <1>2. IInv /\ [MoneyNext]_moneyVars => [Payout!Next]_(Payout!vars)
    BY MoneySteps
  <1>3. QED
    BY <1>1, <1>2, BillingGoesOn, SpecIInv, PTL DEF MoneySpec, Payout!Spec

\* What a payout is made of, and what a transaction is about to put into one, has
\* been settled.
SettledFirst ==
    /\ items \in [Payouts -> SUBSET settled]
    /\ call \in [Payout!Workers -> [author : Authors \cup {NoAuthor}, todo : SUBSET settled,
                                    locked : SUBSET settled]]

LEMMA SettlementStays ==
    ASSUME IInv, [Next]_vars
    PROVE  settled \subseteq settled'
  <1>1. [Life!LifeNext]_(Life!lifeVars)
    BY LifeStep
  <1>2. QED
    BY <1>1 DEF Life!LifeNext, Life!lifeVars, Life!Place, Life!Grant, Life!Pay, Life!Refund, Life!Deliver

LEMMA SettledFirstInit == MoneyInit => SettledFirst
  BY DEF MoneyInit, Payout!Init, Payout!NoCall, SettledFirst

LEMMA SettledFirstNext ==
    ASSUME IInv, SettledFirst, [MoneyNext]_moneyVars
    PROVE  SettledFirst'
  <1> DEFINE CallsOn(rows) == [author : Authors \cup {NoAuthor}, todo : SUBSET rows, locked : SUBSET rows]
  <1>1. settled \subseteq settled'
    BY SettlementStays, MoneySteps
  <1>2. CallsOn(settled) \subseteq CallsOn(settled')
    BY <1>1
  <1>3. ASSUME UNCHANGED <<items, call>>
        PROVE  SettledFirst'
    BY <1>1, <1>2, <1>3 DEF SettledFirst, Payout!Workers
  <1>4. CASE UNCHANGED moneyVars \/ (Next /\ UNCHANGED payoutVars)
    BY <1>3, <1>4 DEF moneyVars, payoutVars
  <1>5. CASE Payout!Next /\ UNCHANGED vars
    <2> USE DEF SettledFirst
    <2>1. UNCHANGED settled
      BY <1>5 DEF vars
    <2> HIDE <1>5
    <2>2. ASSUME NEW w \in Payout!Workers, NEW c \in CallsOn(settled), call' = [call EXCEPT ![w] = c], UNCHANGED items
          PROVE  SettledFirst'
      BY <2>1, <2>2 DEF Payout!Workers
    <2>3. Payout!NoCall \in CallsOn(settled)
      BY DEF Payout!NoCall
    <2>4. ASSUME NEW w \in Payout!Workers, NEW a \in Authors, Payout!Select(w, a), UNCHANGED items
          PROVE  SettledFirst'
      <3>1. Payout!Payable(a) \in SUBSET settled
        BY DEF Payout!Payable
      <3>2. [author |-> a, todo |-> Payout!Payable(a), locked |-> {}] \in CallsOn(settled)
        BY <3>1
      <3>3. QED
        BY <2>2, <2>4, <3>2 DEF Payout!Select, Payout!CallGoes
    <2>5. ASSUME NEW w \in Payout!Workers, NEW o \in Orders, Payout!LockRow(w, o)
          PROVE  SettledFirst'
      <3>1. [author |-> call[w].author, todo |-> call[w].todo \ {o},
             locked |-> IF binding[o] = NoPayout THEN call[w].locked \cup {o} ELSE call[w].locked]
               \in CallsOn(settled)
        BY <2>5 DEF Payout!LockRow
      <3>2. QED
        BY <2>2, <2>5, <3>1 DEF Payout!LockRow, Payout!CallGoes
    <2>6. ASSUME NEW w \in Payout!Workers, NEW p \in Payouts, Payout!CreatePayout(w, p)
          PROVE  SettledFirst'
      <3>1. call[w].locked \in SUBSET settled
        OBVIOUS
      <3>2. items' \in [Payouts -> SUBSET settled]
        BY <2>6, <3>1 DEF Payout!CreatePayout
      <3>3. call' \in [Payout!Workers -> CallsOn(settled)]
        BY <2>3, <2>6 DEF Payout!CreatePayout, Payout!EndCall
      <3>4. QED
        BY <2>1, <3>2, <3>3 DEF Payout!Workers
    <2>7. ASSUME NEW w \in Payout!Workers, Payout!EndCall(w), UNCHANGED items
          PROVE  SettledFirst'
      BY <2>2, <2>3, <2>7 DEF Payout!EndCall
    <2>8. ASSUME NEW s \in Schedulers, Payout!BatchStep(s)
          PROVE  SettledFirst'
      <3>1. s \in Payout!Workers
        BY DEF Payout!Workers
      <3>2. ASSUME NEW a \in Authors, Payout!PayAuthor(s, a)
            PROVE  SettledFirst'
        BY <2>4, <3>1, <3>2 DEF Payout!PayAuthor
      <3>3. CASE Payout!Die(s)
        BY <2>7, <3>1, <3>3 DEF Payout!Die
      <3>4. ASSUME NEW a \in Authors, Payout!SkipAuthor(s, a) \/ Payout!LookupRaises(s, a)
            PROVE  SettledFirst'
        BY <1>3, <3>4 DEF Payout!SkipAuthor, Payout!LookupRaises
      <3>5. CASE Payout!Tick(s) \/ Payout!Claim(s) \/ Payout!ListAuthors(s) \/ Payout!FinishBatch(s)
        BY <1>3, <3>5 DEF Payout!Tick, Payout!Claim, Payout!ListAuthors, Payout!FinishBatch
      <3>6. QED
        BY <2>8, <3>2, <3>3, <3>4, <3>5 DEF Payout!BatchStep
    <2>9. CASE Payout!OrderStep \/ (\E o \in Orders : Payout!Age(o)) \/ Payout!NextWednesday
      BY <1>3, <2>9 DEF Payout!OrderStep, Payout!Age, Payout!NextWednesday
    <2>10. ASSUME NEW w \in Writers, NEW a \in Authors, Payout!StartUpsert(w, a) \/ Payout!InsertAccount(w, a)
           PROVE  SettledFirst'
      BY <1>3, <2>10 DEF Payout!StartUpsert, Payout!InsertAccount
    <2>11. ASSUME NEW c \in Callers, NEW a \in Authors, Payout!RequestPayout(c, a)
           PROVE  SettledFirst'
      BY <2>4, <2>11 DEF Payout!RequestPayout, Payout!Workers
    <2>12. ASSUME NEW c \in Callers, Payout!Abort(c)
           PROVE  SettledFirst'
      BY <2>7, <2>12 DEF Payout!Abort, Payout!Workers
    <2>13. ASSUME NEW w \in Payout!Workers, Payout!NothingLeft(w)
           PROVE  SettledFirst'
      BY <2>7, <2>13 DEF Payout!NothingLeft
    <2>14. ASSUME NEW p \in Payouts, Payout!Approve(p) \/ Payout!MarkPaid(p) \/ Payout!Reject(p)
           PROVE  SettledFirst'
      BY <1>3, <2>14 DEF Payout!Approve, Payout!MarkPaid, Payout!Reject
    <2>15. QED
      BY <1>5, <2>5, <2>6, <2>8, <2>9, <2>10, <2>11, <2>12, <2>13, <2>14 DEF Payout!Next
  <1>6. QED
    BY <1>4, <1>5 DEF MoneyNext

\* An author is paid with money that came in: every sale that was added up into a
\* payout was captured by the PG, whatever became of it since.
THEOREM PayoutsAreBackedHolds == MoneySpec => []PayoutsAreBacked
  <1>1. IInv /\ SettledFirst => PayoutsAreBacked
    <2> SUFFICES ASSUME IInv, SettledFirst, NEW p \in Payouts, NEW o \in items[p]
                 PROVE  /\ o \in Rated /\ pg[o] # "READY" /\ status[o] \in {"PAID", "REFUNDED"}
                        /\ status[o] = "REFUNDED" => pg[o] \in MoneyBack
      BY DEF PayoutsAreBacked
    <2>1. o \in settled /\ o \in Orders
      BY DEF SettledFirst, IInv, TypeOK
    <2>2. QED
      BY <2>1 DEF IInv, SettledTogether, PaidIsCaptured, RefundedIsCanceled
  <1>2. IInv /\ SettledFirst /\ [MoneyNext]_moneyVars => SettledFirst'
    BY SettledFirstNext
  <1>3. QED
    BY <1>1, <1>2, SettledFirstInit, BillingGoesOn, SpecIInv, PTL DEF MoneySpec
=============================================================================
