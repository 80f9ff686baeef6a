------------------------------- MODULE Orders -------------------------------
(***************************************************************************)
(* Billing: orders, their settlement rows, and the payment gateway (PG).  *)
(*                                                                         *)
(* A handler is a request that runs to an await -- a database transaction *)
(* or a PG call -- and goes on with what it read before.  Each request is *)
(* a record [pc, order]: where it stands and the order it holds.  Several *)
(* requests run at once, may die at any await (the process stops, the     *)
(* client is gone, an exception escapes), and a PG call may time out      *)
(* while the PG still carries it out later.                               *)
(*                                                                         *)
(* An order id is fresh when it is drawn, so the columns that are written *)
(* once, with the row, are a constant function of the id.                 *)
(***************************************************************************)
EXTENDS Settlement

CONSTANTS Orders,    \* order ids
          Buyers,    \* accounts that buy
          Operators, \* accounts of the operator console
          Books,
          OrderRow,  \* the buyer, book and channel of every order
          Requests,  \* handlers that can run at the same time
          Prices,    \* what a book may cost
          NoPrice,   \* get_purchasable_price of a book that is not on sale
          NoOrder    \* a request that holds no order

Channels == {SELF, EXTERNAL, REVIEW}

ASSUME OrdersAssumption ==
    /\ OrderRow \in [Orders -> [buyer : Buyers, book : Books, channel : Channels]]
    /\ NoOrder \notin Orders
    /\ Buyers \cap Operators = {}
    /\ NoPrice \notin Prices

VARIABLES
    status,       \* book_order.status_cd; "NONE" before the row is inserted
    settled,      \* orders that have a settlement row (order_id is UNIQUE)
    pgTx,         \* orders with pg_tx_id set
    delivered,    \* orders with delivered_ts set
    pg,           \* the payment of an order, at the PG
    lateConfirm,  \* confirm calls that timed out and may still reach the PG
    lateCancel,   \* cancel calls that timed out and may still reach the PG
    notices,      \* webhooks about changed payments, not yet answered
    req           \* the requests

dbVars == <<status, settled, pgTx, delivered>>
pgVars == <<pg, lateConfirm, lateCancel, notices>>
vars   == <<status, settled, pgTx, delivered, pg, lateConfirm, lateCancel, notices, req>>

OrderStatus   == {"NONE", "PENDING", "PAID", "REFUNDED"}
PaymentStatus == {"READY", "DONE", "PARTIAL_CANCELED", "CANCELED"}
MoneyBack     == {"PARTIAL_CANCELED", "CANCELED"}
Steps == {"inserting", "granting", "verifying", "recording", "cancelling",
          "marking", "lookup", "syncing"}
Idle    == [pc |-> "idle", order |-> NoOrder]
Running == [pc : Steps, order : Orders]

TypeOK ==
    /\ status \in [Orders -> OrderStatus]
    /\ settled \subseteq Orders
    /\ pgTx \subseteq Orders
    /\ delivered \subseteq Orders
    /\ pg \in [Orders -> PaymentStatus]
    /\ lateConfirm \subseteq Orders
    /\ lateCancel \subseteq Orders
    /\ notices \subseteq Orders
    /\ req \in [Requests -> Running \cup {Idle}]

Init ==
    /\ status = [o \in Orders |-> "NONE"]
    /\ settled = {} /\ pgTx = {} /\ delivered = {}
    /\ pg = [o \in Orders |-> "READY"]
    /\ lateConfirm = {} /\ lateCancel = {} /\ notices = {}
    /\ req = [r \in Requests |-> Idle]

-----------------------------------------------------------------------------
(* Requests *)

Begin(r, step, o) == /\ req[r] = Idle
                     /\ req' = [req EXCEPT ![r] = [pc |-> step, order |-> o]]
GoOn(r, step)     == req' = [req EXCEPT ![r].pc = step]
End(r)            == req' = [req EXCEPT ![r] = Idle]

\* Request r stands at this step, holding order o.
At(r, step, o) == req[r] = [pc |-> step, order |-> o]

\* An id nobody else has drawn.
Fresh(o) == status[o] = "NONE" /\ \A r \in Requests : req[r].order # o

Owns(buyer, book) == \E o \in Orders : /\ OrderRow[o].buyer = buyer
                                       /\ OrderRow[o].book = book
                                       /\ status[o] = "PAID"

-----------------------------------------------------------------------------
(* Placing an order.  Price, rating and verified tier come from lookups;  *)
(* the four checks are the code's, in its order.  The insert is another   *)
(* transaction: an order of the same buyer may be paid in between.        *)

Tiers == 0..3  \* ranks of ALL, AGE12, AGE15, AGE18
IsBookAccessible(rating, tier) == tier >= rating

StartOrder(r, o, consent, price, rating, tier) ==
    /\ Fresh(o)
    /\ consent
    /\ price # NoPrice
    /\ IsBookAccessible(rating, tier)
    /\ ~Owns(OrderRow[o].buyer, OrderRow[o].book)
    /\ Begin(r, "inserting", o)
    /\ UNCHANGED <<dbVars, pgVars>>

InsertOrder(r, o) ==
    /\ At(r, "inserting", o)
    /\ status' = [status EXCEPT ![o] = "PENDING"]
    /\ End(r)
    /\ UNCHANGED <<settled, pgTx, delivered, pgVars>>

\* A review copy: a PAID order of amount 0, unless the account owns the book.
StartGrant(r, o) ==
    /\ Fresh(o)
    /\ OrderRow[o].channel = REVIEW
    /\ ~Owns(OrderRow[o].buyer, OrderRow[o].book)
    /\ Begin(r, "granting", o)
    /\ UNCHANGED <<dbVars, pgVars>>

InsertGrant(r, o) ==
    /\ At(r, "granting", o)
    /\ status' = [status EXCEPT ![o] = "PAID"]
    /\ End(r)
    /\ UNCHANGED <<settled, pgTx, delivered, pgVars>>

-----------------------------------------------------------------------------
(* Confirming a payment *)

\* Only the buyer may confirm, and only an order that is not PAID when read.
StartConfirm(r, o, caller) ==
    /\ status[o] \notin {"NONE", "PAID"}
    /\ OrderRow[o].buyer = caller
    /\ Begin(r, "verifying", o)
    /\ UNCHANGED <<dbVars, pgVars>>

\* A payment changes at the PG, and the PG announces it.
PgBecomes(o, state) == /\ pg' = [pg EXCEPT ![o] = state]
                       /\ notices' = IF pg[o] = state THEN notices ELSE notices \cup {o}

\* The PG captures the payment.  The order id is the idempotency key: the
\* answer to a confirm that was carried out before is given again.
Capture(o) == PgBecomes(o, IF pg[o] = "READY" THEN "DONE" ELSE pg[o])

\* Mutant: without the idempotency key a repeated confirm is refused.
VerifyOkWithoutKey(r, o) ==
    /\ At(r, "verifying", o)
    /\ pg[o] = "READY"
    /\ Capture(o)
    /\ GoOn(r, "recording")
    /\ UNCHANGED <<dbVars, lateConfirm, lateCancel>>

VerifyOk(r, o) ==
    /\ At(r, "verifying", o)
    /\ Capture(o)
    /\ GoOn(r, "recording")
    /\ UNCHANGED <<dbVars, lateConfirm, lateCancel>>

VerifyRefused(r, o) ==
    /\ At(r, "verifying", o)
    /\ End(r)
    /\ UNCHANGED <<dbVars, pgVars>>

\* Mutant: no answer is taken for an approval.
VerifyTimeoutApproves(r, o) ==
    /\ At(r, "verifying", o)
    /\ lateConfirm' = lateConfirm \cup {o}
    /\ GoOn(r, "recording")
    /\ UNCHANGED <<dbVars, pg, lateCancel, notices>>

VerifyTimeout(r, o) ==
    /\ At(r, "verifying", o)
    /\ lateConfirm' = lateConfirm \cup {o}
    /\ End(r)
    /\ UNCHANGED <<dbVars, pg, lateCancel, notices>>

LateCapture(o) ==
    /\ o \in lateConfirm
    /\ lateConfirm' = lateConfirm \ {o}
    /\ Capture(o)
    /\ UNCHANGED <<dbVars, lateCancel, req>>

\* Mutants of RecordPaid: without the UNIQUE constraint on the settlement's
\* order, and with the settlement left to a later step.
RecordPaidTwice(r, o) ==
    /\ At(r, "recording", o)
    /\ OrderRow[o].channel \in DOMAIN AuthorRate
    /\ status[o] # "PAID"
    /\ status' = [status EXCEPT ![o] = "PAID"]
    /\ settled' = settled \cup {o}
    /\ pgTx' = pgTx \cup {o}
    /\ End(r)
    /\ UNCHANGED <<delivered, pgVars>>

RecordPaidOnly(r, o) ==
    /\ At(r, "recording", o)
    /\ status[o] = "PENDING"
    /\ status' = [status EXCEPT ![o] = "PAID"]
    /\ pgTx' = pgTx \cup {o}
    /\ End(r)
    /\ UNCHANGED <<settled, delivered, pgVars>>

\* One transaction under the row lock writes PAID and the settlement.  It
\* happens unless the channel has no rate, the order is PAID by now, or a
\* settlement of the order exists: the UNIQUE constraint fails the insert.
RecordPaid(r, o) ==
    /\ At(r, "recording", o)
    /\ OrderRow[o].channel \in DOMAIN AuthorRate
    /\ status[o] # "PAID"
    /\ o \notin settled
    /\ status' = [status EXCEPT ![o] = "PAID"]
    /\ settled' = settled \cup {o}
    /\ pgTx' = pgTx \cup {o}
    /\ End(r)
    /\ UNCHANGED <<delivered, pgVars>>

RecordNothing(r, o) ==
    /\ At(r, "recording", o)
    /\ \/ OrderRow[o].channel \notin DOMAIN AuthorRate  \* ValueError
       \/ status[o] = "PAID"                             \* silent no-op
       \/ o \in settled                                  \* IntegrityError
    /\ End(r)
    /\ UNCHANGED <<dbVars, pgVars>>

-----------------------------------------------------------------------------
(* Refunding, by the buyer or by an operator *)

StartRefund(r, o, caller) ==
    /\ status[o] = "PAID"
    /\ caller \in Operators \/ OrderRow[o].buyer = caller
    /\ Begin(r, "cancelling", o)
    /\ UNCHANGED <<dbVars, pgVars>>

\* The PG cancels what is left of a captured payment.  The idempotency key
\* refund-<order> makes a repeated cancel answer like the first.
Cancel(o) == pg[o] # "READY" /\ PgBecomes(o, "CANCELED")

\* Mutant: the refund is recorded before the PG has canceled.
CancelUnawaited(r, o) ==
    /\ At(r, "cancelling", o)
    /\ o \in pgTx
    /\ lateCancel' = lateCancel \cup {o}
    /\ GoOn(r, "marking")
    /\ UNCHANGED <<dbVars, pg, lateConfirm, notices>>

CancelOk(r, o) ==
    /\ At(r, "cancelling", o)
    /\ o \in pgTx  \* a review copy has no pg_tx_id to cancel
    /\ Cancel(o)
    /\ GoOn(r, "marking")
    /\ UNCHANGED <<dbVars, lateConfirm, lateCancel>>

CancelRefused(r, o) ==
    /\ At(r, "cancelling", o)
    /\ End(r)
    /\ UNCHANGED <<dbVars, pgVars>>

CancelTimeout(r, o) ==
    /\ At(r, "cancelling", o)
    /\ lateCancel' = IF o \in pgTx THEN lateCancel \cup {o} ELSE lateCancel
    /\ End(r)
    /\ UNCHANGED <<dbVars, pg, lateConfirm, notices>>

LateCancel(o) ==
    /\ o \in lateCancel
    /\ lateCancel' = lateCancel \ {o}
    /\ Cancel(o)
    /\ UNCHANGED <<dbVars, lateConfirm, req>>

\* Somebody cancels the payment, or a part of it, in the PG's dashboard.
DashboardCancel(o, state) ==
    /\ pg[o] \in {"DONE", "PARTIAL_CANCELED"}
    /\ PgBecomes(o, state)
    /\ UNCHANGED <<dbVars, lateConfirm, lateCancel, req>>

\* Mutant: the PG's word for the state is stored as the order's.
MarkCanceled(r, o) ==
    /\ At(r, "marking", o) \/ At(r, "syncing", o)
    /\ status' = IF status[o] = "PAID" THEN [status EXCEPT ![o] = "CANCELED"] ELSE status
    /\ End(r)
    /\ UNCHANGED <<settled, pgTx, delivered, pgVars>>

\* PAID -> REFUNDED under the row lock; anything else is left alone.
MarkRefunded(r, o) ==
    /\ At(r, "marking", o) \/ At(r, "syncing", o)
    /\ status' = IF status[o] = "PAID" THEN [status EXCEPT ![o] = "REFUNDED"] ELSE status
    /\ End(r)
    /\ UNCHANGED <<settled, pgTx, delivered, pgVars>>

-----------------------------------------------------------------------------
(* The webhook: nothing of its body is believed but the order id.  The    *)
(* endpoint answers 200 whatever happens, so the PG sends a notice again  *)
(* only if the process died before the answer.                            *)

StartReconcile(r, o) ==
    /\ o \in notices
    /\ notices' = notices \ {o}
    /\ IF status[o] = "PAID" /\ o \in pgTx
       THEN Begin(r, "lookup", o)
       ELSE req[r] = Idle /\ UNCHANGED req
    /\ UNCHANGED <<dbVars, pg, lateConfirm, lateCancel>>

LookupCanceled(r, o) ==
    /\ At(r, "lookup", o)
    /\ pg[o] \in MoneyBack
    /\ GoOn(r, "syncing")
    /\ UNCHANGED <<dbVars, pgVars>>

LookupFails(r, o) ==
    /\ At(r, "lookup", o)
    /\ End(r)
    /\ UNCHANGED <<dbVars, pgVars>>

-----------------------------------------------------------------------------
\* The buyer opens the full text: every paid copy counts as delivered.
MarkDelivered(buyer, book) ==
    LET copies == {o \in Orders : /\ OrderRow[o].buyer = buyer
                                  /\ OrderRow[o].book = book
                                  /\ status[o] = "PAID"
                                  /\ o \notin delivered}
    IN  /\ copies # {}
        /\ delivered' = delivered \cup copies
        /\ UNCHANGED <<status, settled, pgTx, pgVars, req>>

\* The process dies or an exception ends the request at an await.
Crash(r) ==
    /\ req[r] # Idle
    /\ notices' = IF req[r].pc \in {"lookup", "syncing"}
                  THEN notices \cup {req[r].order} ELSE notices
    /\ End(r)
    /\ UNCHANGED <<dbVars, pg, lateConfirm, lateCancel>>

Step(r, o) ==
    \/ InsertOrder(r, o) \/ StartGrant(r, o) \/ InsertGrant(r, o)
    \/ VerifyOk(r, o) \/ VerifyRefused(r, o) \/ VerifyTimeout(r, o)
    \/ RecordPaid(r, o) \/ RecordNothing(r, o)
    \/ CancelOk(r, o) \/ CancelRefused(r, o) \/ CancelTimeout(r, o)
    \/ MarkRefunded(r, o)
    \/ StartReconcile(r, o) \/ LookupCanceled(r, o) \/ LookupFails(r, o)

Next ==
    \/ \E r \in Requests, o \in Orders :
        \/ Step(r, o)
        \/ \E consent \in BOOLEAN, price \in Prices \cup {NoPrice}, rating, tier \in Tiers :
              StartOrder(r, o, consent, price, rating, tier)
        \/ \E caller \in Buyers : StartConfirm(r, o, caller)
        \/ \E caller \in Buyers \cup Operators : StartRefund(r, o, caller)
    \/ \E o \in Orders : LateCapture(o) \/ LateCancel(o)
    \/ \E o \in Orders, state \in MoneyBack : DashboardCancel(o, state)
    \/ \E buyer \in Buyers, book \in Books : MarkDelivered(buyer, book)
    \/ \E r \in Requests : Crash(r)

Spec == Init /\ [][Next]_vars

-----------------------------------------------------------------------------
(* Properties *)

Rated == {o \in Orders : OrderRow[o].channel \in DOMAIN AuthorRate}

\* The entitlement, the settlement and the PG reference of a sale stand and
\* fall together: whatever interleaving of confirms, refunds, webhooks and
\* crashes, an order is PAID or REFUNDED exactly when it has its settlement.
SettledIsPaid ==
    \A o \in Rated : /\ o \in settled <=> status[o] \in {"PAID", "REFUNDED"}
                     /\ o \in settled <=> o \in pgTx

\* Nobody owns a book, and no author is credited, without a payment the PG
\* has captured.
PaidIsCaptured == \A o \in settled : pg[o] # "READY"

\* An entitlement is withdrawn only after money went back: a REFUNDED order
\* is canceled at the PG -- wholly, or in part, which the code takes for the
\* same -- also when answers were lost or came late.
RefundedIsCanceled == \A o \in Orders : status[o] = "REFUNDED" => pg[o] \in MoneyBack

\* A refunded order stays refunded, although confirm_payment lets it through
\* to the PG and the PG repeats its old approval.
RefundIsFinal == [][\A o \in Orders : status[o] = "REFUNDED" => status'[o] = "REFUNDED"]_vars

\* Billing implements the order lifecycle.
Life == INSTANCE OrderLifecycle WITH Settled <- Rated
ImplementsLifecycle == Life!LifeSpec

\* The comment at order_repo.py list_purchased_books says there is one PAID
\* order per purchase, duplicates being blocked by AlreadyOwned.
OneCopyPerBuyer ==
    \A o, p \in Orders :
        /\ status[o] = "PAID" /\ status[p] = "PAID"
        /\ OrderRow[o].buyer = OrderRow[p].buyer
        /\ OrderRow[o].book = OrderRow[p].book
        => o = p

\* The request schema says the channel is SELF or EXTERNAL, so a captured
\* payment could always be settled.
CapturedIsSettleable == \A o \in Orders : pg[o] = "DONE" => OrderRow[o].channel \in {SELF, EXTERNAL}

\* The order model says that a sale cannot be withdrawn from once its delivery
\* has begun (where no operator steps in).
NoWithdrawalAfterDelivery ==
    [][\A r \in Requests, o \in delivered, caller \in Buyers :
          ~StartRefund(r, o, caller)]_vars

\* The webhook brings an order in line with a payment canceled at the PG.
CanceledIsReconciled ==
    \A o \in Orders : status[o] = "PAID" /\ pg[o] \in MoneyBack ~> status[o] = "REFUNDED"

\* A captured payment is recorded if the buyer keeps confirming and the PG
\* and the database answer again and again.
CapturedIsRecorded ==
    \A o \in Rated : pg[o] = "DONE" /\ status[o] = "PENDING" ~> status[o] # "PENDING"

\* The server goes on with every request it has begun, and the PG with every
\* notice; nothing is assumed of what the PG answers.
Progress(r, o) == \/ InsertOrder(r, o) \/ InsertGrant(r, o)
                  \/ VerifyOk(r, o) \/ VerifyRefused(r, o)
                  \/ RecordPaid(r, o) \/ RecordNothing(r, o)
                  \/ CancelOk(r, o) \/ CancelRefused(r, o)
                  \/ MarkRefunded(r, o)
                  \/ LookupCanceled(r, o) \/ LookupFails(r, o)

RequestFairness == \A r \in Requests : WF_vars(\E o \in Orders : Progress(r, o))
ServerFairness == /\ RequestFairness
                  /\ \A o \in Orders : SF_vars(\E r \in Requests : StartReconcile(r, o))

FairSpec == Spec /\ ServerFairness

\* The environment of CapturedIsRecorded: the buyer of a pending order does
\* not give up confirming it, and not every attempt is refused or dies.
RetryFairness ==
    \A o \in Orders :
        /\ SF_vars(\E r \in Requests, caller \in Buyers : StartConfirm(r, o, caller))
        /\ SF_vars(\E r \in Requests : VerifyOk(r, o))
        /\ SF_vars(\E r \in Requests : RecordPaid(r, o))

RetrySpec == Spec /\ RequestFairness /\ RetryFairness
=============================================================================
