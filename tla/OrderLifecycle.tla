--------------------------- MODULE OrderLifecycle ---------------------------
(***************************************************************************)
(* What billing promises about an order, seen from outside: it is placed, *)
(* paid (its settlement is written in the same step) and perhaps refunded *)
(* -- each at most once and in this order.  A free review copy starts as  *)
(* PAID and never has a settlement.  Orders implements this; Payouts uses *)
(* it as its environment.                                                 *)
(***************************************************************************)
CONSTANTS Orders,   \* order ids
          Settled   \* the orders whose channel has an author rate

ASSUME LifecycleAssumption == Settled \subseteq Orders

VARIABLES status,     \* book_order.status_cd, "NONE" before the row exists
          settled,    \* orders that have a settlement row
          delivered   \* orders with delivered_ts set

lifeVars == <<status, settled, delivered>>

OrderStatus == {"NONE", "PENDING", "PAID", "REFUNDED"}

LifeTypeOK == /\ status \in [Orders -> OrderStatus]
              /\ settled \subseteq Settled
              /\ delivered \subseteq Orders

LifeInit == /\ status = [o \in Orders |-> "NONE"]
            /\ settled = {}
            /\ delivered = {}

Place(o) ==
    /\ status[o] = "NONE"
    /\ status' = [status EXCEPT ![o] = "PENDING"]
    /\ UNCHANGED <<settled, delivered>>

Grant(o) ==
    /\ status[o] = "NONE"
    /\ o \notin Settled
    /\ status' = [status EXCEPT ![o] = "PAID"]
    /\ UNCHANGED <<settled, delivered>>

Pay(o) ==
    /\ status[o] = "PENDING"
    /\ o \in Settled
    /\ status' = [status EXCEPT ![o] = "PAID"]
    /\ settled' = settled \cup {o}
    /\ UNCHANGED delivered

Refund(o) ==
    /\ status[o] = "PAID"
    /\ o \in settled
    /\ status' = [status EXCEPT ![o] = "REFUNDED"]
    /\ UNCHANGED <<settled, delivered>>

Deliver(copies) ==
    /\ copies # {}
    /\ \A o \in copies : status[o] = "PAID" /\ o \notin delivered
    /\ delivered' = delivered \cup copies
    /\ UNCHANGED <<status, settled>>

LifeNext == \/ \E o \in Orders : Place(o) \/ Grant(o) \/ Pay(o) \/ Refund(o)
            \/ \E copies \in SUBSET Orders : Deliver(copies)

LifeSpec == LifeInit /\ [][LifeNext]_lifeVars
=============================================================================
