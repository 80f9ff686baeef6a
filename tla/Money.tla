-------------------------------- MODULE Money --------------------------------
(***************************************************************************)
(* Billing and payouts over one database: Orders in place of the abstract  *)
(* lifecycle that Payouts takes for its environment.  They share the       *)
(* tables book_order and settlement, which billing writes and payouts read *)
(* (payouts write settlement.payout_id, which billing reads for a warning  *)
(* only).                                                                  *)
(***************************************************************************)
EXTENDS Orders

CONSTANTS Authors, AuthorOf, Payouts, Callers, Schedulers, Writers, MaxRejects, NoAuthor, NoPayout

VARIABLES aged, binding, pstatus, items, bank, writer, call, runRow, batch

Payout == INSTANCE Payouts WITH Settled <- Rated

payoutVars == <<aged, binding, pstatus, items, bank, writer, call, runRow, batch>>
moneyVars  == <<vars, payoutVars>>

MoneyInit == Init /\ Payout!Init

\* A request of billing, or of the PG; a step of payouts that is not one of
\* its environment.
MoneyNext == \/ Next /\ UNCHANGED payoutVars
             \/ Payout!Next /\ UNCHANGED vars

MoneySpec == MoneyInit /\ [][MoneyNext]_moneyVars

\* Whatever requests, webhooks, batches and operators overlap, what is added up
\* into a payout are sales of a rated channel (never a free review copy) whose
\* money the PG captured, and if one was refunded since, money did go back.
PayoutsAreBacked ==
    \A p \in Payouts : \A o \in items[p] :
        /\ o \in Rated
        /\ pg[o] # "READY"
        /\ status[o] \in {"PAID", "REFUNDED"}
        /\ status[o] = "REFUNDED" => pg[o] \in MoneyBack
=============================================================================
