-------------------------- MODULE SettlementLedger --------------------------
(***************************************************************************)
(* What payouts promise about the money of a sale, seen from outside: the *)
(* author's share is credited once, is bound into one payout at a time    *)
(* together with other open shares of the same author, comes back only if *)
(* that payout is rejected, and is paid once.  Payouts implements this.   *)
(***************************************************************************)
CONSTANTS Orders, Authors, AuthorOf  \* the author of every sale

VARIABLE share  \* where the author's share of a sale stands

ShareStates == {"none", "open", "bound", "paid"}

LedgerTypeOK == share \in [Orders -> ShareStates]

LedgerInit == share = [o \in Orders |-> "none"]

Move(sales, from, to) ==
    /\ sales # {}
    /\ \A o \in sales : share[o] = from
    /\ share' = [o \in Orders |-> IF o \in sales THEN to ELSE share[o]]

OfOneAuthor(sales) == \A o, p \in sales : AuthorOf[o] = AuthorOf[p]

Credit(sale) == Move({sale}, "none", "open")
Bind(sales)  == OfOneAuthor(sales) /\ Move(sales, "open", "bound")
Return(sales) == OfOneAuthor(sales) /\ Move(sales, "bound", "open")
PayOut(sales) == OfOneAuthor(sales) /\ Move(sales, "bound", "paid")

LedgerNext == \/ \E sale \in Orders : Credit(sale)
              \/ \E sales \in SUBSET Orders : Bind(sales) \/ Return(sales) \/ PayOut(sales)

LedgerSpec == LedgerInit /\ [][LedgerNext]_share
=============================================================================
