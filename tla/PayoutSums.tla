----------------------------- MODULE PayoutSums -----------------------------
(***************************************************************************)
(* The amounts of one author: settlements accumulate as orders are        *)
(* confirmed, and a payout adds up the three amount columns of the rows   *)
(* it takes.  The rows matter only through their sums, so the state keeps *)
(* the sums of the unpaid rows and the sums written into the last payout. *)
(***************************************************************************)
EXTENDS Settlement

CONSTANTS Sales,        \* the amounts orders are sold at (won)
          MaxRows,      \* bound: unpaid settlements of the author
          IsIndividual  \* OrderService.is_individual

ASSUME SumsAssumption == /\ Sales \subseteq Nat
                         /\ MaxRows \in Nat
                         /\ IsIndividual \in BOOLEAN

VARIABLES unpaid,  \* sums over the settlements with payout_id NULL
          payout   \* the amount columns of the last payout created

sumsVars == <<unpaid, payout>>

Sums == [count : Nat, sold : Nat, fee : Nat, gross : Nat, withholding : Nat, net : Nat]
NoRows == [count |-> 0, sold |-> 0, fee |-> 0, gross |-> 0, withholding |-> 0, net |-> 0]

SumsTypeOK == unpaid \in Sums /\ payout \in Sums

SumsInit == unpaid = NoRows /\ payout = NoRows

\* An order of this author is confirmed and its settlement row is written.
ConfirmSale(sale, channel) ==
    LET row == CalculateSettlement(sale, channel, IsIndividual)
    IN  /\ unpaid.count < MaxRows
        /\ unpaid' = [count       |-> unpaid.count + 1,
                      sold        |-> unpaid.sold + sale,
                      fee         |-> unpaid.fee + row.fee,
                      gross       |-> unpaid.gross + row.gross,
                      withholding |-> unpaid.withholding + row.withholding,
                      net         |-> unpaid.net + row.payout]
        /\ UNCHANGED payout

\* All unpaid rows go into one payout; nothing happens when there is none.
CreatePayout ==
    /\ unpaid.count > 0
    /\ payout' = unpaid
    /\ unpaid' = NoRows

SumsNext == \/ \E sale \in Sales, channel \in DOMAIN AuthorRate : ConfirmSale(sale, channel)
        \/ CreatePayout

SumsSpec == SumsInit /\ [][SumsNext]_sumsVars

-----------------------------------------------------------------------------
\* Every won of the sales in a payout goes to exactly one of the author, the
\* tax office and the platform, however the single splits were rounded.
EveryWonAssigned(sums) == sums.sold = sums.fee + sums.withholding + sums.net
PayoutBalances == /\ EveryWonAssigned(unpaid) /\ EveryWonAssigned(payout)
                  /\ payout.net = payout.gross - payout.withholding
                  /\ payout.withholding <= payout.gross
                  /\ payout.gross <= payout.sold

\* docs/settlement-schema.md:62 wants a payout to withhold 3.3% of its gross
\* amount; create_payout adds up the order-wise rounded amounts instead.  The
\* two are off by at most half a won per order: the drift is bounded.
\* (A company is not withheld from.)
WithholdingDriftBounded ==
    /\ IsIndividual => /\ 1000 * payout.withholding - 33 * payout.gross <= 500 * payout.count
                       /\ 33 * payout.gross - 1000 * payout.withholding <= 500 * payout.count
    /\ ~IsIndividual => payout.withholding = 0

=============================================================================
