-------------------------- MODULE PayoutSumsProofs --------------------------
(***************************************************************************)
(* The amounts of a payout, for sales of any amount and payouts of any    *)
(* number of rows: nothing is lost to rounding, and the tax withheld      *)
(* drifts from 3.3% by at most half a won per row.                        *)
(***************************************************************************)
EXTENDS PayoutSums, TLAPS

\* Rounding is exact to half a unit, and stays between the bounds of the part.
LEMMA WonRounds ==
    ASSUME NEW amount \in Nat, NEW rate \in {70, 60}
    PROVE  Won(amount * rate, 100) \in 0..amount
  BY DEF Won

LEMMA WithheldRounds ==
    ASSUME NEW gross \in Nat
    PROVE  LET tax == Won(gross * WithholdingRate, 1000)
           IN  /\ tax \in 0..gross
               /\ 1000 * tax - 33 * gross <= 500
               /\ 33 * gross - 1000 * tax <= 500
  BY DEF Won, WithholdingRate

\* One sale: its split is exact, no part is negative, and the tax is 3.3% of
\* the author's share rounded to a won.
LEMMA SaleSplits ==
    ASSUME NEW sale \in Nat, NEW channel \in DOMAIN AuthorRate, NEW individual \in BOOLEAN
    PROVE  LET row == CalculateSettlement(sale, channel, individual)
           IN  /\ row.gross \in 0..sale /\ row.withholding \in 0..row.gross
               /\ row.fee = sale - row.gross
               /\ row.payout = row.gross - row.withholding
               /\ individual => /\ 1000 * row.withholding - 33 * row.gross <= 500
                                /\ 33 * row.gross - 1000 * row.withholding <= 500
               /\ ~individual => row.withholding = 0
  <1> DEFINE gross == AuthorGross(sale, channel)
             tax   == Withholding(gross, individual)
  <1>1. AuthorRate[channel] \in {70, 60}
    BY DEF AuthorRate, SELF, EXTERNAL
  <1>2. gross \in 0..sale
    BY <1>1, WonRounds DEF AuthorGross
  <1>3. /\ tax \in 0..gross
        /\ individual => 1000 * tax - 33 * gross <= 500 /\ 33 * gross - 1000 * tax <= 500
        /\ ~individual => tax = 0
    <2>1. gross \in Nat
      BY <1>2
    <2> HIDE DEF gross
    <2>2. QED
      BY <2>1, WithheldRounds DEF Withholding
  <1>4. CalculateSettlement(sale, channel, individual)
          = [gross |-> gross, fee |-> sale - gross, withholding |-> tax, payout |-> gross - tax]
    BY DEF CalculateSettlement, PlatformFee
  <1> HIDE DEF gross, tax
  <1>5. QED
    BY <1>2, <1>3, <1>4

-----------------------------------------------------------------------------
(* The sums keep what holds of every row. *)

Exact(sums) == /\ EveryWonAssigned(sums)
               /\ sums.net = sums.gross - sums.withholding
               /\ sums.withholding <= sums.gross
               /\ sums.gross <= sums.sold
               /\ IsIndividual => /\ 1000 * sums.withholding - 33 * sums.gross <= 500 * sums.count
                                  /\ 33 * sums.gross - 1000 * sums.withholding <= 500 * sums.count
               /\ ~IsIndividual => sums.withholding = 0

IInv == SumsTypeOK /\ Exact(unpaid) /\ Exact(payout)

LEMMA NoRowsExact == NoRows \in Sums /\ Exact(NoRows)
  BY DEF NoRows, Sums, Exact, EveryWonAssigned

LEMMA ConfirmKeeps ==
    ASSUME IInv, NEW sale \in Sales, NEW channel \in DOMAIN AuthorRate, ConfirmSale(sale, channel)
    PROVE  IInv'
  <1> DEFINE row == CalculateSettlement(sale, channel, IsIndividual)
  <1>1. /\ row.gross \in 0..sale /\ row.withholding \in 0..row.gross
        /\ row.fee = sale - row.gross
        /\ row.payout = row.gross - row.withholding
        /\ IsIndividual => /\ 1000 * row.withholding - 33 * row.gross <= 500
                           /\ 33 * row.gross - 1000 * row.withholding <= 500
        /\ ~IsIndividual => row.withholding = 0
    BY SaleSplits, SumsAssumption
  <1>2. sale \in Nat /\ unpaid \in Sums
    BY SumsAssumption DEF IInv, SumsTypeOK
  <1>3. /\ unpaid' = [count       |-> unpaid.count + 1,
                      sold        |-> unpaid.sold + sale,
                      fee         |-> unpaid.fee + row.fee,
                      gross       |-> unpaid.gross + row.gross,
                      withholding |-> unpaid.withholding + row.withholding,
                      net         |-> unpaid.net + row.payout]
        /\ payout' = payout
    BY DEF ConfirmSale
  <1> HIDE DEF row
  <1>4. unpaid' \in Sums
    BY <1>1, <1>2, <1>3 DEF Sums
  <1>5. Exact(unpaid)'
    <2>1. /\ unpaid.count \in Nat /\ unpaid.sold \in Nat /\ unpaid.fee \in Nat
          /\ unpaid.gross \in Nat /\ unpaid.withholding \in Nat /\ unpaid.net \in Nat
      BY <1>2 DEF Sums
    <2>2. row.gross \in Nat /\ row.withholding \in Nat
      BY <1>1, <1>2
    <2>3. /\ unpaid'.count = unpaid.count + 1
          /\ unpaid'.sold = unpaid.sold + sale
          /\ unpaid'.fee = unpaid.fee + row.fee
          /\ unpaid'.gross = unpaid.gross + row.gross
          /\ unpaid'.withholding = unpaid.withholding + row.withholding
          /\ unpaid'.net = unpaid.net + row.payout
      BY <1>3
    <2>4. Exact(unpaid)
      BY DEF IInv
    <2>5. EveryWonAssigned(unpaid)'
      BY <1>1, <1>2, <2>1, <2>2, <2>3, <2>4 DEF Exact, EveryWonAssigned
    <2>6. /\ unpaid'.net = unpaid'.gross - unpaid'.withholding
          /\ unpaid'.withholding <= unpaid'.gross /\ unpaid'.gross <= unpaid'.sold
      BY <1>1, <1>2, <2>1, <2>2, <2>3, <2>4 DEF Exact
    <2>7. ASSUME IsIndividual
          PROVE  /\ 1000 * unpaid'.withholding - 33 * unpaid'.gross <= 500 * unpaid'.count
                 /\ 33 * unpaid'.gross - 1000 * unpaid'.withholding <= 500 * unpaid'.count
      BY <1>1, <2>1, <2>2, <2>3, <2>4, <2>7 DEF Exact
    <2>8. ASSUME ~IsIndividual
          PROVE  unpaid'.withholding = 0
      BY <1>1, <2>1, <2>3, <2>4, <2>8 DEF Exact
    <2>9. QED
      BY <2>5, <2>6, <2>7, <2>8 DEF Exact
  <1>6. QED
    BY <1>3, <1>4, <1>5 DEF IInv, SumsTypeOK, Exact, EveryWonAssigned

LEMMA IInvHolds == SumsSpec => []IInv
  <1>1. SumsInit => IInv
    BY NoRowsExact DEF SumsInit, IInv, SumsTypeOK
  <1>2. IInv /\ CreatePayout => IInv'
    BY NoRowsExact DEF CreatePayout, IInv, SumsTypeOK, Exact, EveryWonAssigned
  <1>3. IInv /\ UNCHANGED sumsVars => IInv'
    BY DEF sumsVars, IInv, SumsTypeOK, Exact, EveryWonAssigned
  <1>4. IInv /\ [SumsNext]_sumsVars => IInv'
    BY <1>2, <1>3, ConfirmKeeps DEF SumsNext
  <1>5. QED
    BY <1>1, <1>4, PTL DEF SumsSpec

\* Every won of the sales in a payout is assigned to exactly one party.
THEOREM PayoutBalancesHolds == SumsSpec => []PayoutBalances
  <1>1. IInv => PayoutBalances
    BY DEF IInv, Exact, PayoutBalances
  <1>2. QED
    BY <1>1, IInvHolds, PTL

\* The tax withheld is within half a won per row of 3.3% of the gross amount.
THEOREM WithholdingDriftBoundedHolds == SumsSpec => []WithholdingDriftBounded
  <1>1. IInv => WithholdingDriftBounded
    BY DEF IInv, Exact, WithholdingDriftBounded
  <1>2. QED
    BY <1>1, IInvHolds, PTL
=============================================================================
