----------------------------- MODULE Settlement -----------------------------
(***************************************************************************)
(* The settlement engine: how one sale is split between the author, the   *)
(* platform and the tax office.  Amounts are whole won.  Decimal("0.70")  *)
(* and Decimal("0.033") are exact in the code, so the model computes with *)
(* integers: 70 per cent and 33 per mille, and rounds half up as the      *)
(* code's quantize call does on non-negative values.                      *)
(***************************************************************************)
EXTENDS Integers

SELF     == "SELF"      \* sold on the platform's own store
EXTERNAL == "EXTERNAL"  \* sold through an outside book store
REVIEW   == "REVIEW"    \* free review copy: an entitlement, no sale

\* The author's share in per cent of the sale; a channel outside the domain
\* has no rate and makes the computation raise ValueError.
AuthorRate == [channel \in {SELF, EXTERNAL} |-> IF channel = SELF THEN 70 ELSE 60]

\* Income tax 3% plus local tax 0.3%, in per mille of the author's share.
WithholdingRate == 33

\* Mutant: the amount is cut off instead of rounded half up.
WonCutOff(part, whole) == part \div whole

\* part / whole rounded half up to a whole won (part >= 0, whole > 0).
Won(part, whole) == (2 * part + whole) \div (2 * whole)

\* Mutant: the fee is rounded on its own instead of taking the remainder.
FeeRoundedAlone(sale, channel) == Won(sale * (100 - AuthorRate[channel]), 100)

AuthorGross(sale, channel)     == Won(sale * AuthorRate[channel], 100)
PlatformFee(sale, channel)     == sale - AuthorGross(sale, channel)
Withholding(gross, individual) == IF individual THEN Won(gross * WithholdingRate, 1000) ELSE 0

CalculateSettlement(sale, channel, individual) ==
    LET gross == AuthorGross(sale, channel)
        tax   == Withholding(gross, individual)
    IN  [gross |-> gross, fee |-> PlatformFee(sale, channel),
         withholding |-> tax, payout |-> gross - tax]
=============================================================================
