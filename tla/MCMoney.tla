------------------------------- MODULE MCMoney -------------------------------
(***************************************************************************)
(* An instance of Money for TLC: a sale and a review copy of one buyer.    *)
(***************************************************************************)
EXTENDS Money, TLC

CONSTANTS o1, o3, b1, k1, a1

Row(channel) == [buyer |-> b1, book |-> k1, channel |-> channel]
SaleAndCopy  == o1 :> Row(SELF) @@ o3 :> Row(REVIEW)
SameAuthor   == o1 :> a1 @@ o3 :> a1
=============================================================================
