------------------------------ MODULE MCOrders ------------------------------
(***************************************************************************)
(* Instances of Orders for TLC.  o1 and o2 are orders of one buyer for    *)
(* one book, o3 is for the same book on the review channel: as a grant,   *)
(* or as an order placed with that channel.                               *)
(***************************************************************************)
EXTENDS Orders, TLC

CONSTANTS o1, o2, o3, b1, k1, r1, r2

Row(channel) == [buyer |-> b1, book |-> k1, channel |-> channel]
TwoOrders    == o1 :> Row(SELF) @@ o2 :> Row(EXTERNAL)
SaleAndCopy  == o1 :> Row(SELF) @@ o3 :> Row(REVIEW)
OneOrder     == o1 :> Row(SELF)

Symmetry == Permutations(Requests)
=============================================================================
