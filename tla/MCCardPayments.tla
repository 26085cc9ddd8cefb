--------------------------- MODULE MCCardPayments ---------------------------
(***************************************************************************)
(* Instance of CardProjection, and so of CardPayments, for TLC.            *)
(***************************************************************************)
EXTENDS CardProjection, TLC

CONSTANT card

\* Every cycle belongs to the one card the owner has in this instance.
OneCard == [c \in Cycles |-> card]

\* Projections before, on and after the dates of statements and plans.
AllHorizons == {h \in (0..2) \X (1..3) : h[1] < h[2]}

RowSymmetry == Permutations(Keys) \cup Permutations(Transfers) \cup Permutations(Cycles)

=============================================================================
