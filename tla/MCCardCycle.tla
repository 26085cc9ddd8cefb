----------------------------- MODULE MCCardCycle -----------------------------
(***************************************************************************)
(* Instance of CardCycle for TLC: one card, its cycles, two purchases.     *)
(***************************************************************************)
EXTENDS CardCycle, TLC

CONSTANT card

MonthsOfCard == {card} \X (0..LastMonth)

OneCard == [c \in Cycles |-> card]

RowSymmetry == Permutations(Keys) \cup Permutations(Purchases)

=============================================================================
