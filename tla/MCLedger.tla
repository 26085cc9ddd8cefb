------------------------------ MODULE MCLedger ------------------------------
(***************************************************************************)
(* Instances of Ledger for TLC: accounts are numbered, ids are symmetric.  *)
(***************************************************************************)
EXTENDS Ledger, TLC

IdSymmetry == Permutations(Ids)
KeySymmetry == Permutations(Keys)
IdAndKeySymmetry == IdSymmetry \cup KeySymmetry

BalancesZeroOne == {0, 1}
SmallestBalance == -2

=============================================================================
