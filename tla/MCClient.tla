------------------------------ MODULE MCClient ------------------------------
(***************************************************************************)
(* Instance of Client for TLC: two forms, two sessions.                    *)
(***************************************************************************)
EXTENDS Client, TLC

Alike == Permutations(Forms) \cup Permutations(Tokens)

=============================================================================
