--------------------------- MODULE MCRunRegistry ---------------------------
(* TLC instances of RunRegistry. *)
EXTENDS RunRegistry, TLC

ClientSymmetry == Permutations(Clients)
=============================================================================
