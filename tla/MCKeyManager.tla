---------------------------- MODULE MCKeyManager ----------------------------
(* Symmetry for the run of KeyManager. *)
EXTENDS KeyManager, TLC

Symmetry == Permutations(Keys)
=============================================================================
