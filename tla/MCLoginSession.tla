--------------------------- MODULE MCLoginSession ---------------------------
(* Symmetry for the runs of LoginSession that check no liveness property. *)
EXTENDS LoginSession, TLC

Symmetry == Permutations(Users) \cup Permutations(Otps) \cup Permutations(Handlers)
              \cup Permutations(Sessions)
=============================================================================
