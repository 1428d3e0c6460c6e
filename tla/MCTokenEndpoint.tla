--------------------------- MODULE MCTokenEndpoint ---------------------------
(* The documents of the runs: a proof and an assertion for PAR and for the token *)
(* endpoint, and a proof for userinfo.  The proof for PAR is dated ahead.  The     *)
(* assertion for PAR is dated so far ahead that, accepted early, it outlives its   *)
(* row; the one for the token endpoint states no iat.                            *)
(* The key k2 is only ever named by dpop_jkt.                                    *)
EXTENDS TokenEndpoint, TLC

CONSTANTS pPar, pTok, pInfo, aPar, aTok, c1, k1

MCEndpoint ==
  [d \in Proofs \cup Assertions |->
     IF d \in {pPar, aPar} THEN "par" ELSE IF d = pInfo THEN "userinfo" ELSE "token"]
MCOwner == [d \in Proofs \cup Assertions |-> c1]
MCKeyOf == [p \in Proofs |-> k1]
MCIat == [d \in Proofs \cup Assertions |->
            CASE d = aTok -> None [] d = aPar -> 2 [] d = pPar -> 1 [] OTHER -> 0]
MCExp == [d \in Proofs \cup Assertions |->
            CASE d = aPar -> 3 [] d = pPar -> 2 [] OTHER -> 1]

Symmetry == Permutations(Handlers) \cup Permutations(Tokens)
=============================================================================
