----------------------------- MODULE AuthGrant -----------------------------
(***************************************************************************)
(* What the login side of the provider promises its relying parties, with  *)
(* no trace of how it keeps the promise: a grant (an authorization code)   *)
(* names a user who had fully authenticated in the session it was issued   *)
(* for before it was issued, evidence of authentication is never withdrawn *)
(* and an issued grant is never altered.                                   *)
(***************************************************************************)
CONSTANTS
  Users,      \* the people who can authenticate
  Sessions    \* the login sessions (rows of auth_sessions)

VARIABLES
  proved,     \* proved[s]: the users who have fully authenticated in s
  granted     \* the <<session, user>> pairs a code has been issued for

Init ==
  /\ proved = [s \in Sessions |-> {}]
  /\ granted = {}

\* Some users complete their authentication in s.
Authenticate(s) ==
  /\ \E us \in SUBSET Users : proved' = [proved EXCEPT ![s] = @ \cup us]
  /\ UNCHANGED granted

\* A code is issued for one of the users who authenticated in s.
Issue(s) ==
  /\ \E u \in proved[s] : granted' = granted \cup {<<s, u>>}
  /\ UNCHANGED proved

Next == \E s \in Sessions : Authenticate(s) \/ Issue(s)

Spec == Init /\ [][Next]_<<proved, granted>>
=============================================================================
