---------------------------- MODULE ReplayGuard ----------------------------
(***************************************************************************)
(* One-time documents and the table used_jtis.                             *)
(*                                                                         *)
(* A client signs two kinds of documents, each with a jti of its own: the  *)
(* client assertion that authenticates it at the PAR and the token         *)
(* endpoint, and the DPoP proof that shows it holds a key, at those two    *)
(* and at the userinfo endpoint.  A document is accepted by looking its    *)
(* jti up and writing a row for it; a job deletes the rows that have       *)
(* expired.  How long a row is kept is decided apart from how long the     *)
(* document is valid, in three different places.                           *)
(*                                                                         *)
(* A document may arrive more than once (a client or a proxy sends a       *)
(* request again), in requests that overlap or follow each other.          *)
(***************************************************************************)
EXTENDS Integers, FiniteSets

CONSTANTS
  Proofs, Assertions,   \* the documents
  Endpoint,             \* the endpoint a document is made for (htu, or the client's choice)
  Owner,                \* the client that signs it; its jti is used under this client only
  KeyOf,                \* the key of a proof
  Iat, Exp,             \* its two times; an assertion may do without
  Clients, Keys,
  Handlers,             \* HTTP requests served at the same time
  None,                 \* a null column, a missing parameter
  Window,               \* iatToleranceSeconds, and the longest life a document may state
  Leeway,               \* clockTolerance of validateClientAssertion
  Retention,            \* how long register-par.ts keeps a jti
  MaxClock              \* bound on the clock

Docs == Proofs \cup Assertions
ParAssertions == {d \in Assertions : Endpoint[d] = "par"}

ASSUME DocsAssumption ==
  /\ Proofs \cap Assertions = {}
  /\ None \notin Docs \cup Clients \cup Keys
  /\ Endpoint \in [Docs -> {"par", "token", "userinfo"}]
  /\ Owner \in [Docs -> Clients]
  /\ KeyOf \in [Proofs -> Keys]
  /\ None \notin Nat
  /\ Iat \in [Docs -> Nat \cup {None}] /\ Exp \in [Docs -> Nat \cup {None}]
  /\ \A p \in Proofs : Iat[p] # None /\ Exp[p] # None   \* else it is refused

ASSUME TimesAssumption ==
  /\ Window \in Nat /\ Leeway \in Nat /\ Retention \in Nat /\ MaxClock \in Nat
  /\ Retention + 1 >= 2 * Window + Leeway

VARIABLES
  now,        \* the clock
  jtis,       \* used_jtis: when the row of a document expires, -1 when there is none
  pc,         \* where each handler is
  req,        \* the request it serves
  accepted,   \* history: the proofs that have been accepted
  pushedAt    \* history: when each assertion of PAR was last accepted, None if never

guardVars == <<now, jtis, pc, req, accepted, pushedAt>>

NoJti == -1

-----------------------------------------------------------------------------
\* What the signature checks and the claims say at time t.  A proof made ahead of time
\* or behind is let through within the window.  An assertion has a leeway on exp; the
\* life it states is bounded only if it states both times, and nothing looks at its iat.
Valid(d, t) ==
  /\ Iat[d] # None /\ Exp[d] # None => Exp[d] - Iat[d] <= Window
  /\ IF d \in Proofs THEN /\ t - Iat[d] <= Window /\ Iat[d] - t <= Window
                          /\ Exp[d] > t
                     ELSE Exp[d] # None => Exp[d] + Leeway > t

\* Mutants: expiresAt is the time of use, of a proof or of an assertion of PAR.
ProofKeptUntilUsed(d, t) ==
  CASE d \in Proofs -> t
    [] d \in ParAssertions -> t + Retention
    [] OTHER -> IF Exp[d] = None THEN t + Window ELSE Exp[d]

AssertionKeptUntilUsed(d, t) ==
  CASE d \in Proofs -> Iat[d] + Window
    [] d \in ParAssertions -> t
    [] OTHER -> IF Exp[d] = None THEN t + Window ELSE Exp[d]

\* When the row written at time t for a document expires.
KeptUntil(d, t) ==
  CASE d \in Proofs -> Iat[d] + Window
    [] d \in ParAssertions -> t + Retention
    [] OTHER -> IF Exp[d] = None THEN t + Window ELSE Exp[d]

Remembered(d) == jtis[d] # NoJti

-----------------------------------------------------------------------------
(* Steps of a handler.  The labels after each document depend on the endpoint: PAR *)
(* looks at the proof first, the token endpoint at the assertion.                  *)

Request == [endpoint : {"none", "par", "token", "userinfo"}, assertion : Assertions \cup {None},
            proof : Proofs \cup {None}]

First(endpoint, proof) ==
  CASE endpoint = "token" -> "assertion"
    [] endpoint = "par" /\ proof = None -> "assertion"
    [] OTHER -> "proof"

AfterAssertion(endpoint) == IF endpoint = "par" THEN "push" ELSE "proof"

AfterProof(endpoint) ==
  CASE endpoint = "par" -> "assertion"
    [] endpoint = "token" -> "code"
    [] OTHER -> "userinfo"

NoRequest == [endpoint |-> "none", assertion |-> None, proof |-> None]

Goto(h, label) == pc' = [pc EXCEPT ![h] = label] /\ UNCHANGED req

\* The handler answers or throws.
End(h) == /\ pc' = [pc EXCEPT ![h] = "idle"]
          /\ req' = [req EXCEPT ![h] = NoRequest]

Pass(h, fit, label) == IF fit THEN Goto(h, label) ELSE End(h)

\* DPoPValidator: the claims are checked and the lookup made in one go.
CheckProof(h) ==
  LET d == req[h].proof IN
  /\ pc[h] = "proof"
  /\ Pass(h, Valid(d, now) /\ ~Remembered(d), "markProof")
  /\ UNCHANGED <<now, jtis, accepted, pushedAt>>

\* The assertion is verified, and its jti looked up in a query of its own.
CheckAssertion(h) ==
  /\ pc[h] = "assertion"
  /\ Pass(h, Valid(req[h].assertion, now), "lookup")
  /\ UNCHANGED <<now, jtis, accepted, pushedAt>>

LookupAssertion(h) ==
  /\ pc[h] = "lookup"
  /\ Pass(h, ~Remembered(req[h].assertion), "markAssertion")
  /\ UNCHANGED <<now, jtis, accepted, pushedAt>>

Keep(d) == jtis' = [jtis EXCEPT ![d] = KeptUntil(d, now)]

\* The JTI store writes over a row that has appeared since the lookup.
MarkProof(h) ==
  LET d == req[h].proof IN
  /\ pc[h] = "markProof"
  /\ Keep(d) /\ accepted' = accepted \cup {d}
  /\ Goto(h, AfterProof(req[h].endpoint))
  /\ UNCHANGED <<now, pushedAt>>

Asserted(d) ==
  /\ Keep(d)
  /\ pushedAt' = IF d \in ParAssertions THEN [pushedAt EXCEPT ![d] = now] ELSE pushedAt

\* Mutant: PAR writes over the row as the JTI store does.
MarkAssertionOver(h) ==
  /\ pc[h] = "markAssertion"
  /\ Asserted(req[h].assertion)
  /\ Goto(h, AfterAssertion(req[h].endpoint))
  /\ UNCHANGED <<now, accepted>>

\* At the PAR endpoint the insert fails on a row that has appeared since.
MarkAssertion(h) ==
  LET d == req[h].assertion IN
  /\ pc[h] = "markAssertion"
  /\ IF req[h].endpoint = "par" /\ Remembered(d)
       THEN End(h) /\ UNCHANGED <<jtis, pushedAt>>
       ELSE Asserted(d) /\ Goto(h, AfterAssertion(req[h].endpoint))
  /\ UNCHANGED <<now, accepted>>

Guard(h) ==
  \/ CheckProof(h) \/ MarkProof(h)
  \/ CheckAssertion(h) \/ LookupAssertion(h) \/ MarkAssertion(h)

\* cleanupExpiredRecords, the used_jtis part.
PurgeJtis ==
  /\ \E d \in Docs : jtis[d] # NoJti /\ jtis[d] < now
  /\ jtis' = [d \in Docs |-> IF jtis[d] < now THEN NoJti ELSE jtis[d]]
  /\ UNCHANGED <<now, pc, req, accepted, pushedAt>>

Tick ==
  /\ now < MaxClock
  /\ now' = now + 1
  /\ UNCHANGED <<jtis, pc, req, accepted, pushedAt>>

-----------------------------------------------------------------------------
\* An assertion that states both its times, and was not dated further ahead of its
\* acceptance than a proof may be.  The code asks for neither: without exp, or with
\* an iat in the far future, an assertion passes the checks long after its row.
OnTime(d) ==
  /\ Iat[d] # None /\ Exp[d] # None
  /\ pushedAt[d] # None /\ Iat[d] <= pushedAt[d] + Window

\* A document that was accepted has its row for as long as it would still pass the
\* checks, though row and document expire by different rules and the clean-up runs at
\* any time: presented again, it is found.  Of assertions this is said of those of
\* PAR that were on time.
UsedIsRemembered ==
  /\ \A p \in accepted : Valid(p, now) => Remembered(p)
  /\ \A d \in ParAssertions : OnTime(d) /\ Valid(d, now) => Remembered(d)

\* A proof is never let through once it has been accepted: only requests that look
\* it up before its first acceptance can share it.
NoProofReplay ==
  [][\A h \in Handlers :
       pc[h] = "proof" /\ pc'[h] = "markProof" => req[h].proof \notin accepted]_guardVars

\* Two requests pushed with one assertion are further apart than the retention of its
\* jti, whatever its times say: not by requests that overlap at the look-up (the
\* second insert fails), nor through the clean-up (register-par.ts).
ParAssertionOnce ==
  [][\A h \in Handlers :
       LET d == req[h].assertion IN
       pc[h] = "markAssertion" /\ pc'[h] = "push" =>
         pushedAt[d] = None \/ now > pushedAt[d] + Retention]_guardVars
=============================================================================
