--------------------------- MODULE TokenEndpoint ---------------------------
(***************************************************************************)
(* What relying parties do around a login: push an authorization request,  *)
(* redeem the authorization code for tokens and ask for user information.  *)
(* Each request first passes the guard of ReplayGuard.  The login itself   *)
(* (LoginSession) is here one step, IssueCode.                             *)
(*                                                                         *)
(* A key travels through four tables: the DPoP key of the pushed request   *)
(* is copied into the code, compared with the key of the token request,    *)
(* copied into the access token and compared with the key of each userinfo *)
(* request.                                                                *)
(***************************************************************************)
EXTENDS ReplayGuard

CONSTANTS
  Users,
  Codes,      \* authorization codes that may be drawn
  Tokens,     \* access tokens that may be drawn
  CodeTTL, TokenTTL

ASSUME TokenAssumption ==
  /\ None \notin Users \cup Codes \cup Tokens
  /\ CodeTTL \in Nat /\ TokenTTL \in Nat

VARIABLES
  pushed,     \* par_requests: the client and the key (dpopJkt) of each
  codes,      \* authorization_codes
  tokens,     \* access_tokens, with whether the refresh token was saved too
  task,       \* what the request of a handler asks for, and the code row it has read
  issued,     \* history: each code as it was issued
  overlapped, \* history: codes two requests have held at the same time
  served      \* history: who has been told about whom, with which key

tables == <<pushed, codes, tokens>>
histories == <<issued, overlapped, served>>
vars == <<guardVars, tables, task, histories>>

-----------------------------------------------------------------------------
NoCode == [client |-> None, user |-> None, key |-> None, expiresAt |-> 0, used |-> FALSE]
NoToken == [code |-> None, client |-> None, user |-> None, key |-> None, expiresAt |-> 0,
            refresh |-> FALSE]

Pushed == [client : Clients, key : Keys \cup {None}]
CodeRow == [client : Clients, user : Users, key : Keys, expiresAt : Nat, used : BOOLEAN]
             \cup {NoCode}
TokenRow == [code : Codes, client : Clients, user : Users, key : Keys, expiresAt : Nat,
             refresh : BOOLEAN] \cup {NoToken}
Task == [key : Keys \cup {None}, code : Codes \cup {None}, token : Tokens \cup {None},
         row : CodeRow]
NoTask == [key |-> None, code |-> None, token |-> None, row |-> NoCode]

Init ==
  /\ now = 0
  /\ jtis = [d \in Docs |-> NoJti]
  /\ pc = [h \in Handlers |-> "idle"]
  /\ req = [h \in Handlers |-> NoRequest]
  /\ accepted = {}
  /\ pushedAt = [d \in ParAssertions |-> None]
  /\ pushed = {}
  /\ codes = [c \in Codes |-> NoCode]
  /\ tokens = [t \in Tokens |-> NoToken]
  /\ task = [h \in Handlers |-> NoTask]
  /\ issued = [c \in Codes |-> NoCode]
  /\ overlapped = {}
  /\ served = {}

-----------------------------------------------------------------------------
(* Requests and answers *)

\* Documents are made for their endpoint; at any other a proof is refused, and an
\* assertion is taken to be sent to one endpoint only.
MadeFor(d, endpoint) == Endpoint[d] = endpoint

Begin(h, endpoint, a, p, t) ==
  /\ pc[h] = "idle"
  /\ a # None => MadeFor(a, endpoint)
  /\ p # None => MadeFor(p, endpoint)
  /\ pc' = [pc EXCEPT ![h] = First(endpoint, p)]
  /\ req' = [req EXCEPT ![h] = [endpoint |-> endpoint, assertion |-> a, proof |-> p]]
  /\ task' = [task EXCEPT ![h] = t]
  /\ UNCHANGED <<now, jtis, accepted, pushedAt, tables, histories>>

Answer(h) == End(h) /\ task' = [task EXCEPT ![h] = NoTask]

\* Any await of a handler rejects (a nonce that is out of date, a key that cannot be
\* fetched, a user who is gone, a query that fails), or the process stops: what the
\* handler has written stays.
Abort(h) ==
  /\ pc[h] # "idle"
  /\ Answer(h)
  /\ UNCHANGED <<now, jtis, accepted, pushedAt, tables, histories>>

\* A dpop_jkt beside the proof of a pushed request has to name the proof's key.
JktFits(h) ==
  LET p == req[h].proof IN
  req[h].endpoint = "par" /\ p # None => task[h].key \in {None, KeyOf[p]}

PassGuard(h) ==
  /\ Guard(h)
  /\ pc[h] = "assertion" => JktFits(h)
  /\ task' = [task EXCEPT ![h] = IF pc'[h] = "idle" THEN NoTask ELSE @]
  /\ UNCHANGED <<tables, histories>>

-----------------------------------------------------------------------------
(* RegisterParUseCase *)

\* dpop_jkt (key) and the DPoP header are both optional.
Register(h, a, p, key) ==
  /\ p # None => Owner[p] = Owner[a]
  /\ Begin(h, "par", a, p, [NoTask EXCEPT !.key = key])

\* The key of the proof, or else the one named by dpop_jkt.
Push(h) ==
  LET p == req[h].proof
      claimed == task[h].key
  IN
  /\ pc[h] = "push"
  /\ pushed' = pushed \cup {[client |-> Owner[req[h].assertion],
                             key |-> IF p = None THEN claimed ELSE KeyOf[p]]}
  /\ Answer(h)
  /\ UNCHANGED <<now, jtis, accepted, pushedAt, codes, tokens, histories>>

\* The row GenerateAuthCode copies from a pushed request.
CodeFor(u, pr) == [client |-> pr.client, user |-> u, key |-> pr.key,
                   expiresAt |-> now + CodeTTL, used |-> FALSE]

\* Mutant: the key column takes a null.
IssueCodeUnbound(c, u, pr) ==
  /\ issued[c] = NoCode
  /\ codes' = [codes EXCEPT ![c] = CodeFor(u, pr)]
  /\ issued' = [issued EXCEPT ![c] = CodeFor(u, pr)]
  /\ UNCHANGED <<guardVars, pushed, tokens, task, overlapped, served>>

\* The login; the insert fails when the request named no key.
IssueCode(c, u, pr) ==
  /\ issued[c] = NoCode
  /\ pr.key # None
  /\ codes' = [codes EXCEPT ![c] = CodeFor(u, pr)]
  /\ issued' = [issued EXCEPT ![c] = CodeFor(u, pr)]
  /\ UNCHANGED <<guardVars, pushed, tokens, task, overlapped, served>>

-----------------------------------------------------------------------------
(* TokenExchangeUseCase *)

Exchange(h, a, p, c) ==
  /\ Owner[p] = Owner[a]
  /\ Begin(h, "token", a, p, [NoTask EXCEPT !.code = c])

\* getByCode: an unused row that has not expired.
Redeemable(c) == codes[c] # NoCode /\ ~codes[c].used /\ codes[c].expiresAt > now

Holding(h, c) == task[h].code = c /\ pc[h] \in {"burn", "mint"}

NoteOverlap(h, c) ==
  overlapped' = IF \E g \in Handlers \ {h} : Holding(g, c) THEN overlapped \cup {c}
                                                          ELSE overlapped

\* Mutants: the key is not compared; a used code is found as well.
ReadCodeAnyKey(h) ==
  LET c == task[h].code IN
  /\ pc[h] = "code"
  /\ Redeemable(c)
  /\ codes[c].client = Owner[req[h].assertion]
  /\ task' = [task EXCEPT ![h].row = codes[c]]
  /\ Goto(h, "burn")
  /\ NoteOverlap(h, c)
  /\ UNCHANGED <<now, jtis, accepted, pushedAt, tables, issued, served>>

ReadCodeUsedToo(h) ==
  LET c == task[h].code IN
  /\ pc[h] = "code"
  /\ codes[c] # NoCode /\ codes[c].expiresAt > now
  /\ codes[c].client = Owner[req[h].assertion]
  /\ codes[c].key = KeyOf[req[h].proof]
  /\ task' = [task EXCEPT ![h].row = codes[c]]
  /\ Goto(h, "burn")
  /\ NoteOverlap(h, c)
  /\ UNCHANGED <<now, jtis, accepted, pushedAt, tables, issued, served>>

\* The row is read and compared with the client that authenticated and the key that
\* was proven (a wrong redirect_uri or verifier is one of Abort's reasons).
ReadCode(h) ==
  LET c == task[h].code IN
  /\ pc[h] = "code"
  /\ Redeemable(c)
  /\ codes[c].client = Owner[req[h].assertion]
  /\ codes[c].key = KeyOf[req[h].proof]
  /\ task' = [task EXCEPT ![h].row = codes[c]]
  /\ Goto(h, "burn")
  /\ NoteOverlap(h, c)
  /\ UNCHANGED <<now, jtis, accepted, pushedAt, tables, issued, served>>

\* Mutant: the code is left to be marked when the tokens are stored.
BurnCodeLater(h) ==
  /\ pc[h] = "burn"
  /\ Goto(h, "mint")
  /\ UNCHANGED <<now, jtis, accepted, pushedAt, tables, task, histories>>

\* markAsUsed: nobody asks whether a row was changed.
BurnCode(h) ==
  LET c == task[h].code IN
  /\ pc[h] = "burn"
  /\ codes' = IF codes[c] = NoCode THEN codes ELSE [codes EXCEPT ![c].used = TRUE]
  /\ Goto(h, "mint")
  /\ UNCHANGED <<now, jtis, accepted, pushedAt, pushed, tokens, task, histories>>

\* Client and user come from the copy of the code, the key from the proof.
MintTokens(h, t) ==
  LET row == task[h].row IN
  /\ pc[h] = "mint"
  /\ tokens[t] = NoToken
  /\ tokens' = [tokens EXCEPT ![t] =
                  [code |-> task[h].code, client |-> row.client, user |-> row.user,
                   key |-> KeyOf[req[h].proof], expiresAt |-> now + TokenTTL,
                   refresh |-> FALSE]]
  /\ task' = [task EXCEPT ![h].token = t]
  /\ Goto(h, "refresh")
  /\ UNCHANGED <<now, jtis, accepted, pushedAt, pushed, codes, histories>>

SaveRefresh(h) ==
  /\ pc[h] = "refresh"
  /\ tokens' = [tokens EXCEPT ![task[h].token].refresh = TRUE]
  /\ Answer(h)
  /\ UNCHANGED <<now, jtis, accepted, pushedAt, pushed, codes, histories>>

-----------------------------------------------------------------------------
(* The userinfo endpoint *)

\* The token is looked up and its expiry checked before the proof is.
UserInfo(h, p, t) ==
  /\ tokens[t] # NoToken
  /\ tokens[t].expiresAt >= now
  /\ Owner[p] = tokens[t].client
  /\ Begin(h, "userinfo", None, p, [NoTask EXCEPT !.token = t])

\* expectedJkt is compared after the proof's jti has been written.
Serve(h) ==
  LET token == tokens[task[h].token]
      key == KeyOf[req[h].proof]
  IN
  /\ pc[h] = "userinfo"
  /\ key = token.key
  /\ served' = served \cup {[client |-> token.client, user |-> token.user, key |-> key]}
  /\ Answer(h)
  /\ UNCHANGED <<now, jtis, accepted, pushedAt, tables, issued, overlapped>>

-----------------------------------------------------------------------------
\* cleanupExpiredRecords deletes table by table.
PurgeCodes ==
  /\ \E c \in Codes : codes[c] # NoCode /\ codes[c].expiresAt < now
  /\ codes' = [c \in Codes |-> IF codes[c].expiresAt < now THEN NoCode ELSE codes[c]]
  /\ UNCHANGED <<guardVars, pushed, tokens, task, histories>>

PurgeUsedJtis == PurgeJtis /\ UNCHANGED <<tables, task, histories>>

TimePasses == Tick /\ UNCHANGED <<tables, task, histories>>

Arrive(h) ==
  \/ \E a \in Assertions, p \in Proofs \cup {None}, key \in Keys \cup {None} :
       Register(h, a, p, key)
  \/ \E a \in Assertions, p \in Proofs, c \in Codes : Exchange(h, a, p, c)
  \/ \E p \in Proofs, t \in Tokens : UserInfo(h, p, t)

Proceed(h) ==
  \/ PassGuard(h)
  \/ Push(h)
  \/ ReadCode(h) \/ BurnCode(h) \/ SaveRefresh(h)
  \/ \E t \in Tokens : MintTokens(h, t)
  \/ Serve(h)

Next ==
  \/ \E h \in Handlers : Arrive(h) \/ Proceed(h) \/ Abort(h)
  \/ \E c \in Codes, u \in Users, pr \in pushed : IssueCode(c, u, pr)
  \/ PurgeCodes \/ PurgeUsedJtis
  \/ TimePasses

Spec == Init /\ [][Next]_vars

-----------------------------------------------------------------------------
Labels == {"idle", "proof", "markProof", "assertion", "lookup", "markAssertion", "push",
           "code", "burn", "mint", "refresh", "userinfo"}

\* The types: in particular every code and every token row names a key.
TypeOK ==
  /\ now \in 0..MaxClock
  /\ jtis \in [Docs -> Nat \cup {NoJti}]
  /\ pc \in [Handlers -> Labels]
  /\ req \in [Handlers -> Request]
  /\ accepted \subseteq Proofs
  /\ pushedAt \in [ParAssertions -> Nat \cup {None}]
  /\ pushed \subseteq Pushed
  /\ codes \in [Codes -> CodeRow]
  /\ tokens \in [Tokens -> TokenRow]
  /\ task \in [Handlers -> Task]
  /\ issued \in [Codes -> CodeRow]
  /\ overlapped \subseteq Codes
  /\ served \subseteq [client : Clients, user : Users, key : Keys]

\* An access token says what its code said when the login issued it, and client and
\* key are those of a request that the client itself pushed; whoever is told about a
\* user has shown that key again.  Each link is a comparison or a copy in another
\* handler and another table.
BoundAsPushed ==
  /\ \A t \in Tokens : tokens[t] # NoToken =>
       LET row == issued[tokens[t].code] IN
       /\ tokens[t].client = row.client /\ tokens[t].user = row.user
       /\ tokens[t].key = row.key
       /\ [client |-> row.client, key |-> row.key] \in pushed
  /\ \A s \in served :
       /\ [client |-> s.client, key |-> s.key] \in pushed
       /\ \E c \in Codes : issued[c].client = s.client /\ issued[c].user = s.user
                             /\ issued[c].key = s.key

\* Tokens exist only of codes that can no longer be redeemed, at whatever point a
\* handler or the process stopped: token-exchange.ts marks the code before it has
\* anything to store.
BurntBeforeMinted ==
  \A t \in Tokens : tokens[t] # NoToken => ~Redeemable(tokens[t].code)

TokensOf(c) == {t \in Tokens : tokens[t] # NoToken /\ tokens[t].code = c}

\* A code is redeemed once, through failures between its use and the tokens, retries
\* and the clean-up, unless two requests held it at the same time.
RedeemedOnce == \A c \in Codes \ overlapped : Cardinality(TokensOf(c)) <= 1

\* What the documents promise without that exception.
OneRedemption == \A c \in Codes : Cardinality(TokensOf(c)) <= 1

-----------------------------------------------------------------------------
(* The inductive invariants behind these *)

\* Where a request to an endpoint can be.
StepsOf(endpoint) ==
  CASE endpoint = "none" -> {"idle"}
    [] endpoint = "par" -> {"proof", "markProof", "assertion", "lookup", "markAssertion", "push"}
    [] endpoint = "token" -> {"assertion", "lookup", "markAssertion", "proof", "markProof",
                              "code", "burn", "mint", "refresh"}
    [] OTHER -> {"proof", "markProof", "userinfo"}

\* With the tokens tk, a handler holds what its step needs.
Fits(tk, label, rq, ts) ==
  /\ label \in StepsOf(rq.endpoint)
  /\ rq.endpoint \in {"par", "token"} =>
       rq.assertion \in Assertions /\ Endpoint[rq.assertion] = rq.endpoint
  /\ rq.endpoint \in {"token", "userinfo"} \/ label \in {"proof", "markProof"} =>
       rq.proof \in Proofs
  /\ rq.endpoint = "token" => ts.code \in Codes
  /\ rq.endpoint = "userinfo" \/ label = "refresh" =>
       ts.token \in Tokens /\ tk[ts.token] # NoToken
  /\ label \in {"burn", "mint"} => ts.row # NoCode

RequestInv == \A h \in Handlers : Fits(tokens, pc[h], req[h], task[h])

\* The row of an accepted assertion of PAR is there for the whole retention.
RowInv ==
  \A d \in ParAssertions : pushedAt[d] # None =>
    IF Remembered(d) THEN jtis[d] = pushedAt[d] + Retention
                     ELSE now > pushedAt[d] + Retention

\* The row of an accepted proof is there until the window of its iat has passed.
ProofInv ==
  \A p \in accepted :
    IF Remembered(p) THEN jtis[p] = Iat[p] + Window
                     ELSE now > Iat[p] + Window

ReplayInv == RowInv /\ ProofInv

\* What a row, a copy or a token says is what the code said when it was issued.
SameGrant(row, c) ==
  /\ issued[c] # NoCode
  /\ row.client = issued[c].client /\ row.user = issued[c].user /\ row.key = issued[c].key

CodesBound ==
  \A c \in Codes :
    /\ codes[c] # NoCode => SameGrant(codes[c], c)
    /\ issued[c] # NoCode => [client |-> issued[c].client, key |-> issued[c].key] \in pushed

RowsBound ==
  \A h \in Handlers : pc[h] \in {"burn", "mint"} =>
    SameGrant(task[h].row, task[h].code) /\ task[h].row.key = KeyOf[req[h].proof]

TokensBound == \A t \in Tokens : tokens[t] # NoToken => SameGrant(tokens[t], tokens[t].code)

ServedBound == \A s \in served : \E c \in Codes : SameGrant(s, c)

BindingInv == CodesBound /\ RowsBound /\ TokensBound /\ ServedBound

\* The code cannot be found any more, and never will be.
Burnt(c) == codes[c] = NoCode \/ codes[c].used

BurntInv ==
  /\ \A h \in Handlers : pc[h] = "mint" => Burnt(task[h].code)
  /\ \A t \in Tokens : tokens[t] # NoToken => Burnt(tokens[t].code)

\* One request holds the code, and then there is no token of it; or there is one token.
SoleInv ==
  \A c \in Codes \ overlapped :
    /\ \A g, h \in Handlers : Holding(g, c) /\ Holding(h, c) => g = h
    /\ (\E h \in Handlers : Holding(h, c)) => TokensOf(c) = {}
    /\ \A t, u \in TokensOf(c) : t = u

RedemptionInv == BurntInv /\ SoleInv
=============================================================================
