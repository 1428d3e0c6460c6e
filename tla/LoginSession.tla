--------------------------- MODULE LoginSession ---------------------------
(***************************************************************************)
(* The browser login of the provider: a pushed authorization request (PAR) *)
(* is turned into a row of auth_sessions, a password and an OTP move the   *)
(* row forward, and an authorization code is issued for the user it names. *)
(*                                                                         *)
(* Every HTTP request runs as a handler h.  A handler reads the row, goes  *)
(* through an `await` (password hashing, another query) and later writes   *)
(* back the WHOLE row from the copy it read, so between its read and its   *)
(* write other handlers of the same session may run: snap[h] is that copy. *)
(* There is no transaction and no version column in the code.              *)
(*                                                                         *)
(* The clock counts whole units of time (the columns hold whole seconds).  *)
(***************************************************************************)
EXTENDS Integers, FiniteSets

CONSTANTS
  Users,          \* people with an account
  Otps,           \* the one-time passwords that may be drawn
  Clients,        \* registered relying parties
  ActiveClients,  \* those whose registration is active
  Requests,       \* request_uri values
  Sessions,       \* auth_sessions ids
  Handlers,       \* HTTP requests served at the same time
  None,           \* a null column
  MaxRetries,     \* sharedConfig.SECURITY.MAX_AUTH_RETRIES
  ParTTL,         \* lifetime of a pushed request
  CodeTTL,        \* lifetime of an authorization code
  MaxClock        \* bound on the clock

ASSUME NoneIsNull == None \notin Users \cup Otps \cup Clients \cup Requests \cup Sessions
ASSUME LimitsAssumption == /\ MaxRetries \in Nat \ {0}
                           /\ ParTTL \in Nat \ {0}
                           /\ CodeTTL \in Nat \ {0}
                           /\ MaxClock \in Nat
ASSUME ActiveAssumption == ActiveClients \subseteq Clients

VARIABLES
  now,         \* the clock
  par,         \* par_requests, by request_uri
  sessions,    \* auth_sessions, by id
  codes,       \* authorization_codes
  pc,          \* where each handler is
  req,         \* what the request asks for
  snap,        \* the row the handler read
  draft,       \* the code GenerateAuthCode is about to insert
  challenged,  \* history: <<user, otp>> pairs drawn after the user's password was verified
  proved,      \* history: users whose drawn OTP was presented afterwards
  rejected     \* history: failed attempts since the last success, up to MaxRetries

db == <<par, sessions, codes>>
local == <<pc, req, snap, draft>>
history == <<challenged, proved, rejected>>
vars == <<now, db, local, history>>

-----------------------------------------------------------------------------
Statuses == {"INITIATED", "PRIMARY_AUTH_SUCCESS", "2FA_PENDING", "COMPLETED", "FAILED"}
AwaitingOtp == {"PRIMARY_AUTH_SUCCESS", "2FA_PENDING"}

\* The values the amr column takes, and the assurance level that goes with each.
AmrNone == {}
AmrPwd == {"pwd"}
AmrOtp == {"pwd", "otp-sms"}
AmrQR == {"singpass"}
Amrs == {AmrNone, AmrPwd, AmrOtp, AmrQR}

Times == 0 .. MaxClock + ParTTL + CodeTTL

ParRow == [clientId : Clients \cup {None}, expiresAt : Times]

\* A row of auth_sessions; "ABSENT" is the status of an id with no row.
SessionRow ==
  [par : Requests \cup {None}, clientId : Clients \cup {None},
   userId : Users \cup {None}, status : Statuses \cup {"ABSENT"},
   otpCode : Otps \cup {None}, retryCount : Nat, loa : {1, 2}, amr : Amrs,
   expiresAt : Times]

\* A row of authorization_codes.  The columns copied from the PAR payload are
\* stood for by the request it came from; the session is kept for the properties.
CodeRow ==
  [session : Sessions \cup {None}, par : Requests \cup {None},
   clientId : Clients \cup {None}, userId : Users \cup {None}, loa : {1, 2},
   amr : Amrs, createdAt : Times, expiresAt : Times]

Request ==
  [kind : {"none", "login", "otp", "callback"}, session : Sessions \cup {None},
   user : Users \cup {None}, otp : Otps \cup {None}]

\* Where a handler can be: the await it is in.  "exchange" is the Singpass callback's.
Labels == {"idle", "password", "otp", "exchange", "authorize", "par", "save", "issued",
           "refused"}

NoPar == [clientId |-> None, expiresAt |-> 0]
NoRow == [par |-> None, clientId |-> None, userId |-> None, status |-> "ABSENT",
          otpCode |-> None, retryCount |-> 0, loa |-> 1, amr |-> AmrNone, expiresAt |-> 0]
NoCode == [session |-> None, par |-> None, clientId |-> None, userId |-> None,
           loa |-> 1, amr |-> AmrNone, createdAt |-> 0, expiresAt |-> 0]
NoRequest == [kind |-> "none", session |-> None, user |-> None, otp |-> None]

Init ==
  /\ now = 0
  /\ par = [r \in Requests |-> NoPar]
  /\ sessions = [s \in Sessions |-> NoRow]
  /\ codes = {}
  /\ pc = [h \in Handlers |-> "idle"]
  /\ req = [h \in Handlers |-> NoRequest]
  /\ snap = [h \in Handlers |-> NoRow]
  /\ draft = [h \in Handlers |-> NoCode]
  /\ challenged = [s \in Sessions |-> {}]
  /\ proved = [s \in Sessions |-> {}]
  /\ rejected = [s \in Sessions |-> 0]

-----------------------------------------------------------------------------
(* The repositories *)

\* getByRequestUri finds a row that expires after t, the moment the query is made.
ParLive(r, t) == r \in Requests /\ par[r].expiresAt > t

\* A session is usable up to and including its expiry.
SessionLive(s) == sessions[s].status # "ABSENT" /\ sessions[s].expiresAt >= now

\* Mutant: a user id once written is kept.
UpdateSessionKeepingUser(s, row) ==
  sessions' = [sessions EXCEPT ![s] = [row EXCEPT !.userId = IF sessions[s].userId = None
                                                               THEN @ ELSE sessions[s].userId]]

\* update() writes every mutable column of the copy it is given.
UpdateSession(s, row) == sessions' = [sessions EXCEPT ![s] = row]

-----------------------------------------------------------------------------
(* Control flow of a handler *)

Begin(h, label, request, row) ==
  /\ pc[h] = "idle"
  /\ pc' = [pc EXCEPT ![h] = label]
  /\ req' = [req EXCEPT ![h] = request]
  /\ snap' = [snap EXCEPT ![h] = row]
  /\ UNCHANGED draft

Goto(h, label) ==
  /\ pc' = [pc EXCEPT ![h] = label]
  /\ UNCHANGED <<req, snap, draft>>

End(h) ==
  /\ pc' = [pc EXCEPT ![h] = "idle"]
  /\ req' = [req EXCEPT ![h] = NoRequest]
  /\ snap' = [snap EXCEPT ![h] = NoRow]
  /\ draft' = [draft EXCEPT ![h] = NoCode]

-----------------------------------------------------------------------------
(* Starting a login *)

\* RegisterParUseCase saves the pushed request of client c.
PushRequest(r, c) ==
  /\ par[r] = NoPar
  /\ par' = [par EXCEPT ![r] = [clientId |-> c, expiresAt |-> now + ParTTL]]
  /\ UNCHANGED <<now, sessions, codes, local, history>>

\* Mutant: the client of the request is not compared.
InitiateAuthSessionAnyClient(s, r, c) ==
  /\ sessions[s].status = "ABSENT"
  /\ ParLive(r, now)
  /\ c \in ActiveClients
  /\ UpdateSession(s, [NoRow EXCEPT !.par = r, !.clientId = c, !.status = "INITIATED",
                                    !.expiresAt = par[r].expiresAt])
  /\ UNCHANGED <<now, par, codes, local, history>>

\* /auth: a session starts from a live request of the same, active client.  The
\* request is not consumed: it may start several sessions.
InitiateAuthSession(s, r, c) ==
  /\ sessions[s].status = "ABSENT"
  /\ ParLive(r, now)
  /\ par[r].clientId = c
  /\ c \in ActiveClients
  /\ UpdateSession(s, [NoRow EXCEPT !.par = r, !.clientId = c, !.status = "INITIATED",
                                    !.expiresAt = par[r].expiresAt])
  /\ UNCHANGED <<now, par, codes, local, history>>

-----------------------------------------------------------------------------
(* ValidateLogin.  u is the user whose password the request carries, None when *)
(* the user is unknown or the password wrong.                                  *)

\* Mutant: a failed row is not turned away.
LoginReadFailedToo(h, s, u) ==
  /\ SessionLive(s)
  /\ Begin(h, "password", [NoRequest EXCEPT !.kind = "login", !.session = s, !.user = u],
           sessions[s])
  /\ UNCHANGED <<now, db, history>>

LoginRead(h, s, u) ==
  /\ SessionLive(s)
  /\ sessions[s].status # "FAILED"
  /\ Begin(h, "password", [NoRequest EXCEPT !.kind = "login", !.session = s, !.user = u],
           sessions[s])
  /\ UNCHANGED <<now, db, history>>

\* Mutants: the count goes down, and the limit is passed before the row fails.
PenalisedDownwards(row, status) ==
  [row EXCEPT !.retryCount = @ - 1,
              !.status = IF row.retryCount - 1 >= MaxRetries THEN "FAILED" ELSE status]

PenalisedLate(row, status) ==
  [row EXCEPT !.retryCount = @ + 1,
              !.status = IF row.retryCount + 1 > MaxRetries THEN "FAILED" ELSE status]

\* The copy after a failed attempt: one more retry, and FAILED at the limit.
Penalised(row, status) ==
  [row EXCEPT !.retryCount = @ + 1,
              !.status = IF row.retryCount + 1 >= MaxRetries THEN "FAILED" ELSE status]

CountRejection(s) ==
  rejected' = [rejected EXCEPT ![s] = IF @ < MaxRetries THEN @ + 1 ELSE @]

LoginReject(h) ==
  LET s == req[h].session IN
  /\ pc[h] = "password"
  /\ req[h].user = None
  /\ UpdateSession(s, Penalised(snap[h], snap[h].status))
  /\ CountRejection(s)
  /\ End(h)
  /\ UNCHANGED <<now, par, codes, challenged, proved>>

\* A right password draws a new OTP for its user and forgets earlier failures.
LoginAccept(h, otp) ==
  LET s == req[h].session
      u == req[h].user
  IN
  /\ pc[h] = "password"
  /\ u # None
  /\ UpdateSession(s, [snap[h] EXCEPT !.status = "PRIMARY_AUTH_SUCCESS", !.userId = u,
                                      !.otpCode = otp, !.retryCount = 0, !.loa = 1,
                                      !.amr = AmrPwd])
  /\ challenged' = [challenged EXCEPT ![s] = @ \cup {<<u, otp>>}]
  /\ rejected' = [rejected EXCEPT ![s] = 0]
  /\ End(h)
  /\ UNCHANGED <<now, par, codes, proved>>

-----------------------------------------------------------------------------
(* Validate2FA *)

TwoFactorRead(h, s, otp) ==
  /\ SessionLive(s)
  /\ sessions[s].status \in AwaitingOtp
  /\ Begin(h, "otp", [NoRequest EXCEPT !.kind = "otp", !.session = s, !.otp = otp],
           sessions[s])
  /\ proved' = [proved EXCEPT ![s] = @ \cup {u \in Users : <<u, otp>> \in challenged[s]}]
  /\ UNCHANGED <<now, db, challenged, rejected>>

TwoFactorReject(h) ==
  LET s == req[h].session IN
  /\ pc[h] = "otp"
  /\ snap[h].otpCode # req[h].otp
  /\ UpdateSession(s, Penalised(snap[h], "2FA_PENDING"))
  /\ CountRejection(s)
  /\ End(h)
  /\ UNCHANGED <<now, par, codes, challenged, proved>>

\* Mutant: the OTP is not compared.
TwoFactorAcceptAny(h) ==
  LET s == req[h].session IN
  /\ pc[h] = "otp"
  /\ UpdateSession(s, [snap[h] EXCEPT !.status = "COMPLETED", !.retryCount = 0,
                                      !.loa = 2, !.amr = AmrOtp])
  /\ rejected' = [rejected EXCEPT ![s] = 0]
  /\ Goto(h, "authorize")
  /\ UNCHANGED <<now, par, codes, challenged, proved>>

TwoFactorAccept(h) ==
  LET s == req[h].session IN
  /\ pc[h] = "otp"
  /\ snap[h].otpCode = req[h].otp
  /\ UpdateSession(s, [snap[h] EXCEPT !.status = "COMPLETED", !.retryCount = 0,
                                      !.loa = 2, !.amr = AmrOtp])
  /\ rejected' = [rejected EXCEPT ![s] = 0]
  /\ Goto(h, "authorize")
  /\ UNCHANGED <<now, par, codes, challenged, proved>>

\* The response of Validate2FA, with or without a code to redirect with.
TwoFactorRespond(h) ==
  /\ req[h].kind = "otp"
  /\ pc[h] \in {"issued", "refused"}
  /\ End(h)
  /\ UNCHANGED <<now, db, history>>

-----------------------------------------------------------------------------
(* GenerateAuthCode: reads the row again, then the PAR, then inserts a code *)

\* The code being made from row s at this moment.
Draft(s, row) ==
  [session |-> s, par |-> row.par, clientId |-> row.clientId, userId |-> row.userId,
   loa |-> row.loa, amr |-> row.amr, createdAt |-> now, expiresAt |-> 0]

\* Mutant: the status is not checked again, the caller having just completed the row.
AuthorizeReadAnyStatus(h) ==
  LET fit == SessionLive(req[h].session) IN
  /\ pc[h] = "authorize"
  /\ pc' = [pc EXCEPT ![h] = IF fit THEN "par" ELSE "refused"]
  /\ draft' = IF fit THEN [draft EXCEPT ![h] = Draft(req[h].session, sessions[req[h].session])]
                     ELSE draft
  /\ UNCHANGED <<now, db, req, snap, history>>

AuthorizeRead(h) ==
  LET row == sessions[req[h].session]
      fit == SessionLive(req[h].session) /\ row.status = "COMPLETED"
  IN
  /\ pc[h] = "authorize"
  /\ pc' = [pc EXCEPT ![h] = IF fit THEN "par" ELSE "refused"]
  /\ draft' = IF fit THEN [draft EXCEPT ![h] = Draft(req[h].session, row)] ELSE draft
  /\ UNCHANGED <<now, db, req, snap, history>>

\* Mutant: a request that is gone is not answered.
AuthorizeParOnlyLive(h) ==
  /\ pc[h] = "par"
  /\ ParLive(draft[h].par, draft[h].createdAt)
  /\ pc' = [pc EXCEPT ![h] = "save"]
  /\ draft' = [draft EXCEPT ![h].expiresAt = now + CodeTTL]
  /\ UNCHANGED <<now, db, req, snap, history>>

\* The PAR is asked for as soon as the row is read; its answer may come later, and
\* only then does the life of the code begin.
AuthorizePar(h) ==
  /\ pc[h] = "par"
  /\ IF ParLive(draft[h].par, draft[h].createdAt)
       THEN /\ pc' = [pc EXCEPT ![h] = "save"]
            /\ draft' = [draft EXCEPT ![h].expiresAt = now + CodeTTL]
       ELSE /\ pc' = [pc EXCEPT ![h] = "refused"]
            /\ UNCHANGED draft
  /\ UNCHANGED <<now, db, req, snap, history>>

SaveCode(h) ==
  /\ pc[h] = "save"
  /\ codes' = codes \cup {draft[h]}
  /\ Goto(h, "issued")
  /\ UNCHANGED <<now, par, sessions, history>>

-----------------------------------------------------------------------------
(* The environment *)

\* A query rejects (the controllers answer 500) or the process stops and is
\* started again: the request is gone and what it had written stays.
Abort(h) ==
  /\ pc[h] # "idle"
  /\ End(h)
  /\ UNCHANGED <<now, db, history>>

Tick ==
  /\ now < MaxClock
  /\ now' = now + 1
  /\ UNCHANGED <<db, local, history>>

Generate(h) == AuthorizeRead(h) \/ AuthorizePar(h) \/ SaveCode(h)

\* What a started request does next on its own.
Continue(h) ==
  \/ LoginReject(h)
  \/ \E otp \in Otps : LoginAccept(h, otp)
  \/ TwoFactorReject(h)
  \/ TwoFactorAccept(h)
  \/ TwoFactorRespond(h)
  \/ Generate(h)

Start ==
  \/ \E r \in Requests, c \in Clients : PushRequest(r, c)
  \/ \E s \in Sessions, r \in Requests, c \in Clients : InitiateAuthSession(s, r, c)
  \/ \E h \in Handlers, s \in Sessions, u \in Users \cup {None} : LoginRead(h, s, u)
  \/ \E h \in Handlers, s \in Sessions, otp \in Otps : TwoFactorRead(h, s, otp)

Next ==
  \/ Start
  \/ \E h \in Handlers : Continue(h) \/ Abort(h)
  \/ Tick

Spec == Init /\ [][Next]_vars

\* The runtime goes on with every request it has started.
Fairness == \A h \in Handlers : WF_vars(Continue(h))

FairSpec == Spec /\ Fairness

-----------------------------------------------------------------------------
TypeOK ==
  /\ now \in 0..MaxClock
  /\ par \in [Requests -> ParRow]
  /\ sessions \in [Sessions -> SessionRow]
  /\ codes \subseteq CodeRow
  /\ pc \in [Handlers -> Labels]
  /\ req \in [Handlers -> Request]
  /\ snap \in [Handlers -> SessionRow]
  /\ draft \in [Handlers -> CodeRow]
  /\ challenged \in [Sessions -> SUBSET (Users \X Otps)]
  /\ proved \in [Sessions -> SUBSET Users]
  /\ rejected \in [Sessions -> 0..MaxRetries]
  /\ \A h \in Handlers : pc[h] # "idle" => req[h].session \in Sessions

-----------------------------------------------------------------------------
(* What holds of every interleaving of requests *)

\* A code only ever names a user who, in the session it came from, gave the
\* right password and afterwards presented the OTP drawn for that password
\* check (or was authenticated by the Singpass app), and it carries the
\* assurance level 2 earned that way: GenerateAuthCode.ts trusts a row that
\* other requests may have rewritten since the caller completed it.
CodeAttestsUser ==
  \A c \in codes :
    /\ c.userId \in proved[c.session]
    /\ c.loa = 2
    /\ c.amr \in {AmrOtp, AmrQR}

\* A code goes to the client that pushed the request, and was made while that
\* request was live, however slowly the two factors and GenerateAuthCode's
\* queries follow each other (a session outlives its request by an instant).
CodeWithinRequest ==
  \A c \in codes :
    /\ c.clientId = par[c.par].clientId
    /\ c.createdAt < par[c.par].expiresAt

\* A row that waits for an OTP never pairs one user's id with an OTP drawn for
\* another: concurrent logins of two users in one session leave the pair of one
\* of them (update() writes the columns of one copy together).
ChallengeNotTorn ==
  \A s \in Sessions :
    sessions[s].status \in AwaitingOtp =>
      <<sessions[s].userId, sessions[s].otpCode>> \in challenged[s]

\* The count and the status of a row never disagree, whatever copy was written
\* last: a row at the limit is FAILED, a FAILED row is at the limit, and the
\* count does not pass it.
FailedExactlyAtLimit ==
  \A s \in Sessions :
    /\ sessions[s].retryCount <= MaxRetries
    /\ sessions[s].status = "FAILED" <=> sessions[s].retryCount = MaxRetries

\* Every step keeps the promise made to relying parties: a code is issued only
\* for a user already authenticated in its session, and nothing is withdrawn.
Grant == INSTANCE AuthGrant
           WITH granted <- {<<c.session, c.userId>> : c \in codes}
ImplementsGrant == Grant!Spec

-----------------------------------------------------------------------------
(* The inductive invariants behind these four *)

\* What a row says about authentication is true, given the OTPs drawn (ch) and the
\* users proved (pr) in its session.
Attested(ch, pr, row) ==
  /\ row.status \in AwaitingOtp => <<row.userId, row.otpCode>> \in ch
  /\ row.status = "COMPLETED" =>
       row.userId \in pr /\ row.loa = 2 /\ row.amr \in {AmrOtp, AmrQR}

AttestedCode(c) ==
  /\ c.session \in Sessions
  /\ c.userId \in proved[c.session]
  /\ c.loa = 2
  /\ c.amr \in {AmrOtp, AmrQR}

\* The copy of a handler about to write stays true although its row may have moved
\* on, and a right OTP proves the user of the copy it was compared with.
AttestedCopy(ch, pr, label, otp, row) ==
  /\ label \in {"password", "otp"} => Attested(ch, pr, row)
  /\ label = "otp" => row.status \in AwaitingOtp /\ (otp = row.otpCode => row.userId \in pr)

AttestationInv ==
  /\ \A s \in Sessions : Attested(challenged[s], proved[s], sessions[s])
  /\ \A h \in Handlers :
       /\ AttestedCopy(challenged[req[h].session], proved[req[h].session],
                       pc[h], req[h].otp, snap[h])
       /\ pc[h] \in {"par", "save"} => AttestedCode(draft[h])
  /\ \A c \in codes : AttestedCode(c)

\* A row carries the client and the expiry of the request it came from (pa: the
\* pushed requests).
FromRequest(pa, row) ==
  row.status # "ABSENT" =>
    /\ row.par \in Requests
    /\ row.clientId \in Clients
    /\ pa[row.par] = [clientId |-> row.clientId, expiresAt |-> row.expiresAt]

BoundToRequest(pa, c) ==
  /\ c.par \in Requests
  /\ c.clientId \in Clients
  /\ c.clientId = pa[c.par].clientId

CodeFits(pa, c) == BoundToRequest(pa, c) /\ c.createdAt < pa[c.par].expiresAt

\* So do the copies of the handlers and the code being made from a row.
HandlerFits(pa, label, row, c) ==
  /\ label \in {"password", "otp"} => row.status # "ABSENT" /\ FromRequest(pa, row)
  /\ label = "par" => BoundToRequest(pa, c)
  /\ label = "save" => CodeFits(pa, c)

WindowInv ==
  /\ \A s \in Sessions : FromRequest(par, sessions[s])
  /\ \A h \in Handlers : HandlerFits(par, pc[h], snap[h], draft[h])
  /\ \A c \in codes : CodeFits(par, c)

RetriesFit(row) ==
  row.retryCount <= MaxRetries /\ (row.status = "FAILED" <=> row.retryCount = MaxRetries)

\* The handlers about to write back a copy hold one that is below the limit.
RetryInv ==
  /\ \A s \in Sessions : RetriesFit(sessions[s])
  /\ \A h \in Handlers :
       pc[h] \in {"password", "otp"} => RetriesFit(snap[h]) /\ snap[h].status # "FAILED"

-----------------------------------------------------------------------------
(* What holds when the requests of a session follow one another *)

\* Every failed attempt counts: MaxRetries of them in a row end the session.
RetryLimit ==
  \A s \in Sessions : rejected[s] >= MaxRetries => sessions[s].status = "FAILED"

\* "Authentication failed permanently": no later write revives a failed row.
FailedIsFinal ==
  [][\A s \in Sessions : sessions[s].status = "FAILED" => sessions'[s] = sessions[s]]_vars

\* The requests of a session follow one another: while one holds a copy of the row,
\* no other one does.  (Requests of other sessions, and one that has gone on to
\* GenerateAuthCode, may overlap it.)  Nothing in the code makes it so.
Sequential ==
  \A g, h \in Handlers :
    /\ pc[g] \in {"password", "otp"}
    /\ pc[h] \in {"password", "otp"}
    /\ req[g].session = req[h].session
    => g = h

\* Then the copy of a request is the row itself, and the row counts every attempt
\* rejected since the last success.
CountInv ==
  /\ \A s \in Sessions : rejected[s] <= sessions[s].retryCount
  /\ \A s \in Sessions : sessions[s].status = "ABSENT" => rejected[s] = 0
  /\ \A h \in Handlers :
       pc[h] \in {"password", "otp"} =>
         snap[h] = sessions[req[h].session] /\ snap[h].status # "ABSENT"

\* Every request that starts is answered: no branch of a handler leaves it waiting.
RequestsAnswered == \A h \in Handlers : pc[h] # "idle" ~> pc[h] = "idle"
=============================================================================
