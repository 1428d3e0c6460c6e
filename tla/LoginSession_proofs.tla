------------------------ MODULE LoginSession_proofs ------------------------
(***************************************************************************)
(* Proofs about LoginSession, for every number of users, sessions,         *)
(* concurrent handlers and every value of the limits.                      *)
(***************************************************************************)
EXTENDS LoginSession, TLAPS

-----------------------------------------------------------------------------
(* Types *)

LEMMA ConstantsTyped ==
  /\ NoPar \in ParRow
  /\ NoRow \in SessionRow
  /\ NoCode \in CodeRow
  /\ NoRequest \in Request
  /\ \A t \in 0..MaxClock : t + ParTTL \in Times /\ t + CodeTTL \in Times
BY LimitsAssumption
   DEF NoPar, ParRow, NoRow, SessionRow, NoCode, CodeRow, NoRequest, Request, Times,
       Statuses, Amrs, AmrNone

\* The two ways a handler's local state changes keep its type.
LEMMA BeginTyped ==
  ASSUME TypeOK, NEW h \in Handlers, NEW label \in Labels, NEW request \in Request,
         NEW row \in SessionRow, Begin(h, label, request, row)
  PROVE  /\ pc' \in [Handlers -> Labels]
         /\ req' \in [Handlers -> Request]
         /\ snap' \in [Handlers -> SessionRow]
         /\ draft' \in [Handlers -> CodeRow]
         /\ request.session \in Sessions =>
              \A g \in Handlers : pc'[g] # "idle" => req'[g].session \in Sessions
BY DEF TypeOK, Begin

LEMMA EndTyped ==
  ASSUME TypeOK, NEW h \in Handlers, End(h)
  PROVE  /\ pc' \in [Handlers -> Labels]
         /\ req' \in [Handlers -> Request]
         /\ snap' \in [Handlers -> SessionRow]
         /\ draft' \in [Handlers -> CodeRow]
         /\ \A g \in Handlers : pc'[g] # "idle" => req'[g].session \in Sessions
BY ConstantsTyped DEF TypeOK, End, Labels

LEMMA UpdateTyped ==
  ASSUME TypeOK, NEW s \in Sessions, NEW row \in SessionRow, UpdateSession(s, row)
  PROVE  sessions' \in [Sessions -> SessionRow]
BY DEF TypeOK, UpdateSession

LEMMA RejectionTyped ==
  ASSUME TypeOK, NEW s \in Sessions, CountRejection(s)
  PROVE  rejected' \in [Sessions -> 0..MaxRetries]
<1>1. \A n \in 0..MaxRetries : (IF n < MaxRetries THEN n + 1 ELSE n) \in 0..MaxRetries
  BY LimitsAssumption
<1> QED BY <1>1 DEF TypeOK, CountRejection

LEMMA RowsTyped ==
  ASSUME NEW row \in SessionRow
  PROVE  /\ \A st \in Statuses \cup {"ABSENT"} : Penalised(row, st) \in SessionRow
         /\ \A u \in Users, otp \in Otps :
              [row EXCEPT !.status = "PRIMARY_AUTH_SUCCESS", !.userId = u, !.otpCode = otp,
                          !.retryCount = 0, !.loa = 1, !.amr = AmrPwd] \in SessionRow
         /\ [row EXCEPT !.status = "COMPLETED", !.retryCount = 0, !.loa = 2,
                        !.amr = AmrOtp] \in SessionRow
<1>1. ASSUME NEW st \in Statuses \cup {"ABSENT"} PROVE Penalised(row, st) \in SessionRow
  <2>1. row.retryCount + 1 \in Nat
    BY DEF SessionRow
  <2>2. (IF row.retryCount + 1 >= MaxRetries THEN "FAILED" ELSE st)
          \in Statuses \cup {"ABSENT"}
    BY DEF Statuses
  <2> HIDE DEF Statuses
  <2> QED BY <2>1, <2>2 DEF SessionRow, Penalised
<1>2. ASSUME NEW u \in Users, NEW otp \in Otps
      PROVE  [row EXCEPT !.status = "PRIMARY_AUTH_SUCCESS", !.userId = u, !.otpCode = otp,
                         !.retryCount = 0, !.loa = 1, !.amr = AmrPwd] \in SessionRow
  <2>1. "PRIMARY_AUTH_SUCCESS" \in Statuses /\ AmrPwd \in Amrs
    BY DEF Statuses, Amrs
  <2> QED BY <2>1 DEF SessionRow
<1>3. [row EXCEPT !.status = "COMPLETED", !.retryCount = 0, !.loa = 2,
                  !.amr = AmrOtp] \in SessionRow
  <2>1. "COMPLETED" \in Statuses /\ AmrOtp \in Amrs
    BY DEF Statuses, Amrs
  <2> QED BY <2>1 DEF SessionRow
<1> QED BY <1>1, <1>2, <1>3

LEMMA TypeStep == TypeOK /\ [Next]_vars => TypeOK'
<1> SUFFICES ASSUME TypeOK, [Next]_vars PROVE TypeOK'
  OBVIOUS
<1> USE DEF db, local, history
<1>1. ASSUME NEW r \in Requests, NEW c \in Clients, PushRequest(r, c) PROVE TypeOK'
  <2>1. [clientId |-> c, expiresAt |-> now + ParTTL] \in ParRow
    BY ConstantsTyped DEF TypeOK, ParRow
  <2>2. par' \in [Requests -> ParRow]
    BY <1>1, <2>1 DEF PushRequest, TypeOK
  <2> QED BY <1>1, <2>2 DEF PushRequest, TypeOK
<1>2. ASSUME NEW s \in Sessions, NEW r \in Requests, NEW c \in Clients,
             InitiateAuthSession(s, r, c)
      PROVE  TypeOK'
  <2>1. par[r].expiresAt \in Times
    BY DEF TypeOK, ParRow
  <2>2. [NoRow EXCEPT !.par = r, !.clientId = c, !.status = "INITIATED",
                      !.expiresAt = par[r].expiresAt] \in SessionRow
    BY <2>1, ConstantsTyped DEF SessionRow, Statuses
  <2>3. sessions' \in [Sessions -> SessionRow]
    BY <1>2, <2>2, UpdateTyped DEF InitiateAuthSession
  <2> QED BY <1>2, <2>3 DEF InitiateAuthSession, TypeOK
<1>3. ASSUME NEW h \in Handlers, NEW s \in Sessions, NEW u \in Users \cup {None},
             LoginRead(h, s, u)
      PROVE  TypeOK'
  <2>1. /\ [NoRequest EXCEPT !.kind = "login", !.session = s, !.user = u] \in Request
        /\ [NoRequest EXCEPT !.kind = "login", !.session = s, !.user = u].session = s
    BY ConstantsTyped DEF Request, NoRequest
  <2>2. "password" \in Labels /\ sessions[s] \in SessionRow
    BY DEF Labels, TypeOK
  <2>3. Begin(h, "password", [NoRequest EXCEPT !.kind = "login", !.session = s,
                                               !.user = u], sessions[s])
    BY <1>3 DEF LoginRead
  <2> HIDE DEF local
  <2>4. /\ pc' \in [Handlers -> Labels]
        /\ req' \in [Handlers -> Request]
        /\ snap' \in [Handlers -> SessionRow]
        /\ draft' \in [Handlers -> CodeRow]
        /\ \A g \in Handlers : pc'[g] # "idle" => req'[g].session \in Sessions
    BY <2>1, <2>2, <2>3, BeginTyped
  <2> QED BY <1>3, <2>4 DEF LoginRead, TypeOK
<1>4. ASSUME NEW h \in Handlers, NEW s \in Sessions, NEW otp \in Otps,
             TwoFactorRead(h, s, otp)
      PROVE  TypeOK'
  <2>1. /\ [NoRequest EXCEPT !.kind = "otp", !.session = s, !.otp = otp] \in Request
        /\ [NoRequest EXCEPT !.kind = "otp", !.session = s, !.otp = otp].session = s
    BY ConstantsTyped DEF Request, NoRequest
  <2>2. "otp" \in Labels /\ sessions[s] \in SessionRow
    BY DEF Labels, TypeOK
  <2>3. Begin(h, "otp", [NoRequest EXCEPT !.kind = "otp", !.session = s, !.otp = otp],
              sessions[s])
    BY <1>4 DEF TwoFactorRead
  <2>4. /\ pc' \in [Handlers -> Labels]
        /\ req' \in [Handlers -> Request]
        /\ snap' \in [Handlers -> SessionRow]
        /\ draft' \in [Handlers -> CodeRow]
        /\ \A g \in Handlers : pc'[g] # "idle" => req'[g].session \in Sessions
    BY <2>1, <2>2, <2>3, BeginTyped
  <2>5. proved' \in [Sessions -> SUBSET Users]
    BY <1>4 DEF TwoFactorRead, TypeOK
  <2> QED BY <1>4, <2>4, <2>5 DEF TwoFactorRead, TypeOK
<1>5. ASSUME NEW h \in Handlers, LoginReject(h) PROVE TypeOK'
  <2>1. Penalised(snap[h], snap[h].status) \in SessionRow
    BY RowsTyped DEF TypeOK, SessionRow
  <2>2. req[h].session \in Sessions
    BY <1>5 DEF LoginReject, TypeOK
  <2>3. sessions' \in [Sessions -> SessionRow] /\ rejected' \in [Sessions -> 0..MaxRetries]
    BY <1>5, <2>1, <2>2, UpdateTyped, RejectionTyped DEF LoginReject
  <2> QED BY <1>5, <2>3, EndTyped DEF LoginReject, TypeOK
<1>6. ASSUME NEW h \in Handlers, NEW otp \in Otps, LoginAccept(h, otp) PROVE TypeOK'
  <2>1. req[h].user \in Users /\ snap[h] \in SessionRow /\ req[h].session \in Sessions
    BY <1>6 DEF LoginAccept, TypeOK, Request
  <2>2. sessions' \in [Sessions -> SessionRow]
    BY <1>6, <2>1, RowsTyped, UpdateTyped DEF LoginAccept
  <2>3. challenged' \in [Sessions -> SUBSET (Users \X Otps)]
    BY <1>6, <2>1 DEF LoginAccept, TypeOK
  <2>4. rejected' \in [Sessions -> 0..MaxRetries]
    BY <1>6, <2>1, LimitsAssumption DEF LoginAccept, TypeOK
  <2> QED BY <1>6, <2>2, <2>3, <2>4, EndTyped DEF LoginAccept, TypeOK
<1>7. ASSUME NEW h \in Handlers, TwoFactorReject(h) PROVE TypeOK'
  <2>1. Penalised(snap[h], "2FA_PENDING") \in SessionRow
    BY RowsTyped DEF TypeOK, Statuses
  <2>2. req[h].session \in Sessions
    BY <1>7 DEF TwoFactorReject, TypeOK
  <2>3. sessions' \in [Sessions -> SessionRow] /\ rejected' \in [Sessions -> 0..MaxRetries]
    BY <1>7, <2>1, <2>2, UpdateTyped, RejectionTyped DEF TwoFactorReject
  <2> QED BY <1>7, <2>3, EndTyped DEF TwoFactorReject, TypeOK
<1>8. ASSUME NEW h \in Handlers, TwoFactorAccept(h) PROVE TypeOK'
  <2>1. snap[h] \in SessionRow /\ req[h].session \in Sessions
    BY <1>8 DEF TypeOK, TwoFactorAccept
  <2>2. sessions' \in [Sessions -> SessionRow]
    BY <1>8, <2>1, RowsTyped, UpdateTyped DEF TwoFactorAccept
  <2>3. rejected' \in [Sessions -> 0..MaxRetries]
    BY <1>8, <2>1, LimitsAssumption DEF TwoFactorAccept, TypeOK
  <2> QED BY <1>8, <2>2, <2>3 DEF TwoFactorAccept, TypeOK, Goto, Labels
<1>9. ASSUME NEW h \in Handlers, TwoFactorRespond(h) PROVE TypeOK'
  BY <1>9, EndTyped DEF TwoFactorRespond, TypeOK
<1>10. ASSUME NEW h \in Handlers, AuthorizeRead(h) PROVE TypeOK'
  <2> DEFINE row == sessions[req[h].session]
             made == Draft(req[h].session, row)
  <2>1. pc' \in [Handlers -> Labels]
    BY <1>10 DEF AuthorizeRead, TypeOK, Labels
  <2>2. draft' \in [Handlers -> CodeRow]
    <3>1. CASE draft' = draft
      BY <3>1 DEF TypeOK
    <3>2. CASE draft' = [draft EXCEPT ![h] = made]
      <4>1. row \in SessionRow /\ 0 \in Times /\ now \in Times /\ req[h].session \in Sessions
        BY <1>10, LimitsAssumption DEF TypeOK, Times, AuthorizeRead
      <4>2. made \in CodeRow
        BY <3>2, <4>1 DEF Draft, SessionRow, CodeRow
      <4> QED BY <3>2, <4>2 DEF TypeOK
    <3> QED BY <1>10, <3>1, <3>2 DEF AuthorizeRead
  <2> QED BY <1>10, <2>1, <2>2 DEF AuthorizeRead, TypeOK
<1>11. ASSUME NEW h \in Handlers, AuthorizePar(h) PROVE TypeOK'
  <2>1. [draft[h] EXCEPT !.expiresAt = now + CodeTTL] \in CodeRow
    BY ConstantsTyped DEF TypeOK, CodeRow
  <2> QED BY <1>11, <2>1 DEF AuthorizePar, TypeOK, Labels
<1>12. ASSUME NEW h \in Handlers, SaveCode(h) PROVE TypeOK'
  BY <1>12 DEF SaveCode, TypeOK, Goto, Labels
<1>13. ASSUME NEW h \in Handlers, Abort(h) PROVE TypeOK'
  BY <1>13, EndTyped DEF Abort, TypeOK
<1>14. ASSUME Tick PROVE TypeOK'
  BY <1>14, LimitsAssumption DEF Tick, TypeOK
<1>15. ASSUME UNCHANGED vars PROVE TypeOK'
  BY <1>15 DEF vars, TypeOK
<1> QED
  BY <1>1, <1>2, <1>3, <1>4, <1>5, <1>6, <1>7, <1>8, <1>9, <1>10, <1>11, <1>12, <1>13,
     <1>14, <1>15
  DEF Next, Start, Continue, Generate

\* Every reachable state of the login is typed.
THEOREM TypeCorrect == Spec => []TypeOK
<1>1. Init => TypeOK
  BY ConstantsTyped, LimitsAssumption DEF Init, TypeOK, Labels
<1> QED BY <1>1, TypeStep, PTL DEF Spec
-----------------------------------------------------------------------------
(* The retry limit of a row *)

LEMMA PenalisedFits ==
  ASSUME NEW row \in SessionRow, RetriesFit(row), row.status # "FAILED",
         NEW st \in Statuses \cup {"ABSENT"}, st # "FAILED"
  PROVE  RetriesFit(Penalised(row, st))
BY LimitsAssumption DEF RetriesFit, Penalised, SessionRow

LEMMA RetryStep == TypeOK /\ RetryInv /\ [Next]_vars => RetryInv'
<1> SUFFICES ASSUME TypeOK, RetryInv, [Next]_vars PROVE RetryInv'
  OBVIOUS
<1> USE DEF db, local, history
<1>1. ASSUME UNCHANGED <<sessions, pc, snap>> PROVE RetryInv'
  BY <1>1 DEF RetryInv
\* A handler that ends or moves on to GenerateAuthCode holds no copy any more.
<1>2. ASSUME NEW h \in Handlers, UNCHANGED sessions,
             End(h) \/ (pc'[h] \notin {"password", "otp"} /\ UNCHANGED snap
                        /\ \E l \in Labels : pc' = [pc EXCEPT ![h] = l])
      PROVE  RetryInv'
  BY <1>2 DEF RetryInv, End, TypeOK, Labels
<1>3. ASSUME NEW s \in Sessions, NEW r \in Requests, NEW c \in Clients,
             InitiateAuthSession(s, r, c)
      PROVE  RetryInv'
  <2>1. RetriesFit(sessions'[s])
    BY <1>3, LimitsAssumption
    DEF InitiateAuthSession, UpdateSession, RetriesFit, NoRow, TypeOK
  <2> QED BY <1>3, <2>1 DEF InitiateAuthSession, UpdateSession, RetryInv, TypeOK
<1>4. ASSUME NEW h \in Handlers, NEW s \in Sessions, NEW u \in Users \cup {None},
             LoginRead(h, s, u)
      PROVE  RetryInv'
  BY <1>4 DEF LoginRead, Begin, RetryInv, TypeOK
<1>5. ASSUME NEW h \in Handlers, NEW s \in Sessions, NEW otp \in Otps,
             TwoFactorRead(h, s, otp)
      PROVE  RetryInv'
  BY <1>5 DEF TwoFactorRead, Begin, RetryInv, TypeOK, AwaitingOtp
\* The three writes of a whole copy.
<1>6. ASSUME NEW h \in Handlers, NEW row, RetriesFit(row),
             UpdateSession(req[h].session, row), End(h) \/ Goto(h, "authorize")
      PROVE  RetryInv'
  BY <1>6 DEF UpdateSession, End, Goto, RetryInv, TypeOK
<1>7. ASSUME NEW h \in Handlers, LoginReject(h) PROVE RetryInv'
  <2>1. snap[h] \in SessionRow /\ RetriesFit(snap[h]) /\ snap[h].status # "FAILED"
    BY <1>7 DEF LoginReject, RetryInv, TypeOK
  <2>2. snap[h].status \in Statuses \cup {"ABSENT"}
    BY <2>1 DEF SessionRow
  <2> QED BY <1>6, <1>7, <2>1, <2>2, PenalisedFits DEF LoginReject
<1>8. ASSUME NEW h \in Handlers, NEW otp \in Otps, LoginAccept(h, otp) PROVE RetryInv'
  <2>1. RetriesFit([snap[h] EXCEPT !.status = "PRIMARY_AUTH_SUCCESS",
                                   !.userId = req[h].user, !.otpCode = otp,
                                   !.retryCount = 0, !.loa = 1, !.amr = AmrPwd])
    BY LimitsAssumption DEF RetriesFit, TypeOK, SessionRow
  <2> QED BY <1>6, <1>8, <2>1 DEF LoginAccept
<1>9. ASSUME NEW h \in Handlers, TwoFactorReject(h) PROVE RetryInv'
  <2>1. snap[h] \in SessionRow /\ RetriesFit(snap[h]) /\ snap[h].status # "FAILED"
    BY <1>9 DEF TwoFactorReject, RetryInv, TypeOK
  <2>2. "2FA_PENDING" \in Statuses
    BY DEF Statuses
  <2> QED BY <1>6, <1>9, <2>1, <2>2, PenalisedFits DEF TwoFactorReject
<1>10. ASSUME NEW h \in Handlers, TwoFactorAccept(h) PROVE RetryInv'
  <2>1. RetriesFit([snap[h] EXCEPT !.status = "COMPLETED", !.retryCount = 0, !.loa = 2,
                                   !.amr = AmrOtp])
    BY LimitsAssumption DEF RetriesFit, TypeOK, SessionRow
  <2> QED BY <1>6, <1>10, <2>1 DEF TwoFactorAccept
<1>11. ASSUME NEW h \in Handlers, TwoFactorRespond(h) \/ Abort(h) PROVE RetryInv'
  BY <1>2, <1>11 DEF TwoFactorRespond, Abort
<1>12. ASSUME NEW h \in Handlers, Generate(h) PROVE RetryInv'
  BY <1>2, <1>12 DEF Generate, AuthorizeRead, AuthorizePar, SaveCode, Goto, TypeOK, Labels
<1> QED
  BY <1>1, <1>3, <1>4, <1>5, <1>7, <1>8, <1>9, <1>10, <1>11, <1>12
  DEF Next, Start, Continue, PushRequest, Tick, vars

\* A row is FAILED exactly when its count stands at the limit, and no count ever
\* passes it, whichever copies concurrent requests write over each other
\* (ValidateLogin.ts:55-72, Validate2FA.ts:57-78).
THEOREM RetryCorrect == Spec => []FailedExactlyAtLimit
<1>1. Init => RetryInv
  BY LimitsAssumption DEF Init, RetryInv, RetriesFit, NoRow
<1>2. RetryInv => FailedExactlyAtLimit
  BY DEF RetryInv, RetriesFit, FailedExactlyAtLimit
<1> QED BY <1>1, <1>2, RetryStep, TypeCorrect, PTL DEF Spec
-----------------------------------------------------------------------------
(* Requests of a session that follow one another *)

\* Every write of a row copied before comes from the one request that holds a copy,
\* and leaves no copy of the row behind.
LEMMA LastCopy ==
  ASSUME TypeOK, CountInv, Sequential, NEW h \in Handlers, pc[h] \in {"password", "otp"},
         NEW row, UpdateSession(req[h].session, row), row.status # "ABSENT",
         rejected'[req[h].session] <= row.retryCount,
         \A s \in Sessions \ {req[h].session} : rejected'[s] = rejected[s],
         End(h) \/ Goto(h, "authorize")
  PROVE  CountInv'
<1> DEFINE s == req[h].session
<1>1. s \in Sessions
  BY DEF TypeOK
<1>2. sessions'[s] = row /\ \A t \in Sessions \ {s} : sessions'[t] = sessions[t]
  BY <1>1 DEF UpdateSession, TypeOK
<1>3. ASSUME NEW g \in Handlers, pc'[g] \in {"password", "otp"}
      PROVE  snap'[g] = sessions'[req'[g].session] /\ snap'[g].status # "ABSENT"
  <2>1. /\ g # h
        /\ pc'[g] = pc[g]
        /\ req'[g] = req[g]
        /\ snap'[g] = snap[g]
    BY <1>3 DEF End, Goto, TypeOK
  <2>2. req[g].session # s /\ req[g].session \in Sessions
    BY <1>3, <2>1 DEF Sequential, TypeOK
  <2> QED BY <1>2, <1>3, <2>1, <2>2 DEF CountInv
<1>4. \A t \in Sessions : rejected'[t] <= sessions'[t].retryCount
  BY <1>2 DEF CountInv
<1>5. \A t \in Sessions : sessions'[t].status = "ABSENT" => rejected'[t] = 0
  BY <1>2 DEF CountInv
<1> QED BY <1>3, <1>4, <1>5 DEF CountInv

LEMMA CountStep ==
  TypeOK /\ RetryInv /\ CountInv /\ Sequential /\ [Next]_vars => CountInv'
<1> SUFFICES ASSUME TypeOK, RetryInv, CountInv, Sequential, [Next]_vars PROVE CountInv'
  OBVIOUS
<1> USE DEF db, local, history
<1>1. ASSUME UNCHANGED <<sessions, pc, req, snap, rejected>> PROVE CountInv'
  BY <1>1 DEF CountInv
<1>2. ASSUME NEW h \in Handlers, UNCHANGED <<sessions, rejected>>,
             End(h) \/ (pc'[h] \notin {"password", "otp"} /\ UNCHANGED <<req, snap>>
                        /\ \E l \in Labels : pc' = [pc EXCEPT ![h] = l])
      PROVE  CountInv'
  BY <1>2 DEF CountInv, End, TypeOK, Labels
<1>3. ASSUME NEW s \in Sessions, NEW r \in Requests, NEW c \in Clients,
             InitiateAuthSession(s, r, c)
      PROVE  CountInv'
  <2>1. rejected[s] = 0 /\ sessions[s].status = "ABSENT"
    BY <1>3 DEF InitiateAuthSession, CountInv
  <2>2. /\ sessions'[s].retryCount = 0
        /\ sessions'[s].status = "INITIATED"
        /\ \A t \in Sessions \ {s} : sessions'[t] = sessions[t]
    BY <1>3 DEF InitiateAuthSession, UpdateSession, NoRow, TypeOK
  <2>3. UNCHANGED <<pc, req, snap, rejected>>
    BY <1>3 DEF InitiateAuthSession
  <2>4. \A g \in Handlers : pc[g] \in {"password", "otp"} => req[g].session # s
    BY <2>1 DEF CountInv
  <2>5. \A g \in Handlers : pc[g] \in {"password", "otp"} => req[g].session \in Sessions
    BY DEF TypeOK
  <2> QED BY <2>1, <2>2, <2>3, <2>4, <2>5 DEF CountInv
<1>4. ASSUME NEW h \in Handlers, NEW s \in Sessions, NEW label \in {"password", "otp"},
             NEW request, request.session = s, SessionLive(s),
             Begin(h, label, request, sessions[s]), UNCHANGED <<sessions, rejected>>
      PROVE  CountInv'
  BY <1>4 DEF Begin, SessionLive, CountInv, TypeOK
<1>5. ASSUME NEW h \in Handlers, NEW s \in Sessions, NEW u \in Users \cup {None},
             LoginRead(h, s, u)
      PROVE  CountInv'
  <2>1. [NoRequest EXCEPT !.kind = "login", !.session = s, !.user = u].session = s
    BY DEF NoRequest
  <2> QED BY <1>4, <1>5, <2>1 DEF LoginRead
<1>6. ASSUME NEW h \in Handlers, NEW s \in Sessions, NEW otp \in Otps,
             TwoFactorRead(h, s, otp)
      PROVE  CountInv'
  <2>1. [NoRequest EXCEPT !.kind = "otp", !.session = s, !.otp = otp].session = s
    BY DEF NoRequest
  <2> QED BY <1>4, <1>6, <2>1 DEF TwoFactorRead
\* A rejected attempt adds one to the row and at most one to the history.
<1>7. ASSUME NEW h \in Handlers, pc[h] \in {"password", "otp"},
             NEW st \in Statuses, UpdateSession(req[h].session, Penalised(snap[h], st)),
             CountRejection(req[h].session), End(h)
      PROVE  CountInv'
  <2> DEFINE s == req[h].session
             row == Penalised(snap[h], st)
  <2>1. s \in Sessions /\ snap[h] \in SessionRow /\ rejected[s] \in Nat
    BY <1>7, LimitsAssumption DEF TypeOK
  <2>2. rejected[s] <= snap[h].retryCount
    BY <1>7, <2>1 DEF CountInv
  <2>3. rejected'[s] <= rejected[s] + 1 /\ rejected'[s] \in Nat
    BY <1>7, <2>1, LimitsAssumption DEF CountRejection, TypeOK
  <2>4. \A t \in Sessions \ {s} : rejected'[t] = rejected[t]
    BY <1>7 DEF CountRejection, TypeOK
  <2>5. row.retryCount = snap[h].retryCount + 1 /\ row.status # "ABSENT"
    BY <2>1 DEF Penalised, SessionRow, Statuses
  <2>6. rejected'[s] <= row.retryCount
    BY <2>1, <2>2, <2>3, <2>5 DEF SessionRow
  <2> HIDE DEF row
  <2> QED BY <1>7, <2>4, <2>5, <2>6, LastCopy DEF row
<1>8. ASSUME NEW h \in Handlers, LoginReject(h) PROVE CountInv'
  <2>1. pc[h] = "password" /\ snap[h] \in SessionRow /\ snap[h].status # "ABSENT"
    BY <1>8 DEF LoginReject, CountInv, TypeOK
  <2>2. snap[h].status \in Statuses
    BY <2>1 DEF SessionRow
  <2> QED BY <1>7, <1>8, <2>1, <2>2 DEF LoginReject
<1>9. ASSUME NEW h \in Handlers, TwoFactorReject(h) PROVE CountInv'
  <2>1. "2FA_PENDING" \in Statuses
    BY DEF Statuses
  <2> QED BY <1>7, <1>9, <2>1 DEF TwoFactorReject
\* A success starts the count again.
<1>10. ASSUME NEW h \in Handlers, pc[h] \in {"password", "otp"}, NEW row,
              row.retryCount = 0, row.status # "ABSENT",
              UpdateSession(req[h].session, row),
              rejected' = [rejected EXCEPT ![req[h].session] = 0],
              End(h) \/ Goto(h, "authorize")
       PROVE  CountInv'
  <2>1. /\ rejected'[req[h].session] <= row.retryCount
        /\ \A s \in Sessions \ {req[h].session} : rejected'[s] = rejected[s]
    BY <1>10 DEF TypeOK
  <2> QED BY <1>10, <2>1, LastCopy
<1>11. ASSUME NEW h \in Handlers, NEW otp \in Otps, LoginAccept(h, otp) PROVE CountInv'
  <2> DEFINE row == [snap[h] EXCEPT !.status = "PRIMARY_AUTH_SUCCESS",
                                    !.userId = req[h].user, !.otpCode = otp,
                                    !.retryCount = 0, !.loa = 1, !.amr = AmrPwd]
  <2>1. row.retryCount = 0 /\ row.status # "ABSENT"
    BY DEF TypeOK, SessionRow
  <2>2. /\ pc[h] \in {"password", "otp"}
        /\ UpdateSession(req[h].session, row)
        /\ rejected' = [rejected EXCEPT ![req[h].session] = 0]
        /\ End(h)
    BY <1>11 DEF LoginAccept
  <2> HIDE DEF row
  <2> QED BY <1>10, <2>1, <2>2
<1>12. ASSUME NEW h \in Handlers, TwoFactorAccept(h) PROVE CountInv'
  <2> DEFINE row == [snap[h] EXCEPT !.status = "COMPLETED", !.retryCount = 0, !.loa = 2,
                                    !.amr = AmrOtp]
  <2>1. row.retryCount = 0 /\ row.status # "ABSENT"
    BY DEF TypeOK, SessionRow
  <2>2. /\ pc[h] \in {"password", "otp"}
        /\ UpdateSession(req[h].session, row)
        /\ rejected' = [rejected EXCEPT ![req[h].session] = 0]
        /\ Goto(h, "authorize")
    BY <1>12 DEF TwoFactorAccept
  <2> HIDE DEF row
  <2> QED BY <1>10, <2>1, <2>2
<1>13. ASSUME NEW h \in Handlers, TwoFactorRespond(h) \/ Abort(h) PROVE CountInv'
  BY <1>2, <1>13 DEF TwoFactorRespond, Abort
<1>14. ASSUME NEW h \in Handlers, Generate(h) PROVE CountInv'
  BY <1>2, <1>14 DEF Generate, AuthorizeRead, AuthorizePar, SaveCode, Goto, TypeOK, Labels
<1> QED
  BY <1>1, <1>3, <1>5, <1>6, <1>8, <1>9, <1>11, <1>12, <1>13, <1>14
  DEF Next, Start, Continue, PushRequest, Tick, vars

LEMMA CountInit == Init => RetryInv /\ CountInv
BY LimitsAssumption DEF Init, RetryInv, RetriesFit, CountInv, NoRow

LEMMA CountAlways == Spec /\ []Sequential => [](TypeOK /\ RetryInv /\ CountInv)
BY CountInit, CountStep, RetryStep, TypeCorrect, PTL DEF Spec

\* As long as no two requests of a session hold its row at once, every failed attempt
\* counts and MaxRetries of them in a row end the session (ValidateLogin.ts:55-72,
\* Validate2FA.ts:57-78); the run login_lost_update shows what overlapping ones do.
THEOREM RetryLimitCorrect == Spec /\ []Sequential => []RetryLimit
<1>1. TypeOK /\ RetryInv /\ CountInv => RetryLimit
  <2> SUFFICES ASSUME TypeOK, RetryInv, CountInv, NEW s \in Sessions,
                      rejected[s] >= MaxRetries
               PROVE  sessions[s].status = "FAILED"
    BY DEF RetryLimit
  <2>1. sessions[s].retryCount \in Nat /\ rejected[s] \in Nat /\ MaxRetries \in Nat
    BY LimitsAssumption DEF TypeOK, SessionRow
  <2>2. rejected[s] <= sessions[s].retryCount /\ RetriesFit(sessions[s])
    BY DEF CountInv, RetryInv
  <2> QED BY <2>1, <2>2 DEF RetriesFit
<1> QED BY <1>1, CountAlways, PTL

\* Nor does a write then revive a row that has failed: the one request that could
\* holds the failed row itself, and such a row is turned away when it is read.
LEMMA FailedKept ==
  TypeOK /\ RetryInv /\ CountInv /\ [Next]_vars
    => [\A s \in Sessions : sessions[s].status = "FAILED" => sessions'[s] = sessions[s]]_vars
<1> SUFFICES ASSUME TypeOK, RetryInv, CountInv, Next,
                    NEW s \in Sessions, sessions[s].status = "FAILED"
             PROVE  sessions'[s] = sessions[s]
  OBVIOUS
<1>1. ASSUME NEW t \in Sessions, NEW row, sessions[t].status # "FAILED",
             UpdateSession(t, row)
      PROVE  sessions'[s] = sessions[s]
  BY <1>1 DEF UpdateSession, TypeOK
<1>2. \A h \in Handlers :
        pc[h] \in {"password", "otp"} =>
          /\ req[h].session \in Sessions
          /\ sessions[req[h].session].status # "FAILED"
  BY DEF TypeOK, RetryInv, CountInv
<1>3. \/ UNCHANGED sessions
      \/ \E t \in Sessions : sessions[t].status = "ABSENT" /\ \E row : UpdateSession(t, row)
      \/ \E h \in Handlers :
           pc[h] \in {"password", "otp"} /\ \E row : UpdateSession(req[h].session, row)
  BY DEF Next, Start, Continue, Generate, PushRequest, InitiateAuthSession, LoginRead,
         LoginReject, LoginAccept, TwoFactorRead, TwoFactorReject, TwoFactorAccept,
         TwoFactorRespond, AuthorizeRead, AuthorizePar, SaveCode, Abort, Tick, db
<1> QED BY <1>1, <1>2, <1>3

\* "Authentication failed permanently" is true of requests that follow one another
\* (ValidateLogin.ts:26-93, Validate2FA.ts:30-110).
THEOREM FailedCorrect == Spec /\ []Sequential => FailedIsFinal
BY CountAlways, FailedKept, PTL DEF Spec, FailedIsFinal
-----------------------------------------------------------------------------
(* What rows, copies and codes attest *)

LEMMA HistoryGrows ==
  ASSUME TypeOK, [Next]_vars
  PROVE  /\ \A s \in Sessions : challenged[s] \subseteq challenged'[s]
         /\ \A s \in Sessions : proved[s] \subseteq proved'[s]
<1> USE DEF history
<1>1. ASSUME NEW h \in Handlers, NEW otp \in Otps, LoginAccept(h, otp)
      PROVE  /\ \A s \in Sessions : challenged[s] \subseteq challenged'[s]
             /\ UNCHANGED proved
  BY <1>1 DEF LoginAccept, TypeOK
<1>2. ASSUME NEW h \in Handlers, NEW s \in Sessions, NEW otp \in Otps,
             TwoFactorRead(h, s, otp)
      PROVE  /\ \A t \in Sessions : proved[t] \subseteq proved'[t]
             /\ UNCHANGED challenged
  BY <1>2 DEF TwoFactorRead, TypeOK
<1> QED
  BY <1>1, <1>2
  DEF Next, Start, Continue, Generate, PushRequest, InitiateAuthSession, LoginRead,
      LoginReject, TwoFactorReject, TwoFactorAccept, TwoFactorRespond, AuthorizeRead,
      AuthorizePar, SaveCode, Abort, Tick, vars

\* Evidence only grows, so whatever was attested stays attested.
LEMMA AttestedMonotone ==
  ASSUME NEW ch, NEW pr, NEW ch2, NEW pr2, ch \subseteq ch2, pr \subseteq pr2, NEW row
  PROVE  /\ Attested(ch, pr, row) => Attested(ch2, pr2, row)
         /\ \A label, otp : AttestedCopy(ch, pr, label, otp, row)
                              => AttestedCopy(ch2, pr2, label, otp, row)
BY DEF Attested, AttestedCopy

LEMMA PenalisedFields ==
  ASSUME NEW row \in SessionRow, NEW st
  PROVE  /\ Penalised(row, st).userId = row.userId
         /\ Penalised(row, st).otpCode = row.otpCode
         /\ Penalised(row, st).loa = row.loa
         /\ Penalised(row, st).amr = row.amr
         /\ Penalised(row, st).status \in {"FAILED", st}
BY DEF Penalised, SessionRow

\* A handler that neither starts nor reads a row for its code keeps or drops what
\* it holds.
KeepsOrDrops(g) ==
  \/ UNCHANGED <<pc[g], req[g], snap[g], draft[g]>>
  \/ pc'[g] \in {"idle", "authorize", "issued", "refused"}

LEMMA AttestationStep == TypeOK /\ AttestationInv /\ [Next]_vars => AttestationInv'
<1> SUFFICES ASSUME TypeOK, AttestationInv, [Next]_vars PROVE AttestationInv'
  OBVIOUS
<1> DEFINE Row(s) == Attested(challenged'[s], proved'[s], sessions'[s])
           Copy(g) == AttestedCopy(challenged'[req'[g].session], proved'[req'[g].session],
                                   pc'[g], req'[g].otp, snap'[g])
           Made(g) == pc'[g] \in {"par", "save"} => AttestedCode(draft[g])'
<1>1. /\ \A s \in Sessions : challenged[s] \subseteq challenged'[s]
      /\ \A s \in Sessions : proved[s] \subseteq proved'[s]
  BY HistoryGrows
\* What holds of everything a step leaves alone.
<1>2. \A s \in Sessions : sessions'[s] = sessions[s] => Row(s)
  BY <1>1, AttestedMonotone DEF AttestationInv
<1>3. ASSUME NEW g \in Handlers, KeepsOrDrops(g) PROVE Copy(g) /\ Made(g)
  <2>1. CASE UNCHANGED <<pc[g], req[g], snap[g], draft[g]>>
    <3>1. CASE pc[g] = "idle"
      BY <2>1, <3>1 DEF AttestedCopy
    <3>2. CASE req[g].session \in Sessions
      <4>1. Copy(g)
        BY <1>1, <2>1, <3>2, AttestedMonotone DEF AttestationInv
      <4>2. Made(g)
        BY <1>1, <2>1 DEF AttestationInv, AttestedCode
      <4> QED BY <4>1, <4>2
    <3> QED BY <3>1, <3>2 DEF TypeOK
  <2>2. CASE pc'[g] \in {"idle", "authorize", "issued", "refused"}
    BY <2>2 DEF AttestedCopy
  <2> QED BY <2>1, <2>2, <1>3 DEF KeepsOrDrops
<1>4. \A c \in codes : AttestedCode(c)'
  BY <1>1 DEF AttestationInv, AttestedCode
\* A step that only writes one row, with a copy that is true.
<1>5. ASSUME NEW s \in Sessions, NEW row, UpdateSession(s, row),
             Attested(challenged'[s], proved'[s], row)
      PROVE  \A t \in Sessions : Row(t)
  BY <1>2, <1>5 DEF UpdateSession, TypeOK
<1>6. ASSUME \A s \in Sessions : Row(s),
             \A g \in Handlers : KeepsOrDrops(g),
             UNCHANGED codes
      PROVE  AttestationInv'
  BY <1>3, <1>4, <1>6 DEF AttestationInv
<1>7. ASSUME NEW h \in Handlers, End(h) \/ Goto(h, "authorize") \/ Goto(h, "issued")
      PROVE  \A g \in Handlers : KeepsOrDrops(g)
  BY <1>7 DEF End, Goto, KeepsOrDrops, TypeOK
<1>8. ASSUME NEW s \in Sessions, NEW r \in Requests, NEW c \in Clients,
             InitiateAuthSession(s, r, c)
      PROVE  AttestationInv'
  <2>1. UNCHANGED <<pc, req, snap, draft, codes>>
    BY <1>8 DEF InitiateAuthSession, local
  <2> DEFINE row == [NoRow EXCEPT !.par = r, !.clientId = c, !.status = "INITIATED",
                                  !.expiresAt = par[r].expiresAt]
  <2>2. Attested(challenged'[s], proved'[s], row)
    BY DEF Attested, NoRow, AwaitingOtp
  <2>3. UpdateSession(s, row)
    BY <1>8 DEF InitiateAuthSession
  <2> HIDE DEF row
  <2>4. \A t \in Sessions : Row(t)
    BY <1>5, <2>2, <2>3
  <2>5. \A g \in Handlers : KeepsOrDrops(g)
    BY <2>1 DEF KeepsOrDrops
  <2> QED BY <1>6, <2>1, <2>4, <2>5
<1>9. ASSUME NEW h \in Handlers, LoginReject(h) PROVE AttestationInv'
  <2> DEFINE s == req[h].session
  <2>1. s \in Sessions /\ snap[h] \in SessionRow
    BY <1>9 DEF LoginReject, TypeOK
  <2>2. Attested(challenged'[s], proved'[s], snap[h])
    BY <1>1, <1>9, <2>1, AttestedMonotone DEF LoginReject, AttestationInv, AttestedCopy
  <2>3. Attested(challenged'[s], proved'[s], Penalised(snap[h], snap[h].status))
    BY <2>1, <2>2, PenalisedFields DEF Attested, AwaitingOtp
  <2>4. \A t \in Sessions : Row(t)
    BY <1>5, <1>9, <2>1, <2>3 DEF LoginReject
  <2> QED BY <1>6, <1>7, <1>9, <2>4 DEF LoginReject
<1>10. ASSUME NEW h \in Handlers, NEW otp \in Otps, LoginAccept(h, otp)
       PROVE  AttestationInv'
  <2> DEFINE s == req[h].session
             row == [snap[h] EXCEPT !.status = "PRIMARY_AUTH_SUCCESS",
                                    !.userId = req[h].user, !.otpCode = otp,
                                    !.retryCount = 0, !.loa = 1, !.amr = AmrPwd]
  <2>1. s \in Sessions /\ snap[h] \in SessionRow
    BY <1>10 DEF LoginAccept, TypeOK
  <2>2. row.status = "PRIMARY_AUTH_SUCCESS" /\ row.userId = req[h].user /\ row.otpCode = otp
    BY <2>1 DEF SessionRow
  <2>3. <<req[h].user, otp>> \in challenged'[s]
    BY <1>10, <2>1 DEF LoginAccept, TypeOK
  <2>4. UpdateSession(s, row) /\ End(h) /\ UNCHANGED codes
    BY <1>10 DEF LoginAccept
  <2> HIDE DEF row
  <2>5. Attested(challenged'[s], proved'[s], row)
    BY <2>2, <2>3 DEF Attested
  <2>6. \A t \in Sessions : Row(t)
    BY <1>5, <2>1, <2>4, <2>5
  <2> QED BY <1>6, <1>7, <2>4, <2>6
<1>11. ASSUME NEW h \in Handlers, TwoFactorReject(h) PROVE AttestationInv'
  <2> DEFINE s == req[h].session
  <2>1. s \in Sessions /\ snap[h] \in SessionRow
    BY <1>11 DEF TwoFactorReject, TypeOK
  <2>2. Attested(challenged'[s], proved'[s], snap[h]) /\ snap[h].status \in AwaitingOtp
    BY <1>1, <1>11, <2>1, AttestedMonotone
    DEF TwoFactorReject, AttestationInv, AttestedCopy
  <2>3. Attested(challenged'[s], proved'[s], Penalised(snap[h], "2FA_PENDING"))
    BY <2>1, <2>2, PenalisedFields DEF Attested, AwaitingOtp
  <2>4. \A t \in Sessions : Row(t)
    BY <1>5, <1>11, <2>1, <2>3 DEF TwoFactorReject
  <2> QED BY <1>6, <1>7, <1>11, <2>4 DEF TwoFactorReject
<1>12. ASSUME NEW h \in Handlers, TwoFactorAccept(h) PROVE AttestationInv'
  <2> DEFINE s == req[h].session
             row == [snap[h] EXCEPT !.status = "COMPLETED", !.retryCount = 0, !.loa = 2,
                                    !.amr = AmrOtp]
  <2>1. s \in Sessions /\ snap[h] \in SessionRow
    BY <1>12 DEF TwoFactorAccept, TypeOK
  <2>2. snap[h].userId \in proved'[s]
    BY <1>1, <1>12, <2>1 DEF TwoFactorAccept, AttestationInv, AttestedCopy
  <2>3. /\ row.status = "COMPLETED"
        /\ row.userId = snap[h].userId
        /\ row.loa = 2
        /\ row.amr = AmrOtp
    BY <2>1 DEF SessionRow
  <2>4. UpdateSession(s, row) /\ Goto(h, "authorize") /\ UNCHANGED codes
    BY <1>12 DEF TwoFactorAccept
  <2> HIDE DEF row
  <2>5. Attested(challenged'[s], proved'[s], row)
    BY <2>2, <2>3 DEF Attested, AwaitingOtp
  <2>6. \A t \in Sessions : Row(t)
    BY <1>5, <2>1, <2>4, <2>5
  <2> QED BY <1>6, <1>7, <2>4, <2>6
\* The two reads: the copy says what the row says.
<1>13. ASSUME NEW h \in Handlers, NEW s \in Sessions, NEW label \in {"password", "otp"},
              NEW request, request.session = s, request \in Request,
              Begin(h, label, request, sessions[s]), UNCHANGED <<sessions, codes>>,
              label = "otp" => /\ sessions[s].status \in AwaitingOtp
                               /\ request.otp = sessions[s].otpCode =>
                                    sessions[s].userId \in proved'[s]
       PROVE  AttestationInv'
  <2>1. \A t \in Sessions : Row(t)
    BY <1>2, <1>13
  <2>2. ASSUME NEW g \in Handlers PROVE Copy(g) /\ Made(g)
    <3>1. CASE g # h
      BY <1>3, <1>13, <3>1 DEF Begin, KeepsOrDrops, TypeOK
    <3>2. CASE g = h
      <4>1. pc'[h] = label /\ req'[h] = request /\ snap'[h] = sessions[s]
        BY <1>13 DEF Begin, TypeOK
      <4>2. Copy(h)
        BY <2>1, <1>13, <4>1 DEF AttestedCopy
      <4> QED BY <3>2, <4>1, <4>2
    <3> QED BY <3>1, <3>2
  <2> QED BY <1>4, <1>13, <2>1, <2>2 DEF AttestationInv
<1>14. ASSUME NEW h \in Handlers, NEW s \in Sessions, NEW u \in Users \cup {None},
              LoginRead(h, s, u)
       PROVE  AttestationInv'
  <2> DEFINE request == [NoRequest EXCEPT !.kind = "login", !.session = s, !.user = u]
  <2>1. request.session = s /\ request \in Request
    BY ConstantsTyped DEF NoRequest, Request
  <2>2. Begin(h, "password", request, sessions[s]) /\ UNCHANGED <<sessions, codes>>
    BY <1>14 DEF LoginRead, db
  <2> HIDE DEF request
  <2> QED BY <1>13, <2>1, <2>2
<1>15. ASSUME NEW h \in Handlers, NEW s \in Sessions, NEW otp \in Otps,
              TwoFactorRead(h, s, otp)
       PROVE  AttestationInv'
  <2> DEFINE request == [NoRequest EXCEPT !.kind = "otp", !.session = s, !.otp = otp]
  <2>1. request.session = s /\ request \in Request /\ request.otp = otp
    BY ConstantsTyped DEF NoRequest, Request
  <2>2. /\ Begin(h, "otp", request, sessions[s])
        /\ UNCHANGED <<sessions, codes>>
        /\ sessions[s].status \in AwaitingOtp
    BY <1>15 DEF TwoFactorRead, db
  <2>3. <<sessions[s].userId, sessions[s].otpCode>> \in challenged[s]
    BY <2>2 DEF AttestationInv, Attested
  <2>4. proved'[s] = proved[s] \cup {u \in Users : <<u, otp>> \in challenged[s]}
    BY <1>15 DEF TwoFactorRead, TypeOK
  <2>5. sessions[s].otpCode = otp => sessions[s].userId \in proved'[s]
    BY <2>3, <2>4 DEF TypeOK
  <2> HIDE DEF request
  <2> QED BY <1>13, <2>1, <2>2, <2>5
<1>16. ASSUME NEW h \in Handlers, TwoFactorRespond(h) \/ Abort(h) PROVE AttestationInv'
  <2>1. End(h) /\ UNCHANGED <<sessions, codes>>
    BY <1>16 DEF TwoFactorRespond, Abort, db
  <2> QED BY <1>2, <1>6, <1>7, <2>1
\* GenerateAuthCode copies a COMPLETED row, whose user has been proved.
<1>17. ASSUME NEW h \in Handlers, AuthorizeRead(h) PROVE AttestationInv'
  <2> DEFINE s == req[h].session
             row == sessions[s]
             made == Draft(s, row)
  <2>1. s \in Sessions
    BY <1>17 DEF AuthorizeRead, TypeOK
  <2>2. UNCHANGED <<sessions, codes, req, snap, proved>>
    BY <1>17 DEF AuthorizeRead, db, history
  <2>3. \A g \in Handlers \ {h} : Copy(g) /\ Made(g)
    BY <1>3, <1>17, <2>2 DEF AuthorizeRead, KeepsOrDrops, TypeOK
  <2>4. Copy(h)
    BY <1>17 DEF AuthorizeRead, TypeOK, AttestedCopy
  <2>5. ASSUME pc'[h] = "par" PROVE AttestedCode(draft[h])'
    <3>1. row.status = "COMPLETED" /\ draft'[h] = made
      BY <1>17, <2>5 DEF AuthorizeRead, TypeOK
    <3>2. /\ made.session = s
          /\ made.userId \in proved[s]
          /\ made.loa = 2
          /\ made.amr \in {AmrOtp, AmrQR}
      BY <2>1, <3>1 DEF Draft, AttestationInv, Attested
    <3> HIDE DEF made
    <3> QED BY <2>1, <2>2, <3>1, <3>2 DEF AttestedCode
  <2>6. Made(h)
    BY <1>17, <2>5 DEF AuthorizeRead, TypeOK
  <2> QED BY <1>2, <1>4, <2>2, <2>3, <2>4, <2>6 DEF AttestationInv
<1>18. ASSUME NEW h \in Handlers, AuthorizePar(h) PROVE AttestationInv'
  <2>1. UNCHANGED <<sessions, codes, req, snap, proved, challenged>>
    BY <1>18 DEF AuthorizePar, db, history
  <2>2. \A g \in Handlers \ {h} : Copy(g) /\ Made(g)
    BY <1>3, <1>18, <2>1 DEF AuthorizePar, KeepsOrDrops, TypeOK
  <2>3. Copy(h)
    BY <1>18 DEF AuthorizePar, TypeOK, AttestedCopy
  <2>4. /\ draft'[h].session = draft[h].session
        /\ draft'[h].userId = draft[h].userId
        /\ draft'[h].loa = draft[h].loa
        /\ draft'[h].amr = draft[h].amr
    BY <1>18 DEF AuthorizePar, TypeOK, CodeRow
  <2>5. Made(h)
    BY <1>18, <2>1, <2>4 DEF AuthorizePar, AttestationInv, AttestedCode
  <2> QED BY <1>2, <1>4, <2>1, <2>2, <2>3, <2>5 DEF AttestationInv
<1>19. ASSUME NEW h \in Handlers, SaveCode(h) PROVE AttestationInv'
  <2>1. UNCHANGED <<sessions, proved>> /\ Goto(h, "issued")
    BY <1>19 DEF SaveCode, history
  <2>2. AttestedCode(draft[h])
    BY <1>19 DEF SaveCode, AttestationInv
  <2>3. \A c \in codes' : AttestedCode(c)'
    BY <1>19, <1>4, <2>1, <2>2 DEF SaveCode, AttestedCode
  <2> QED BY <1>2, <1>3, <1>7, <2>1, <2>3 DEF AttestationInv
<1>20. ASSUME UNCHANGED <<sessions, codes, local>> PROVE AttestationInv'
  BY <1>2, <1>6, <1>20 DEF local, KeepsOrDrops
<1> QED
  BY <1>8, <1>9, <1>10, <1>11, <1>12, <1>14, <1>15, <1>16, <1>17, <1>18, <1>19, <1>20
  DEF Next, Start, Continue, Generate, PushRequest, Tick, vars, db

LEMMA AttestationAlways == Spec => []AttestationInv
<1>1. Init => AttestationInv
  BY DEF Init, AttestationInv, Attested, AttestedCopy, NoRow, AwaitingOtp
<1> QED BY <1>1, AttestationStep, TypeCorrect, PTL DEF Spec

\* Every code names a user who proved both factors in its session, with the
\* assurance they give, under every interleaving of the requests of the session
\* and for every number of them (GenerateAuthCode.ts:27-76).
THEOREM AttestationCorrect == Spec => []CodeAttestsUser
<1>1. AttestationInv => CodeAttestsUser
  BY DEF AttestationInv, AttestedCode, Attested, CodeAttestsUser
<1> QED BY <1>1, AttestationAlways, PTL

\* A row that waits for an OTP pairs the user with an OTP drawn for that user, although
\* requests of the session write the whole row back from copies they read before
\* (ValidateLogin.ts:26-93, drizzle_session_repository.ts).
THEOREM ChallengeCorrect == Spec => []ChallengeNotTorn
<1>1. AttestationInv => ChallengeNotTorn
  BY DEF AttestationInv, Attested, ChallengeNotTorn
<1> QED BY <1>1, AttestationAlways, PTL

-----------------------------------------------------------------------------
(* Codes stay within their request *)

\* A pushed request is never changed afterwards, so what was derived from it stays
\* derived from it.
LEMMA RequestsKept ==
  ASSUME TypeOK, [Next]_vars
  PROVE  \A r \in Requests : par[r].clientId \in Clients => par'[r] = par[r]
<1>1. ASSUME NEW q \in Requests, NEW c \in Clients, PushRequest(q, c),
             NEW r \in Requests, par[r].clientId \in Clients
      PROVE  par'[r] = par[r]
  <2>1. par[q].clientId = None
    BY <1>1 DEF PushRequest, NoPar
  <2>2. q # r
    BY <1>1, <2>1, NoneIsNull
  <2> QED BY <1>1, <2>2 DEF PushRequest, TypeOK
<1>2. ASSUME UNCHANGED par
      PROVE  \A r \in Requests : par[r].clientId \in Clients => par'[r] = par[r]
  BY <1>2
<1>3. (\E q \in Requests, c \in Clients : PushRequest(q, c)) \/ UNCHANGED par
  BY DEF Next, Start, Continue, Generate, InitiateAuthSession, LoginRead, LoginReject,
         LoginAccept, TwoFactorRead, TwoFactorReject, TwoFactorAccept, TwoFactorRespond,
         AuthorizeRead, AuthorizePar, SaveCode, Abort, Tick, vars, db
<1> QED BY <1>1, <1>2, <1>3

LEMMA FitsMonotone ==
  ASSUME NEW pa, NEW pb,
         \A r \in Requests : pa[r].clientId \in Clients => pb[r] = pa[r]
  PROVE  /\ \A row : FromRequest(pa, row) => FromRequest(pb, row)
         /\ \A c : BoundToRequest(pa, c) => BoundToRequest(pb, c)
         /\ \A c : CodeFits(pa, c) => CodeFits(pb, c)
<1>1. \A row : FromRequest(pa, row) => FromRequest(pb, row)
  BY DEF FromRequest
<1>2. \A c : BoundToRequest(pa, c) => BoundToRequest(pb, c) /\ pb[c.par] = pa[c.par]
  BY DEF BoundToRequest
<1> QED BY <1>1, <1>2 DEF CodeFits

LEMMA WindowStep == TypeOK /\ WindowInv /\ [Next]_vars => WindowInv'
<1> SUFFICES ASSUME TypeOK, WindowInv, [Next]_vars PROVE WindowInv'
  OBVIOUS
<1> DEFINE Row(s) == FromRequest(par', sessions'[s])
           Held(g) == HandlerFits(par', pc'[g], snap'[g], draft'[g])
<1>1. /\ \A row : FromRequest(par, row) => FromRequest(par', row)
      /\ \A c : BoundToRequest(par, c) => BoundToRequest(par', c)
      /\ \A c : CodeFits(par, c) => CodeFits(par', c)
  BY RequestsKept, FitsMonotone
<1>2. \A s \in Sessions : sessions'[s] = sessions[s] => Row(s)
  BY <1>1 DEF WindowInv
<1>3. \A g \in Handlers : KeepsOrDrops(g) => Held(g)
  BY <1>1 DEF WindowInv, HandlerFits, KeepsOrDrops
<1>4. \A c \in codes : CodeFits(par', c)
  BY <1>1 DEF WindowInv
<1>5. ASSUME NEW s \in Sessions, NEW row, UpdateSession(s, row), FromRequest(par', row)
      PROVE  \A t \in Sessions : Row(t)
  BY <1>2, <1>5 DEF UpdateSession, TypeOK
<1>6. ASSUME \A s \in Sessions : Row(s), \A g \in Handlers : KeepsOrDrops(g), UNCHANGED codes
      PROVE  WindowInv'
  BY <1>3, <1>4, <1>6 DEF WindowInv
<1>7. ASSUME NEW h \in Handlers, End(h) \/ Goto(h, "authorize") \/ Goto(h, "issued")
      PROVE  \A g \in Handlers : KeepsOrDrops(g)
  BY <1>7 DEF End, Goto, KeepsOrDrops, TypeOK
<1>8. ASSUME NEW s \in Sessions, NEW r \in Requests, NEW c \in Clients,
             InitiateAuthSession(s, r, c)
      PROVE  WindowInv'
  <2> DEFINE row == [NoRow EXCEPT !.par = r, !.clientId = c, !.status = "INITIATED",
                                  !.expiresAt = par[r].expiresAt]
  <2>1. UNCHANGED <<par, pc, req, snap, draft, codes>> /\ UpdateSession(s, row)
    BY <1>8 DEF InitiateAuthSession, local
  <2>2. par[r] = [clientId |-> c, expiresAt |-> par[r].expiresAt]
    BY <1>8 DEF InitiateAuthSession, TypeOK, ParRow
  <2>3. row.par = r /\ row.clientId = c /\ row.expiresAt = par[r].expiresAt
    BY DEF NoRow
  <2> HIDE DEF row
  <2>4. FromRequest(par', row)
    BY <2>1, <2>2, <2>3 DEF FromRequest
  <2> QED BY <1>5, <1>6, <2>1, <2>4 DEF KeepsOrDrops
\* Writing back a copy keeps the request it came from.
<1>9. ASSUME NEW h \in Handlers, pc[h] \in {"password", "otp"}, NEW row,
             row.par = snap[h].par, row.clientId = snap[h].clientId,
             row.expiresAt = snap[h].expiresAt,
             UpdateSession(req[h].session, row), End(h) \/ Goto(h, "authorize"),
             UNCHANGED codes
      PROVE  WindowInv'
  <2>1. req[h].session \in Sessions
    BY <1>9 DEF TypeOK
  <2>2. FromRequest(par', row)
    BY <1>1, <1>9 DEF WindowInv, HandlerFits, FromRequest
  <2> QED BY <1>5, <1>6, <1>7, <1>9, <2>1, <2>2
<1>10. ASSUME NEW h \in Handlers, LoginReject(h) \/ TwoFactorReject(h) PROVE WindowInv'
  <2>1. snap[h] \in SessionRow
    BY DEF TypeOK
  <2>2. PICK st : UpdateSession(req[h].session, Penalised(snap[h], st))
    BY <1>10 DEF LoginReject, TwoFactorReject
  <2> DEFINE row == Penalised(snap[h], st)
  <2>3. /\ row.par = snap[h].par
        /\ row.clientId = snap[h].clientId
        /\ row.expiresAt = snap[h].expiresAt
    BY <2>1 DEF Penalised, SessionRow
  <2> HIDE DEF row
  <2>4. pc[h] \in {"password", "otp"} /\ End(h) /\ UNCHANGED codes
    BY <1>10 DEF LoginReject, TwoFactorReject
  <2> QED BY <1>9, <2>2, <2>3, <2>4 DEF row
<1>11. ASSUME NEW h \in Handlers, NEW otp \in Otps, LoginAccept(h, otp) PROVE WindowInv'
  <2> DEFINE row == [snap[h] EXCEPT !.status = "PRIMARY_AUTH_SUCCESS",
                                    !.userId = req[h].user, !.otpCode = otp,
                                    !.retryCount = 0, !.loa = 1, !.amr = AmrPwd]
  <2>1. /\ row.par = snap[h].par
        /\ row.clientId = snap[h].clientId
        /\ row.expiresAt = snap[h].expiresAt
    BY DEF TypeOK, SessionRow
  <2>2. /\ pc[h] \in {"password", "otp"}
        /\ UpdateSession(req[h].session, row)
        /\ End(h)
        /\ UNCHANGED codes
    BY <1>11 DEF LoginAccept
  <2> HIDE DEF row
  <2> QED BY <1>9, <2>1, <2>2
<1>12. ASSUME NEW h \in Handlers, TwoFactorAccept(h) PROVE WindowInv'
  <2> DEFINE row == [snap[h] EXCEPT !.status = "COMPLETED", !.retryCount = 0, !.loa = 2,
                                    !.amr = AmrOtp]
  <2>1. /\ row.par = snap[h].par
        /\ row.clientId = snap[h].clientId
        /\ row.expiresAt = snap[h].expiresAt
    BY DEF TypeOK, SessionRow
  <2>2. /\ pc[h] \in {"password", "otp"}
        /\ UpdateSession(req[h].session, row)
        /\ Goto(h, "authorize")
        /\ UNCHANGED codes
    BY <1>12 DEF TwoFactorAccept
  <2> HIDE DEF row
  <2> QED BY <1>9, <2>1, <2>2
<1>13. ASSUME NEW h \in Handlers, NEW s \in Sessions,
              NEW label \in {"password", "otp"}, NEW request,
              SessionLive(s), Begin(h, label, request, sessions[s]),
              UNCHANGED <<sessions, codes>>
       PROVE  WindowInv'
  <2>1. \A g \in Handlers \ {h} : KeepsOrDrops(g)
    BY <1>13 DEF Begin, KeepsOrDrops, TypeOK
  <2>2. pc'[h] = label /\ snap'[h] = sessions[s]
    BY <1>13 DEF Begin, TypeOK
  <2>3. Held(h)
    BY <1>1, <1>13, <2>2 DEF HandlerFits, WindowInv, SessionLive
  <2> QED BY <1>2, <1>3, <1>4, <1>13, <2>1, <2>3 DEF WindowInv
<1>14. ASSUME NEW h \in Handlers, NEW s \in Sessions, NEW u \in Users \cup {None},
              LoginRead(h, s, u)
       PROVE  WindowInv'
  BY <1>13, <1>14 DEF LoginRead, db
<1>15. ASSUME NEW h \in Handlers, NEW s \in Sessions, NEW otp \in Otps,
              TwoFactorRead(h, s, otp)
       PROVE  WindowInv'
  BY <1>13, <1>15 DEF TwoFactorRead, db
<1>16. ASSUME NEW h \in Handlers, TwoFactorRespond(h) \/ Abort(h) PROVE WindowInv'
  <2>1. End(h) /\ UNCHANGED <<sessions, codes>>
    BY <1>16 DEF TwoFactorRespond, Abort, db
  <2> QED BY <1>2, <1>6, <1>7, <2>1
\* The code takes request and client from one read of the row, and its expiry at a
\* moment the request was still live.
<1>17. ASSUME NEW h \in Handlers, AuthorizeRead(h) PROVE WindowInv'
  <2> DEFINE s == req[h].session
             row == sessions[s]
  <2>1. UNCHANGED <<sessions, codes>> /\ s \in Sessions
    BY <1>17 DEF AuthorizeRead, db, TypeOK
  <2>2. \A g \in Handlers \ {h} : KeepsOrDrops(g)
    BY <1>17 DEF AuthorizeRead, KeepsOrDrops, TypeOK
  <2>3. ASSUME pc'[h] = "par" PROVE BoundToRequest(par', draft'[h])
    <3>1. /\ row.status # "ABSENT"
          /\ draft'[h].par = row.par
          /\ draft'[h].clientId = row.clientId
      BY <1>17, <2>3 DEF AuthorizeRead, Draft, TypeOK
    <3>2. FromRequest(par', row)
      BY <1>1, <2>1 DEF WindowInv
    <3> QED BY <3>1, <3>2 DEF FromRequest, BoundToRequest
  <2>4. Held(h)
    BY <1>17, <2>3 DEF AuthorizeRead, TypeOK, HandlerFits
  <2> QED BY <1>2, <1>3, <1>4, <2>1, <2>2, <2>4 DEF WindowInv
<1>18. ASSUME NEW h \in Handlers, AuthorizePar(h) PROVE WindowInv'
  <2>1. UNCHANGED <<par, sessions, codes>>
    BY <1>18 DEF AuthorizePar, db
  <2>2. \A g \in Handlers \ {h} : KeepsOrDrops(g)
    BY <1>18 DEF AuthorizePar, KeepsOrDrops, TypeOK
  <2>3. ASSUME pc'[h] = "save" PROVE CodeFits(par, draft'[h])
    <3>1. ParLive(draft[h].par, draft[h].createdAt) /\ BoundToRequest(par, draft[h])
      BY <1>18, <2>3 DEF AuthorizePar, TypeOK, WindowInv, HandlerFits
    <3>2. /\ draft'[h].par = draft[h].par
          /\ draft'[h].clientId = draft[h].clientId
          /\ draft'[h].createdAt = draft[h].createdAt
      BY <1>18, <3>1 DEF AuthorizePar, TypeOK, CodeRow
    <3> QED BY <3>1, <3>2 DEF CodeFits, BoundToRequest, ParLive
  <2>4. Held(h)
    BY <1>18, <2>1, <2>3 DEF AuthorizePar, TypeOK, HandlerFits
  <2> QED BY <1>2, <1>3, <1>4, <2>1, <2>2, <2>4 DEF WindowInv
<1>19. ASSUME NEW h \in Handlers, SaveCode(h) PROVE WindowInv'
  <2>1. UNCHANGED <<par, sessions>> /\ Goto(h, "issued") /\ codes' = codes \cup {draft[h]}
    BY <1>19 DEF SaveCode
  <2>2. CodeFits(par, draft[h])
    BY <1>19 DEF SaveCode, WindowInv, HandlerFits
  <2> QED BY <1>2, <1>3, <1>4, <1>7, <2>1, <2>2 DEF WindowInv
<1>20. ASSUME UNCHANGED <<sessions, codes, local>> PROVE WindowInv'
  BY <1>2, <1>6, <1>20 DEF local, KeepsOrDrops
<1> QED
  BY <1>8, <1>10, <1>11, <1>12, <1>14, <1>15, <1>16, <1>17, <1>18, <1>19, <1>20
  DEF Next, Start, Continue, Generate, PushRequest, Tick, vars, db

\* A code belongs to the client that pushed its request and is made while that
\* request is live, for every lifetime and every interleaving
\* (GenerateAuthCode.ts:49-76).
THEOREM WindowCorrect == Spec => []CodeWithinRequest
<1>1. Init => WindowInv
  BY DEF Init, WindowInv, FromRequest, HandlerFits, NoRow
<1>2. WindowInv => CodeWithinRequest
  BY DEF WindowInv, CodeFits, BoundToRequest, CodeWithinRequest
<1> QED BY <1>1, <1>2, WindowStep, TypeCorrect, PTL DEF Spec

-----------------------------------------------------------------------------
(* The promise made to relying parties *)

granted == {<<c.session, c.userId>> : c \in codes}

LEMMA GrantStep ==
  TypeOK /\ AttestationInv /\ [Next]_vars => [Grant!Next]_<<proved, granted>>
<1> SUFFICES ASSUME TypeOK, AttestationInv, [Next]_vars
             PROVE  [Grant!Next]_<<proved, granted>>
  OBVIOUS
<1>1. ASSUME NEW h \in Handlers, NEW s \in Sessions, NEW otp \in Otps,
             TwoFactorRead(h, s, otp)
      PROVE  Grant!Next
  <2>1. proved' = [proved EXCEPT ![s] = @ \cup {u \in Users : <<u, otp>> \in challenged[s]}]
    BY <1>1 DEF TwoFactorRead
  <2>2. granted' = granted
    BY <1>1 DEF TwoFactorRead, db, granted
  <2>3. {u \in Users : <<u, otp>> \in challenged[s]} \in SUBSET Users
    OBVIOUS
  <2>4. Grant!Authenticate(s)
    BY <2>1, <2>2, <2>3 DEF Grant!Authenticate, granted
  <2> QED BY <2>4 DEF Grant!Next
<1>2. ASSUME NEW h \in Handlers, SaveCode(h) PROVE Grant!Next
  <2>1. draft[h].session \in Sessions /\ draft[h].userId \in proved[draft[h].session]
    BY <1>2 DEF SaveCode, AttestationInv, AttestedCode
  <2>2. PICK s \in Sessions : s = draft[h].session
    BY <2>1
  <2>3. granted' = granted \cup {<<s, draft[h].userId>>} /\ UNCHANGED proved
    BY <1>2, <2>2 DEF SaveCode, history, granted
  <2>4. Grant!Issue(s)
    BY <2>1, <2>2, <2>3 DEF Grant!Issue, granted
  <2> QED BY <2>4 DEF Grant!Next
<1>3. ASSUME UNCHANGED <<proved, codes>> PROVE UNCHANGED <<proved, granted>>
  BY <1>3 DEF granted
<1>4. \/ \E h \in Handlers, s \in Sessions, otp \in Otps : TwoFactorRead(h, s, otp)
      \/ \E h \in Handlers : SaveCode(h)
      \/ UNCHANGED <<proved, codes>>
  BY DEF Next, Start, Continue, Generate, PushRequest, InitiateAuthSession, LoginRead,
         LoginReject, LoginAccept, TwoFactorReject, TwoFactorAccept, TwoFactorRespond,
         AuthorizeRead, AuthorizePar, Abort, Tick, vars, db, history
<1> QED BY <1>1, <1>2, <1>3, <1>4

\* The login, with all its reads, copies and stale writes, implements the promise: a
\* user finishes authenticating in a session before a code of the session names that
\* user, and neither is withdrawn (InitiateAuthSession to GenerateAuthCode).
THEOREM LoginImplementsGrant == Spec => ImplementsGrant
<1>1. Init => Grant!Init
  BY DEF Init, Grant!Init
<1>2. Init => AttestationInv
  BY DEF Init, AttestationInv, Attested, AttestedCopy, NoRow, AwaitingOtp
<1>3. TypeOK /\ AttestationInv /\ [Next]_vars
        => [Grant!Next]_<<proved, {<<c.session, c.userId>> : c \in codes}>>
  BY GrantStep DEF granted
<1> QED
  BY <1>1, <1>2, <1>3, AttestationStep, TypeCorrect, PTL DEF Spec, ImplementsGrant, Grant!Spec
=============================================================================
