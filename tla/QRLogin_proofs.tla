--------------------------- MODULE QRLogin_proofs ---------------------------
(***************************************************************************)
(* Proofs about QRLogin, for every number of codes, sessions, handlers and *)
(* callbacks.  They rest on those of LoginSession: a step of the password  *)
(* login keeps the invariants of LoginSession, so what is left are the     *)
(* steps of the callback, of the polls and of the page.                    *)
(***************************************************************************)
EXTENDS QRLogin, LoginSession_proofs

-----------------------------------------------------------------------------
(* The steps *)

\* What a step of the password login does to one handler.
Worked(h) ==
  \/ UNCHANGED <<pc[h], req[h], draft[h]>>
  \/ pc'[h] = "idle" /\ req'[h] = NoRequest
  \/ pc[h] = "idle" /\ pc'[h] \in {"password", "otp"} /\ req'[h].kind # "callback"
  \/ pc[h] = "otp" /\ pc'[h] = "authorize" /\ UNCHANGED req[h]
  \/ /\ pc[h] = "authorize" /\ pc'[h] \in {"par", "refused"} /\ UNCHANGED req[h]
     /\ pc'[h] = "par" => draft'[h].session = req[h].session
  \/ /\ pc[h] = "par" /\ pc'[h] \in {"save", "refused"} /\ UNCHANGED req[h]
     /\ draft'[h].session = draft[h].session
  \/ /\ pc[h] = "save" /\ pc'[h] = "issued" /\ UNCHANGED <<req[h], draft[h]>>
     /\ draft[h] \in codes'

LEMMA LoginWorks == TypeOK /\ [Next]_vars => \A h \in Handlers : Worked(h)
<1> SUFFICES ASSUME TypeOK, [Next]_vars PROVE \A h \in Handlers : Worked(h)
  OBVIOUS
<1>1. ASSUME UNCHANGED local PROVE \A g \in Handlers : Worked(g)
  BY <1>1 DEF local, Worked
<1>2. ASSUME NEW h \in Handlers, End(h) PROVE \A g \in Handlers : Worked(g)
  BY <1>2 DEF End, TypeOK, Worked
<1>3. ASSUME NEW h \in Handlers, NEW s \in Sessions, NEW u \in Users \cup {None},
             LoginRead(h, s, u)
      PROVE  \A g \in Handlers : Worked(g)
  BY <1>3 DEF LoginRead, Begin, NoRequest, TypeOK, Worked
<1>4. ASSUME NEW h \in Handlers, NEW s \in Sessions, NEW otp \in Otps,
             TwoFactorRead(h, s, otp)
      PROVE  \A g \in Handlers : Worked(g)
  BY <1>4 DEF TwoFactorRead, Begin, NoRequest, TypeOK, Worked
<1>5. ASSUME NEW h \in Handlers, TwoFactorAccept(h) PROVE \A g \in Handlers : Worked(g)
  BY <1>5 DEF TwoFactorAccept, Goto, TypeOK, Worked
<1>6. ASSUME NEW h \in Handlers, AuthorizeRead(h) PROVE \A g \in Handlers : Worked(g)
  BY <1>6 DEF AuthorizeRead, Draft, TypeOK, Worked
<1>7. ASSUME NEW h \in Handlers, AuthorizePar(h) PROVE \A g \in Handlers : Worked(g)
  BY <1>7 DEF AuthorizePar, TypeOK, CodeRow, Worked
<1>8. ASSUME NEW h \in Handlers, SaveCode(h) PROVE \A g \in Handlers : Worked(g)
  BY <1>8 DEF SaveCode, Goto, TypeOK, Worked
<1> QED
  BY <1>1, <1>2, <1>3, <1>4, <1>5, <1>6, <1>7, <1>8
  DEF Next, Start, Continue, Generate, PushRequest, InitiateAuthSession, LoginReject,
      LoginAccept, TwoFactorReject, TwoFactorRespond, Abort, Tick, vars

\* Codes, and the proof of who authenticated, are never withdrawn.
LEMMA EvidenceKept ==
  ASSUME TypeOK, [QRNext]_allVars
  PROVE  /\ codes \subseteq codes'
         /\ \A s \in Sessions : challenged[s] \subseteq challenged'[s]
         /\ \A s \in Sessions : proved[s] \subseteq proved'[s]
<1> USE DEF db, history, vars
<1>1. ASSUME Next
      PROVE  /\ codes \subseteq codes'
             /\ \A s \in Sessions : challenged[s] \subseteq challenged'[s]
             /\ \A s \in Sessions : proved[s] \subseteq proved'[s]
  <2>1. codes \subseteq codes'
    BY <1>1
    DEF Next, Start, Continue, Generate, PushRequest, InitiateAuthSession, LoginRead,
        LoginReject, LoginAccept, TwoFactorRead, TwoFactorReject, TwoFactorAccept,
        TwoFactorRespond, AuthorizeRead, AuthorizePar, SaveCode, Abort, Tick
  <2> QED BY <1>1, <2>1, HistoryGrows
<1>2. ASSUME NEW h \in Handlers, NEW u \in Users, CallbackParent(h, u)
      PROVE  /\ codes = codes' /\ challenged = challenged'
             /\ \A s \in Sessions : proved[s] \subseteq proved'[s]
  BY <1>2 DEF CallbackParent, TypeOK
<1>3. \/ Next
      \/ \E h \in Handlers, u \in Users : CallbackParent(h, u)
      \/ UNCHANGED <<codes, challenged, proved>>
  BY DEF QRNext, LoginStep, InitQR, Poll, PollStart, PollRead, PollExpire, PollAnswer,
         PollFail, CountdownEnds, CallbackRefused, CallbackRead, Callback,
         CallbackAuthorized, CallbackError, EndCallback, allVars
<1> QED BY <1>1, <1>2, <1>3

\* The parts of QRTypeOK the callback's handlers rely on.
LEMMA CallbackTyped ==
  ASSUME QRTypeOK, HandlerInv, NEW h \in Handlers, pc[h] = "exchange" \/ req[h].kind = "callback"
  PROVE  callback[h] \in QRs /\ req[h].session \in Sessions /\ pc[h] # "idle"
<1>1. req[h].kind = "callback"
  BY DEF HandlerInv
<1>2. pc[h] # "idle"
  BY <1>1 DEF HandlerInv, NoRequest
<1> QED BY <1>1, <1>2 DEF QRTypeOK, TypeOK

-----------------------------------------------------------------------------
(* Types *)

LEMMA LoginVariablesTyped ==
  ASSUME QRTypeOK, QRInv, [QRNext]_allVars
  PROVE  TypeOK'
<1> USE DEF db, history
<1>1. TypeOK
  BY DEF QRTypeOK
<1>2. ASSUME Next \/ UNCHANGED vars PROVE TypeOK'
  BY <1>1, <1>2, TypeStep
<1>3. ASSUME NEW h \in Handlers, End(h), UNCHANGED <<now, db, history>> PROVE TypeOK'
  <2>1. /\ pc' \in [Handlers -> Labels]
        /\ req' \in [Handlers -> Request]
        /\ snap' \in [Handlers -> SessionRow]
        /\ draft' \in [Handlers -> CodeRow]
        /\ \A g \in Handlers : pc'[g] # "idle" => req'[g].session \in Sessions
    BY <1>1, <1>3, EndTyped
  <2> QED BY <1>1, <1>3, <2>1 DEF TypeOK
<1>4. ASSUME NEW h \in Handlers, NEW q \in QRs, CallbackRead(h, q) PROVE TypeOK'
  <2> DEFINE request == [NoRequest EXCEPT !.kind = "callback", !.session = qr[q].parent]
  <2>1. qr[q].parent \in Sessions \cup {None}
    BY DEF QRTypeOK, QrRow
  <2>2. request \in Request /\ request.session = qr[q].parent
    BY <2>1 DEF NoRequest, Request
  <2>3. Begin(h, "exchange", request, NoRow) /\ UNCHANGED <<now, db, history>>
    BY <1>4 DEF CallbackRead
  <2>4. qr[q].parent \in Sessions
    BY <1>4 DEF CallbackRead, CallBack, QRInv, ResultInv
  <2>5. "exchange" \in Labels
    BY DEF Labels
  <2> HIDE DEF request
  <2>6. /\ pc' \in [Handlers -> Labels]
        /\ req' \in [Handlers -> Request]
        /\ snap' \in [Handlers -> SessionRow]
        /\ draft' \in [Handlers -> CodeRow]
        /\ \A g \in Handlers : pc'[g] # "idle" => req'[g].session \in Sessions
    BY <1>1, <2>2, <2>3, <2>4, <2>5, BeginTyped, ConstantsTyped
  <2> QED BY <1>1, <2>3, <2>6 DEF TypeOK
<1>5. ASSUME NEW h \in Handlers, NEW u \in Users, CallbackParent(h, u) PROVE TypeOK'
  <2> DEFINE s == req[h].session
             row == [sessions[s] EXCEPT !.userId = u, !.status = "COMPLETED", !.loa = 2,
                                        !.amr = AmrQR]
  <2>1. s \in Sessions
    BY <1>5, CallbackTyped DEF CallbackParent, QRInv
  <2>2. row \in SessionRow
    <3>1. sessions[s] \in SessionRow /\ "COMPLETED" \in Statuses /\ AmrQR \in Amrs
      BY <1>1, <2>1 DEF TypeOK, Statuses, Amrs
    <3> QED BY <3>1 DEF SessionRow
  <2>3. UpdateSession(s, row)
    BY <1>5 DEF CallbackParent
  <2> HIDE DEF row
  <2>4. sessions' \in [Sessions -> SessionRow]
    BY <1>1, <2>1, <2>2, <2>3, UpdateTyped
  <2> QED BY <1>1, <1>5, <2>4 DEF CallbackParent, Goto, TypeOK, Labels
<1> QED
  BY <1>2, <1>3, <1>4, <1>5
  DEF QRNext, LoginStep, InitQR, Poll, PollStart, PollRead, PollExpire, PollAnswer,
      PollFail, CountdownEnds, CallbackRefused, Callback, CallbackAuthorized,
      CallbackError, EndCallback, allVars

\* The steps on the rows and pages of the codes, one variable at a time.
LEMMA CodesTyped ==
  ASSUME QRTypeOK, QRInv, [QRNext]_allVars
  PROVE  /\ qr' \in [QRs -> QrRow]
         /\ page' \in [QRs -> Results \cup {"LOADING"}]
         /\ poll' \in [QRs -> Polls]
         /\ fails' \in [QRs -> 0..MaxPollFails]
         /\ callbacks' \in [QRs -> 0..MaxCallbacks]
<1> DEFINE Typed == /\ qr' \in [QRs -> QrRow]
                    /\ page' \in [QRs -> Results \cup {"LOADING"}]
                    /\ poll' \in [QRs -> Polls]
                    /\ fails' \in [QRs -> 0..MaxPollFails]
                    /\ callbacks' \in [QRs -> 0..MaxCallbacks]
<1>1. ASSUME UNCHANGED <<qr, browser, callbacks>> PROVE Typed
  BY <1>1 DEF browser, QRTypeOK
<1>2. ASSUME NEW q \in QRs, NEW status \in Results, SetStatus(q, status)
      PROVE  qr' \in [QRs -> QrRow]
  BY <1>2 DEF SetStatus, QRTypeOK, QrRow
<1>3. ASSUME NEW q \in QRs, NEW s \in Sessions, InitQR(q, s) PROVE Typed
  <2>1. now + QrTTL \in 0 .. MaxClock + QrTTL
    BY QrAssumption, LimitsAssumption DEF QRTypeOK, TypeOK
  <2>2. [NoQr EXCEPT !.parent = s, !.status = "PENDING", !.expiresAt = now + QrTTL] \in QrRow
    BY <2>1, ConstantsTyped DEF NoQr, QrRow, Results
  <2> QED BY <1>3, <2>2 DEF InitQR, QRTypeOK, Results
<1>4. ASSUME NEW q \in QRs, Poll(q) PROVE Typed
  <2>1. CASE PollStart(q)
    BY <2>1 DEF PollStart, QRTypeOK, Polls
  <2>2. CASE PollRead(q)
    <3>1. qr[q].status \in Polls \/ qr[q].status = "ABSENT"
      BY DEF QRTypeOK, QrRow, Polls
    <3>2. qr[q].status # "ABSENT"
      BY <2>2 DEF PollRead, QRInv, PageInv
    <3> QED BY <2>2, <3>1, <3>2 DEF PollRead, QRTypeOK, Polls
  <2>3. CASE PollExpire(q)
    BY <1>2, <2>3 DEF PollExpire, QRTypeOK, Polls, Results
  <2>4. CASE PollAnswer(q)
    BY <2>4, QrAssumption DEF PollAnswer, QRTypeOK, Polls
  <2> QED BY <1>4, <2>1, <2>2, <2>3, <2>4 DEF Poll
<1>5. ASSUME NEW q \in QRs, PollFail(q) PROVE Typed
  <2>1. fails[q] \in 0..MaxPollFails /\ fails[q] < MaxPollFails
    BY <1>5 DEF PollFail, QRTypeOK, QRInv, PageInv
  <2>2. fails[q] + 1 \in 0..MaxPollFails
    BY <2>1, QrAssumption
  <2> QED BY <1>5, <2>2 DEF PollFail, QRTypeOK, Polls, Results
<1>6. ASSUME NEW q \in QRs, CountdownEnds(q) PROVE Typed
  BY <1>6 DEF CountdownEnds, QRTypeOK, Polls, Results
<1>7. ASSUME NEW q \in QRs, CallBack(q) PROVE callbacks' \in [QRs -> 0..MaxCallbacks]
  BY <1>7, QrAssumption DEF CallBack, QRTypeOK
<1>8. ASSUME NEW q \in QRs, NEW status \in {"CANCELLED", "ERROR"}, CallbackRefused(q, status)
      PROVE  Typed
  BY <1>2, <1>7, <1>8 DEF CallbackRefused, browser, QRTypeOK, Results
<1>9. ASSUME NEW h \in Handlers, NEW q \in QRs, CallbackRead(h, q) PROVE Typed
  BY <1>7, <1>9 DEF CallbackRead, browser, QRTypeOK
<1>10. ASSUME NEW h \in Handlers, CallbackAuthorized(h) \/ CallbackError(h) PROVE Typed
  <2>1. PICK row \in QrRow : EndCallback(h, row)
    <3>1. callback[h] \in QRs /\ qr[callback[h]] \in QrRow /\ draft[h] \in CodeRow
      BY <1>10 DEF CallbackAuthorized, CallbackError, QRTypeOK, TypeOK
    <3>2. [qr[callback[h]] EXCEPT !.status = "ERROR"] \in QrRow
      BY <3>1 DEF QrRow, Results
    <3>3. [qr[callback[h]] EXCEPT !.status = "AUTHORIZED", !.redirect = draft[h]] \in QrRow
      BY <3>1 DEF QrRow, Results
    <3> QED BY <1>10, <3>2, <3>3 DEF CallbackAuthorized, CallbackError
  <2> QED BY <2>1 DEF EndCallback, browser, QRTypeOK
<1> QED
  BY <1>1, <1>3, <1>4, <1>5, <1>6, <1>8, <1>9, <1>10
  DEF QRNext, LoginStep, Callback, CallbackParent, qrVars, allVars

LEMMA QRTypeStep == QRTypeOK /\ QRInv /\ [QRNext]_allVars => QRTypeOK'
<1> SUFFICES ASSUME QRTypeOK, QRInv, [QRNext]_allVars PROVE QRTypeOK'
  OBVIOUS
<1> DEFINE Served == /\ callback' \in [Handlers -> QRs \cup {None}]
                     /\ \A h \in Handlers : req'[h].kind = "callback" => callback'[h] \in QRs
<1>1. ASSUME UNCHANGED <<req, callback>> PROVE Served
  BY <1>1 DEF QRTypeOK
<1>2. ASSUME LoginStep PROVE Served
  <2>1. ASSUME NEW h \in Handlers, req'[h].kind = "callback" PROVE callback'[h] \in QRs
    <3>1. Worked(h)
      BY <1>2, LoginWorks DEF LoginStep, QRTypeOK
    <3>2. req[h].kind = "callback"
      BY <2>1, <3>1 DEF Worked, NoRequest
    <3>3. callback[h] \in QRs /\ pc[h] # "idle"
      BY <3>2, CallbackTyped DEF QRInv
    <3>4. pc'[h] # "idle"
      BY <2>1, <3>1, <3>3 DEF Worked, NoRequest
    <3> QED BY <1>2, <3>3, <3>4 DEF LoginStep
  <2> QED BY <1>2, <2>1 DEF LoginStep, QRTypeOK
<1>3. ASSUME NEW h \in Handlers, NEW q \in QRs, CallbackRead(h, q) PROVE Served
  BY <1>3 DEF CallbackRead, Begin, QRTypeOK, TypeOK
<1>4. ASSUME NEW h \in Handlers, CallbackAuthorized(h) \/ CallbackError(h) PROVE Served
  BY <1>4 DEF CallbackAuthorized, CallbackError, EndCallback, End, NoRequest, QRTypeOK, TypeOK
<1>5. Served
  BY <1>1, <1>2, <1>3, <1>4
  DEF QRNext, InitQR, Poll, PollStart, PollRead, PollExpire, PollAnswer, PollFail,
      CountdownEnds, CallbackRefused, Callback, CallbackParent, Goto, vars, local, qrVars, allVars
<1> QED BY <1>5, LoginVariablesTyped, CodesTyped DEF QRTypeOK

-----------------------------------------------------------------------------
(* Who authenticated *)

LEMMA QRAttestationStep ==
  QRTypeOK /\ QRInv /\ AttestationInv /\ [QRNext]_allVars => AttestationInv'
<1> SUFFICES ASSUME QRTypeOK, QRInv, AttestationInv, [QRNext]_allVars PROVE AttestationInv'
  OBVIOUS
<1> DEFINE Row(s) == Attested(challenged'[s], proved'[s], sessions'[s])
<1>1. TypeOK
  BY DEF QRTypeOK
<1>2. ASSUME Next \/ UNCHANGED vars PROVE AttestationInv'
  BY <1>1, <1>2, AttestationStep
<1>3. /\ \A s \in Sessions : challenged[s] \subseteq challenged'[s]
      /\ \A s \in Sessions : proved[s] \subseteq proved'[s]
  BY <1>1, EvidenceKept
<1>4. \A s \in Sessions : sessions'[s] = sessions[s] => Row(s)
  BY <1>3, AttestedMonotone DEF AttestationInv
\* The callback's handlers hold no copy of a row.
<1>5. ASSUME NEW h \in Handlers, pc'[h] \in {"idle", "exchange", "authorize"},
             \A g \in Handlers \ {h} : UNCHANGED <<pc[g], req[g], snap[g], draft[g]>>,
             \A s \in Sessions : Row(s), UNCHANGED codes
      PROVE  AttestationInv'
  <2>1. ASSUME NEW g \in Handlers \ {h}
        PROVE  /\ AttestedCopy(challenged'[req'[g].session], proved'[req'[g].session],
                               pc'[g], req'[g].otp, snap'[g])
               /\ pc'[g] \in {"par", "save"} => AttestedCode(draft[g])'
    <3>1. CASE pc[g] = "idle"
      BY <1>5, <3>1 DEF AttestedCopy
    <3>2. CASE req[g].session \in Sessions
      <4>1. AttestedCopy(challenged'[req'[g].session], proved'[req'[g].session],
                         pc'[g], req'[g].otp, snap'[g])
        BY <1>3, <1>5, <3>2, AttestedMonotone DEF AttestationInv
      <4>2. pc'[g] \in {"par", "save"} => AttestedCode(draft[g])'
        BY <1>3, <1>5 DEF AttestationInv, AttestedCode
      <4> QED BY <4>1, <4>2
    <3> QED BY <1>1, <3>1, <3>2 DEF TypeOK
  <2>2. AttestedCopy(challenged'[req'[h].session], proved'[req'[h].session],
                     pc'[h], req'[h].otp, snap'[h])
    BY <1>5 DEF AttestedCopy
  <2>3. \A c \in codes' : AttestedCode(c)'
    BY <1>3, <1>5 DEF AttestationInv, AttestedCode
  <2> QED BY <1>5, <2>1, <2>2, <2>3 DEF AttestationInv
<1>6. ASSUME NEW h \in Handlers, NEW q \in QRs, CallbackRead(h, q) PROVE AttestationInv'
  <2>1. /\ pc'[h] = "exchange"
        /\ \A g \in Handlers \ {h} : UNCHANGED <<pc[g], req[g], snap[g], draft[g]>>
        /\ UNCHANGED <<sessions, codes>>
    BY <1>1, <1>6 DEF CallbackRead, Begin, TypeOK, db
  <2> QED BY <1>4, <1>5, <2>1
<1>7. ASSUME NEW h \in Handlers, CallbackAuthorized(h) \/ CallbackError(h)
      PROVE  AttestationInv'
  <2>1. /\ pc'[h] = "idle"
        /\ \A g \in Handlers \ {h} : UNCHANGED <<pc[g], req[g], snap[g], draft[g]>>
        /\ UNCHANGED <<sessions, codes>>
    BY <1>1, <1>7 DEF CallbackAuthorized, CallbackError, EndCallback, End, TypeOK, db
  <2> QED BY <1>4, <1>5, <2>1
\* Singpass has authenticated the user the row now names.
<1>8. ASSUME NEW h \in Handlers, NEW u \in Users, CallbackParent(h, u) PROVE AttestationInv'
  <2> DEFINE s == req[h].session
  <2>1. s \in Sessions
    BY <1>8, CallbackTyped DEF CallbackParent, QRInv
  <2>2. /\ sessions'[s].userId = u
        /\ sessions'[s].status = "COMPLETED"
        /\ sessions'[s].loa = 2
        /\ sessions'[s].amr = AmrQR
        /\ \A t \in Sessions \ {s} : sessions'[t] = sessions[t]
    BY <1>1, <1>8, <2>1 DEF CallbackParent, UpdateSession, TypeOK, SessionRow
  <2>3. u \in proved'[s]
    BY <1>1, <1>8, <2>1 DEF CallbackParent, TypeOK
  <2>4. Row(s)
    BY <2>2, <2>3 DEF Attested, AwaitingOtp
  <2>5. \A t \in Sessions : Row(t)
    BY <1>4, <2>2, <2>4
  <2>6. /\ pc'[h] = "authorize"
        /\ \A g \in Handlers \ {h} : UNCHANGED <<pc[g], req[g], snap[g], draft[g]>>
        /\ UNCHANGED codes
    BY <1>1, <1>8 DEF CallbackParent, Goto, TypeOK
  <2> QED BY <1>5, <2>5, <2>6
<1> QED
  BY <1>2, <1>6, <1>7, <1>8
  DEF QRNext, LoginStep, InitQR, Poll, PollStart, PollRead, PollExpire, PollAnswer,
      PollFail, CountdownEnds, CallbackRefused, Callback, allVars

-----------------------------------------------------------------------------
(* Pages, handlers and results *)

\* A row stays with its session, and does not disappear.
LEMMA RowsKept ==
  ASSUME QRTypeOK, QRInv, [QRNext]_allVars, NEW q \in QRs, qr[q].status # "ABSENT"
  PROVE  qr'[q].parent = qr[q].parent /\ qr'[q].status # "ABSENT"
<1>1. ASSUME NEW p \in QRs, NEW status \in Results, SetStatus(p, status)
      PROVE  qr'[q].parent = qr[q].parent /\ qr'[q].status # "ABSENT"
  BY <1>1 DEF SetStatus, QRTypeOK, QrRow, Results
<1>2. ASSUME NEW p \in QRs, NEW s \in Sessions, InitQR(p, s)
      PROVE  qr'[q].parent = qr[q].parent /\ qr'[q].status # "ABSENT"
  BY <1>2 DEF InitQR, NoQr, QRTypeOK
<1>3. ASSUME NEW h \in Handlers, CallbackAuthorized(h) \/ CallbackError(h)
      PROVE  qr'[q].parent = qr[q].parent /\ qr'[q].status # "ABSENT"
  <2>1. PICK row : EndCallback(h, row) /\ row.parent = qr[callback[h]].parent
                     /\ row.status # "ABSENT"
    <3>1. qr[callback[h]] \in QrRow
      BY <1>3 DEF CallbackAuthorized, CallbackError, QRTypeOK
    <3> DEFINE done == [qr[callback[h]] EXCEPT !.status = "AUTHORIZED", !.redirect = draft[h]]
               failed == [qr[callback[h]] EXCEPT !.status = "ERROR"]
    <3>2. /\ done.parent = qr[callback[h]].parent /\ done.status # "ABSENT"
          /\ failed.parent = qr[callback[h]].parent /\ failed.status # "ABSENT"
      BY <3>1 DEF QrRow
    <3>3. EndCallback(h, done) \/ EndCallback(h, failed)
      BY <1>3 DEF CallbackAuthorized, CallbackError
    <3> HIDE DEF done, failed
    <3> QED BY <3>2, <3>3
  <2> QED BY <2>1 DEF EndCallback, QRTypeOK
<1>4. "EXPIRED" \in Results /\ \A status \in {"CANCELLED", "ERROR"} : status \in Results
  BY DEF Results
<1> QED
  BY <1>1, <1>2, <1>3, <1>4
  DEF QRNext, LoginStep, Poll, PollStart, PollRead, PollExpire, PollAnswer, PollFail,
      CountdownEnds, CallbackRefused, CallbackRead, Callback, CallbackParent, qrVars, allVars

LEMMA PageStep == QRTypeOK /\ QRInv /\ [QRNext]_allVars => PageInv'
<1> SUFFICES ASSUME QRTypeOK, QRInv, [QRNext]_allVars PROVE PageInv'
  OBVIOUS
<1> USE DEF QRInv, PageInv
<1>1. ASSUME NEW q \in QRs, NEW s \in Sessions, InitQR(q, s) PROVE PageInv'
  BY <1>1, QrAssumption DEF InitQR, NoQr, QRTypeOK
\* The row may change, the page does not.
<1>2. ASSUME UNCHANGED browser,
             \A q \in QRs : qr[q].status = "ABSENT" => qr'[q].status = "ABSENT"
      PROVE  PageInv'
  BY <1>2, RowsKept DEF browser
<1>3. ASSUME NEW q \in QRs, Poll(q) PROVE PageInv'
  <2>1. CASE PollExpire(q)
    BY <2>1 DEF PollExpire, SetStatus, QRTypeOK, QrRow
  <2>2. CASE PollStart(q) \/ PollRead(q)
    BY <2>2 DEF PollStart, PollRead, QRTypeOK
  <2>3. CASE PollAnswer(q)
    BY <2>3, QrAssumption DEF PollAnswer, QRTypeOK, Results
  <2> QED BY <1>3, <2>1, <2>2, <2>3 DEF Poll
<1>4. ASSUME NEW q \in QRs, PollFail(q) PROVE PageInv'
  BY <1>4, QrAssumption DEF PollFail, QRTypeOK
<1>5. ASSUME NEW q \in QRs, CountdownEnds(q) PROVE PageInv'
  BY <1>5, QrAssumption DEF CountdownEnds, QRTypeOK, Results
<1>6. ASSUME NEW q \in QRs, NEW status \in {"CANCELLED", "ERROR"}, CallbackRefused(q, status)
      PROVE  PageInv'
  BY <1>2, <1>6 DEF CallbackRefused, CallBack, SetStatus, QRTypeOK
<1>7. ASSUME NEW h \in Handlers, CallbackAuthorized(h) \/ CallbackError(h) PROVE PageInv'
  <2>1. callback[h] \in QRs /\ qr[callback[h]].status # "ABSENT"
    BY <1>7, QrAssumption
    DEF CallbackAuthorized, CallbackError, QRTypeOK, HandlerInv
  <2> QED BY <1>2, <1>7, <2>1 DEF CallbackAuthorized, CallbackError, EndCallback, QRTypeOK
<1>8. ASSUME UNCHANGED <<qr, browser>> PROVE PageInv'
  BY <1>2, <1>8
<1> QED
  BY <1>1, <1>3, <1>4, <1>5, <1>6, <1>7, <1>8
  DEF QRNext, LoginStep, CallbackRead, Callback, CallbackParent, qrVars, allVars

\* HandlerInv, of one handler after the step.
HandlerFine(h) ==
  /\ pc'[h] = "idle" => req'[h] = NoRequest /\ callback'[h] = None
  /\ pc'[h] \in {"par", "save", "issued"} => draft'[h].session = req'[h].session
  /\ pc'[h] = "issued" => draft'[h] \in codes'
  /\ callback'[h] # None => qr'[callback'[h]].status # "ABSENT"
                             /\ qr'[callback'[h]].parent = req'[h].session
  /\ pc'[h] = "exchange" => req'[h].kind = "callback"

LEMMA HandlerStep == QRTypeOK /\ QRInv /\ [QRNext]_allVars => HandlerInv'
<1> SUFFICES ASSUME QRTypeOK, QRInv, [QRNext]_allVars PROVE HandlerInv'
  OBVIOUS
<1>1. TypeOK /\ codes \subseteq codes'
  BY EvidenceKept DEF QRTypeOK
<1>2. \A h \in Handlers : callback[h] # None => callback[h] \in QRs
  BY DEF QRTypeOK
\* A handler the step leaves alone, whatever happens to the rows.
<1>3. ASSUME NEW h \in Handlers, UNCHANGED <<pc[h], req[h], draft[h], callback[h]>>
      PROVE  HandlerFine(h)
  BY <1>1, <1>2, <1>3, RowsKept DEF HandlerFine, QRInv, HandlerInv
<1>4. ASSUME LoginStep PROVE \A h \in Handlers : HandlerFine(h)
  <2> TAKE h \in Handlers
  <2>1. Worked(h) /\ UNCHANGED qr
    BY <1>1, <1>4, LoginWorks DEF LoginStep
  <2>2. callback'[h] = IF pc'[h] = "idle" THEN None ELSE callback[h]
    BY <1>4 DEF LoginStep
  <2> QED BY <1>1, <2>1, <2>2 DEF Worked, HandlerFine, QRInv, HandlerInv
<1>5. ASSUME NEW h \in Handlers, NEW q \in QRs, CallbackRead(h, q)
      PROVE  \A g \in Handlers : HandlerFine(g)
  <2>1. \A g \in Handlers \ {h} : UNCHANGED <<pc[g], req[g], draft[g], callback[g]>>
    BY <1>1, <1>5 DEF CallbackRead, Begin, QRTypeOK, TypeOK
  <2>2. /\ pc'[h] = "exchange" /\ callback'[h] = q
        /\ req'[h].kind = "callback" /\ req'[h].session = qr[q].parent
        /\ qr'[q] = qr[q] /\ qr[q].status # "ABSENT"
    BY <1>1, <1>5 DEF CallbackRead, CallBack, Begin, NoRequest, QRTypeOK, TypeOK
  <2> QED BY <1>3, <2>1, <2>2 DEF HandlerFine
<1>6. ASSUME NEW h \in Handlers, NEW u \in Users, CallbackParent(h, u)
      PROVE  \A g \in Handlers : HandlerFine(g)
  <2>1. /\ \A g \in Handlers \ {h} : UNCHANGED <<pc[g], req[g], draft[g], callback[g]>>
        /\ pc'[h] = "authorize" /\ UNCHANGED <<req[h], callback[h], qr>>
    BY <1>1, <1>6 DEF CallbackParent, Goto, qrVars, TypeOK
  <2> QED BY <1>3, <2>1 DEF HandlerFine, QRInv, HandlerInv
<1>7. ASSUME NEW h \in Handlers, CallbackAuthorized(h) \/ CallbackError(h)
      PROVE  \A g \in Handlers : HandlerFine(g)
  <2>1. /\ \A g \in Handlers \ {h} : UNCHANGED <<pc[g], req[g], draft[g], callback[g]>>
        /\ pc'[h] = "idle" /\ req'[h] = NoRequest /\ callback'[h] = None
    BY <1>1, <1>7
    DEF CallbackAuthorized, CallbackError, EndCallback, End, QRTypeOK, TypeOK
  <2> QED BY <1>3, <2>1 DEF HandlerFine
<1>8. ASSUME UNCHANGED <<local, callback>> PROVE \A h \in Handlers : HandlerFine(h)
  BY <1>3, <1>8 DEF local
<1>9. \A h \in Handlers : HandlerFine(h)
  BY <1>4, <1>5, <1>6, <1>7, <1>8
  DEF QRNext, InitQR, Poll, PollStart, PollRead, PollExpire, PollAnswer, PollFail,
      CountdownEnds, CallbackRefused, Callback, vars, qrVars, allVars
<1> QED BY <1>9 DEF HandlerFine, HandlerInv

LEMMA ResultStep ==
  QRTypeOK /\ QRInv /\ AttestationInv /\ [QRNext]_allVars => ResultInv'
<1> SUFFICES ASSUME QRTypeOK, QRInv, AttestationInv, [QRNext]_allVars PROVE ResultInv'
  OBVIOUS
<1> USE DEF QRInv
<1>1. \A s \in Sessions : Issued(s) => Issued(s)'
  BY EvidenceKept DEF QRTypeOK, Issued
\* A result that is shown, or on its way, stands for a code.
<1>2. \A q \in QRs : qr[q].status = "AUTHORIZED" => Issued(qr[q].parent)
  BY DEF ResultInv, AttestationInv, AttestedCode, Issued
<1>3. ASSUME NEW q \in QRs, qr[q].status # "ABSENT"
      PROVE  /\ qr[q].parent \in Sessions /\ qr'[q].parent = qr[q].parent
             /\ qr'[q].status # "ABSENT"
             /\ Issued(qr[q].parent) => Issued(qr[q].parent)'
  BY <1>1, <1>3, RowsKept DEF ResultInv
<1>4. ASSUME NEW q \in QRs, "AUTHORIZED" \in {poll[q], page[q]}
      PROVE  qr[q].status # "ABSENT" /\ Issued(qr[q].parent)
  BY <1>4 DEF ResultInv, PageInv
<1> DEFINE Fine(q) ==
      /\ qr'[q].status # "ABSENT" => qr'[q].parent \in Sessions
      /\ qr'[q].status = "AUTHORIZED" => qr'[q].redirect \in codes'
                                         /\ qr'[q].redirect.session = qr'[q].parent
      /\ "AUTHORIZED" \in {poll'[q], page'[q]} => Issued(qr[q].parent)'
\* A row whose result is the old one, or is not AUTHORIZED; a page that learns nothing
\* but from the row and from the answer on its way.
<1>5. ASSUME NEW q \in QRs,
             \/ UNCHANGED qr[q]
             \/ qr[q].status # "ABSENT" /\ qr'[q].status # "AUTHORIZED",
             "AUTHORIZED" \in {poll'[q], page'[q]} =>
               "AUTHORIZED" \in {poll[q], page[q], qr[q].status}
      PROVE  Fine(q)
  <2>1. qr'[q].status # "ABSENT" => qr'[q].parent \in Sessions
    BY <1>3, <1>5
  <2>2. qr'[q].status = "AUTHORIZED" => qr'[q].redirect \in codes'
                                        /\ qr'[q].redirect.session = qr'[q].parent
    BY <1>5, EvidenceKept DEF ResultInv, QRTypeOK
  <2>3. ASSUME "AUTHORIZED" \in {poll'[q], page'[q]} PROVE Issued(qr[q].parent)'
    <3>1. qr[q].status # "ABSENT" /\ Issued(qr[q].parent)
      BY <1>2, <1>4, <1>5, <2>3
    <3> QED BY <1>3, <3>1
  <2> QED BY <2>1, <2>2, <2>3
<1>6. ASSUME UNCHANGED <<poll, page>>, \A q \in QRs : UNCHANGED qr[q] PROVE \A q \in QRs : Fine(q)
  BY <1>5, <1>6
<1>7. ASSUME NEW q \in QRs, NEW s \in Sessions, InitQR(q, s) PROVE \A p \in QRs : Fine(p)
  <2>1. \A p \in QRs \ {q} : Fine(p)
    BY <1>5, <1>7 DEF InitQR, QRTypeOK
  <2>2. /\ qr'[q].parent = s /\ qr'[q].status = "PENDING"
        /\ page'[q] = "PENDING" /\ poll'[q] = poll[q]
    BY <1>7 DEF InitQR, NoQr, QRTypeOK
  <2>3. poll[q] = "idle"
    BY <1>7 DEF InitQR, NoQr, PageInv
  <2> QED BY <2>1, <2>2, <2>3
<1>8. ASSUME NEW q \in QRs, Poll(q) \/ PollFail(q) \/ CountdownEnds(q)
      PROVE  \A p \in QRs : Fine(p)
  <2>1. \A p \in QRs \ {q} : UNCHANGED <<qr[p], poll[p], page[p]>>
    BY <1>8
    DEF Poll, PollStart, PollRead, PollExpire, PollAnswer, PollFail, CountdownEnds,
        SetStatus, QRTypeOK
  <2>2. \A p \in QRs \ {q} : Fine(p)
    BY <1>5, <2>1
  <2>3. \/ UNCHANGED qr[q]
        \/ qr[q].status # "ABSENT" /\ qr'[q].status # "AUTHORIZED"
    BY <1>8
    DEF Poll, PollStart, PollRead, PollExpire, PollAnswer, PollFail, CountdownEnds,
        SetStatus, QRTypeOK, QrRow, PageInv
  <2>4. "AUTHORIZED" \in {poll'[q], page'[q]} =>
          "AUTHORIZED" \in {poll[q], page[q], qr[q].status}
    BY <1>8
    DEF Poll, PollStart, PollRead, PollExpire, PollAnswer, PollFail, CountdownEnds, QRTypeOK
  <2> QED BY <1>5, <2>2, <2>3, <2>4
<1>9. ASSUME NEW q \in QRs, NEW status \in {"CANCELLED", "ERROR"}, CallbackRefused(q, status)
      PROVE  \A p \in QRs : Fine(p)
  <2>1. \A p \in QRs \ {q} : UNCHANGED qr[p]
    BY <1>9 DEF CallbackRefused, SetStatus, QRTypeOK
  <2>2. qr[q].status # "ABSENT" /\ qr'[q].status # "AUTHORIZED" /\ UNCHANGED <<poll, page>>
    BY <1>9 DEF CallbackRefused, CallBack, SetStatus, browser, QRTypeOK, QrRow
  <2> QED BY <1>5, <2>1, <2>2
<1>10. ASSUME NEW h \in Handlers, CallbackAuthorized(h) \/ CallbackError(h)
       PROVE  \A p \in QRs : Fine(p)
  <2>1. PICK q \in QRs : /\ q = callback[h]
                        /\ qr[q].status # "ABSENT" /\ qr[q].parent = req[h].session
    <3>1. callback[h] \in QRs /\ callback[h] # None
      BY <1>10, QrAssumption DEF CallbackAuthorized, CallbackError, QRTypeOK
    <3> QED BY <3>1 DEF HandlerInv
  <2>2. UNCHANGED <<poll, page>> /\ \A p \in QRs \ {q} : UNCHANGED qr[p]
    BY <1>10, <2>1 DEF CallbackAuthorized, CallbackError, EndCallback, browser, QRTypeOK
  <2>3. CASE CallbackError(h)
    <3>1. qr'[q].status # "AUTHORIZED"
      BY <2>1, <2>3 DEF CallbackError, EndCallback, QRTypeOK, QrRow
    <3> QED BY <1>5, <2>1, <2>2, <3>1
\* A refused code (pc "refused") ends in ERROR: only an issued one is AUTHORIZED.
  <2>4. CASE CallbackAuthorized(h)
    <3>1. draft[h] \in codes' /\ draft[h].session = qr[q].parent
      BY <2>1, <2>4, EvidenceKept DEF CallbackAuthorized, HandlerInv, QRTypeOK
    <3>2. qr'[q].redirect = draft[h] /\ qr'[q].parent = qr[q].parent
      BY <2>1, <2>4 DEF CallbackAuthorized, EndCallback, QRTypeOK, QrRow
    <3>3. "AUTHORIZED" \in {poll'[q], page'[q]} => Issued(qr[q].parent)'
      BY <1>3, <1>4, <2>1, <2>2
    <3>4. Fine(q)
      BY <1>3, <2>1, <3>1, <3>2, <3>3
    <3> QED BY <1>5, <2>2, <3>4
  <2> QED BY <1>10, <2>3, <2>4
<1>11. \A q \in QRs : Fine(q)
  BY <1>6, <1>7, <1>8, <1>9, <1>10
  DEF QRNext, LoginStep, CallbackRead, Callback, CallbackParent, browser, qrVars, allVars
<1> QED BY <1>11 DEF ResultInv

-----------------------------------------------------------------------------
(* The theorems *)

LEMMA QRInvariants == QRSpec => [](QRTypeOK /\ QRInv /\ AttestationInv)
<1>1. QRInit => QRTypeOK /\ QRInv /\ AttestationInv
  <2> SUFFICES ASSUME QRInit PROVE QRTypeOK /\ QRInv /\ AttestationInv
    OBVIOUS
  <2>1. TypeOK
    BY ConstantsTyped, LimitsAssumption DEF QRInit, Init, TypeOK, Labels
  <2>2. AttestationInv
    BY DEF QRInit, Init, AttestationInv, Attested, AttestedCopy, NoRow, AwaitingOtp
  <2>3. NoQr \in QrRow
    BY ConstantsTyped, LimitsAssumption, QrAssumption DEF NoQr, QrRow
  <2>4. QRTypeOK
    BY <2>1, <2>3, QrAssumption DEF QRInit, Init, QRTypeOK, Polls, NoRequest
  <2>5. QRInv
    BY QrAssumption DEF QRInit, Init, NoQr, QRInv, PageInv, HandlerInv, ResultInv
  <2> QED BY <2>2, <2>4, <2>5
<1>2. QRTypeOK /\ QRInv /\ AttestationInv /\ [QRNext]_allVars
        => (QRTypeOK /\ QRInv /\ AttestationInv)'
  BY QRTypeStep, QRAttestationStep, PageStep, HandlerStep, ResultStep DEF QRInv
<1> QED BY <1>1, <1>2, PTL DEF QRSpec

\* Every reachable state of the two logins is typed, and no page goes on polling after
\* its last retry, for any number of codes and callbacks (qr_auth_service.ts,
\* singpass-polling.ts:18-49).
THEOREM QRTypeCorrect == QRSpec => []QRTypeOK
BY QRInvariants, PTL

\* With the callbacks of Singpass beside the password login, which write the same rows,
\* a code still names only users who authenticated in its session
\* (qr_auth_service.ts:136-159, GenerateAuthCode.ts:27-76).
THEOREM QRAttestationCorrect == QRSpec => [](CodeAttestsUser /\ ChallengeNotTorn)
<1>1. AttestationInv => CodeAttestsUser /\ ChallengeNotTorn
  BY DEF AttestationInv, AttestedCode, Attested, CodeAttestsUser, ChallengeNotTorn
<1> QED BY <1>1, QRInvariants, PTL

\* The redirect of an AUTHORIZED row carries an issued code of the browser's own
\* session, for a user who authenticated there, however many callbacks there are and
\* in whatever order they end (qr_auth_service.ts:113-174).
THEOREM RedirectCorrect == QRSpec => []RedirectIsIssued
<1>1. QRTypeOK /\ QRInv /\ AttestationInv => RedirectIsIssued
  BY DEF QRInv, ResultInv, AttestationInv, AttestedCode, RedirectIsIssued
<1> QED BY <1>1, QRInvariants, PTL

\* A page that says AUTHORIZED stands for an issued code, whatever late callbacks and
\* polls have made of its row since (QRAuth.svelte:38-46).
THEOREM PageCorrect == QRSpec => []PageTellsTruth
<1>1. QRInv => PageTellsTruth
  BY DEF QRInv, ResultInv, Issued, PageTellsTruth
<1> QED BY <1>1, QRInvariants, PTL

\* The callback authenticates: a user the parent row names has been proved, as after an
\* OTP, before GenerateAuthCode issues a code.
LEMMA QRGrantStep ==
  QRTypeOK /\ QRInv /\ AttestationInv /\ [QRNext]_allVars => [Grant!Next]_<<proved, granted>>
<1> SUFFICES ASSUME QRTypeOK, QRInv, AttestationInv, [QRNext]_allVars
             PROVE  [Grant!Next]_<<proved, granted>>
  OBVIOUS
<1>1. ASSUME Next \/ UNCHANGED vars PROVE [Grant!Next]_<<proved, granted>>
  BY <1>1, GrantStep DEF QRTypeOK
<1>2. ASSUME NEW h \in Handlers, NEW u \in Users, CallbackParent(h, u) PROVE Grant!Next
  <2>1. PICK s \in Sessions : s = req[h].session
    BY <1>2, CallbackTyped DEF CallbackParent, QRInv
  <2>2. proved' = [proved EXCEPT ![s] = @ \cup {u}]
    BY <1>2, <2>1 DEF CallbackParent
  <2>3. granted' = granted
    BY <1>2 DEF CallbackParent, granted
  <2>4. {u} \in SUBSET Users
    OBVIOUS
  <2>5. Grant!Authenticate(s)
    BY <2>2, <2>3, <2>4 DEF Grant!Authenticate, granted
  <2> QED BY <2>5 DEF Grant!Next
<1>3. ASSUME UNCHANGED <<proved, codes>> PROVE UNCHANGED <<proved, granted>>
  BY <1>3 DEF granted
<1> QED
  BY <1>1, <1>2, <1>3
  DEF QRNext, LoginStep, InitQR, Poll, PollStart, PollRead, PollExpire, PollAnswer,
      PollFail, CountdownEnds, CallbackRefused, CallbackRead, Callback,
      CallbackAuthorized, CallbackError, EndCallback, db, history, vars, allVars

\* The two logins of a session together still keep the promise made to relying parties:
\* authentication first, a code afterwards, nothing withdrawn
\* (qr_auth_service.ts:136-168, Validate2FA.ts, GenerateAuthCode.ts).
THEOREM QRImplementsGrant == QRSpec => ImplementsGrant
<1>1. QRInit => Grant!Init
  BY DEF QRInit, Init, Grant!Init
<1>2. QRTypeOK /\ QRInv /\ AttestationInv /\ [QRNext]_allVars
        => [Grant!Next]_<<proved, {<<c.session, c.userId>> : c \in codes}>>
  BY QRGrantStep DEF granted
<1> QED BY <1>1, <1>2, QRInvariants, PTL DEF QRSpec, ImplementsGrant, Grant!Spec
=============================================================================
