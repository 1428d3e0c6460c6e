------------------------ MODULE ConsoleLogin_proofs ------------------------
(***************************************************************************)
(* Proofs about ConsoleLogin, for every number of developers, browsers,    *)
(* concurrent requests, passwords and keys, and every lifetime.            *)
(***************************************************************************)
EXTENDS ConsoleLogin, TLAPS

Shown == {"email", "otp", "load", "loading", "console"}

-----------------------------------------------------------------------------
(* Requests *)

\* What a step leaves of a request it does not serve: it may lose its page.
Kept(g) == pc'[g] = pc[g] /\ req'[g] \in {req[g], [req[g] EXCEPT !.from = None]}
Ended(g) == pc'[g] = "idle" /\ req'[g] = NoRequest

LEMMA NoRequestTyped == NoRequest \in Request
BY DEF NoRequest, Request

LEMMA RequestTyped == TypeOK => req \in [Handlers -> Request]
BY NoRequestTyped DEF TypeOK

LEMMA RequestUpdates ==
  ASSUME NEW r \in Request
  PROVE  /\ \A b \in Browsers \cup {None} : [r EXCEPT !.from = b] \in Request
         /\ \A k \in Keys \cup {None} : [r EXCEPT !.key = k] \in Request
         /\ \A role \in Roles : [r EXCEPT !.role = role] \in Request
         /\ \A e \in Emails : [r EXCEPT !.email = e] \in Request
         /\ \A e \in Emails, o \in Otps : [r EXCEPT !.email = e, !.otp = o] \in Request
         /\ \A s \in Session : [r EXCEPT !.session = s] \in Request
<1> HIDE DEF Session
<1> QED BY DEF Request

\* The request types and the page of every step that answers or drops requests.
LEMMA EndTyped ==
  ASSUME TypeOK, NEW h \in Handlers, End(h)
  PROVE  /\ pc' \in [Handlers -> Awaits] /\ req' \in [Handlers -> Request]
         /\ Ended(h) /\ \A g \in Handlers \ {h} : Kept(g) /\ req'[g] = req[g]
BY NoRequestTyped, RequestTyped DEF End, TypeOK, Awaits, Ended, Kept

LEMMA DroppingTyped ==
  ASSUME TypeOK, NEW b \in Browsers
  PROVE  /\ Dropping(b) \in [Handlers -> Request]
         /\ \A g \in Handlers : Dropping(b)[g] \in {req[g], [req[g] EXCEPT !.from = None]}
         /\ \A g \in Handlers : Dropping(b)[g].from # b
<1>1. \A g \in Handlers : req[g] \in Request /\ [req[g] EXCEPT !.from = None] \in Request
  BY RequestTyped, RequestUpdates
<1>2. \A g \in Handlers : [req[g] EXCEPT !.from = None].from = None
  BY <1>1 DEF Request
<1> QED BY <1>1, <1>2, ConsoleAssumption DEF Dropping

LEMMA GoTyped ==
  ASSUME TypeOK, NEW h \in Handlers, NEW to \in Shown, Go(h, to)
  PROVE  /\ pc' \in [Handlers -> Awaits] /\ req' \in [Handlers -> Request]
         /\ step' \in [Browsers -> Shown]
         /\ Ended(h) /\ \A g \in Handlers \ {h} : Kept(g)
         /\ req[h].from \in Browsers => \A g \in Handlers : req'[g].from # req[h].from
<1> DEFINE b == req[h].from
           base == IF b = None THEN req ELSE Dropping(b)
<1>1. b \in Browsers \cup {None}
  BY RequestTyped DEF Request
<1>2. /\ base \in [Handlers -> Request]
      /\ \A g \in Handlers : base[g] \in {req[g], [req[g] EXCEPT !.from = None]}
      /\ b \in Browsers => \A g \in Handlers : base[g].from # b
  BY <1>1, RequestTyped, DroppingTyped, ConsoleAssumption
<1>3. req' = [base EXCEPT ![h] = NoRequest] /\ pc' = [pc EXCEPT ![h] = "idle"]
  BY DEF Go
<1>4. step' \in [Browsers -> Shown]
  BY <1>1 DEF Go, Show, TypeOK, Shown
<1> HIDE DEF base
<1>5. req' \in [Handlers -> Request] /\ pc' \in [Handlers -> Awaits]
  BY <1>2, <1>3, NoRequestTyped DEF TypeOK, Awaits
<1>6. Ended(h) /\ \A g \in Handlers \ {h} : Kept(g)
  BY <1>2, <1>3 DEF Ended, Kept, TypeOK
<1>7. b \in Browsers => \A g \in Handlers : req'[g].from # b
  BY <1>2, <1>3, ConsoleAssumption DEF NoRequest
<1> QED BY <1>4, <1>5, <1>6, <1>7

LEMMA FailTyped ==
  ASSUME TypeOK, NEW h \in Handlers, Fail(h)
  PROVE  /\ pc' \in [Handlers -> Awaits] /\ req' \in [Handlers -> Request]
         /\ step' \in [Browsers -> Shown]
         /\ Ended(h) /\ \A g \in Handlers \ {h} : Kept(g)
         /\ UNCHANGED <<area, cookie>>
<1>1. CASE Go(h, "email")
  BY <1>1, GoTyped DEF Fail, Shown
<1>2. CASE End(h) /\ UNCHANGED step
  BY <1>2, EndTyped DEF Fail, TypeOK, Shown
<1> QED BY <1>1, <1>2 DEF Fail

LEMMA LeaveTyped ==
  ASSUME TypeOK, NEW b \in Browsers, NEW to \in Shown, Leave(b, to)
  PROVE  /\ req' \in [Handlers -> Request] /\ step' \in [Browsers -> Shown]
         /\ \A g \in Handlers : req'[g] \in {req[g], [req[g] EXCEPT !.from = None]}
         /\ \A g \in Handlers : req'[g].from # b
BY DroppingTyped DEF Leave, TypeOK, Shown

LEMMA BeginTyped ==
  ASSUME TypeOK, NEW h \in Handlers, NEW b \in Browsers, NEW r \in Request,
         NEW first \in Awaits, Begin(h, b, r, first)
  PROVE  /\ pc' \in [Handlers -> Awaits] /\ req' \in [Handlers -> Request]
         /\ pc[h] = "idle" /\ pc'[h] = first /\ req'[h] = [r EXCEPT !.from = b]
         /\ \A g \in Handlers \ {h} : Kept(g) /\ req'[g] = req[g]
<1>1. [r EXCEPT !.from = b] \in Request
  BY RequestUpdates
<1> QED BY <1>1, RequestTyped DEF Begin, TypeOK, Kept

-----------------------------------------------------------------------------
(* Types *)

LEMMA NextKeyTyped ==
  ASSUME TypeOK, NEW h \in Handlers, NEW sk \in Keys \cup {None}, NEW vk \in Keys \cup {None},
         HasKey(h, sk, vk)
  PROVE  /\ pc' \in [Handlers -> Awaits] /\ req' \in [Handlers -> Request]
         /\ pc'[h] = Next1(h)
         /\ req'[h] = [req[h] EXCEPT !.key = IF Verifies(h) THEN vk ELSE sk]
         /\ \A g \in Handlers \ {h} : Kept(g) /\ req'[g] = req[g]
<1>1. Next1(h) \in Awaits
  BY DEF Next1, Awaits
<1>2. (IF Verifies(h) THEN vk ELSE sk) \in Keys \cup {None}
  OBVIOUS
<1>3. [req[h] EXCEPT !.key = IF Verifies(h) THEN vk ELSE sk] \in Request
  BY <1>2, RequestTyped, RequestUpdates
<1> QED BY <1>1, <1>3, RequestTyped DEF HasKey, TypeOK, Kept

\* The routes of IAMService.
LEMMA ServiceTyped ==
  ASSUME TypeOK, RequestInv, NEW h \in Handlers,
         RegisterInsert(h) \/ (\E o \in Otps : OtpInsert(h, o)) \/ MarkUsed(h)
           \/ ReadOwner(h) \/ OpenSession(h)
  PROVE  TypeOK'
<1> USE DEF tables, keyVars, pageVars, histories
<1>1. CASE RegisterInsert(h)
  <2>1. req[h].email \in Emails
    BY <1>1 DEF RegisterInsert, RequestInv
  <2>2. CASE devs[req[h].email] = "none"
    BY <1>1, <2>1, <2>2, RequestTyped DEF RegisterInsert, TypeOK, Roles, Awaits
  <2>3. CASE devs[req[h].email] # "none"
    <3>1. Fail(h) /\ UNCHANGED <<now, devs, otps, keyVars, histories>>
      BY <1>1, <2>3 DEF RegisterInsert
    <3> QED BY <3>1, FailTyped DEF TypeOK, Shown
  <2> QED BY <2>2, <2>3
<1>2. ASSUME NEW o \in Otps, OtpInsert(h, o) PROVE TypeOK'
  <2>1. req[h].email \in Emails /\ now + OtpTTL \in Nat
    BY <1>2, ConsoleAssumption DEF OtpInsert, RequestInv, TypeOK
  <2>2. otps' \in [Otps -> [email : Emails, expiresAt : Nat, used : {FALSE}] \cup {NoOtp, UsedOtp}]
    BY <1>2, <2>1 DEF OtpInsert, TypeOK
  <2>3. step' \in [Browsers -> Shown]
    BY <1>2 DEF OtpInsert, Show, TypeOK, Shown
  <2> QED BY <1>2, <2>2, <2>3, EndTyped DEF OtpInsert, TypeOK, Shown
<1>3. CASE MarkUsed(h)
  BY <1>3 DEF MarkUsed, TypeOK, Awaits
<1>4. CASE ReadOwner(h)
  <2>1. devs[req[h].email] \in Roles
    BY <1>4 DEF ReadOwner, RequestInv
  <2>2. req' \in [Handlers -> Request]
    BY <1>4, <2>1, RequestTyped, RequestUpdates DEF ReadOwner
  <2> QED BY <1>4, <2>2 DEF ReadOwner, TypeOK, Awaits
<1>5. CASE OpenSession(h)
  <2> DEFINE r == req[h]
             s == [email |-> r.email, role |-> r.role, key |-> r.key, exp |-> now + SessionTTL]
  <2>1. r.email \in Emails /\ r.otp \in Otps /\ r.role \in Roles /\ r.key \in Keys
    BY <1>5 DEF OpenSession, RequestInv
  <2>2. now + SessionTTL \in Nat
    BY ConsoleAssumption DEF TypeOK
  <2>3. s \in Session
    BY <2>1, <2>2 DEF Session
  <2>4. cookie' \in [Browsers -> Session \cup {NoSession}]
    BY <1>5, <2>3 DEF OpenSession, TypeOK
  <2>5. opened' \in [Otps -> Nat]
    BY <1>5, <2>1 DEF OpenSession, TypeOK
  <2>6. Go(h, "load") /\ UNCHANGED <<now, tables, keyVars, area, shared>>
    BY <1>5 DEF OpenSession
  <2> QED BY <2>4, <2>5, <2>6, GoTyped DEF TypeOK, Shown
<1> QED BY <1>1, <1>2, <1>3, <1>4, <1>5

LEMMA KeyTyped ==
  ASSUME TypeOK, KeyInv, NEW h \in Handlers, LoadKey(h)
  PROVE  TypeOK'
<1> USE DEF tables, keyVars, pageVars, histories
<1>1. {saved, private, public} \subseteq Keys \cup {None}
  BY DEF TypeOK
<1>2. CASE KeyCached(h)
  BY <1>1, <1>2, NextKeyTyped DEF KeyCached, TypeOK
<1>3. CASE KeyMissing(h)
  BY <1>3 DEF KeyMissing, TypeOK, Awaits, Loading
<1>4. CASE ImportKey(h)
  BY <1>4 DEF ImportKey, TypeOK, Awaits, Loading
<1>5. CASE PublishKey(h)
  BY <1>1, <1>5, NextKeyTyped DEF PublishKey, TypeOK
<1>6. ASSUME NEW k \in Keys, GenerateKey(h, k) PROVE TypeOK'
  <2>1. req' \in [Handlers -> Request]
    BY <1>6, RequestTyped, RequestUpdates DEF GenerateKey
  <2> QED BY <1>6, <2>1 DEF GenerateKey, TypeOK, Awaits, Loading
<1>7. CASE SaveKey(h)
  <2>1. req[h].key \in Keys \cup {None}
    BY RequestTyped DEF Request
  <2> QED BY <1>1, <1>7, <2>1, NextKeyTyped DEF SaveKey, TypeOK
<1>8. CASE SaveFails(h)
  BY <1>1, <1>8, NextKeyTyped DEF SaveFails, TypeOK
<1> QED BY <1>2, <1>3, <1>4, <1>5, <1>6, <1>7, <1>8 DEF LoadKey

LEMMA ClickTyped ==
  ASSUME TypeOK, NEW h \in Handlers, NEW b \in Browsers, Click(h, b)
  PROVE  TypeOK'
<1> USE DEF tables, keyVars, pageVars, histories
<1>1. ASSUME NEW e \in Emails, Register(h, b, e) \/ RequestOtp(h, b, e) PROVE TypeOK'
  <2>1. [NoRequest EXCEPT !.email = e] \in Request /\ {"register", "otp"} \subseteq Awaits
    BY NoRequestTyped, RequestUpdates DEF Awaits
  <2>2. CASE \E first \in {"register", "otp"} :
               Begin(h, b, [NoRequest EXCEPT !.email = e], first) /\ UNCHANGED pageVars
    <3>1. pc' \in [Handlers -> Awaits] /\ req' \in [Handlers -> Request]
      BY <2>1, <2>2, BeginTyped
    <3>2. UNCHANGED <<now, tables, keyVars, pageVars, histories>>
      BY <1>1, <2>2 DEF Register, RequestOtp
    <3> QED BY <3>1, <3>2 DEF TypeOK
  <2>3. CASE step' = [step EXCEPT ![b] = "otp"] /\ UNCHANGED <<pc, req, area, cookie>>
    BY <1>1, <2>3 DEF Register, RequestOtp, TypeOK
  <2> QED BY <1>1, <2>2, <2>3 DEF Register, RequestOtp
<1>2. ASSUME NEW e \in Emails, NEW o \in Otps, VerifyOtp(h, b, e, o) PROVE TypeOK'
  <2>1. [NoRequest EXCEPT !.email = e, !.otp = o] \in Request /\ "mark" \in Awaits
    BY NoRequestTyped, RequestUpdates DEF Awaits
  <2>2. pc' \in [Handlers -> Awaits] /\ req' \in [Handlers -> Request]
    BY <1>2, <2>1, BeginTyped DEF VerifyOtp
  <2> QED BY <1>2, <2>2 DEF VerifyOtp, TypeOK
<1>3. ASSUME CheckMe(h, b) PROVE TypeOK'
  <2>1. [NoRequest EXCEPT !.session = cookie[b]] \in Request /\ "key" \in Awaits
    <3>1. CASE cookie[b] \in Session
      BY <3>1, NoRequestTyped, RequestUpdates DEF Awaits
    <3>2. CASE cookie[b] = NoSession
      BY <3>2, NoRequestTyped DEF NoRequest, Awaits
    <3> QED BY <3>1, <3>2 DEF TypeOK
  <2>2. pc' \in [Handlers -> Awaits] /\ req' \in [Handlers -> Request]
    BY <1>3, <2>1, BeginTyped DEF CheckMe
  <2> QED BY <1>3, <2>2 DEF CheckMe, TypeOK
<1> QED BY <1>1, <1>2, <1>3 DEF Click

LEMMA TypeStep == TypeOK /\ RequestInv /\ KeyInv /\ [Next]_vars => TypeOK'
<1> SUFFICES ASSUME TypeOK, RequestInv, KeyInv, [Next]_vars PROVE TypeOK'
  OBVIOUS
<1> USE DEF tables, keyVars, pageVars, histories
<1>1. ASSUME NEW h \in Handlers, Check(h) PROVE TypeOK'
  <2>1. CASE End(h) /\ Show(h, "console") /\ UNCHANGED <<area, cookie>>
    BY <1>1, <2>1, EndTyped DEF Check, Show, TypeOK
  <2>2. CASE Fail(h)
    BY <1>1, <2>2, FailTyped DEF Check, TypeOK, Shown
  <2> QED BY <1>1, <2>1, <2>2 DEF Check
<1>2. ASSUME NEW h \in Handlers, Abort(h) PROVE TypeOK'
  BY <1>2, FailTyped DEF Abort, TypeOK, Shown
<1>3. ASSUME NEW b \in Browsers, Logout(b) \/ Back(b) PROVE TypeOK'
  <2>1. CASE Logout(b)
    BY <2>1, LeaveTyped DEF Logout, TypeOK, Shown
  <2>2. CASE Back(b)
    BY <2>2 DEF Back, TypeOK
  <2> QED BY <1>3, <2>1, <2>2
<1>4. ASSUME NEW b \in Browsers, NEW a \in Roles, NEW to \in {"email", "load"}, Navigate(b, a, to)
      PROVE  TypeOK'
  BY <1>4, LeaveTyped DEF Navigate, TypeOK, Shown
<1>5. ASSUME Restart PROVE TypeOK'
  BY <1>5, NoRequestTyped DEF Restart, TypeOK, Awaits
<1>6. ASSUME Tick PROVE TypeOK'
  <2>1. now' \in Nat
    BY <1>6 DEF Tick, TypeOK
  <2>2. UNCHANGED <<tables, keyVars, pc, req, pageVars, histories>>
    BY <1>6 DEF Tick
  <2> QED BY <2>1, <2>2 DEF TypeOK
<1>7. ASSUME UNCHANGED vars PROVE TypeOK'
  BY <1>7 DEF vars, TypeOK
<1> QED
  BY <1>1, <1>2, <1>3, <1>4, <1>5, <1>6, <1>7, ServiceTyped, KeyTyped, ClickTyped
  DEF Next, Continue

-----------------------------------------------------------------------------
(* What requests carry *)

\* RequestInv, of one request.
Fits(dv, label, r) ==
  /\ label = "idle" => r = NoRequest
  /\ label = "register" => r.email \in Emails
  /\ label \in {"otp", "mark", "owner"} => r.email \in Emails /\ dv[r.email] \in Roles
  /\ label \in {"mark", "owner"} => r.otp \in Otps
  /\ label \in {"key", "sign"} \cup Loading /\ r.session = NoSession =>
       r.email \in Emails /\ r.otp \in Otps /\ r.role \in Roles
  /\ label = "sign" => r.session = NoSession /\ r.key \in Keys
  /\ r.session # NoSession => label \in {"key", "check"} \cup Loading
  /\ label = "check" => r.session # NoSession

LEMMA FitsKept ==
  ASSUME NEW dv, NEW dw, \A e \in Emails : dv[e] \in Roles => dw[e] \in Roles,
         NEW label, NEW r \in Request, Fits(dv, label, r)
  PROVE  Fits(dw, label, r) /\ (label # "idle" => Fits(dw, label, [r EXCEPT !.from = None]))
<1>1. Fits(dw, label, r)
  BY DEF Fits
<1> DEFINE q == [r EXCEPT !.from = None]
<1>2. /\ q.email = r.email /\ q.otp = r.otp /\ q.role = r.role /\ q.key = r.key
      /\ q.session = r.session
  BY DEF Request
<1> HIDE DEF q
<1> QED BY <1>1, <1>2 DEF Fits

\* Only three steps write to the tables.
LEMMA TableWrites ==
  ASSUME [Next]_vars
  PROVE  \/ UNCHANGED tables
         \/ \E h \in Handlers : \/ RegisterInsert(h) \/ MarkUsed(h)
                                \/ \E o \in Otps : OtpInsert(h, o)
<1>1. ASSUME NEW h \in Handlers, LoadKey(h) PROVE UNCHANGED tables
  BY <1>1 DEF LoadKey, KeyCached, KeyMissing, ImportKey, PublishKey, GenerateKey, SaveKey, SaveFails
<1>2. ASSUME NEW h \in Handlers, ReadOwner(h) \/ OpenSession(h) \/ Check(h) \/ Abort(h)
      PROVE  UNCHANGED tables
  BY <1>2 DEF ReadOwner, OpenSession, Check, Abort
<1>3. ASSUME NEW h \in Handlers, NEW b \in Browsers, Click(h, b) PROVE UNCHANGED tables
  BY <1>3 DEF Click, Register, RequestOtp, VerifyOtp, CheckMe
<1>4. ASSUME NEW b \in Browsers,
             Logout(b) \/ Back(b) \/ \E a \in Roles : Navigate(b, a, "email") \/ Navigate(b, a, "load")
      PROVE  UNCHANGED tables
  BY <1>4 DEF Logout, Back, Navigate
<1>5. ASSUME Restart \/ Tick \/ UNCHANGED vars PROVE UNCHANGED tables
  BY <1>5 DEF Restart, Tick, vars
<1> QED BY <1>1, <1>2, <1>3, <1>4, <1>5 DEF Next, Continue

LEMMA RolesKept == TypeOK /\ [Next]_vars => \A e \in Emails : devs[e] \in Roles => devs'[e] \in Roles
<1> SUFFICES ASSUME TypeOK, [Next]_vars, NEW e \in Emails, devs[e] \in Roles
             PROVE  devs'[e] \in Roles
  OBVIOUS
<1>1. ASSUME NEW h \in Handlers, RegisterInsert(h) PROVE devs'[e] \in Roles
  BY <1>1 DEF RegisterInsert, TypeOK, Roles
<1>2. (\E h \in Handlers : RegisterInsert(h)) \/ UNCHANGED devs
  BY TableWrites DEF OtpInsert, MarkUsed, tables
<1> QED BY <1>1, <1>2

LEMMA RequestStep == TypeOK /\ RequestInv /\ CacheInv /\ PageInv /\ [Next]_vars => RequestInv'
<1> SUFFICES ASSUME TypeOK, RequestInv, CacheInv, PageInv, [Next]_vars PROVE RequestInv'
  OBVIOUS
<1> USE DEF tables, keyVars, pageVars, histories
<1>1. \A g \in Handlers : req[g] \in Request /\ Fits(devs, pc[g], req[g])
  BY RequestTyped DEF RequestInv, Fits, Verifies
<1>2. \A e \in Emails : devs[e] \in Roles => devs'[e] \in Roles
  BY RolesKept
<1> DEFINE F(g) == Fits(devs', pc'[g], req'[g])
<1>3. ASSUME NEW g \in Handlers, Kept(g) PROVE F(g)
  <2>1. CASE req'[g] = req[g]
    BY <1>1, <1>2, <1>3, <2>1, FitsKept DEF Kept
  <2>2. CASE req'[g] = [req[g] EXCEPT !.from = None] /\ pc[g] # "idle"
    BY <1>1, <1>2, <1>3, <2>2, FitsKept DEF Kept
  <2>3. CASE req'[g] = [req[g] EXCEPT !.from = None] /\ pc[g] = "idle"
    <3>1. req[g] = NoRequest
      BY <1>1, <2>3 DEF Fits
    <3>2. req'[g] = req[g]
      BY <2>3, <3>1 DEF NoRequest
    <3> QED BY <1>1, <1>2, <1>3, <3>2, FitsKept DEF Kept
  <2> QED BY <1>3, <2>1, <2>2, <2>3 DEF Kept
<1>4. ASSUME NEW g \in Handlers, Ended(g) PROVE F(g)
  BY <1>4 DEF Ended, Fits, NoRequest, Loading
\* Rows come from addresses that have a developer.
<1>5. \A o \in Otps : otps'[o].email # None => devs'[otps'[o].email] \in Roles
  <2>1. CASE UNCHANGED otps
    <3>1. NoOtp.email = None /\ UsedOtp.email = None
      BY DEF NoOtp, UsedOtp
    <3>2. \A o \in Otps : otps[o].email \in Emails \cup {None}
      BY <3>1 DEF TypeOK
    <3> QED BY <1>2, <2>1, <3>2 DEF RequestInv
  <2>2. ASSUME NEW h \in Handlers, NEW p \in Otps, OtpInsert(h, p)
        PROVE  \A o \in Otps : otps'[o].email # None => devs'[otps'[o].email] \in Roles
    <3>1. req[h].email \in Emails /\ devs[req[h].email] \in Roles
      BY <2>2 DEF OtpInsert, RequestInv
    <3> QED BY <2>2, <3>1 DEF OtpInsert, RequestInv, TypeOK
  <2>3. ASSUME NEW h \in Handlers, MarkUsed(h)
        PROVE  \A o \in Otps : otps'[o].email # None => devs'[otps'[o].email] \in Roles
    BY <2>3 DEF MarkUsed, UsedOtp, NoOtp, RequestInv, TypeOK
  <2>4. \/ UNCHANGED otps
        \/ \E h \in Handlers, p \in Otps : OtpInsert(h, p)
        \/ \E h \in Handlers : MarkUsed(h)
    BY TableWrites DEF RegisterInsert
  <2> QED BY <2>1, <2>2, <2>3, <2>4
<1>6. ASSUME \A g \in Handlers : F(g) PROVE RequestInv'
  BY <1>5, <1>6 DEF RequestInv, Fits, Verifies
\* A step of one request: the others are kept.
<1>7. ASSUME NEW h \in Handlers, \A g \in Handlers \ {h} : Kept(g), F(h) PROVE RequestInv'
  BY <1>3, <1>6, <1>7
<1>8. ASSUME NEW h \in Handlers, NEW b \in Browsers, NEW e \in Emails,
             Register(h, b, e) \/ RequestOtp(h, b, e)
      PROVE  RequestInv'
  <2> DEFINE r == [NoRequest EXCEPT !.email = e]
  <2>1. r \in Request /\ [r EXCEPT !.from = b].email = e /\ [r EXCEPT !.from = b].session = NoSession
    BY NoRequestTyped, RequestUpdates DEF NoRequest
  <2>2. {"register", "otp"} \subseteq Awaits
    BY DEF Awaits
  <2>3. CASE Register(h, b, e)
    <3>1. Begin(h, b, r, "register")
      BY <2>3 DEF Register
    <3> HIDE DEF r
    <3>2. pc'[h] = "register" /\ req'[h] = [r EXCEPT !.from = b] /\ \A g \in Handlers \ {h} : Kept(g)
      BY <2>1, <2>2, <3>1, BeginTyped
    <3> QED BY <1>7, <2>1, <3>2 DEF Fits, Loading
  <2>4. CASE RequestOtp(h, b, e) /\ devs[e] = "none"
    BY <1>3, <1>6, <2>4 DEF RequestOtp, Kept
  <2>5. CASE RequestOtp(h, b, e) /\ devs[e] # "none"
    <3>1. Begin(h, b, r, "otp") /\ UNCHANGED devs
      BY <2>5 DEF RequestOtp
    <3> HIDE DEF r
    <3>2. pc'[h] = "otp" /\ req'[h] = [r EXCEPT !.from = b] /\ \A g \in Handlers \ {h} : Kept(g)
      BY <2>1, <2>2, <3>1, BeginTyped
    <3>3. devs'[e] \in Roles
      BY <2>5, <3>1 DEF TypeOK
    <3> QED BY <1>7, <2>1, <3>2, <3>3 DEF Fits, Loading
  <2> QED BY <1>8, <2>3, <2>4, <2>5
<1>9. ASSUME NEW h \in Handlers, NEW b \in Browsers, NEW e \in Emails, NEW o \in Otps,
             VerifyOtp(h, b, e, o)
      PROVE  RequestInv'
  <2> DEFINE r == [NoRequest EXCEPT !.email = e, !.otp = o]
             q == [r EXCEPT !.from = b]
  <2>1. r \in Request /\ q.email = e /\ q.otp = o /\ q.session = NoSession
    BY NoRequestTyped, RequestUpdates DEF NoRequest
  <2>2. Begin(h, b, r, "mark") /\ UNCHANGED devs /\ "mark" \in Awaits
    BY <1>9 DEF VerifyOtp, Awaits
  <2>3. devs[e] \in Roles
    BY <1>9, ConsoleAssumption DEF VerifyOtp, Usable, RequestInv
  <2> HIDE DEF r
  <2>4. pc'[h] = "mark" /\ req'[h] = q /\ \A g \in Handlers \ {h} : Kept(g)
    BY <2>1, <2>2, BeginTyped
  <2> HIDE DEF q
  <2> QED BY <1>7, <2>1, <2>2, <2>3, <2>4 DEF Fits, Loading
<1>10. ASSUME NEW h \in Handlers, NEW b \in Browsers, CheckMe(h, b) PROVE RequestInv'
  <2> DEFINE r == [NoRequest EXCEPT !.session = cookie[b]]
             q == [r EXCEPT !.from = b]
  <2>1. cookie[b] # NoSession /\ cookie[b] \in Session
    BY <1>10 DEF CheckMe, PageInv, TypeOK
  <2>2. r \in Request /\ q.session = cookie[b] /\ "key" \in Awaits
    BY <2>1, NoRequestTyped, RequestUpdates DEF NoRequest, Awaits
  <2>3. Begin(h, b, r, "key")
    BY <1>10 DEF CheckMe
  <2> HIDE DEF r
  <2>4. pc'[h] = "key" /\ req'[h] = q /\ \A g \in Handlers \ {h} : Kept(g)
    BY <2>2, <2>3, BeginTyped
  <2> HIDE DEF q
  <2> QED BY <1>7, <2>1, <2>2, <2>4 DEF Fits, Loading
\* The steps of a request that is served.
<1>11. ASSUME NEW h \in Handlers, RegisterInsert(h) PROVE RequestInv'
  <2>1. CASE Fail(h)
    BY <1>3, <1>4, <1>6, <2>1, FailTyped
  <2>2. CASE devs[req[h].email] = "none" /\ pc' = [pc EXCEPT ![h] = "otp"] /\ UNCHANGED req
    <3>1. req[h].email \in Emails /\ req[h].session = NoSession
      BY <1>1, <1>11 DEF RegisterInsert, Fits, Loading
    <3>2. devs'[req[h].email] \in Roles
      BY <1>11, <2>2, <3>1 DEF RegisterInsert, TypeOK, Roles
    <3> QED BY <1>7, <2>2, <3>1, <3>2 DEF Fits, Kept, Loading, TypeOK
  <2> QED BY <1>11, <2>1, <2>2 DEF RegisterInsert
<1>12. ASSUME NEW h \in Handlers, NEW o \in Otps, OtpInsert(h, o) PROVE RequestInv'
  BY <1>3, <1>4, <1>6, <1>12, EndTyped DEF OtpInsert
<1>13. ASSUME NEW h \in Handlers, MarkUsed(h) PROVE RequestInv'
  <2>1. F(h)
    BY <1>1, <1>13 DEF MarkUsed, Fits, Loading, TypeOK
  <2> QED BY <1>7, <1>13, <2>1 DEF MarkUsed, Kept, TypeOK
<1>14. ASSUME NEW h \in Handlers, ReadOwner(h) PROVE RequestInv'
  <2> DEFINE role == devs[req[h].email]
             q == [req[h] EXCEPT !.role = role]
  <2>1. /\ req[h].email \in Emails /\ req[h].otp \in Otps /\ role \in Roles
        /\ req[h].session = NoSession
    BY <1>1, <1>14 DEF ReadOwner, Fits, Loading
  <2>2. q.email = req[h].email /\ q.otp = req[h].otp /\ q.role = role /\ q.session = NoSession
    BY <1>1, <2>1 DEF Request
  <2>3. pc'[h] = "key" /\ req'[h] = q /\ \A g \in Handlers \ {h} : Kept(g)
    BY <1>14 DEF ReadOwner, Kept, TypeOK
  <2> HIDE DEF q
  <2> QED BY <1>7, <2>1, <2>2, <2>3 DEF Fits, Loading
<1>15. ASSUME NEW h \in Handlers, OpenSession(h) PROVE RequestInv'
  BY <1>3, <1>4, <1>6, <1>15, GoTyped DEF OpenSession, Shown
\* Signing has a key when it goes on; verifying may have none.
<1>16. ASSUME NEW h \in Handlers, pc[h] \in {"key"} \cup Loading,
              NEW sk \in Keys, NEW vk \in Keys \cup {None}, HasKey(h, sk, vk)
       PROVE  RequestInv'
  <2>1. /\ pc'[h] = Next1(h)
        /\ req'[h] = [req[h] EXCEPT !.key = IF Verifies(h) THEN vk ELSE sk]
        /\ \A g \in Handlers \ {h} : Kept(g)
    BY <1>16, NextKeyTyped
  <2>2. /\ req'[h].email = req[h].email /\ req'[h].otp = req[h].otp
        /\ req'[h].role = req[h].role /\ req'[h].session = req[h].session
        /\ ~Verifies(h) => req'[h].key = sk
    BY <1>1, <2>1 DEF Request
  <2>3. F(h)
    BY <1>1, <1>16, <2>1, <2>2 DEF Fits, Next1, Verifies, Loading
  <2> QED BY <1>7, <2>1, <2>3
<1>17. ASSUME NEW h \in Handlers, LoadKey(h) PROVE RequestInv'
  <2>1. private \in Keys \cup {None} /\ public \in Keys \cup {None}
    BY DEF TypeOK
  <2>2. CASE KeyCached(h)
    <3>1. CASE private # None
      BY <1>16, <2>1, <2>2, <3>1 DEF KeyCached
    <3>2. CASE private = None
      BY <2>2, <3>2 DEF KeyCached, CacheInv
    <3> QED BY <3>1, <3>2
  <2>3. CASE PublishKey(h) \/ SaveKey(h) \/ SaveFails(h)
    <3>1. private \in Keys /\ pc[h] \in Loading
      BY <2>1, <2>3 DEF PublishKey, SaveKey, SaveFails, CacheInv, Loading
    <3> QED BY <1>16, <2>1, <2>3, <3>1 DEF PublishKey, SaveKey, SaveFails
  <2>4. CASE KeyMissing(h) \/ ImportKey(h)
    <3>1. pc[h] \in {"key"} \cup Loading /\ pc'[h] \in Loading /\ UNCHANGED req[h]
      BY <2>4 DEF KeyMissing, ImportKey, Loading, TypeOK
    <3>2. F(h)
      BY <1>1, <3>1 DEF Fits, Loading
    <3> QED BY <1>7, <2>4, <3>2 DEF KeyMissing, ImportKey, Kept, TypeOK
  <2>5. ASSUME NEW k \in Keys, GenerateKey(h, k) PROVE RequestInv'
    <3>1. /\ pc[h] = "generate" /\ pc'[h] = "save" /\ req'[h] = [req[h] EXCEPT !.key = k]
          /\ \A g \in Handlers \ {h} : Kept(g)
      BY <2>5 DEF GenerateKey, Kept, TypeOK
    <3>2. /\ req'[h].email = req[h].email /\ req'[h].otp = req[h].otp
          /\ req'[h].role = req[h].role /\ req'[h].session = req[h].session
      BY <1>1, <3>1 DEF Request
    <3>3. F(h)
      BY <1>1, <3>1, <3>2 DEF Fits, Loading
    <3> QED BY <1>7, <3>1, <3>3
  <2> QED BY <1>17, <2>2, <2>3, <2>4, <2>5 DEF LoadKey
<1>18. ASSUME NEW h \in Handlers, Check(h) \/ Abort(h) PROVE RequestInv'
  <2>1. End(h) \/ Fail(h)
    BY <1>18 DEF Check, Abort
  <2> QED BY <1>3, <1>4, <1>6, <2>1, EndTyped, FailTyped
<1>19. ASSUME NEW b \in Browsers, NEW a \in Roles, NEW to \in {"email", "load"},
              Logout(b) \/ Back(b) \/ Navigate(b, a, to)
       PROVE  RequestInv'
  <2>1. \A g \in Handlers : Kept(g)
    BY <1>19, LeaveTyped DEF Logout, Back, Navigate, Kept, Shown
  <2> QED BY <1>3, <1>6, <2>1
<1>20. ASSUME Restart PROVE RequestInv'
  BY <1>4, <1>6, <1>20 DEF Restart, Ended
<1>21. ASSUME UNCHANGED <<pc, req>> PROVE RequestInv'
  BY <1>3, <1>6, <1>21 DEF Kept
<1>22. (\E h \in Handlers : Continue(h)) => RequestInv'
  BY <1>11, <1>12, <1>13, <1>14, <1>15, <1>17, <1>18 DEF Continue
<1>23. (\E h \in Handlers, b \in Browsers : Click(h, b)) => RequestInv'
  BY <1>8, <1>9, <1>10 DEF Click
<1>24. (\E b \in Browsers : Logout(b) \/ Back(b)) => RequestInv'
  BY <1>19 DEF Roles
<1> QED
  BY <1>18, <1>19, <1>20, <1>21, <1>22, <1>23, <1>24 DEF Next, Tick, vars

-----------------------------------------------------------------------------
(* Keys *)

KeysOf(r) == {r.key, r.session.key}
Known == generated \cup {None}

\* A step that has nothing to do with the key: no request begins or ends loading it, and
\* no request or browser gets hold of a key that was not there.
OtherStep ==
  /\ UNCHANGED keyVars
  /\ \A g \in Handlers : pc[g] \in Loading \/ pc'[g] \in Loading => pc'[g] = pc[g]
  /\ \A g \in Handlers : pc[g] = "save" => req'[g].key = req[g].key

KeysStayKnown ==
  /\ \A b \in Browsers : cookie'[b].key \in Known
  /\ \A g \in Handlers : KeysOf(req'[g]) \subseteq Known

LEMMA KeptKeys ==
  ASSUME TypeOK, NEW g \in Handlers, Kept(g)
  PROVE  KeysOf(req'[g]) = KeysOf(req[g]) /\ req'[g].key = req[g].key
         /\ (pc[g] \in Loading \/ pc'[g] \in Loading => pc'[g] = pc[g])
<1>1. req[g] \in Request
  BY RequestTyped
<1> QED BY <1>1 DEF Kept, KeysOf, Request

LEMMA EndedKeys ==
  ASSUME NEW g \in Handlers, Ended(g)
  PROVE  KeysOf(req'[g]) \subseteq Known /\ pc'[g] \notin Loading
BY DEF Ended, KeysOf, Known, NoRequest, NoSession, Loading

\* What most steps of a request that is served come to.
LEMMA ServedOther ==
  ASSUME TypeOK, KeyInv, NEW h \in Handlers, pc[h] \notin Loading, pc'[h] \notin Loading,
         KeysOf(req'[h]) \subseteq Known, \A g \in Handlers \ {h} : Kept(g), UNCHANGED keyVars,
         \A b \in Browsers : cookie'[b].key \in Known
  PROVE  OtherStep /\ KeysStayKnown
<1>1. \A g \in Handlers : KeysOf(req[g]) \subseteq Known
  BY DEF KeyInv, KeysOf, Known
<1>2. \A g \in Handlers : pc[g] \in Loading \/ pc'[g] \in Loading => pc'[g] = pc[g]
  BY KeptKeys
<1>3. \A g \in Handlers : pc[g] = "save" => req'[g].key = req[g].key
  BY KeptKeys DEF Loading
<1>4. \A g \in Handlers : KeysOf(req'[g]) \subseteq Known
  BY <1>1, KeptKeys
<1> QED BY <1>2, <1>3, <1>4 DEF OtherStep, KeysStayKnown

LEMMA OtherSteps ==
  ASSUME TypeOK, RequestInv, KeyInv, [Next]_vars
  PROVE  \/ \E h \in Handlers : LoadKey(h)
         \/ Restart
         \/ OtherStep /\ KeysStayKnown
<1> USE DEF tables, pageVars, histories
<1>1. /\ \A g \in Handlers : KeysOf(req[g]) \subseteq Known
      /\ \A b \in Browsers : cookie[b].key \in Known
  BY DEF KeyInv, KeysOf, Known
<1>2. ASSUME \A g \in Handlers : Kept(g), UNCHANGED keyVars,
             \A b \in Browsers : cookie'[b].key \in Known
      PROVE  OtherStep /\ KeysStayKnown
  <2>1. \A g \in Handlers : KeysOf(req'[g]) \subseteq Known
    BY <1>1, <1>2, KeptKeys
  <2> QED BY <1>2, <2>1, KeptKeys DEF OtherStep, KeysStayKnown
<1>3. ASSUME NEW h \in Handlers, pc[h] \notin Loading, Ended(h), \A g \in Handlers \ {h} : Kept(g),
             UNCHANGED keyVars, \A b \in Browsers : cookie'[b].key \in Known
      PROVE  OtherStep /\ KeysStayKnown
  BY <1>3, ServedOther, EndedKeys
<1>4. ASSUME NEW h \in Handlers, NEW b \in Browsers, NEW r \in Request,
             NEW first \in Awaits \ Loading, Begin(h, b, r, first), KeysOf(r) \subseteq Known,
             UNCHANGED <<keyVars, cookie>>
      PROVE  OtherStep /\ KeysStayKnown
  <2>1. /\ pc[h] = "idle" /\ pc'[h] = first /\ req'[h] = [r EXCEPT !.from = b]
        /\ \A g \in Handlers \ {h} : Kept(g)
    BY <1>4, BeginTyped
  <2>2. KeysOf(req'[h]) \subseteq Known
    BY <1>4, <2>1 DEF KeysOf, Request
  <2> QED BY <1>1, <1>4, <2>1, <2>2, ServedOther DEF Loading
<1>5. ASSUME NEW h \in Handlers, NEW b \in Browsers, NEW e \in Emails,
             Register(h, b, e) \/ RequestOtp(h, b, e)
      PROVE  OtherStep /\ KeysStayKnown
  <2> DEFINE r == [NoRequest EXCEPT !.email = e]
  <2>1. r \in Request /\ KeysOf(r) \subseteq Known /\ {"register", "otp"} \subseteq Awaits \ Loading
    BY NoRequestTyped, RequestUpdates DEF NoRequest, NoSession, KeysOf, Known, Awaits, Loading
  <2>2. UNCHANGED <<keyVars, cookie>>
    BY <1>5 DEF Register, RequestOtp
  <2>3. CASE UNCHANGED <<pc, req>>
    BY <1>1, <1>2, <2>2, <2>3 DEF Kept
  <2>4. CASE \E first \in {"register", "otp"} : Begin(h, b, r, first)
    BY <1>4, <2>1, <2>2, <2>4
  <2> QED BY <1>5, <2>3, <2>4 DEF Register, RequestOtp
<1>6. ASSUME NEW h \in Handlers, NEW b \in Browsers, NEW e \in Emails, NEW o \in Otps,
             VerifyOtp(h, b, e, o)
      PROVE  OtherStep /\ KeysStayKnown
  <2> DEFINE r == [NoRequest EXCEPT !.email = e, !.otp = o]
  <2>1. r \in Request /\ KeysOf(r) \subseteq Known /\ "mark" \in Awaits \ Loading
    BY NoRequestTyped, RequestUpdates DEF NoRequest, NoSession, KeysOf, Known, Awaits, Loading
  <2> QED BY <1>4, <1>6, <2>1 DEF VerifyOtp
<1>7. ASSUME NEW h \in Handlers, NEW b \in Browsers, CheckMe(h, b)
      PROVE  OtherStep /\ KeysStayKnown
  <2> DEFINE r == [NoRequest EXCEPT !.session = cookie[b]]
  <2>1. cookie[b] \in Session \cup {NoSession}
    BY DEF TypeOK
  <2>2. r \in Request
    <3>1. CASE cookie[b] \in Session
      BY <3>1, NoRequestTyped, RequestUpdates
    <3>2. CASE cookie[b] = NoSession
      BY <3>2, NoRequestTyped DEF NoRequest
    <3> QED BY <2>1, <3>1, <3>2
  <2>3. KeysOf(r) \subseteq Known /\ "key" \in Awaits \ Loading
    BY <1>1 DEF NoRequest, KeysOf, Known, Awaits, Loading
  <2> QED BY <1>4, <1>7, <2>2, <2>3 DEF CheckMe
<1>8. ASSUME NEW h \in Handlers, RegisterInsert(h) PROVE OtherStep /\ KeysStayKnown
  <2>1. CASE Fail(h)
    BY <1>1, <1>3, <1>8, <2>1, FailTyped DEF RegisterInsert, Loading
  <2>2. CASE pc' = [pc EXCEPT ![h] = "otp"] /\ UNCHANGED <<req, cookie>>
    <3>1. /\ pc[h] \notin Loading /\ pc'[h] \notin Loading /\ req'[h] = req[h]
          /\ \A g \in Handlers \ {h} : Kept(g)
      BY <1>8, <2>2 DEF RegisterInsert, Loading, Kept, TypeOK
    <3> QED BY <1>1, <1>8, <2>2, <3>1, ServedOther DEF RegisterInsert
  <2> QED BY <1>8, <2>1, <2>2 DEF RegisterInsert
<1>9. ASSUME NEW h \in Handlers, NEW o \in Otps, OtpInsert(h, o) PROVE OtherStep /\ KeysStayKnown
  BY <1>1, <1>3, <1>9, EndTyped DEF OtpInsert, Loading
<1>10. ASSUME NEW h \in Handlers, MarkUsed(h) \/ ReadOwner(h) PROVE OtherStep /\ KeysStayKnown
  <2>1. pc[h] \notin Loading /\ pc'[h] \notin Loading /\ UNCHANGED <<cookie, keyVars>>
    BY <1>10 DEF MarkUsed, ReadOwner, Loading, TypeOK
  <2>2. \A g \in Handlers \ {h} : Kept(g)
    BY <1>10 DEF MarkUsed, ReadOwner, Kept, TypeOK
  <2>3. KeysOf(req'[h]) = KeysOf(req[h])
    BY <1>10, RequestTyped DEF MarkUsed, ReadOwner, KeysOf, Request
  <2> QED BY <1>1, <2>1, <2>2, <2>3, ServedOther
\* The session in the cookie has the key the request was given.
<1>11. ASSUME NEW h \in Handlers, OpenSession(h) PROVE OtherStep /\ KeysStayKnown
  <2>1. Ended(h) /\ \A g \in Handlers \ {h} : Kept(g)
    BY <1>11, GoTyped DEF OpenSession, Shown
  <2>2. \A b \in Browsers : cookie'[b].key \in {cookie[b].key, req[h].key}
    BY <1>11 DEF OpenSession, TypeOK
  <2>3. pc[h] \notin Loading /\ UNCHANGED keyVars
    BY <1>11 DEF OpenSession, Loading
  <2> QED BY <1>1, <1>3, <2>1, <2>2, <2>3 DEF KeysOf
<1>12. ASSUME NEW h \in Handlers, Check(h) \/ Abort(h) PROVE OtherStep /\ KeysStayKnown
  <2>1. Ended(h) /\ (\A g \in Handlers \ {h} : Kept(g)) /\ UNCHANGED cookie
    BY <1>12, EndTyped, FailTyped DEF Check, Abort
  <2>2. pc[h] \notin Loading /\ UNCHANGED keyVars
    BY <1>12 DEF Check, Abort, Loading
  <2> QED BY <1>1, <1>3, <2>1, <2>2
<1>13. ASSUME NEW b \in Browsers, NEW a \in Roles, NEW to \in {"email", "load"},
              Logout(b) \/ Back(b) \/ Navigate(b, a, to)
       PROVE  OtherStep /\ KeysStayKnown
  <2>1. \A g \in Handlers : Kept(g)
    BY <1>13, LeaveTyped DEF Logout, Back, Navigate, Kept, Shown
  <2>2. UNCHANGED keyVars
    BY <1>13 DEF Logout, Back, Navigate
  <2>3. \A c \in Browsers : cookie'[c].key \in {cookie[c].key, None}
    BY <1>13 DEF Logout, Back, Navigate, NoSession, TypeOK
  <2> QED BY <1>1, <1>2, <2>1, <2>2, <2>3 DEF Known
<1>14. ASSUME Tick \/ UNCHANGED vars PROVE OtherStep /\ KeysStayKnown
  BY <1>1, <1>2, <1>14 DEF Tick, vars, Kept
<1>15. (\E h \in Handlers : Continue(h)) =>
         (\E h \in Handlers : LoadKey(h)) \/ (OtherStep /\ KeysStayKnown)
  BY <1>8, <1>9, <1>10, <1>11, <1>12 DEF Continue
<1>16. (\E h \in Handlers, b \in Browsers : Click(h, b)) => OtherStep /\ KeysStayKnown
  BY <1>5, <1>6, <1>7 DEF Click
<1>17. (\E b \in Browsers : Logout(b) \/ Back(b)) => OtherStep /\ KeysStayKnown
  BY <1>13 DEF Roles
<1> QED BY <1>12, <1>13, <1>14, <1>15, <1>16, <1>17 DEF Next

\* A request that leaves the loading of the key is none of the loading ones.
LEMMA LoadingLeft == \A h \in Handlers : Next1(h) \notin Loading
BY DEF Next1, Loading

LEMMA CacheStep == TypeOK /\ RequestInv /\ CacheInv /\ KeyInv /\ [Next]_vars => CacheInv'
<1> SUFFICES ASSUME TypeOK, RequestInv, CacheInv, KeyInv, [Next]_vars PROVE CacheInv'
  OBVIOUS
<1>1. CASE OtherStep
  <2>1. UNCHANGED <<saved, private, public>>
    BY <1>1 DEF OtherStep, keyVars
  <2>2. \A g \in Handlers : pc[g] \in Loading \/ pc'[g] \in Loading => pc'[g] = pc[g]
    BY <1>1 DEF OtherStep
  <2> QED BY <2>1, <2>2 DEF CacheInv, Loading
<1>2. CASE Restart
  BY <1>2 DEF Restart, CacheInv
<1>3. ASSUME NEW h \in Handlers, LoadKey(h) PROVE CacheInv'
  <2>1. CASE KeyCached(h)
    <3>1. /\ pc[h] = "key" /\ pc'[h] \notin Loading /\ UNCHANGED <<saved, private, public>>
          /\ \A g \in Handlers \ {h} : pc'[g] = pc[g]
      BY <2>1, LoadingLeft DEF KeyCached, HasKey, TypeOK, keyVars
    <3> QED BY <3>1 DEF CacheInv, Loading
  <2>2. CASE KeyMissing(h)
    <3>1. /\ pc[h] = "key" /\ private = None /\ UNCHANGED <<saved, private, public>>
          /\ pc'[h] = IF saved = None THEN "generate" ELSE "import"
          /\ \A g \in Handlers \ {h} : pc'[g] = pc[g]
      BY <2>2 DEF KeyMissing, TypeOK, keyVars
    <3>2. CASE saved = None
      BY <3>1, <3>2 DEF CacheInv
    <3>3. CASE saved # None
      BY <3>1, <3>3 DEF CacheInv
    <3> QED BY <3>2, <3>3
  <2>3. CASE ImportKey(h)
    <3>1. /\ pc[h] = "import" /\ pc'[h] = "publish" /\ private' = saved /\ UNCHANGED <<saved, public>>
          /\ \A g \in Handlers \ {h} : pc'[g] = pc[g]
      BY <2>3 DEF ImportKey, TypeOK
    <3>2. saved # None /\ private \in {None, saved} /\ \A g \in Handlers : pc[g] \notin {"generate", "save"}
      BY <3>1 DEF CacheInv
    <3>3. public # None => public = saved
      BY <3>2 DEF CacheInv
    <3>4. \E g \in Handlers : pc'[g] = "publish"
      BY <3>1
    <3> QED BY <3>1, <3>2, <3>3, <3>4 DEF CacheInv
  <2>4. CASE PublishKey(h)
    <3>1. /\ pc[h] = "publish" /\ pc'[h] \notin Loading /\ public' = private
          /\ UNCHANGED <<saved, private>> /\ \A g \in Handlers \ {h} : pc'[g] = pc[g]
      BY <2>4, LoadingLeft DEF PublishKey, HasKey, TypeOK
    <3> QED BY <3>1 DEF CacheInv, Loading
  <2>5. ASSUME NEW k \in Keys, GenerateKey(h, k) PROVE CacheInv'
    <3>1. /\ pc[h] = "generate" /\ pc'[h] = "save" /\ private' = k /\ public' = k /\ UNCHANGED saved
          /\ \A g \in Handlers \ {h} : pc'[g] = pc[g]
      BY <2>5 DEF GenerateKey, TypeOK
    <3>2. k # None
      BY ConsoleAssumption
    <3>3. \A g \in Handlers : pc[g] # "import"
      BY <3>1 DEF CacheInv
    <3> QED BY <3>1, <3>2, <3>3 DEF CacheInv
  <2>6. CASE SaveKey(h) \/ SaveFails(h)
    <3>1. /\ pc[h] = "save" /\ pc'[h] \notin Loading /\ UNCHANGED <<private, public>>
          /\ \A g \in Handlers \ {h} : pc'[g] = pc[g]
      BY <2>6, LoadingLeft DEF SaveKey, SaveFails, HasKey, TypeOK
    <3>2. private # None /\ \A g \in Handlers : pc[g] # "import"
      BY <3>1 DEF CacheInv
    <3> QED BY <3>1, <3>2 DEF CacheInv, Loading
  <2> QED BY <1>3, <2>1, <2>2, <2>3, <2>4, <2>5, <2>6 DEF LoadKey
<1> QED BY <1>1, <1>2, <1>3, OtherSteps

LEMMA KeyStep == TypeOK /\ RequestInv /\ CacheInv /\ KeyInv /\ [Next]_vars => KeyInv'
<1> SUFFICES ASSUME TypeOK, RequestInv, CacheInv, KeyInv, [Next]_vars PROVE KeyInv'
  OBVIOUS
<1>1. CASE OtherStep /\ KeysStayKnown
  <2>1. UNCHANGED keyVars
    BY <1>1 DEF OtherStep
  <2>2. \A g \in Handlers : pc[g] \in Loading \/ pc'[g] \in Loading => pc'[g] = pc[g]
    BY <1>1 DEF OtherStep
  <2>3. \A g \in Handlers : pc'[g] = "save" => req'[g].key # None
    BY <1>1, <2>2 DEF OtherStep, KeyInv, Loading
  <2>4. (\E g \in Handlers : pc[g] = "save") => \E g \in Handlers : pc'[g] = "save"
    BY <2>2 DEF Loading
  <2>5. /\ \A b \in Browsers : cookie'[b].key \in generated' \cup {None}
        /\ \A g \in Handlers : {req'[g].key, req'[g].session.key} \subseteq generated' \cup {None}
    BY <1>1, <2>1 DEF KeysStayKnown, KeysOf, Known, keyVars
  <2> QED BY <2>1, <2>3, <2>4, <2>5 DEF KeyInv, keyVars
<1>2. CASE Restart
  BY <1>2 DEF Restart, KeyInv, NoRequest, NoSession
<1>3. ASSUME NEW h \in Handlers, LoadKey(h) PROVE KeyInv'
  <2> DEFINE r == req[h]
  <2>1. r \in Request /\ KeysOf(r) \subseteq Known
    BY RequestTyped DEF KeyInv, KeysOf, Known
\* The request goes on with a key of the cache.
  <2>2. ASSUME HasKey(h, private, public) \/ HasKey(h, private, private),
               UNCHANGED <<private, generated, cookie>>, public' \in {public, private},
               saved' \in Known, saved' = None => saved = None,
               saved' = None /\ pc[h] = "save" => mishap', mishap => mishap'
        PROVE  KeyInv'
    <3>1. /\ pc'[h] \notin Loading /\ \A g \in Handlers \ {h} : pc'[g] = pc[g] /\ req'[g] = req[g]
      BY <2>2, LoadingLeft DEF HasKey, TypeOK
    <3>2. req'[h].key \in {private, public} /\ req'[h].session = r.session
      BY <2>1, <2>2 DEF HasKey, Request, TypeOK
    <3>3. \A g \in Handlers : {req'[g].key, req'[g].session.key} \subseteq Known
      BY <2>1, <3>1, <3>2 DEF KeyInv, KeysOf, Known
    <3>4. \A g \in Handlers : pc'[g] = "save" => req'[g].key # None
      BY <3>1 DEF KeyInv, Loading
    <3>5. ASSUME ~mishap', generated # {}, saved' = None
          PROVE  private # None /\ \E g \in Handlers : pc'[g] = "save"
      <4>1. pc[h] # "save" /\ ~mishap /\ saved = None
        BY <2>2, <3>5
      <4>2. private # None /\ \E g \in Handlers : pc[g] = "save"
        BY <3>5, <4>1 DEF KeyInv
      <4> QED BY <3>1, <4>1, <4>2
    <3>6. {saved', private', public'} \subseteq Known
      BY <2>2 DEF KeyInv, Known
    <3>7. ~mishap' => \A j, k \in generated : j = k
      BY <2>2 DEF KeyInv
    <3> QED BY <2>2, <3>3, <3>4, <3>5, <3>6, <3>7 DEF KeyInv, Known
  <2>3. CASE KeyCached(h)
    <3>1. pc[h] # "save" /\ saved \in Known
      BY <2>3 DEF KeyCached, KeyInv, Known
    <3> QED BY <2>2, <2>3, <3>1 DEF KeyCached, keyVars, pageVars
  <2>4. CASE PublishKey(h)
    <3>1. pc[h] # "save" /\ saved \in Known
      BY <2>4 DEF PublishKey, KeyInv, Known
    <3> QED BY <2>2, <2>4, <3>1 DEF PublishKey, pageVars
  <2>5. CASE SaveKey(h)
    <3>1. saved' = r.key /\ r.key # None /\ r.key \in Known
      BY <2>1, <2>5 DEF SaveKey, KeyInv, KeysOf
    <3> QED BY <2>2, <2>5, <3>1 DEF SaveKey, pageVars
  <2>6. CASE SaveFails(h)
    <3>1. saved \in Known
      BY DEF KeyInv, Known
    <3> QED BY <2>2, <2>6, <3>1 DEF SaveFails, pageVars
  <2>7. CASE KeyMissing(h) \/ ImportKey(h)
    <3>1. /\ pc[h] \in {"key", "import"} /\ pc'[h] \in {"generate", "import", "publish"}
          /\ \A g \in Handlers \ {h} : pc'[g] = pc[g]
      BY <2>7 DEF KeyMissing, ImportKey, TypeOK
    <3>2. /\ UNCHANGED <<req, cookie, generated, saved, mishap, public>>
          /\ private' = private \/ (private' = saved /\ saved # None)
      BY <2>7 DEF KeyMissing, ImportKey, keyVars, pageVars, CacheInv
    <3> QED BY <3>1, <3>2 DEF KeyInv
  <2>8. ASSUME NEW k \in Keys, GenerateKey(h, k) PROVE KeyInv'
    <3>1. /\ pc[h] = "generate" /\ pc'[h] = "save" /\ k # None
          /\ \A g \in Handlers \ {h} : pc'[g] = pc[g] /\ req'[g] = req[g]
      BY <2>8, ConsoleAssumption DEF GenerateKey, TypeOK
    <3>2. req'[h].key = k /\ req'[h].session = r.session
      BY <2>1, <2>8 DEF GenerateKey, Request, TypeOK
    <3>3. /\ generated' = generated \cup {k} /\ private' = k /\ public' = k
          /\ mishap' = (mishap \/ private # None) /\ UNCHANGED <<saved, cookie>>
      BY <2>8 DEF GenerateKey, pageVars
\* The first key: with another there would be one saved, or one in the cache.
    <3>4. ~mishap' => generated = {}
      <4>1. private # None \/ saved = None
        BY <3>1 DEF CacheInv
      <4> QED BY <3>3, <4>1 DEF KeyInv
    <3>5. \A g \in Handlers : {req'[g].key, req'[g].session.key} \subseteq generated' \cup {None}
      BY <2>1, <3>1, <3>2, <3>3 DEF KeyInv, KeysOf, Known
    <3>6. \A g \in Handlers : pc'[g] = "save" => req'[g].key # None
      BY <3>1, <3>2 DEF KeyInv
    <3> QED BY <3>1, <3>3, <3>4, <3>5, <3>6 DEF KeyInv
  <2> QED BY <1>3, <2>3, <2>4, <2>5, <2>6, <2>7, <2>8 DEF LoadKey
<1> QED BY <1>1, <1>2, <1>3, OtherSteps

-----------------------------------------------------------------------------
(* One-time passwords *)

\* A request that keeps its password and does not leave "mark", or has none.
HoldsStill(g) ==
  \/ req'[g].otp = None
  \/ req'[g].otp = req[g].otp /\ (pc[g] = "mark" => pc'[g] = "mark")

OtpFrame ==
  /\ UNCHANGED histories
  /\ \A o \in Otps : otps[o] = UsedOtp => otps'[o] = UsedOtp
  /\ \A g \in Handlers : HoldsStill(g)

LEMMA KeptHolds ==
  ASSUME TypeOK, NEW g \in Handlers, Kept(g) \/ Ended(g)
  PROVE  HoldsStill(g)
<1>1. req[g] \in Request
  BY RequestTyped
<1> QED BY <1>1 DEF Kept, Ended, HoldsStill, Request, NoRequest

LEMMA LoadKeyHolds ==
  ASSUME TypeOK, NEW h \in Handlers, LoadKey(h)
  PROVE  OtpFrame
<1>1. req[h] \in Request
  BY RequestTyped
<1>2. \A k : [req[h] EXCEPT !.key = k].otp = req[h].otp
  BY <1>1 DEF Request
<1>3. pc[h] # "mark" /\ UNCHANGED <<otps, histories>>
  BY DEF LoadKey, KeyCached, KeyMissing, ImportKey, PublishKey, GenerateKey, SaveKey,
         SaveFails, tables
<1>4. \/ UNCHANGED req
      \/ \E k : req' = [req EXCEPT ![h].key = k]
  BY DEF LoadKey, KeyCached, KeyMissing, ImportKey, PublishKey, GenerateKey, SaveKey,
         SaveFails, HasKey
<1>5. \E p : pc' = [pc EXCEPT ![h] = p]
  BY DEF LoadKey, KeyCached, KeyMissing, ImportKey, PublishKey, GenerateKey, SaveKey,
         SaveFails, HasKey
<1>6. req'[h].otp = req[h].otp /\ \A g \in Handlers \ {h} : req'[g] = req[g]
  <2>1. ASSUME NEW k, req' = [req EXCEPT ![h].key = k]
        PROVE  req'[h] = [req[h] EXCEPT !.key = k] /\ \A g \in Handlers \ {h} : req'[g] = req[g]
    BY <2>1, RequestTyped
  <2> QED BY <1>2, <1>4, <2>1
<1>7. \A g \in Handlers \ {h} : pc'[g] = pc[g]
  BY <1>5 DEF TypeOK
<1> QED BY <1>3, <1>6, <1>7 DEF OtpFrame, HoldsStill

LEMMA OtpFrames ==
  ASSUME TypeOK, [Next]_vars
  PROVE  \/ OtpFrame
         \/ \E h \in Handlers : MarkUsed(h) \/ OpenSession(h)
         \/ \E h \in Handlers, b \in Browsers, e \in Emails, o \in Otps : VerifyOtp(h, b, e, o)
<1> USE DEF tables, pageVars, histories
<1>1. ASSUME \A g \in Handlers : Kept(g) \/ Ended(g), UNCHANGED <<otps, histories>>
      PROVE  OtpFrame
  BY <1>1, KeptHolds DEF OtpFrame
<1>2. ASSUME NEW h \in Handlers, NEW b \in Browsers, NEW r \in Request,
             NEW first \in Awaits, Begin(h, b, r, first), r.otp = None,
             UNCHANGED <<otps, histories>>
      PROVE  OtpFrame
  <2>1. req'[h] = [r EXCEPT !.from = b] /\ \A g \in Handlers \ {h} : Kept(g)
    BY <1>2, BeginTyped
  <2>2. HoldsStill(h)
    BY <1>2, <2>1 DEF HoldsStill, Request
  <2> QED BY <1>2, <2>1, <2>2, KeptHolds DEF OtpFrame
<1>3. ASSUME NEW h \in Handlers, NEW b \in Browsers, NEW e \in Emails,
             Register(h, b, e) \/ RequestOtp(h, b, e)
      PROVE  OtpFrame
  <2> DEFINE r == [NoRequest EXCEPT !.email = e]
  <2>1. r \in Request /\ r.otp = None /\ {"register", "otp"} \subseteq Awaits
    BY NoRequestTyped, RequestUpdates DEF NoRequest, Awaits
  <2>2. UNCHANGED <<otps, histories>>
    BY <1>3 DEF Register, RequestOtp
  <2>3. CASE UNCHANGED <<pc, req>>
    BY <1>1, <2>2, <2>3 DEF Kept
  <2>4. CASE \E first \in {"register", "otp"} : Begin(h, b, r, first)
    BY <1>2, <2>1, <2>2, <2>4
  <2> QED BY <1>3, <2>3, <2>4 DEF Register, RequestOtp
<1>4. ASSUME NEW h \in Handlers, NEW b \in Browsers, CheckMe(h, b) PROVE OtpFrame
  <2> DEFINE r == [NoRequest EXCEPT !.session = cookie[b]]
  <2>1. r \in Request
    <3>1. CASE cookie[b] \in Session
      BY <3>1, NoRequestTyped, RequestUpdates
    <3>2. CASE cookie[b] = NoSession
      BY <3>2, NoRequestTyped DEF NoRequest
    <3> QED BY <3>1, <3>2 DEF TypeOK
  <2>2. r.otp = None /\ "key" \in Awaits
    BY DEF NoRequest, Awaits
  <2> QED BY <1>2, <1>4, <2>1, <2>2 DEF CheckMe
<1>5. ASSUME NEW h \in Handlers, RegisterInsert(h) PROVE OtpFrame
  <2>1. CASE Fail(h)
    BY <1>1, <1>5, <2>1, FailTyped DEF RegisterInsert
  <2>2. CASE pc' = [pc EXCEPT ![h] = "otp"] /\ UNCHANGED req
    BY <1>5, <2>2 DEF RegisterInsert, OtpFrame, HoldsStill, TypeOK
  <2> QED BY <1>5, <2>1, <2>2 DEF RegisterInsert
\* A used row is never drawn again.
<1>6. ASSUME NEW h \in Handlers, NEW o \in Otps, OtpInsert(h, o) PROVE OtpFrame
  <2>1. UsedOtp # NoOtp
    BY DEF UsedOtp, NoOtp
  <2>2. \A p \in Otps : otps[p] = UsedOtp => otps'[p] = UsedOtp
    BY <1>6, <2>1 DEF OtpInsert, TypeOK
  <2> QED BY <1>6, <2>2, EndTyped, KeptHolds DEF OtpInsert, OtpFrame
<1>7. ASSUME NEW h \in Handlers, ReadOwner(h) PROVE OtpFrame
  <2>1. req'[h].otp = req[h].otp
    BY <1>7, RequestTyped DEF ReadOwner, Request
  <2>2. pc[h] # "mark" /\ \A g \in Handlers \ {h} : Kept(g)
    BY <1>7 DEF ReadOwner, Kept, TypeOK
  <2> QED BY <1>7, <2>1, <2>2, KeptHolds DEF ReadOwner, OtpFrame, HoldsStill
<1>8. ASSUME NEW h \in Handlers, Check(h) \/ Abort(h) PROVE OtpFrame
  <2>1. \A g \in Handlers : Kept(g) \/ Ended(g)
    BY <1>8, EndTyped, FailTyped DEF Check, Abort
  <2> QED BY <1>1, <1>8, <2>1 DEF Check, Abort
<1>9. ASSUME NEW b \in Browsers, NEW a \in Roles, NEW to \in {"email", "load"},
             Logout(b) \/ Back(b) \/ Navigate(b, a, to)
      PROVE  OtpFrame
  <2>1. \A g \in Handlers : Kept(g)
    BY <1>9, LeaveTyped DEF Logout, Back, Navigate, Kept, Shown
  <2> QED BY <1>1, <1>9, <2>1 DEF Logout, Back, Navigate
<1>10. ASSUME Restart PROVE OtpFrame
  BY <1>1, <1>10 DEF Restart, Ended
<1>11. ASSUME Tick \/ UNCHANGED vars PROVE OtpFrame
  BY <1>1, <1>11 DEF Tick, vars, Kept
<1>12. (\E h \in Handlers : Continue(h)) =>
         OtpFrame \/ \E h \in Handlers : MarkUsed(h) \/ OpenSession(h)
  BY <1>5, <1>6, <1>7, <1>8, LoadKeyHolds DEF Continue
<1>13. (\E h \in Handlers, b \in Browsers : Click(h, b)) =>
         OtpFrame \/ \E h \in Handlers, b \in Browsers, e \in Emails, o \in Otps : VerifyOtp(h, b, e, o)
  BY <1>3, <1>4 DEF Click
<1>14. (\E b \in Browsers : Logout(b) \/ Back(b)) => OtpFrame
  BY <1>9 DEF Roles
<1> QED BY <1>8, <1>9, <1>10, <1>11, <1>12, <1>13, <1>14 DEF Next

\* OtpInv, of one password.
OtpFine(o) ==
  /\ opened'[o] <= 1
  /\ opened'[o] # 0 => otps'[o] = UsedOtp /\ \A h \in Handlers : req'[h].otp # o
  /\ \A h \in Handlers : req'[h].otp = o =>
       /\ pc'[h] # "mark" => otps'[o] = UsedOtp
       /\ \A g \in Handlers : req'[g].otp = o => g = h

LEMMA OtpStep == TypeOK /\ RequestInv /\ OtpInv /\ [Next]_vars => OtpInv'
<1> SUFFICES ASSUME TypeOK, RequestInv, OtpInv, [Next]_vars PROVE OtpInv'
  OBVIOUS
<1> USE DEF histories
<1>1. None \notin Otps
  BY ConsoleAssumption
<1>2. CASE OtpFrame
  <2>1. ASSUME NEW o \in Otps \ shared PROVE OtpFine(o)
    BY <1>1, <1>2, <2>1 DEF OtpFrame, HoldsStill, OtpInv, OtpFine
  <2> QED BY <1>2, <2>1 DEF OtpFrame, OtpFine, OtpInv
<1>3. ASSUME NEW h \in Handlers, MarkUsed(h) PROVE OtpInv'
  <2>1. /\ req[h].otp \in Otps
        /\ otps' = [otps EXCEPT ![req[h].otp] = UsedOtp]
        /\ UNCHANGED <<req, opened, shared>>
        /\ \A g \in Handlers \ {h} : pc'[g] = pc[g]
    BY <1>3 DEF MarkUsed, RequestInv, TypeOK
  <2>2. ASSUME NEW o \in Otps \ shared PROVE OtpFine(o)
    <3>1. otps[o] = UsedOtp => otps'[o] = UsedOtp
      BY <2>1 DEF TypeOK
    <3>2. req[h].otp = o => otps'[o] = UsedOtp
      BY <2>1 DEF TypeOK
    <3> QED BY <2>1, <3>1, <3>2 DEF OtpInv, OtpFine
  <2> QED BY <2>1, <2>2 DEF OtpFine, OtpInv
\* The request that opens the session was the only one with the password.
<1>4. ASSUME NEW h \in Handlers, OpenSession(h) PROVE OtpInv'
  <2>1. /\ req[h].otp \in Otps /\ pc[h] = "sign"
        /\ opened' = [opened EXCEPT ![req[h].otp] = @ + 1]
        /\ UNCHANGED <<otps, shared>>
    BY <1>4 DEF OpenSession, RequestInv, tables
  <2>2. Ended(h) /\ \A g \in Handlers \ {h} : Kept(g)
    BY <1>4, GoTyped DEF OpenSession, Shown
  <2>3. ASSUME NEW g \in Handlers \ {h}
        PROVE  req'[g].otp = req[g].otp /\ pc'[g] = pc[g]
    BY <2>2, RequestTyped DEF Kept, Request
  <2>4. req'[h].otp = None
    BY <2>2 DEF Ended, NoRequest
  <2>5. ASSUME NEW o \in Otps \ shared PROVE OtpFine(o)
    <3>1. CASE o = req[h].otp
      <4>1. opened[o] = 0 /\ otps[o] = UsedOtp /\ \A g \in Handlers \ {h} : req[g].otp # o
        BY <2>1, <3>1 DEF OtpInv
      <4>2. opened'[o] = 1
        BY <2>1, <3>1, <4>1 DEF TypeOK
      <4>3. \A g \in Handlers : req'[g].otp # o
        BY <1>1, <2>3, <2>4, <4>1
      <4> QED BY <2>1, <4>1, <4>2, <4>3 DEF OtpFine
    <3>2. CASE o # req[h].otp
      <4>1. opened'[o] = opened[o]
        BY <2>1, <3>2 DEF TypeOK
      <4> QED BY <1>1, <2>1, <2>3, <2>4, <4>1 DEF OtpInv, OtpFine
    <3> QED BY <3>1, <3>2
  <2> QED BY <2>1, <2>5 DEF OtpFine, OtpInv
\* A request that finds the row: nobody past "mark" has it, and if somebody at "mark"
\* has, the password is shared.
<1>5. ASSUME NEW h \in Handlers, NEW b \in Browsers, NEW e \in Emails, NEW p \in Otps,
             VerifyOtp(h, b, e, p)
      PROVE  OtpInv'
  <2> DEFINE r == [NoRequest EXCEPT !.email = e, !.otp = p]
  <2>1. r \in Request /\ [r EXCEPT !.from = b].otp = p /\ "mark" \in Awaits
    BY NoRequestTyped, RequestUpdates DEF NoRequest, Awaits
  <2>2. Begin(h, b, r, "mark") /\ UNCHANGED <<otps, opened>>
    BY <1>5 DEF VerifyOtp, tables
  <2> HIDE DEF r
  <2>3. /\ pc[h] = "idle" /\ pc'[h] = "mark" /\ req'[h].otp = p
        /\ \A g \in Handlers \ {h} : pc'[g] = pc[g] /\ req'[g] = req[g]
    <3>1. /\ pc[h] = "idle" /\ pc'[h] = "mark" /\ req'[h] = [r EXCEPT !.from = b]
          /\ \A g \in Handlers \ {h} : Kept(g) /\ req'[g] = req[g]
      BY <2>1, <2>2, BeginTyped
    <3> QED BY <2>1, <3>1 DEF Kept
  <2>4. req[h].otp = None
    BY <2>3 DEF RequestInv, NoRequest
  <2>5. otps[p] # UsedOtp
    BY <1>5, ConsoleAssumption DEF VerifyOtp, Usable, UsedOtp, NoOtp
  <2>6. shared \subseteq shared' /\ (p \notin shared' => \A g \in Handlers : ~Holding(g, p))
    BY <1>5 DEF VerifyOtp
  <2>7. ASSUME NEW o \in Otps \ shared' PROVE OtpFine(o)
    <3>1. CASE o # p
      BY <1>1, <2>2, <2>3, <2>4, <2>6, <2>7, <3>1 DEF OtpInv, OtpFine
    <3>2. CASE o = p
      <4>1. opened[p] = 0 /\ \A g \in Handlers : req[g].otp # p
        BY <2>5, <2>6, <2>7, <3>2 DEF OtpInv, Holding
      <4> QED BY <2>2, <2>3, <3>2, <4>1 DEF OtpFine
    <3> QED BY <3>1, <3>2
  <2> QED BY <2>7 DEF OtpFine, OtpInv
<1> QED BY <1>2, <1>3, <1>4, <1>5, OtpFrames

-----------------------------------------------------------------------------
(* Pages *)

\* PageInv and ConsoleForItsRole, of one browser.
PageFine(b) ==
  /\ step'[b] = "load" => cookie'[b] # NoSession
  /\ step'[b] = "console" /\ area'[b] = "admin" => cookie'[b].role = "admin"
  /\ \A h \in Handlers : req'[h].from = b =>
       IF req'[h].session # NoSession
         THEN /\ step'[b] = "loading" /\ req'[h].session = cookie'[b]
              /\ \A g \in Handlers \ {h} : req'[g].from # b
         ELSE step'[b] \in {"email", "otp"}

SamePage(b) == step'[b] = step[b] /\ cookie'[b] = cookie[b] /\ area'[b] = area[b]

\* A request from b after the step was one before it, about the same session.
Came(g, b) == req'[g].from = b => req[g].from = b /\ req'[g].session = req[g].session

LEMMA PagesFine == (\A b \in Browsers : PageFine(b)) => PageInv' /\ ConsoleForItsRole'
BY DEF PageFine, PageInv, ConsoleForItsRole, Verifies

LEMMA KeptCame ==
  ASSUME TypeOK, NEW g \in Handlers, NEW b \in Browsers, Kept(g) \/ Ended(g)
  PROVE  Came(g, b)
<1>1. req[g] \in Request
  BY RequestTyped
<1> QED BY <1>1, ConsoleAssumption DEF Kept, Ended, Came, Request, NoRequest

LEMMA SamePageFine ==
  ASSUME PageInv, ConsoleForItsRole, NEW b \in Browsers, SamePage(b),
         \A g \in Handlers : Came(g, b)
  PROVE  PageFine(b)
BY DEF PageInv, ConsoleForItsRole, SamePage, Came, PageFine, Verifies

\* Between the forms of the login page.
LEMMA FormFine ==
  ASSUME PageInv, NEW b \in Browsers, {step[b], step'[b]} \subseteq {"email", "otp"},
         \A g \in Handlers : Came(g, b)
  PROVE  PageFine(b)
BY DEF PageInv, Came, PageFine, Verifies

LEMMA LeftFine ==
  ASSUME NEW b \in Browsers, \A g \in Handlers : req'[g].from # b,
         step'[b] = "load" => cookie'[b] # NoSession,
         step'[b] = "console" /\ area'[b] = "admin" => cookie'[b].role = "admin"
  PROVE  PageFine(b)
BY DEF PageFine

\* A form sends a request.
LEMMA AskFine ==
  ASSUME TypeOK, PageInv, ConsoleForItsRole, NEW h \in Handlers, NEW b \in Browsers,
         NEW r \in Request, NEW first \in Awaits, Begin(h, b, r, first),
         r.session = NoSession, step[b] \in {"email", "otp"}, UNCHANGED pageVars
  PROVE  \A c \in Browsers : PageFine(c)
<1>1. req'[h].from = b /\ req'[h].session = NoSession
  <2>1. req'[h] = [r EXCEPT !.from = b]
    BY BeginTyped
  <2> QED BY <2>1 DEF Request
<1>2. \A g \in Handlers \ {h} : req'[g] = req[g]
  BY BeginTyped
<1>3. PageFine(b)
  BY <1>1, <1>2 DEF PageInv, PageFine, Verifies, pageVars
<1>4. ASSUME NEW c \in Browsers \ {b} PROVE PageFine(c)
  <2>1. SamePage(c) /\ \A g \in Handlers : Came(g, c)
    BY <1>1, <1>2 DEF SamePage, Came, pageVars
  <2> QED BY <2>1, SamePageFine
<1> QED BY <1>3, <1>4

\* An answer that takes its page elsewhere; the other browsers keep theirs.
LEMMA GoFine ==
  ASSUME TypeOK, PageInv, ConsoleForItsRole, NEW h \in Handlers, NEW to \in {"email", "load"},
         Go(h, to), UNCHANGED area,
         \A c \in Browsers : c # req[h].from => cookie'[c] = cookie[c],
         to = "load" => \A c \in Browsers : c = req[h].from => cookie'[c] # NoSession
  PROVE  \A c \in Browsers : PageFine(c)
<1>1. \A c \in Browsers : step'[c] = IF c = req[h].from THEN to ELSE step[c]
  BY ConsoleAssumption DEF Go, Show, TypeOK
<1>2. ASSUME NEW c \in Browsers, c = req[h].from PROVE PageFine(c)
  <2>1. \A g \in Handlers : req'[g].from # c
    BY <1>2, GoTyped DEF Shown
  <2> QED BY <1>1, <1>2, <2>1, LeftFine
<1>3. ASSUME NEW c \in Browsers, c # req[h].from PROVE PageFine(c)
  <2>1. \A g \in Handlers : Came(g, c)
    BY GoTyped, KeptCame DEF Shown
  <2>2. SamePage(c)
    BY <1>1, <1>3 DEF SamePage
  <2> QED BY <2>1, <2>2, SamePageFine
<1> QED BY <1>2, <1>3

LEMMA FailFine ==
  ASSUME TypeOK, PageInv, ConsoleForItsRole, NEW h \in Handlers, Fail(h)
  PROVE  \A c \in Browsers : PageFine(c)
<1>1. CASE Go(h, "email")
  BY <1>1, GoFine DEF Fail
<1>2. CASE End(h) /\ UNCHANGED step
  <2>1. ASSUME NEW c \in Browsers PROVE SamePage(c) /\ \A g \in Handlers : Came(g, c)
    BY <1>2, EndTyped, KeptCame DEF Fail, SamePage
  <2> QED BY <2>1, SamePageFine
<1> QED BY <1>1, <1>2 DEF Fail

\* The pages of the login and of the server's steps in between.
LEMMA ServicePages ==
  ASSUME TypeOK, RequestInv, PageInv, ConsoleForItsRole, NEW h \in Handlers,
         Continue(h) \/ Abort(h)
  PROVE  \A c \in Browsers : PageFine(c)
<1>1. ASSUME UNCHANGED pageVars, \A g \in Handlers, c \in Browsers : Came(g, c)
      PROVE  \A c \in Browsers : PageFine(c)
  BY <1>1, SamePageFine DEF SamePage, pageVars
<1>2. CASE RegisterInsert(h)
  <2>1. CASE UNCHANGED <<req, pageVars>>
    BY <1>1, <2>1 DEF Came
  <2> QED BY <1>2, <2>1, FailFine DEF RegisterInsert
\* The page that asked was a form.
<1>3. ASSUME NEW o \in Otps, OtpInsert(h, o) PROVE \A c \in Browsers : PageFine(c)
  <2>1. \A g \in Handlers, c \in Browsers : Came(g, c)
    BY <1>3, EndTyped, KeptCame DEF OtpInsert
  <2>2. ~Verifies(h)
    BY <1>3 DEF OtpInsert, RequestInv, Loading
  <2>3. ASSUME NEW c \in Browsers, c = req[h].from PROVE PageFine(c)
    <3>1. step[c] \in {"email", "otp"}
      BY <2>2, <2>3 DEF PageInv
    <3>2. step'[c] = "otp"
      BY <1>3, <2>3, ConsoleAssumption DEF OtpInsert, Show, TypeOK
    <3> QED BY <2>1, <3>1, <3>2, FormFine
  <2>4. ASSUME NEW c \in Browsers, c # req[h].from PROVE PageFine(c)
    <3>1. SamePage(c)
      BY <1>3, <2>4 DEF OtpInsert, Show, TypeOK, SamePage
    <3> QED BY <2>1, <3>1, SamePageFine
  <2> QED BY <2>3, <2>4
<1>4. CASE MarkUsed(h)
  BY <1>1, <1>4 DEF MarkUsed, Came
<1>5. CASE ReadOwner(h)
  <2>1. \A g \in Handlers : req'[g].from = req[g].from /\ req'[g].session = req[g].session
    BY <1>5, RequestTyped DEF ReadOwner, Request
  <2> QED BY <1>1, <1>5, <2>1 DEF ReadOwner, Came
<1>6. CASE LoadKey(h)
  <2>1. UNCHANGED pageVars
    BY <1>6 DEF LoadKey, KeyCached, KeyMissing, ImportKey, PublishKey, GenerateKey, SaveKey,
                SaveFails
  <2>2. \/ UNCHANGED req
        \/ \E k : req' = [req EXCEPT ![h].key = k]
    BY <1>6 DEF LoadKey, KeyCached, KeyMissing, ImportKey, PublishKey, GenerateKey, SaveKey,
                SaveFails, HasKey
  <2>3. ASSUME NEW k, req' = [req EXCEPT ![h].key = k]
        PROVE  \A g \in Handlers : req'[g].from = req[g].from /\ req'[g].session = req[g].session
    <3>1. \A g \in Handlers : req'[g] = IF g = h THEN [req[h] EXCEPT !.key = k] ELSE req[g]
      BY <2>3, RequestTyped
    <3>2. req[h] \in Request
      BY RequestTyped
    <3>3. [req[h] EXCEPT !.key = k].from = req[h].from /\ [req[h] EXCEPT !.key = k].session = req[h].session
      BY <3>2 DEF Request
    <3> QED BY <3>1, <3>3
  <2>4. \A g \in Handlers, c \in Browsers : Came(g, c)
    BY <2>2, <2>3 DEF Came
  <2> QED BY <1>1, <2>1, <2>4
<1>7. CASE OpenSession(h)
  <2> DEFINE s == [email |-> req[h].email, role |-> req[h].role, key |-> req[h].key,
                   exp |-> now + SessionTTL]
  <2>1. s # NoSession
    <3>1. req[h].email # None
      BY <1>7, ConsoleAssumption DEF OpenSession, RequestInv
    <3> QED BY <3>1 DEF NoSession
  <2>2. cookie' = IF req[h].from = None THEN cookie ELSE [cookie EXCEPT ![req[h].from] = s]
    BY <1>7 DEF OpenSession
  <2> HIDE DEF s
  <2>3. \A c \in Browsers : cookie'[c] = IF c = req[h].from THEN s ELSE cookie[c]
    BY <2>2, ConsoleAssumption DEF TypeOK
  <2>4. Go(h, "load") /\ UNCHANGED area
    BY <1>7 DEF OpenSession
  <2> QED BY <2>1, <2>3, <2>4, GoFine
\* The header asked for the page it is on, about the session the browser has.
<1>8. CASE Check(h)
  <2>1. CASE Fail(h)
    BY <2>1, FailFine
  <2>2. CASE ~Fail(h)
    <3>1. /\ Verifies(h) /\ End(h) /\ Show(h, "console") /\ UNCHANGED <<area, cookie>>
          /\ req[h].from # None => Allowed(req[h].session, area[req[h].from])
      BY <1>8, <2>2 DEF Check, Live, Verifies
    <3>2. \A g \in Handlers, c \in Browsers : Came(g, c)
      BY <3>1, EndTyped, KeptCame
    <3>3. ASSUME NEW c \in Browsers, c = req[h].from PROVE PageFine(c)
      <4>1. req[h].session = cookie[c] /\ \A g \in Handlers \ {h} : req[g].from # c
        BY <3>1, <3>3 DEF PageInv
      <4>2. \A g \in Handlers : req'[g].from # c
        BY <3>1, <4>1, EndTyped, ConsoleAssumption DEF Ended, NoRequest
      <4>3. step'[c] = "console"
        BY <3>1, <3>3, ConsoleAssumption DEF Show, TypeOK
      <4>4. area'[c] = "admin" => cookie'[c].role = "admin"
        BY <3>1, <3>3, <4>1, ConsoleAssumption DEF Allowed
      <4> QED BY <4>2, <4>3, <4>4, LeftFine
    <3>4. ASSUME NEW c \in Browsers, c # req[h].from PROVE PageFine(c)
      <4>1. SamePage(c)
        BY <3>1, <3>4 DEF Show, TypeOK, SamePage
      <4> QED BY <3>2, <4>1, SamePageFine
    <3> QED BY <3>3, <3>4
  <2> QED BY <2>1, <2>2
<1>9. CASE Abort(h)
  BY <1>9, FailFine DEF Abort
<1> QED BY <1>2, <1>3, <1>4, <1>5, <1>6, <1>7, <1>8, <1>9 DEF Continue

LEMMA ClickPages ==
  ASSUME TypeOK, PageInv, ConsoleForItsRole, NEW h \in Handlers, NEW b \in Browsers, Click(h, b)
  PROVE  \A c \in Browsers : PageFine(c)
<1>1. ASSUME NEW e \in Emails, Register(h, b, e) \/ RequestOtp(h, b, e)
      PROVE  \A c \in Browsers : PageFine(c)
  <2> DEFINE r == [NoRequest EXCEPT !.email = e]
  <2>1. r \in Request /\ r.session = NoSession /\ {"register", "otp"} \subseteq Awaits
    BY NoRequestTyped, RequestUpdates DEF NoRequest, Awaits
  <2>2. step[b] = "email"
    BY <1>1 DEF Register, RequestOtp
  <2>3. ASSUME step' = [step EXCEPT ![b] = "otp"], UNCHANGED <<pc, req, area, cookie>>,
               NEW c \in Browsers
        PROVE  PageFine(c)
    <3>1. \A g \in Handlers : Came(g, c)
      BY <2>3 DEF Came
    <3>2. c = b => step'[c] = "otp"
      BY <2>3 DEF TypeOK
    <3>3. c # b => SamePage(c)
      BY <2>3 DEF TypeOK, SamePage
    <3> QED BY <2>2, <3>1, <3>2, <3>3, SamePageFine, FormFine
  <2>4. ASSUME NEW first \in {"register", "otp"}, Begin(h, b, r, first), UNCHANGED pageVars
        PROVE  \A c \in Browsers : PageFine(c)
    BY <2>1, <2>2, <2>4, AskFine
  <2>5. \/ step' = [step EXCEPT ![b] = "otp"] /\ UNCHANGED <<pc, req, area, cookie>>
        \/ \E first \in {"register", "otp"} : Begin(h, b, r, first) /\ UNCHANGED pageVars
    BY <1>1 DEF Register, RequestOtp, pageVars
  <2> QED BY <2>3, <2>4, <2>5
<1>2. ASSUME NEW e \in Emails, NEW o \in Otps, VerifyOtp(h, b, e, o)
      PROVE  \A c \in Browsers : PageFine(c)
  <2> DEFINE r == [NoRequest EXCEPT !.email = e, !.otp = o]
  <2>1. r \in Request /\ r.session = NoSession /\ "mark" \in Awaits
    BY NoRequestTyped, RequestUpdates DEF NoRequest, Awaits
  <2>2. Begin(h, b, r, "mark") /\ UNCHANGED pageVars /\ step[b] = "otp"
    BY <1>2 DEF VerifyOtp
  <2> QED BY <2>1, <2>2, AskFine
\* The header's request is the only one of its page.
<1>3. ASSUME CheckMe(h, b), NEW c \in Browsers PROVE PageFine(c)
  <2> DEFINE r == [NoRequest EXCEPT !.session = cookie[b]]
  <2>1. r \in Request /\ r.session = cookie[b]
    <3>1. CASE cookie[b] \in Session
      BY <3>1, NoRequestTyped, RequestUpdates DEF NoRequest
    <3>2. CASE cookie[b] = NoSession
      BY <3>2, NoRequestTyped DEF NoRequest
    <3> QED BY <3>1, <3>2 DEF TypeOK
  <2>2. /\ Begin(h, b, r, "key") /\ step[b] = "load" /\ "key" \in Awaits
        /\ step' = [step EXCEPT ![b] = "loading"] /\ UNCHANGED <<area, cookie>>
    BY <1>3 DEF CheckMe, Awaits
  <2> HIDE DEF r
  <2>3. \A g \in Handlers \ {h} : req'[g] = req[g]
    BY <2>1, <2>2, BeginTyped
  <2>4. req'[h].from = b /\ req'[h].session = cookie[b]
    <3>1. req'[h] = [r EXCEPT !.from = b]
      BY <2>1, <2>2, BeginTyped
    <3> QED BY <2>1, <3>1 DEF Request
  <2>5. CASE c = b
    <3>1. cookie[b] # NoSession /\ \A g \in Handlers : req[g].from # b
      BY <2>2 DEF PageInv
    <3>2. step'[b] = "loading"
      BY <2>2 DEF TypeOK
    <3> QED BY <2>2, <2>3, <2>4, <2>5, <3>1, <3>2 DEF PageFine
  <2>6. CASE c # b
    <3>1. SamePage(c)
      BY <2>2, <2>6 DEF TypeOK, SamePage
    <3>2. \A g \in Handlers : Came(g, c)
      BY <2>3, <2>4, <2>6 DEF Came
    <3> QED BY <3>1, <3>2, SamePageFine
  <2> QED BY <2>5, <2>6
<1> QED BY <1>1, <1>2, <1>3 DEF Click

LEMMA PageStep ==
  TypeOK /\ RequestInv /\ PageInv /\ ConsoleForItsRole /\ [Next]_vars
    => PageInv' /\ ConsoleForItsRole'
<1> SUFFICES ASSUME TypeOK, RequestInv, PageInv, ConsoleForItsRole, [Next]_vars
             PROVE  \A c \in Browsers : PageFine(c)
  BY PagesFine
<1>1. ASSUME NEW b \in Browsers, NEW to \in {"email", "load"}, Leave(b, to), UNCHANGED pc,
             \A c \in Browsers \ {b} : area'[c] = area[c] /\ cookie'[c] = cookie[c],
             to = "load" => cookie'[b] # NoSession
      PROVE  \A c \in Browsers : PageFine(c)
  <2>1. /\ \A g \in Handlers : Kept(g) /\ req'[g].from # b
        /\ \A c \in Browsers : step'[c] = IF c = b THEN to ELSE step[c]
    BY <1>1, LeaveTyped DEF Kept, Shown, Leave, TypeOK
  <2>2. PageFine(b)
    BY <1>1, <2>1, LeftFine
  <2>3. ASSUME NEW c \in Browsers \ {b} PROVE PageFine(c)
    BY <1>1, <2>1, KeptCame, SamePageFine DEF SamePage
  <2> QED BY <2>2, <2>3
<1>2. ASSUME NEW b \in Browsers, Logout(b) PROVE \A c \in Browsers : PageFine(c)
  <2>1. Leave(b, "email") /\ UNCHANGED <<pc, area>> /\ \A c \in Browsers \ {b} : cookie'[c] = cookie[c]
    BY <1>2 DEF Logout, TypeOK
  <2> QED BY <1>1, <2>1
<1>3. ASSUME NEW b \in Browsers, NEW a \in Roles, NEW to \in {"email", "load"}, Navigate(b, a, to)
      PROVE  \A c \in Browsers : PageFine(c)
  <2>1. /\ Leave(b, to) /\ UNCHANGED <<pc, cookie>> /\ (to = "load" => cookie[b] # NoSession)
        /\ \A c \in Browsers \ {b} : area'[c] = area[c]
    BY <1>3 DEF Navigate, TypeOK
  <2> QED BY <1>1, <2>1
<1>4. ASSUME NEW b \in Browsers, Back(b), NEW c \in Browsers PROVE PageFine(c)
  <2>1. \A g \in Handlers : Came(g, c)
    BY <1>4 DEF Back, Came
  <2>2. c = b => step[c] = "otp" /\ step'[c] = "email"
    BY <1>4 DEF Back, TypeOK
  <2>3. c # b => SamePage(c)
    BY <1>4 DEF Back, TypeOK, SamePage
  <2> QED BY <2>1, <2>2, <2>3, SamePageFine, FormFine
<1>5. ASSUME Restart, NEW c \in Browsers PROVE PageFine(c)
  <2>1. \A g \in Handlers : req'[g].from # c
    BY <1>5, ConsoleAssumption DEF Restart, NoRequest
  <2> QED BY <1>5, <2>1, LeftFine DEF Restart, PageInv, ConsoleForItsRole
<1>6. ASSUME Tick \/ UNCHANGED vars, NEW c \in Browsers PROVE PageFine(c)
  <2>1. SamePage(c) /\ \A g \in Handlers : Came(g, c)
    BY <1>6 DEF Tick, vars, pageVars, SamePage, Came
  <2> QED BY <2>1, SamePageFine
<1> QED BY <1>2, <1>3, <1>4, <1>5, <1>6, ServicePages, ClickPages DEF Next

-----------------------------------------------------------------------------
(* The invariants *)

Invariants == TypeOK /\ RequestInv /\ OtpInv /\ CacheInv /\ KeyInv /\ PageInv /\ ConsoleForItsRole

LEMMA NothingCarried == NoRequest.from = None /\ NoRequest.otp = None /\ NoRequest.key = None
                          /\ NoRequest.session = NoSession /\ NoSession.key = None
BY DEF NoRequest, NoSession

LEMMA InitInvariants == Init => Invariants
<1> SUFFICES ASSUME Init PROVE Invariants
  OBVIOUS
<1> USE ConsoleAssumption
<1>1. TypeOK
  BY DEF Init, TypeOK, Roles, Awaits
<1>2. RequestInv
  BY NothingCarried DEF Init, RequestInv, NoOtp, Verifies, Loading
<1>3. OtpInv
  BY NothingCarried DEF Init, OtpInv
<1>4. CacheInv
  BY DEF Init, CacheInv
<1>5. KeyInv
  BY NothingCarried DEF Init, KeyInv
<1>6. PageInv /\ ConsoleForItsRole
  BY NothingCarried DEF Init, PageInv, ConsoleForItsRole
<1> QED BY <1>1, <1>2, <1>3, <1>4, <1>5, <1>6 DEF Invariants

LEMMA ConsoleInvariants == Spec => []Invariants
<1>1. Init => Invariants
  BY InitInvariants
<1>2. Invariants /\ [Next]_vars => Invariants'
  BY TypeStep, RequestStep, OtpStep, CacheStep, KeyStep, PageStep DEF Invariants
<1> QED BY <1>1, <1>2, PTL DEF Spec

-----------------------------------------------------------------------------
(* Theorems *)

\* TypeOK: rows, key cache, requests and pages keep the shapes of iam.service.ts,
\* jwt_utils.ts and the console's stores.
THEOREM TypeCorrect == Spec => []TypeOK
BY ConsoleInvariants, PTL DEF Invariants

\* OneSessionPerCode: verifyOtp (iam.service.ts) opens at most one session with a
\* password, unless two requests have found its row before either marked it.
THEOREM OneSessionCorrect == Spec => []OneSessionPerCode
<1>1. Invariants => OneSessionPerCode
  BY DEF Invariants, OtpInv, OneSessionPerCode
<1> QED BY <1>1, ConsoleInvariants, PTL

\* CacheInStep: the public key getSigningKey (jwt_utils.ts) caches is the private one's,
\* and it is missing beside that one only while a request is about to set it.
THEOREM CacheCorrect == Spec => []CacheInStep
<1>1. Invariants => CacheInStep
  BY DEF Invariants, CacheInv, CacheInStep
<1> QED BY <1>1, ConsoleInvariants, PTL

\* ConsoleForItsRole: the console of the administrators shows for their sessions only,
\* although Login.svelte sends any session there and only the page's checkMe looks.
THEOREM RoleCorrect == Spec => []ConsoleForItsRole
BY ConsoleInvariants, PTL DEF Invariants

\* SessionsOutliveRestarts: jwtVerify (rbac.ts) gets the key a session was signed with,
\* over any number of restarts, or none at all, unless the key met with a mishap.
THEOREM SessionsCorrect == Spec => []SessionsOutliveRestarts
<1>1. ASSUME Invariants PROVE SessionsOutliveRestarts
  <2>1. ASSUME NEW h \in Handlers, pc[h] = "check", ~mishap
        PROVE  req[h].key \in {req[h].session.key, None}
    <3>1. req[h].session \in Session
      BY <1>1, <2>1, RequestTyped DEF Invariants, RequestInv, Verifies, Request
    <3>2. req[h].session.key \in generated /\ req[h].key \in generated \cup {None}
      BY <1>1, <3>1, ConsoleAssumption DEF Invariants, KeyInv, Session
    <3> QED BY <1>1, <2>1, <3>2 DEF Invariants, KeyInv
  <2> QED BY <2>1 DEF SessionsOutliveRestarts
<1> QED BY <1>1, ConsoleInvariants, PTL
=============================================================================
