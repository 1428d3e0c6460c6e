---------------------------- MODULE ConsoleLogin ----------------------------
(***************************************************************************)
(* The login of developers and administrators to the management console:   *)
(* IAMService, the session JWT with its key (jwt_utils.ts), the guard of   *)
(* the console's routes (rbac.ts), and the pages that use them.            *)
(*                                                                         *)
(* The key is loaded by the first request that needs it, in several awaits *)
(* that other requests fall between.  Without a configured key a process   *)
(* that is not in production makes one and writes it to .env, where the    *)
(* next process finds it.                                                  *)
(***************************************************************************)
EXTENDS Integers, FiniteSets

CONSTANTS
  Emails, Admins,   \* addresses; those the seed makes administrators
  Otps,             \* one-time passwords that may be drawn
  Keys,             \* signing keys, configured or generated
  Browsers, Handlers,
  None,
  OtpTTL, SessionTTL,
  MaxClock          \* bound on the clock

ASSUME ConsoleAssumption ==
  /\ Admins \subseteq Emails
  /\ None \notin Emails \cup Otps \cup Keys \cup Browsers
  /\ OtpTTL \in Nat /\ SessionTTL \in Nat

VARIABLES
  now,
  devs,      \* developers: the role of each address, or None
  otps,      \* otp_codes
  saved,     \* OIDC_PRIVATE_KEY as the next process finds it
  private, public,  \* cachedPrivateKey, cachedPublicKey
  pc, req,   \* the await each request is in, and what it carries
  step, area, cookie, \* of each browser: its page, the console it is for, its session
  generated, \* history: the keys ever made
  mishap,    \* history: two requests made a key each, or one was not saved
  shared,    \* history: passwords two requests have found unused together
  opened     \* history: how many sessions each password has opened

keyVars == <<saved, private, public, generated, mishap>>
pageVars == <<step, area, cookie>>
tables == <<devs, otps>>
histories == <<shared, opened>>
vars == <<now, tables, keyVars, pc, req, pageVars, histories>>

-----------------------------------------------------------------------------
NoOtp == [email |-> None, expiresAt |-> 0, used |-> FALSE]
UsedOtp == [NoOtp EXCEPT !.used = TRUE]  \* nothing reads the rest of a used row
NoSession == [email |-> None, role |-> "none", key |-> None, exp |-> 0]
NoRequest == [from |-> None, email |-> None, otp |-> None, role |-> "none", key |-> None,
              session |-> NoSession]

Roles == {"developer", "admin"}
Session == [email : Emails, role : Roles, key : Keys, exp : Nat]
Request == [from : Browsers \cup {None}, email : Emails \cup {None}, otp : Otps \cup {None},
            role : Roles \cup {"none"}, key : Keys \cup {None},
            session : Session \cup {NoSession}]

\* The awaits of the routes, and of getSigningKey on behalf of two of them.
Loading == {"import", "publish", "generate", "save"}
Awaits == {"idle", "register", "otp", "mark", "owner", "key", "sign", "check"} \cup Loading

Init ==
  /\ now = 0
  /\ devs = [e \in Emails |-> IF e \in Admins THEN "admin" ELSE "none"]
  /\ otps = [o \in Otps |-> NoOtp]
  /\ saved \in Keys \cup {None}
  /\ private = None /\ public = None
  /\ pc = [h \in Handlers |-> "idle"]
  /\ req = [h \in Handlers |-> NoRequest]
  /\ step = [b \in Browsers |-> "email"]
  /\ area \in [Browsers -> Roles]
  /\ cookie = [b \in Browsers |-> NoSession]
  /\ generated = {saved} \ {None}
  /\ mishap = FALSE
  /\ shared = {}
  /\ opened = [o \in Otps |-> 0]

-----------------------------------------------------------------------------
(* Requests and answers *)

Begin(h, b, r, first) ==
  /\ pc[h] = "idle"
  /\ pc' = [pc EXCEPT ![h] = first]
  /\ req' = [req EXCEPT ![h] = [r EXCEPT !.from = b]]

End(h) ==
  /\ pc' = [pc EXCEPT ![h] = "idle"]
  /\ req' = [req EXCEPT ![h] = NoRequest]

\* The page that asked, if the browser has not left it, shows something else.
Show(h, to) ==
  step' = IF req[h].from = None THEN step ELSE [step EXCEPT ![req[h].from] = to]

\* A browser that leaves a page drops the requests that page has in flight.
Dropping(b) ==
  [g \in Handlers |-> IF req[g].from = b THEN [req[g] EXCEPT !.from = None] ELSE req[g]]

Leave(b, to) ==
  /\ step' = [step EXCEPT ![b] = to]
  /\ req' = Dropping(b)

\* The answer to h takes the page that asked to another one.
Go(h, to) ==
  LET b == req[h].from IN
  /\ pc' = [pc EXCEPT ![h] = "idle"]
  /\ req' = [IF b = None THEN req ELSE Dropping(b) EXCEPT ![h] = NoRequest]
  /\ Show(h, to)

\* checkMe goes back to the login; the forms stay where they are.
Fail(h) ==
  /\ IF req[h].session # NoSession THEN Go(h, "email") ELSE End(h) /\ UNCHANGED step
  /\ UNCHANGED <<area, cookie>>

-----------------------------------------------------------------------------
(* IAMService: registration and the one-time password *)

\* registerDeveloper looks the address up before it inserts it.
Register(h, b, e) ==
  /\ step[b] = "email"
  /\ devs[e] = "none"
  /\ Begin(h, b, [NoRequest EXCEPT !.email = e], "register")
  /\ UNCHANGED <<now, tables, keyVars, pageVars, histories>>

\* The column is unique: the second of two inserts fails, whatever was looked up.
RegisterInsert(h) ==
  /\ pc[h] = "register"
  /\ IF devs[req[h].email] = "none"
       THEN /\ devs' = [devs EXCEPT ![req[h].email] = "developer"]
            /\ pc' = [pc EXCEPT ![h] = "otp"]  \* the page now asks for a password
            /\ UNCHANGED <<req, pageVars>>
       ELSE Fail(h) /\ UNCHANGED devs
  /\ UNCHANGED <<now, otps, keyVars, histories>>

\* Mutant: the address is not looked up.
RequestOtpForAnyone(h, b, e) ==
  /\ step[b] = "email"
  /\ Begin(h, b, [NoRequest EXCEPT !.email = e], "otp")
  /\ UNCHANGED <<now, tables, keyVars, pageVars, histories>>

\* requestOtp answers success for an unknown address too, and sends nothing.
RequestOtp(h, b, e) ==
  /\ step[b] = "email"
  /\ IF devs[e] = "none"
       THEN step' = [step EXCEPT ![b] = "otp"] /\ UNCHANGED <<pc, req, area, cookie>>
       ELSE Begin(h, b, [NoRequest EXCEPT !.email = e], "otp") /\ UNCHANGED pageVars
  /\ UNCHANGED <<now, tables, keyVars, histories>>

OtpInsert(h, o) ==
  /\ pc[h] = "otp"
  /\ otps[o] = NoOtp
  /\ otps' = [otps EXCEPT ![o] = [email |-> req[h].email, expiresAt |-> now + OtpTTL,
                                  used |-> FALSE]]
  /\ End(h)
  /\ Show(h, "otp")
  /\ UNCHANGED <<now, devs, keyVars, area, cookie, histories>>

\* verifyOtp finds a row by address and password, unused and in time.
Usable(o, e) == otps[o].email = e /\ otps[o].expiresAt > now

Holding(h, o) == req[h].otp = o /\ pc[h] = "mark"

VerifyOtp(h, b, e, o) ==
  /\ step[b] = "otp"
  /\ Usable(o, e)
  /\ Begin(h, b, [NoRequest EXCEPT !.email = e, !.otp = o], "mark")
  /\ shared' = IF \E g \in Handlers : Holding(g, o) THEN shared \cup {o} ELSE shared
  /\ UNCHANGED <<now, tables, keyVars, pageVars, opened>>

\* Mutant: the row is never marked.
MarkUsedForgotten(h) ==
  /\ pc[h] = "mark"
  /\ pc' = [pc EXCEPT ![h] = "owner"]
  /\ UNCHANGED <<now, tables, keyVars, req, pageVars, histories>>

\* The update names the row only: it does not look at the column it sets.
MarkUsed(h) ==
  /\ pc[h] = "mark"
  /\ otps' = [otps EXCEPT ![req[h].otp] = UsedOtp]
  /\ pc' = [pc EXCEPT ![h] = "owner"]
  /\ UNCHANGED <<now, devs, keyVars, req, pageVars, histories>>

\* No code deletes a developer: the row is there.
ReadOwner(h) ==
  /\ pc[h] = "owner"
  /\ req' = [req EXCEPT ![h].role = devs[req[h].email]]
  /\ pc' = [pc EXCEPT ![h] = "key"]
  /\ UNCHANGED <<now, tables, keyVars, pageVars, histories>>

\* The session takes the role the row had, and eight hours.
OpenSession(h) ==
  LET r == req[h]
      s == [email |-> r.email, role |-> r.role, key |-> r.key, exp |-> now + SessionTTL]
  IN
  /\ pc[h] = "sign"
  /\ opened' = [opened EXCEPT ![r.otp] = @ + 1]
  /\ cookie' = IF r.from = None THEN cookie ELSE [cookie EXCEPT ![r.from] = s]
  /\ Go(h, "load")
  /\ UNCHANGED <<now, tables, keyVars, area, shared>>

-----------------------------------------------------------------------------
(* The pages: MgmtAuthStore, developer/Login.svelte, developer/Header.svelte *)

\* The header of a console page that has been loaded asks who is logged in.
CheckMe(h, b) ==
  /\ step[b] = "load"
  /\ Begin(h, b, [NoRequest EXCEPT !.session = cookie[b]], "key")
  /\ step' = [step EXCEPT ![b] = "loading"]
  /\ UNCHANGED <<now, tables, keyVars, area, cookie, histories>>

Logout(b) ==
  /\ step[b] = "console"
  /\ cookie' = [cookie EXCEPT ![b] = NoSession]
  /\ Leave(b, "email")
  /\ UNCHANGED <<now, tables, keyVars, pc, area, histories>>

\* The visitor loads a login page or, with a session, a console page.
Navigate(b, a, to) ==
  /\ to = "load" => cookie[b] # NoSession
  /\ area' = [area EXCEPT ![b] = a]
  /\ Leave(b, to)
  /\ UNCHANGED <<now, tables, keyVars, pc, cookie, histories>>

\* "Back to Email" leaves the password's request in flight.
Back(b) ==
  /\ step[b] = "otp"
  /\ step' = [step EXCEPT ![b] = "email"]
  /\ UNCHANGED <<now, tables, keyVars, pc, req, area, cookie, histories>>

-----------------------------------------------------------------------------
(* jwt_utils.ts: the key *)

\* Signing waits for the private key, verifying for the public one.
Verifies(h) == req[h].session # NoSession
Next1(h) == IF Verifies(h) THEN "check" ELSE "sign"

\* A verification takes what the cache holds now, which may be nothing.
HasKey(h, sk, vk) ==
  /\ pc' = [pc EXCEPT ![h] = Next1(h)]
  /\ req' = [req EXCEPT ![h].key = IF Verifies(h) THEN vk ELSE sk]

KeyCached(h) ==
  /\ pc[h] = "key"
  /\ private # None \/ (Verifies(h) /\ public # None)
  /\ HasKey(h, private, public)
  /\ UNCHANGED <<now, tables, keyVars, pageVars, histories>>

KeyMissing(h) ==
  /\ pc[h] = "key"
  /\ private = None
  /\ Verifies(h) => public = None
  /\ pc' = [pc EXCEPT ![h] = IF saved = None THEN "generate" ELSE "import"]
  /\ UNCHANGED <<now, tables, keyVars, req, pageVars, histories>>

\* importPKCS8, after which other requests see the private key alone.
ImportKey(h) ==
  /\ pc[h] = "import"
  /\ private' = saved
  /\ pc' = [pc EXCEPT ![h] = "publish"]
  /\ UNCHANGED <<now, tables, saved, public, generated, mishap, req, pageVars, histories>>

\* Mutant: the public key is left for later.
PublishKeyForgotten(h) ==
  /\ pc[h] = "publish"
  /\ HasKey(h, private, public)
  /\ UNCHANGED <<now, tables, keyVars, pageVars, histories>>

PublishKey(h) ==
  /\ pc[h] = "publish"
  /\ public' = private
  /\ HasKey(h, private, private)
  /\ UNCHANGED <<now, tables, saved, private, generated, mishap, pageVars, histories>>

\* generateKeyPair, after which both keys are cached, over those of another request.
GenerateKey(h, k) ==
  /\ pc[h] = "generate"
  /\ k \notin generated
  /\ generated' = generated \cup {k}
  /\ mishap' = (mishap \/ private # None)
  /\ private' = k /\ public' = k
  /\ req' = [req EXCEPT ![h].key = k]
  /\ pc' = [pc EXCEPT ![h] = "save"]
  /\ UNCHANGED <<now, tables, saved, pageVars, histories>>

\* Mutant: the key is kept in memory only.
SaveKeyForgotten(h) ==
  /\ pc[h] = "save"
  /\ HasKey(h, private, public)
  /\ UNCHANGED <<now, tables, keyVars, pageVars, histories>>

\* Each request writes the key it made; the answer uses the key that is cached now.
SaveKey(h) ==
  /\ pc[h] = "save"
  /\ saved' = req[h].key
  /\ HasKey(h, private, public)
  /\ UNCHANGED <<now, tables, private, public, generated, mishap, pageVars, histories>>

\* A failure to write is logged, and the process goes on.
SaveFails(h) ==
  /\ pc[h] = "save"
  /\ mishap' = TRUE
  /\ HasKey(h, private, public)
  /\ UNCHANGED <<now, tables, saved, private, public, generated, pageVars, histories>>

-----------------------------------------------------------------------------
(* rbac.ts: a request of a console page *)

Live(s) == s # NoSession /\ s.exp > now

\* Mutant: /me asks for a developer, and the page does not look at the role.
AllowedToAny(s, a) == s.role \in Roles
Allowed(s, a) == s.role = "admin" \/ s.role = a

\* jwtVerify, then the role; the page of the administrators asks for theirs.
Check(h) ==
  LET s == req[h].session IN
  /\ pc[h] = "check"
  /\ IF req[h].key = s.key /\ Live(s) /\ (req[h].from # None => Allowed(s, area[req[h].from]))
       THEN End(h) /\ Show(h, "console") /\ UNCHANGED <<area, cookie>>
       ELSE Fail(h)
  /\ UNCHANGED <<now, tables, keyVars, histories>>

-----------------------------------------------------------------------------
(* Failures and time *)

\* A query rejects: what was written stays.
Abort(h) ==
  /\ pc[h] \in {"register", "otp", "mark", "owner"}
  /\ Fail(h)
  /\ UNCHANGED <<now, tables, keyVars, histories>>

\* The process stops and starts: the cache is empty, the tables and .env are not.
Restart ==
  /\ pc' = [h \in Handlers |-> "idle"]
  /\ req' = [h \in Handlers |-> NoRequest]
  /\ private' = None /\ public' = None
  /\ mishap' = (mishap \/ \E h \in Handlers : pc[h] = "save")
  /\ step' = [b \in Browsers |-> IF step[b] = "loading" THEN "email" ELSE step[b]]
  /\ UNCHANGED <<now, tables, saved, generated, area, cookie, histories>>

Tick ==
  /\ now < MaxClock
  /\ now' = now + 1
  /\ UNCHANGED <<tables, keyVars, pc, req, pageVars, histories>>

-----------------------------------------------------------------------------
\* What the runtime goes on with by itself.
LoadKey(h) ==
  KeyCached(h) \/ KeyMissing(h) \/ ImportKey(h) \/ PublishKey(h)
    \/ (\E k \in Keys : GenerateKey(h, k)) \/ SaveKey(h) \/ SaveFails(h)

Continue(h) ==
  \/ RegisterInsert(h) \/ (\E o \in Otps : OtpInsert(h, o))
  \/ MarkUsed(h) \/ ReadOwner(h) \/ LoadKey(h) \/ OpenSession(h) \/ Check(h)

Click(h, b) ==
  \/ \E e \in Emails : Register(h, b, e) \/ RequestOtp(h, b, e)
                         \/ (\E o \in Otps : VerifyOtp(h, b, e, o))
  \/ CheckMe(h, b)

Next ==
  \/ \E h \in Handlers : Continue(h) \/ Abort(h) \/ (\E b \in Browsers : Click(h, b))
  \/ \E b \in Browsers : Logout(b) \/ Back(b) \/ (\E a \in Roles : Navigate(b, a, "email") \/ Navigate(b, a, "load"))
  \/ Restart \/ Tick

Spec == Init /\ [][Next]_vars

-----------------------------------------------------------------------------
(* Properties *)

\* Rows, cache, requests and pages have the shapes of the code.
TypeOK ==
  /\ now \in Nat
  /\ devs \in [Emails -> Roles \cup {"none"}]
  /\ otps \in [Otps -> [email : Emails, expiresAt : Nat, used : {FALSE}] \cup {NoOtp, UsedOtp}]
  /\ {saved, private, public} \subseteq Keys \cup {None}
  /\ pc \in [Handlers -> Awaits]
  /\ req \in [Handlers -> Request \cup {NoRequest}]
  /\ step \in [Browsers -> {"email", "otp", "load", "loading", "console"}]
  /\ area \in [Browsers -> Roles]
  /\ cookie \in [Browsers -> Session \cup {NoSession}]
  /\ generated \subseteq Keys /\ mishap \in BOOLEAN
  /\ shared \subseteq Otps /\ opened \in [Otps -> Nat]

\* verifyOtp finds the row and marks it in two queries: a password opens one session
\* unless two requests have found it before either marked it.
OneSessionPerCode == \A o \in Otps \ shared : opened[o] <= 1

\* The two halves of the cache: the public key is missing beside a private one only
\* while some request is about to set it, and otherwise belongs to it.
CacheInStep ==
  /\ private # None /\ public = None => \E h \in Handlers : pc[h] = "publish"
  /\ public # None => public = private

\* The console of the administrators opens for their sessions only, although the page
\* that follows the login does not look at the role (checkMe of the next page does).
ConsoleForItsRole ==
  \A b \in Browsers :
    step[b] = "console" /\ area[b] = "admin" => cookie[b].role = "admin"

\* A session outlives the process that signed it: a request verifies it with the key
\* it was signed with, except after a mishap with the key, or when another request has
\* put the private key in the cache and not yet the public one.
SessionsOutliveRestarts ==
  \A h \in Handlers :
    pc[h] = "check" => req[h].key \in {req[h].session.key, None} \/ mishap

-----------------------------------------------------------------------------
(* The inductive invariants behind these *)

\* What a request carries, by the await it is in; an address has a developer from
\* before its first password is stored.
RequestInv ==
  /\ \A o \in Otps : otps[o].email # None => devs[otps[o].email] \in Roles
  /\ \A h \in Handlers :
       LET r == req[h] IN
       /\ pc[h] = "idle" => r = NoRequest
       /\ pc[h] = "register" => r.email \in Emails
       /\ pc[h] \in {"otp", "mark", "owner"} => r.email \in Emails /\ devs[r.email] \in Roles
       /\ pc[h] \in {"mark", "owner"} => r.otp \in Otps
       /\ pc[h] \in {"key", "sign"} \cup Loading /\ ~Verifies(h) =>
            r.email \in Emails /\ r.otp \in Otps /\ r.role \in Roles
       /\ pc[h] = "sign" => ~Verifies(h) /\ r.key \in Keys
       /\ Verifies(h) => pc[h] \in {"key", "check"} \cup Loading
       /\ pc[h] = "check" => Verifies(h)

\* While a password is in the hands of one request at a time it is in the hands of one
\* at all: its row is marked before that request goes on.
OtpInv ==
  \A o \in Otps \ shared :
    /\ opened[o] <= 1
    /\ opened[o] # 0 => otps[o] = UsedOtp /\ \A h \in Handlers : req[h].otp # o
    /\ \A h \in Handlers : req[h].otp = o =>
         /\ pc[h] # "mark" => otps[o] = UsedOtp
         /\ \A g \in Handlers : req[g].otp = o => g = h

\* A process either imports the saved key or makes one: nobody imports beside a request
\* that makes a key, and the halves of the cache are set from the same key.
CacheInv ==
  /\ public # None => public = private
  /\ private # None /\ public = None => \E h \in Handlers : pc[h] = "publish"
  /\ \A h \in Handlers :
       /\ pc[h] = "import" => /\ saved # None /\ private \in {None, saved}
                              /\ \A g \in Handlers : pc[g] \notin {"generate", "save"}
       /\ pc[h] \in {"publish", "save"} => private # None
       /\ pc[h] = "generate" => private # None \/ saved = None

\* Without a mishap there is one key, and once it is made some request is about to save
\* it or has done so.
KeyInv ==
  /\ {saved, private, public} \subseteq generated \cup {None}
  /\ \A b \in Browsers : cookie[b].key \in generated \cup {None}
  /\ \A h \in Handlers : {req[h].key, req[h].session.key} \subseteq generated \cup {None}
  /\ \A h \in Handlers : pc[h] = "save" => req[h].key # None
  /\ ~mishap => /\ \A j, k \in generated : j = k
                /\ generated # {} /\ saved = None =>
                     private # None /\ \E h \in Handlers : pc[h] = "save"

\* A request belongs to the page that waits for it: the header's is alone, and asks
\* about the session the browser still has.
PageInv ==
  /\ \A b \in Browsers : step[b] = "load" => cookie[b] # NoSession
  /\ \A h \in Handlers, b \in Browsers : req[h].from = b =>
       IF Verifies(h)
         THEN /\ step[b] = "loading" /\ req[h].session = cookie[b]
              /\ \A g \in Handlers \ {h} : req[g].from # b
         ELSE step[b] \in {"email", "otp"}
=============================================================================
