------------------------------ MODULE QRLogin ------------------------------
(***************************************************************************)
(* Signing in with the Singpass app, next to the password login of the     *)
(* same session.  The browser shows a QR code and polls the status of a    *)
(* qr_sessions row; Singpass calls back when the user has decided; the     *)
(* callback exchanges the code it carries, completes the PARENT row of     *)
(* auth_sessions and lets GenerateAuthCode issue the provider's own code.  *)
(*                                                                         *)
(* The server's side is qr_auth_service.ts with its controller, the        *)
(* browser's QRAuth.svelte with singpass-polling.ts.  Singpass itself, and *)
(* the user with the phone, are the environment.                           *)
(***************************************************************************)
EXTENDS LoginSession

CONSTANTS
  QRs,           \* qr_sessions ids (each has its own state parameter)
  QrTTL,         \* expires_in of the request pushed to Singpass
  MaxPollFails,  \* maxRetries of pollQRStatus
  MaxCallbacks   \* bound: callbacks Singpass makes for one QR code

ASSUME QrAssumption == /\ None \notin QRs
                       /\ QrTTL \in Nat \ {0}
                       /\ MaxPollFails \in Nat \ {0}
                       /\ MaxCallbacks \in Nat

VARIABLES
  qr,         \* qr_sessions, by id
  page,       \* what the browser shows for a QR code
  poll,       \* the status request of that browser
  fails,      \* its consecutive failed requests
  callback,   \* the QR code a callback handler serves
  callbacks   \* history: callbacks made, per QR code

browser == <<page, poll, fails>>
qrVars == <<qr, browser, callback, callbacks>>
allVars == <<vars, qrVars>>

Results == {"PENDING", "AUTHORIZED", "CANCELLED", "EXPIRED", "ERROR"}

\* "expiring": the server has read an overdue PENDING row and is about to write
\* EXPIRED; a result: the answer is on its way to the browser.
Polls == {"idle", "asked", "expiring"} \cup Results

QrRow == [parent : Sessions \cup {None}, status : Results \cup {"ABSENT"},
          redirect : CodeRow, expiresAt : 0 .. MaxClock + QrTTL]

NoQr == [parent |-> None, status |-> "ABSENT", redirect |-> NoCode, expiresAt |-> 0]

QRInit ==
  /\ Init
  /\ qr = [q \in QRs |-> NoQr]
  /\ page = [q \in QRs |-> "LOADING"]
  /\ poll = [q \in QRs |-> "idle"]
  /\ fails = [q \in QRs |-> 0]
  /\ callback = [h \in Handlers |-> None]
  /\ callbacks = [q \in QRs |-> 0]

SetStatus(q, status) == qr' = [qr EXCEPT ![q].status = status]

-----------------------------------------------------------------------------
(* The browser *)

\* POST /init: a row for the session of the cookie, whatever its status; the page
\* shows the code and starts the countdown.  The last conjunct is the bound that lets
\* the clock reach the end of every code.
InitQR(q, s) ==
  /\ qr[q] = NoQr
  /\ sessions[s].status # "ABSENT"
  /\ qr' = [qr EXCEPT ![q] = [NoQr EXCEPT !.parent = s, !.status = "PENDING",
                                          !.expiresAt = now + QrTTL]]
  /\ now + QrTTL < MaxClock
  /\ page' = [page EXCEPT ![q] = "PENDING"]
  /\ UNCHANGED <<vars, poll, fails, callback, callbacks>>

PollStart(q) ==
  /\ page[q] = "PENDING"
  /\ poll[q] = "idle"
  /\ poll' = [poll EXCEPT ![q] = "asked"]
  /\ UNCHANGED <<vars, qr, page, fails, callback, callbacks>>

\* Mutant: an overdue row is reported as it is.
PollReadAsIs(q) ==
  /\ poll[q] = "asked"
  /\ poll' = [poll EXCEPT ![q] = qr[q].status]
  /\ UNCHANGED <<vars, qr, page, fails, callback, callbacks>>

\* getQRStatus looks at the row every two seconds and answers as soon as it is not
\* PENDING, or with PENDING when its 25 seconds are over.
PollRead(q) ==
  /\ poll[q] = "asked"
  /\ poll' = [poll EXCEPT ![q] =
                IF qr[q].status = "PENDING" /\ qr[q].expiresAt < now
                  THEN "expiring" ELSE qr[q].status]
  /\ UNCHANGED <<vars, qr, page, fails, callback, callbacks>>

\* The update that follows names the row by its id only.
PollExpire(q) ==
  /\ poll[q] = "expiring"
  /\ SetStatus(q, "EXPIRED")
  /\ poll' = [poll EXCEPT ![q] = "EXPIRED"]
  /\ UNCHANGED <<vars, page, fails, callback, callbacks>>

\* onUpdate: the page shows the answer, and asks again only after PENDING.
PollAnswer(q) ==
  /\ poll[q] \in Results
  /\ page' = [page EXCEPT ![q] = poll[q]]
  /\ poll' = [poll EXCEPT ![q] = "idle"]
  /\ fails' = [fails EXCEPT ![q] = 0]
  /\ UNCHANGED <<vars, qr, callback, callbacks>>

\* Mutant: the polling never gives up.
PollFailForEver(q) ==
  /\ poll[q] # "idle"
  /\ fails' = [fails EXCEPT ![q] = @ + 1]
  /\ poll' = [poll EXCEPT ![q] = "idle"]
  /\ UNCHANGED <<vars, qr, page, callback, callbacks>>

\* A status request fails, on its way, at the server or on its way back (the server
\* may have written before); the fifth in a row ends the polling.
PollFail(q) ==
  /\ poll[q] # "idle"
  /\ fails' = [fails EXCEPT ![q] = @ + 1]
  /\ poll' = [poll EXCEPT ![q] = "idle"]
  /\ page' = IF fails'[q] >= MaxPollFails THEN [page EXCEPT ![q] = "ERROR"] ELSE page
  /\ UNCHANGED <<vars, qr, callback, callbacks>>

\* The countdown goes on after any result that leaves the page open, and at its end
\* drops the request under way.
CountdownEnds(q) ==
  /\ page[q] \in Results \ {"AUTHORIZED", "EXPIRED"}
  /\ now > qr[q].expiresAt
  /\ page' = [page EXCEPT ![q] = "EXPIRED"]
  /\ poll' = [poll EXCEPT ![q] = "idle"]
  /\ UNCHANGED <<vars, qr, fails, callback, callbacks>>

-----------------------------------------------------------------------------
(* The callback of Singpass *)

CallBack(q) ==
  /\ qr[q].status # "ABSENT"
  /\ callbacks[q] < MaxCallbacks
  /\ callbacks' = [callbacks EXCEPT ![q] = @ + 1]

\* error=user_cancelled, or neither an error nor a code: the row is found by its
\* state and written by its id, so the two queries are one step.
CallbackRefused(q, status) ==
  /\ CallBack(q)
  /\ SetStatus(q, status)
  /\ UNCHANGED <<vars, browser, callback>>

CallbackRead(h, q) ==
  /\ CallBack(q)
  /\ Begin(h, "exchange", [NoRequest EXCEPT !.kind = "callback", !.session = qr[q].parent],
           NoRow)
  /\ callback' = [callback EXCEPT ![h] = q]
  /\ UNCHANGED <<now, db, history, qr, browser>>

\* Mutant: the user of the parent row is left as the password login wrote it.
CallbackParentKeepingUser(h, u) ==
  LET s == req[h].session IN
  /\ pc[h] = "exchange"
  /\ UpdateSession(s, [sessions[s] EXCEPT !.status = "COMPLETED", !.loa = 2, !.amr = AmrQR])
  /\ proved' = [proved EXCEPT ![s] = @ \cup {u}]
  /\ Goto(h, "authorize")
  /\ UNCHANGED <<now, par, codes, challenged, rejected, qrVars>>

\* Singpass has named u in the exchange and u is known here: four columns of the
\* parent row are written, whatever the row says by now.
CallbackParent(h, u) ==
  LET s == req[h].session IN
  /\ pc[h] = "exchange"
  /\ UpdateSession(s, [sessions[s] EXCEPT !.userId = u, !.status = "COMPLETED",
                                          !.loa = 2, !.amr = AmrQR])
  /\ proved' = [proved EXCEPT ![s] = @ \cup {u}]
  /\ Goto(h, "authorize")
  /\ UNCHANGED <<now, par, codes, challenged, rejected, qrVars>>

EndCallback(h, row) ==
  /\ qr' = [qr EXCEPT ![callback[h]] = row]
  /\ End(h)
  /\ callback' = [callback EXCEPT ![h] = None]
  /\ UNCHANGED <<now, db, history, browser, callbacks>>

\* Mutant: the outcome of GenerateAuthCode is not looked at.
CallbackAuthorizedAnyway(h) ==
  /\ req[h].kind = "callback"
  /\ pc[h] \in {"issued", "refused"}
  /\ EndCallback(h, [qr[callback[h]] EXCEPT !.status = "AUTHORIZED", !.redirect = draft[h]])

\* The redirect with the provider's code is left in the row for the browser.
CallbackAuthorized(h) ==
  /\ req[h].kind = "callback"
  /\ pc[h] = "issued"
  /\ EndCallback(h, [qr[callback[h]] EXCEPT !.status = "AUTHORIZED", !.redirect = draft[h]])

\* Any await of the try block may reject: the exchange, an unknown user, the update of
\* the parent, GenerateAuthCode, the last update.
CallbackError(h) ==
  /\ req[h].kind = "callback"
  /\ EndCallback(h, [qr[callback[h]] EXCEPT !.status = "ERROR"])

-----------------------------------------------------------------------------
\* The password login goes on beside; a handler that ends serves nothing.
LoginStep ==
  /\ Next
  /\ callback' = [h \in Handlers |-> IF pc'[h] = "idle" THEN None ELSE callback[h]]
  /\ UNCHANGED <<qr, browser, callbacks>>

Poll(q) == PollStart(q) \/ PollRead(q) \/ PollExpire(q) \/ PollAnswer(q)

Callback(h) ==
  \/ \E u \in Users : CallbackParent(h, u)
  \/ CallbackAuthorized(h)
  \/ CallbackError(h)

QRNext ==
  \/ LoginStep
  \/ \E q \in QRs, s \in Sessions : InitQR(q, s)
  \/ \E q \in QRs : Poll(q) \/ PollFail(q) \/ CountdownEnds(q)
  \/ \E q \in QRs, status \in {"CANCELLED", "ERROR"} : CallbackRefused(q, status)
  \/ \E h \in Handlers, q \in QRs : CallbackRead(h, q)
  \/ \E h \in Handlers : Callback(h)

QRSpec == QRInit /\ [][QRNext]_allVars

\* Time passes and the polling goes on.  Nothing is assumed of the countdown: a browser
\* may hold back the timers of a page in the background.
QRFairness ==
  /\ WF_allVars(Tick /\ UNCHANGED qrVars)
  /\ \A q \in QRs : WF_allVars(Poll(q))

QRFairSpec == QRSpec /\ QRFairness

-----------------------------------------------------------------------------
QRTypeOK ==
  /\ TypeOK
  /\ qr \in [QRs -> QrRow]
  /\ page \in [QRs -> Results \cup {"LOADING"}]
  /\ poll \in [QRs -> Polls]
  /\ fails \in [QRs -> 0..MaxPollFails]
  /\ callback \in [Handlers -> QRs \cup {None}]
  /\ callbacks \in [QRs -> 0..MaxCallbacks]
  /\ \A h \in Handlers : req[h].kind = "callback" => callback[h] \in QRs

\* The redirect an AUTHORIZED row hands to the browser carries a code that was
\* really issued, for a user authenticated in the browser's own session, although
\* the parent row is written, read again, and may be rewritten by a password
\* login before the code is made (handleCallback, steps 3 to 5).
RedirectIsIssued ==
  \A q \in QRs :
    qr[q].status = "AUTHORIZED" =>
      /\ qr[q].redirect \in codes
      /\ qr[q].redirect.session = qr[q].parent
      /\ qr[q].redirect.userId \in proved[qr[q].parent]

\* A page that says AUTHORIZED speaks the truth even when its row has been set to
\* EXPIRED or ERROR since the answer left the server.
PageTellsTruth ==
  \A q \in QRs :
    page[q] = "AUTHORIZED" => \E c \in codes : c.session = qr[q].parent /\ c.userId \in proved[c.session]

-----------------------------------------------------------------------------
(* The inductive invariants behind these, beside AttestationInv *)

\* The row of a code exists from the moment its page shows it; only a page that waits
\* asks, and only one that has stopped waiting has failed for the last time.
PageInv ==
  \A q \in QRs :
    /\ page[q] = "LOADING" <=> qr[q].status = "ABSENT"
    /\ page[q] = "LOADING" => fails[q] = 0
    /\ page[q] = "PENDING" => fails[q] < MaxPollFails
    /\ poll[q] # "idle" => page[q] = "PENDING"

\* A handler works for one session, and has saved the code it answers with; one that
\* serves a callback serves the parent of the code it was called for.
HandlerInv ==
  \A h \in Handlers :
    /\ pc[h] = "idle" => req[h] = NoRequest /\ callback[h] = None
    /\ pc[h] \in {"par", "save", "issued"} => draft[h].session = req[h].session
    /\ pc[h] = "issued" => draft[h] \in codes
    /\ callback[h] # None => qr[callback[h]].status # "ABSENT"
                              /\ qr[callback[h]].parent = req[h].session
    /\ pc[h] = "exchange" => req[h].kind = "callback"

\* There is a code for a user authenticated in the session s.
Issued(s) == \E c \in codes : c.session = s /\ c.userId \in proved[s]

ResultInv ==
  \A q \in QRs :
    /\ qr[q].status # "ABSENT" => qr[q].parent \in Sessions
    /\ qr[q].status = "AUTHORIZED" => qr[q].redirect \in codes /\ qr[q].redirect.session = qr[q].parent
    /\ "AUTHORIZED" \in {poll[q], page[q]} => Issued(qr[q].parent)

QRInv == PageInv /\ HandlerInv /\ ResultInv

\* No page waits for ever: it leaves PENDING whether the callback comes, a handler dies
\* with it or the phone is never used, and without the help of its countdown.
PageSettles == \A q \in QRs : page[q] = "PENDING" ~> page[q] # "PENDING"

=============================================================================
