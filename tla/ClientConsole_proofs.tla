------------------------ MODULE ClientConsole_proofs ------------------------
(***************************************************************************)
(* Proofs about ClientConsole, for every number of developers, clients,    *)
(* secrets, redirect URIs and concurrent requests.                         *)
(***************************************************************************)
EXTENDS ClientConsole, TLAPS

Labels == {"idle", "run", "cleanup", "grant", "answer"}
Got == Lists \cup Secrets \cup {None}

-----------------------------------------------------------------------------
(* Requests *)

\* RequestInv, of one request.
Fits(label, r) ==
  /\ label = "idle" <=> r = NoRequest
  /\ r.kind \in Writes \ {"create"} => r.client \in Clients
  /\ r.kind = "create" => r.client \in Clients \cup {None}
  /\ r.kind \in Grants => r.client \in Ids
  /\ r.kind \in (Writes \ {"revoke"}) \cup {"list"} => r.dev \in Devs
  /\ label = "answer" /\ r.kind = "list" => r.got \in Lists
  /\ label = "answer" /\ r.kind = "rotate" => r.got \in Secrets
  /\ label = "cleanup" => r.kind \in {"off", "delete", "revoke"}
  /\ label = "grant" => r.kind \in Grants
  /\ r.page => /\ r.dev = Me
               /\ r.kind \in {"list", "update", "on", "off", "rotate", "delete"}
                    \/ (r.kind = "create" /\ r.client = None)

\* The step of request h, and the others.
Move(h, label, r) == pc' = [pc EXCEPT ![h] = label] /\ req' = [req EXCEPT ![h] = r]
Still(g) == pc'[g] = pc[g] /\ req'[g] = req[g]

LEMMA RequestsFit ==
  /\ RequestInv <=> \A h \in Handlers : Fits(pc[h], req[h])
  /\ RequestInv' <=> \A h \in Handlers : Fits(pc'[h], req'[h])
BY DEF RequestInv, Fits, Of

LEMMA NoRequestApart == NoRequest \notin Request /\ NoRequest.kind = "none" /\ NoRequest.page = FALSE
<1>1. "none" \notin Writes \cup {"list"} \cup Grants
  BY DEF Writes, Grants
<1> QED BY <1>1 DEF NoRequest, Request

LEMMA NoRequestFits == Fits("idle", NoRequest)
BY NoRequestApart DEF Fits, Writes, Grants

LEMMA Moved ==
  ASSUME TypeOK, NEW h \in Handlers, NEW label, NEW r, Move(h, label, r)
  PROVE  pc'[h] = label /\ req'[h] = r /\ \A g \in Handlers \ {h} : Still(g)
BY DEF Move, TypeOK, Still

LEMMA MoveTyped ==
  ASSUME TypeOK, RequestInv, NEW h \in Handlers, NEW label \in Labels,
         NEW r \in Request \cup {NoRequest}, Move(h, label, r), Fits(label, r)
  PROVE  /\ pc' \in [Handlers -> Labels] /\ req' \in [Handlers -> Request \cup {NoRequest}]
         /\ RequestInv'
<1>1. pc' \in [Handlers -> Labels] /\ req' \in [Handlers -> Request \cup {NoRequest}]
  BY DEF Move, TypeOK, Labels
<1>2. \A g \in Handlers : Fits(pc'[g], req'[g])
  BY Moved, RequestsFit DEF Still
<1> QED BY <1>1, <1>2, RequestsFit

LEMMA Running ==
  ASSUME TypeOK, RequestInv, NEW h \in Handlers, pc[h] # "idle"
  PROVE  req[h] \in Request /\ Fits(pc[h], req[h])
BY RequestsFit, NoRequestApart DEF TypeOK, Fits

LEMMA Updates ==
  ASSUME NEW r \in Request
  PROVE  /\ \A got \in Got :
              LET q == [r EXCEPT !.got = got] IN
              /\ q \in Request /\ q.got = got /\ q.kind = r.kind /\ q.dev = r.dev
              /\ q.client = r.client /\ q.page = r.page
         /\ LET q == [r EXCEPT !.page = FALSE] IN
              /\ q \in Request /\ q.page = FALSE /\ q.kind = r.kind /\ q.dev = r.dev
              /\ q.client = r.client /\ q.got = r.got
<1> HIDE DEF Lists
<1> QED BY DEF Request, Got

LEMMA FetchTyped ==
  /\ Fetch(None) \in Request /\ Fetch(None).kind = "list" /\ Fetch(None).dev = Me
  /\ Fetch(None).page = TRUE /\ Fits("run", Fetch(None))
<1>1. /\ Fetch(None) \in Request /\ Fetch(None).kind = "list" /\ Fetch(None).dev = Me
      /\ Fetch(None).page = TRUE
  BY ClientAssumption DEF Fetch, Request, NoRequest
<1> QED BY <1>1, NoRequestApart, ClientAssumption DEF Fits, Writes, Grants

-----------------------------------------------------------------------------
(* Rows *)

LEMMA MineIsRow ==
  ASSUME TypeOK, NEW c \in Clients, NEW d \in Devs, Mine(c, d)
  PROVE  rows[c] \in Row
BY ClientAssumption DEF TypeOK, Mine, NoRow

LEMMA RowsApart == NoRow \notin Row /\ NoRow.owner = None
BY ClientAssumption DEF NoRow, Row

\* What each of the five writes makes of its row.
Writer(h) ==
  CreateClient(h) \/ UpdateClient(h) \/ ToggleClientStatus(h) \/ RotateSecret(h) \/ DeleteClient(h)

Effect(k, old, new) ==
  \/ k = "create" /\ old = NoRow /\ new.active /\ ~new.deleted
  \/ /\ old \in Row /\ new.owner = old.owner
     /\ \/ k = "update" /\ ~new.deleted /\ new.active = old.active
             /\ new.secret = old.secret /\ new.deleted = old.deleted
        \/ k = "on" /\ ~new.deleted /\ new.active /\ new.secret = old.secret
        \/ k = "off" /\ ~new.active /\ new.deleted = old.deleted /\ new.secret = old.secret
        \/ k = "rotate" /\ new.active = old.active /\ new.deleted = old.deleted
             /\ new.uris = old.uris
        \/ k = "delete" /\ new.deleted /\ ~new.active /\ new.secret = old.secret

\* A write, in terms of its request and its row.
Wrote(h, c, row) ==
  /\ c \in Clients /\ pc[h] = "run" /\ req[h] \in Request /\ req[h].client = c
  /\ rows' = [rows EXCEPT ![c] = row] /\ row \in Row /\ row.owner = req[h].dev
  /\ Effect(req[h].kind, rows[c], row)
  /\ \/ Move(h, "cleanup", req[h]) /\ req[h].kind \in {"off", "delete"}
     \/ Move(h, "answer", req[h]) /\ req[h].kind \in {"update", "on"}
     \/ Move(h, "answer", [req[h] EXCEPT !.got = row.secret]) /\ req[h].kind \in {"create", "rotate"}
  /\ disturbed' = (disturbed \/ (req[h].dev = Me /\ ~req[h].page))
  /\ req[h].kind \in {"create", "on"} => NoteLive
  /\ req[h].kind \notin {"create", "on"} => UNCHANGED seenLive
  /\ UNCHANGED <<legacy, cut, list, known>>

LEMMA Written ==
  ASSUME TypeOK, RequestInv, NEW h \in Handlers, Writer(h)
  PROVE  \E c, row : Wrote(h, c, row)
<1> DEFINE c == req[h].client
<1> USE DEF pageVars
<1>1. pc[h] = "run" /\ req[h].kind \in Writes \ {"revoke"}
  BY DEF Writer, CreateClient, UpdateClient, ToggleClientStatus, RotateSecret, DeleteClient, Of, Writes
<1>2. req[h] \in Request /\ Fits(pc[h], req[h])
  BY <1>1, Running
<1>3. req[h].dev \in Devs
  BY <1>1, <1>2 DEF Fits
<1>4. c \in Clients
  <2>1. CASE req[h].kind = "create"
    <3>1. c # None
      BY <2>1 DEF Writer, CreateClient, UpdateClient, ToggleClientStatus, RotateSecret, DeleteClient, Of
    <3> QED BY <1>2, <2>1, <3>1 DEF Fits
  <2>2. CASE req[h].kind # "create"
    BY <1>1, <1>2, <2>2 DEF Fits
  <2> QED BY <2>1, <2>2
<1>5. req = [req EXCEPT ![h] = req[h]]
  BY DEF TypeOK
<1>6. \A where : Goto(h, where) => Move(h, where, req[h])
  BY <1>5 DEF Goto, Move
<1>7. CASE CreateClient(h)
  <2>1. PICK s \in Secrets, u \in Uris :
          /\ Put(c, [owner |-> req[h].dev, active |-> TRUE, deleted |-> FALSE,
                     keyed |-> FALSE, secret |-> s, uris |-> u])
          /\ Answer(h, s)
    BY <1>7 DEF CreateClient
  <2> DEFINE row == [owner |-> req[h].dev, active |-> TRUE, deleted |-> FALSE,
                     keyed |-> FALSE, secret |-> s, uris |-> u]
  <2>2. row \in Row /\ row.owner = req[h].dev /\ row.active /\ ~row.deleted /\ row.secret = s
    BY <1>3 DEF Row
  <2>3. rows' = [rows EXCEPT ![c] = row] /\ Move(h, "answer", [req[h] EXCEPT !.got = row.secret])
    BY <2>1, <2>2 DEF Put, Answer, Move
  <2>4. req[h].kind = "create" /\ rows[c] = NoRow /\ NoteLive /\ Disturbs(h)
        /\ UNCHANGED <<legacy, cut, list, known>>
    BY <1>7 DEF CreateClient, Of, Exists
  <2> HIDE DEF row
  <2>5. Effect(req[h].kind, rows[c], row)
    BY <2>2, <2>4 DEF Effect
  <2>6. Wrote(h, c, row)
    BY <1>1, <1>2, <1>4, <2>2, <2>3, <2>4, <2>5 DEF Wrote, Disturbs
  <2> QED BY <2>6
<1>8. ASSUME ~CreateClient(h) PROVE rows[c] \in Row /\ rows[c].owner = req[h].dev
  <2>1. Found(h, TRUE)
    BY <1>8 DEF Writer, UpdateClient, ToggleClientStatus, RotateSecret, DeleteClient, Found
  <2> QED BY <1>3, <1>4, <2>1, MineIsRow DEF Found, Mine
<1>9. CASE UpdateClient(h)
  <2>1. PICK u \in Uris : Put(c, [rows[c] EXCEPT !.uris = u])
    BY <1>9 DEF UpdateClient
  <2> DEFINE row == [rows[c] EXCEPT !.uris = u]
  <2>2. req[h].kind = "update" /\ ~rows[c].deleted /\ Goto(h, "answer") /\ Disturbs(h)
        /\ UNCHANGED <<legacy, cut, list, known, seenLive>>
    BY <1>9 DEF UpdateClient, Of, Found
  <2>3. rows[c] \in Row /\ rows[c].owner = req[h].dev
    BY <1>8, <2>2 DEF CreateClient, Of
  <2>4. /\ row \in Row /\ row.owner = rows[c].owner /\ row.active = rows[c].active
        /\ row.deleted = rows[c].deleted /\ row.secret = rows[c].secret
    BY <2>3 DEF Row
  <2>5. rows' = [rows EXCEPT ![c] = row]
    BY <2>1 DEF Put
  <2> HIDE DEF row
  <2>6. Effect(req[h].kind, rows[c], row)
    BY <2>2, <2>3, <2>4 DEF Effect
  <2>7. Wrote(h, c, row)
    BY <1>1, <1>2, <1>4, <1>6, <2>2, <2>3, <2>4, <2>5, <2>6 DEF Wrote, Disturbs
  <2> QED BY <2>7
<1>10. CASE ToggleClientStatus(h)
  <2>1. req[h].kind \in {"on", "off"} /\ ~rows[c].deleted /\ Disturbs(h)
        /\ UNCHANGED <<legacy, cut, list, known>>
        /\ IF req[h].kind = "on" THEN SwitchOn(h) ELSE SwitchOff(h)
    BY <1>10 DEF ToggleClientStatus, Of, Found
  <2>2. rows[c] \in Row /\ rows[c].owner = req[h].dev
    BY <1>8, <2>1 DEF CreateClient, Of
  <2>3. ASSUME NEW a \in BOOLEAN
        PROVE  LET row == [rows[c] EXCEPT !.active = a] IN
               /\ row \in Row /\ row.owner = rows[c].owner /\ row.active = a
               /\ row.deleted = rows[c].deleted /\ row.secret = rows[c].secret
    BY <2>2 DEF Row
  <2>4. CASE req[h].kind = "on"
    <3> DEFINE row == [rows[c] EXCEPT !.active = TRUE]
    <3>1. /\ row \in Row /\ row.owner = rows[c].owner /\ row.active
          /\ row.deleted = rows[c].deleted /\ row.secret = rows[c].secret
      BY <2>3
    <3>2. rows' = [rows EXCEPT ![c] = row] /\ NoteLive /\ Goto(h, "answer")
      BY <2>1, <2>4 DEF SwitchOn, Put
    <3> HIDE DEF row
    <3>3. Effect(req[h].kind, rows[c], row)
      BY <2>1, <2>2, <2>4, <3>1 DEF Effect
    <3>4. Wrote(h, c, row)
      BY <1>1, <1>2, <1>4, <1>6, <2>1, <2>2, <2>4, <3>1, <3>2, <3>3 DEF Wrote, Disturbs
    <3> QED BY <3>4
  <2>5. CASE req[h].kind = "off"
    <3> DEFINE row == [rows[c] EXCEPT !.active = FALSE]
    <3>1. /\ row \in Row /\ row.owner = rows[c].owner /\ ~row.active
          /\ row.deleted = rows[c].deleted /\ row.secret = rows[c].secret
      BY <2>3
    <3>2. rows' = [rows EXCEPT ![c] = row] /\ UNCHANGED seenLive /\ Goto(h, "cleanup")
      BY <2>1, <2>5 DEF SwitchOff, Put
    <3> HIDE DEF row
    <3>3. Effect(req[h].kind, rows[c], row)
      BY <2>2, <2>5, <3>1 DEF Effect
    <3>4. Wrote(h, c, row)
      BY <1>1, <1>2, <1>4, <1>6, <2>1, <2>2, <2>5, <3>1, <3>2, <3>3 DEF Wrote, Disturbs
    <3> QED BY <3>4
  <2> QED BY <2>1, <2>4, <2>5
<1>11. CASE RotateSecret(h)
  <2>1. PICK s \in Secrets : Put(c, [rows[c] EXCEPT !.secret = s]) /\ Answer(h, s)
    BY <1>11 DEF RotateSecret
  <2> DEFINE row == [rows[c] EXCEPT !.secret = s]
  <2>2. req[h].kind = "rotate" /\ Disturbs(h) /\ UNCHANGED <<legacy, cut, list, known, seenLive>>
    BY <1>11 DEF RotateSecret, Of
  <2>3. rows[c] \in Row /\ rows[c].owner = req[h].dev
    BY <1>8, <2>2 DEF CreateClient, Of
  <2>4. /\ row \in Row /\ row.owner = rows[c].owner /\ row.active = rows[c].active
        /\ row.deleted = rows[c].deleted /\ row.uris = rows[c].uris /\ row.secret = s
    BY <2>3 DEF Row
  <2>5. rows' = [rows EXCEPT ![c] = row] /\ Move(h, "answer", [req[h] EXCEPT !.got = row.secret])
    BY <2>1, <2>4 DEF Put, Answer, Move
  <2> HIDE DEF row
  <2>6. Effect(req[h].kind, rows[c], row)
    BY <2>2, <2>3, <2>4 DEF Effect
  <2>7. Wrote(h, c, row)
    BY <1>1, <1>2, <1>4, <2>2, <2>3, <2>4, <2>5, <2>6 DEF Wrote, Disturbs
  <2> QED BY <2>7
<1>12. CASE DeleteClient(h)
  <2> DEFINE row == [rows[c] EXCEPT !.deleted = TRUE, !.active = FALSE]
  <2>1. req[h].kind = "delete" /\ Goto(h, "cleanup") /\ Disturbs(h)
        /\ rows' = [rows EXCEPT ![c] = row] /\ UNCHANGED <<legacy, cut, list, known, seenLive>>
    BY <1>12 DEF DeleteClient, Of, Put
  <2>2. rows[c] \in Row /\ rows[c].owner = req[h].dev
    BY <1>8, <2>1 DEF CreateClient, Of
  <2>3. row \in Row /\ row.owner = rows[c].owner /\ row.deleted /\ ~row.active /\ row.secret = rows[c].secret
    BY <2>2 DEF Row
  <2> HIDE DEF row
  <2>4. Effect(req[h].kind, rows[c], row)
    BY <2>1, <2>2, <2>3 DEF Effect
  <2>5. Wrote(h, c, row)
    BY <1>1, <1>2, <1>4, <1>6, <2>1, <2>2, <2>3, <2>4 DEF Wrote, Disturbs
  <2> QED BY <2>5
<1> QED BY <1>7, <1>9, <1>10, <1>11, <1>12 DEF Writer

-----------------------------------------------------------------------------
(* The other steps, as moves of one request *)

LEMMA ListedTyped ==
  ASSUME TypeOK, NEW d \in Devs
  PROVE  Listed(d) \in Lists
<1>1. ASSUME NEW c \in Clients, Mine(c, d)
      PROVE  [active |-> rows[c].active, uris |-> rows[c].uris] \in [active : BOOLEAN, uris : Uris]
  BY <1>1, MineIsRow DEF Row
<1> QED BY <1>1 DEF Listed, Lists

\* The server goes on with a request without touching a row.
Served(h) ==
  \/ pc[h] = "run" /\ req[h].kind = "revoke" /\ (\E l \in {"cleanup", "answer"} : Move(h, l, req[h]))
  \/ pc[h] = "cleanup" /\ Move(h, "answer", req[h])
  \/ pc[h] = "run" /\ req[h].kind = "list" /\ Move(h, "answer", [req[h] EXCEPT !.got = Listed(req[h].dev)])
  \/ pc[h] = "run" /\ req[h].kind \in Grants /\ Move(h, "grant", req[h])

\* A request ends: an answer the page does not wait for, an error, or a grant.
Ended(h) == pc[h] # "idle" /\ Move(h, "idle", NoRequest)

\* A request begins.
Began(h) ==
  pc[h] = "idle" /\ \E r \in Request : Move(h, "run", r) /\ Fits("run", r)

Quiet(h) ==
  \/ RevokeSession(h) \/ DeleteSession(h) \/ RevokeAllClientSessions(h)
  \/ ListClients(h) \/ NotFound(h) \/ Lookup(h) \/ Grant(h)

LEMMA GotoMoves ==
  ASSUME TypeOK, NEW h \in Handlers, NEW where, Goto(h, where)
  PROVE  Move(h, where, req[h])
BY DEF Goto, Move, TypeOK

LEMMA QuietMoves ==
  ASSUME TypeOK, RequestInv, NEW h \in Handlers, Quiet(h)
  PROVE  (Served(h) \/ Ended(h)) /\ UNCHANGED <<rows, list, known, disturbed>>
<1> USE DEF tables, pageVars, histories
<1>1. CASE RevokeSession(h)
  BY <1>1, GotoMoves DEF RevokeSession, Served, Of
<1>2. CASE DeleteSession(h) \/ RevokeAllClientSessions(h)
  BY <1>2, GotoMoves DEF DeleteSession, RevokeAllClientSessions, Served
<1>3. CASE ListClients(h)
  BY <1>3 DEF ListClients, Served, Of, Answer, Move
<1>4. CASE NotFound(h)
  BY <1>4 DEF NotFound, Reject, End, Ended, Move
<1>5. CASE Lookup(h)
  BY <1>5, GotoMoves DEF Lookup, Served, Ended, End, Move, Of
<1>6. CASE Grant(h)
  BY <1>6 DEF Grant, Ended, End, Move
<1> QED BY <1>1, <1>2, <1>3, <1>4, <1>5, <1>6 DEF Quiet

LEMMA BeginningsFit ==
  /\ \A k \in Writes, d \in Devs, c \in Clients :
       Fits("run", [NoRequest EXCEPT !.kind = k, !.dev = d, !.client = c])
  /\ \A c \in Clients : Fits("run", [NoRequest EXCEPT !.kind = "revoke", !.dev = None, !.client = c])
  /\ \A k \in Grants, c \in Ids : Fits("run", [NoRequest EXCEPT !.kind = k, !.client = c])
  /\ \A k \in {"update", "on", "off", "rotate", "delete"}, c \in Clients :
       Fits("run", [NoRequest EXCEPT !.kind = k, !.dev = Me, !.client = c, !.page = TRUE])
  /\ Fits("run", [NoRequest EXCEPT !.kind = "create", !.dev = Me, !.client = None, !.page = TRUE])
<1>1. ASSUME NEW k \in Writes, NEW d \in Devs, NEW c \in Clients
      PROVE  Fits("run", [NoRequest EXCEPT !.kind = k, !.dev = d, !.client = c])
  <2> DEFINE q == [NoRequest EXCEPT !.kind = k, !.dev = d, !.client = c]
  <2>1. q.kind = k /\ q.dev = d /\ q.client = c /\ q.page = FALSE
    BY DEF NoRequest
  <2> HIDE DEF q
  <2>2. q # NoRequest
    BY <2>1, NoRequestApart DEF Writes, Grants
  <2>3. Fits("run", q)
    BY <2>1, <2>2 DEF Fits, Writes, Grants
  <2> QED BY <2>3 DEF q
<1>2. ASSUME NEW c \in Clients
      PROVE  Fits("run", [NoRequest EXCEPT !.kind = "revoke", !.dev = None, !.client = c])
  <2> DEFINE q == [NoRequest EXCEPT !.kind = "revoke", !.dev = None, !.client = c]
  <2>1. q.kind = "revoke" /\ q.client = c /\ q.page = FALSE
    BY DEF NoRequest
  <2> HIDE DEF q
  <2>2. q # NoRequest
    BY <2>1, NoRequestApart DEF Writes, Grants
  <2>3. Fits("run", q)
    BY <2>1, <2>2 DEF Fits, Writes, Grants
  <2> QED BY <2>3 DEF q
<1>3. ASSUME NEW k \in Grants, NEW c \in Ids
      PROVE  Fits("run", [NoRequest EXCEPT !.kind = k, !.client = c])
  <2> DEFINE q == [NoRequest EXCEPT !.kind = k, !.client = c]
  <2>1. q.kind = k /\ q.client = c /\ q.page = FALSE
    BY DEF NoRequest
  <2> HIDE DEF q
  <2>2. q # NoRequest
    BY <2>1, NoRequestApart DEF Writes, Grants
  <2>3. Fits("run", q)
    BY <2>1, <2>2 DEF Fits, Writes, Grants
  <2> QED BY <2>3 DEF q
<1>4. ASSUME NEW k \in {"update", "on", "off", "rotate", "delete"}, NEW c \in Clients
      PROVE  Fits("run", [NoRequest EXCEPT !.kind = k, !.dev = Me, !.client = c, !.page = TRUE])
  <2> DEFINE q == [NoRequest EXCEPT !.kind = k, !.dev = Me, !.client = c, !.page = TRUE]
  <2>1. q.kind = k /\ q.dev = Me /\ q.client = c
    BY DEF NoRequest
  <2> HIDE DEF q
  <2>2. q # NoRequest
    BY <2>1, NoRequestApart DEF Writes, Grants
  <2>3. Fits("run", q)
    BY <2>1, <2>2, ClientAssumption DEF Fits, Writes, Grants
  <2> QED BY <2>3 DEF q
<1>5. Fits("run", [NoRequest EXCEPT !.kind = "create", !.dev = Me, !.client = None, !.page = TRUE])
  <2> DEFINE q == [NoRequest EXCEPT !.kind = "create", !.dev = Me, !.client = None, !.page = TRUE]
  <2>1. q.kind = "create" /\ q.dev = Me /\ q.client = None
    BY DEF NoRequest
  <2> HIDE DEF q
  <2>2. q # NoRequest
    BY <2>1, NoRequestApart DEF Writes, Grants
  <2>3. Fits("run", q)
    BY <2>1, <2>2, ClientAssumption DEF Fits, Writes, Grants
  <2> QED BY <2>3 DEF q
<1> QED BY <1>1, <1>2, <1>3, <1>4, <1>5

Calls(h) ==
  \/ \E c \in Clients : \E d \in Devs, k \in Writes : Call(h, d, k, c)
  \/ \E c \in Clients : Call(h, None, "revoke", c)
  \/ \E c \in Ids, k \in Grants : ClientRequest(h, k, c)

Clicks(h) ==
  \/ \E c \in Clients : \E k \in {"update", "on", "off", "rotate", "delete"} : Click(h, k, c)
  \/ Click(h, "create", None)

\* What is called from elsewhere does not belong to the page; what the page sends does.
LEMMA CallsBegin ==
  ASSUME TypeOK, RequestInv, NEW h \in Handlers, Calls(h)
  PROVE  /\ pc[h] = "idle" /\ \E r \in Request : Move(h, "run", r) /\ Fits("run", r) /\ ~r.page
         /\ UNCHANGED <<rows, legacy, list, known, disturbed, cut>>
<1> USE DEF tables, pageVars, histories
<1>1. ASSUME NEW c \in Clients, NEW d \in Devs, NEW k \in Writes, Call(h, d, k, c)
      PROVE  /\ pc[h] = "idle" /\ \E r \in Request : Move(h, "run", r) /\ Fits("run", r) /\ ~r.page
             /\ UNCHANGED <<rows, legacy, list, known, disturbed, cut>>
  <2> DEFINE q == [NoRequest EXCEPT !.kind = k, !.dev = d, !.client = c]
  <2>1. q \in Request /\ q.page = FALSE
    BY DEF Request, NoRequest, Ids
  <2>2. Fits("run", q)
    BY BeginningsFit
  <2>3. pc[h] = "idle" /\ Move(h, "run", q) /\ UNCHANGED <<rows, legacy, list, known, disturbed, cut>>
    BY <1>1 DEF Call, ClientRequest, Begin, Move
  <2> HIDE DEF q
  <2> QED BY <2>1, <2>2, <2>3
<1>2. ASSUME NEW c \in Clients, Call(h, None, "revoke", c)
      PROVE  /\ pc[h] = "idle" /\ \E r \in Request : Move(h, "run", r) /\ Fits("run", r) /\ ~r.page
             /\ UNCHANGED <<rows, legacy, list, known, disturbed, cut>>
  <2> DEFINE q == [NoRequest EXCEPT !.kind = "revoke", !.dev = None, !.client = c]
  <2>1. q \in Request /\ q.page = FALSE
    BY DEF Request, NoRequest, Writes, Ids
  <2>2. Fits("run", q)
    BY BeginningsFit
  <2>3. pc[h] = "idle" /\ Move(h, "run", q) /\ UNCHANGED <<rows, legacy, list, known, disturbed, cut>>
    BY <1>2 DEF Call, ClientRequest, Begin, Move
  <2> HIDE DEF q
  <2> QED BY <2>1, <2>2, <2>3
<1>3. ASSUME NEW c \in Ids, NEW k \in Grants, ClientRequest(h, k, c)
      PROVE  /\ pc[h] = "idle" /\ \E r \in Request : Move(h, "run", r) /\ Fits("run", r) /\ ~r.page
             /\ UNCHANGED <<rows, legacy, list, known, disturbed, cut>>
  <2> DEFINE q == [NoRequest EXCEPT !.kind = k, !.client = c]
  <2>1. q \in Request /\ q.page = FALSE
    BY DEF Request, NoRequest, Ids
  <2>2. Fits("run", q)
    BY BeginningsFit
  <2>3. pc[h] = "idle" /\ Move(h, "run", q) /\ UNCHANGED <<rows, legacy, list, known, disturbed, cut>>
    BY <1>3 DEF Call, ClientRequest, Begin, Move
  <2> HIDE DEF q
  <2> QED BY <2>1, <2>2, <2>3
<1> QED BY <1>1, <1>2, <1>3 DEF Calls

LEMMA ClicksBegin ==
  ASSUME TypeOK, RequestInv, NEW h \in Handlers, Clicks(h)
  PROVE  /\ pc[h] = "idle"
         /\ \E r \in Request :
              /\ Move(h, "run", r) /\ Fits("run", r)
              /\ r.kind \in Writes /\ (r.kind = "rotate" /\ Overlap({"rotate"}, h) => disturbed')
         /\ disturbed => disturbed'
         /\ UNCHANGED <<tables, pageVars, seenLive, cut>>
<1>1. {"update", "on", "off", "rotate", "delete", "create"} \subseteq Writes
  BY DEF Writes
<1>2. ASSUME NEW c \in Clients \cup {None}, NEW k \in Writes, Click(h, k, c),
             Fits("run", [NoRequest EXCEPT !.kind = k, !.dev = Me, !.client = c, !.page = TRUE])
      PROVE  /\ pc[h] = "idle"
             /\ \E r \in Request :
                  /\ Move(h, "run", r) /\ Fits("run", r)
                  /\ r.kind \in Writes /\ (r.kind = "rotate" /\ Overlap({"rotate"}, h) => disturbed')
             /\ disturbed => disturbed'
             /\ UNCHANGED <<tables, pageVars, seenLive, cut>>
  <2> DEFINE q == [NoRequest EXCEPT !.kind = k, !.dev = Me, !.client = c, !.page = TRUE]
  <2>1. q \in Request /\ q.kind = k
    BY ClientAssumption DEF Request, NoRequest, Ids
  <2>2. pc[h] = "idle" /\ Move(h, "run", q)
    BY <1>2 DEF Click, Begin, Move
  <2>3. /\ disturbed' = (disturbed \/ (k = "rotate" /\ Overlap({"rotate"}, h)))
        /\ UNCHANGED <<tables, pageVars, seenLive, cut>>
    BY <1>2 DEF Click
  <2>4. Fits("run", q)
    BY <1>2
  <2> HIDE DEF q
  <2> QED BY <2>1, <2>2, <2>3, <2>4
<1> QED BY <1>1, <1>2, BeginningsFit DEF Clicks

LEMMA MovesFit ==
  ASSUME TypeOK, RequestInv, NEW h \in Handlers,
         Served(h) \/ Ended(h) \/ Began(h) \/ (\E c, row : Wrote(h, c, row))
  PROVE  /\ pc' \in [Handlers -> Labels] /\ req' \in [Handlers -> Request \cup {NoRequest}]
         /\ RequestInv'
<1>1. CASE Ended(h)
  BY <1>1, MoveTyped, NoRequestFits DEF Ended, Labels
<1>2. CASE Began(h)
  BY <1>2, MoveTyped DEF Began, Labels
<1>3. CASE Served(h)
  <2>1. req[h] \in Request /\ Fits(pc[h], req[h]) /\ req[h] # NoRequest
    BY <1>3, Running, NoRequestApart DEF Served
  <2>2. CASE \E l \in {"cleanup", "answer"} : Move(h, l, req[h]) /\ req[h].kind = "revoke"
    <3>1. \A l \in {"cleanup", "answer"} : req[h].kind = "revoke" => Fits(l, req[h])
      BY <2>1 DEF Fits
    <3> QED BY <2>1, <2>2, <3>1, MoveTyped DEF Labels
  <2>3. CASE pc[h] = "cleanup" /\ Move(h, "answer", req[h])
    <3>1. Fits("answer", req[h])
      BY <2>1, <2>3 DEF Fits
    <3> QED BY <2>1, <2>3, <3>1, MoveTyped DEF Labels
  <2>4. CASE /\ pc[h] = "run" /\ req[h].kind = "list"
             /\ Move(h, "answer", [req[h] EXCEPT !.got = Listed(req[h].dev)])
    <3> DEFINE got == Listed(req[h].dev)
    <3>1. got \in Lists
      BY <2>1, <2>4, ListedTyped DEF Fits
    <3> HIDE DEF got
    <3> DEFINE q == [req[h] EXCEPT !.got = got]
    <3>2. q \in Request /\ q.got = got /\ q.kind = "list" /\ q.dev = req[h].dev /\ q.page = req[h].page
      BY <2>1, <2>4, <3>1, Updates DEF Got
    <3> HIDE DEF q
    <3>3. Fits("answer", q)
      BY <2>1, <2>4, <3>1, <3>2, NoRequestApart DEF Fits, Writes, Grants
    <3>4. Move(h, "answer", q)
      BY <2>4 DEF got, q
    <3> QED BY <3>2, <3>3, <3>4, MoveTyped DEF Labels
  <2>5. CASE req[h].kind \in Grants /\ Move(h, "grant", req[h])
    <3>1. Fits("grant", req[h])
      BY <2>1, <2>5 DEF Fits
    <3> QED BY <2>1, <2>5, <3>1, MoveTyped DEF Labels
  <2> QED BY <1>3, <2>2, <2>3, <2>4, <2>5 DEF Served
<1>4. ASSUME NEW c, NEW row, Wrote(h, c, row)
      PROVE  /\ pc' \in [Handlers -> Labels] /\ req' \in [Handlers -> Request \cup {NoRequest}]
             /\ RequestInv'
  <2>1. req[h] \in Request /\ Fits("run", req[h]) /\ req[h] # NoRequest
    BY <1>4, Running, NoRequestApart DEF Wrote
  <2>2. CASE Move(h, "cleanup", req[h]) /\ req[h].kind \in {"off", "delete"}
    <3>1. Fits("cleanup", req[h])
      BY <2>1, <2>2 DEF Fits
    <3> QED BY <2>1, <2>2, <3>1, MoveTyped DEF Labels
  <2>3. CASE Move(h, "answer", req[h]) /\ req[h].kind \in {"update", "on"}
    <3>1. Fits("answer", req[h])
      BY <2>1, <2>3 DEF Fits
    <3> QED BY <2>1, <2>3, <3>1, MoveTyped DEF Labels
  <2>4. CASE Move(h, "answer", [req[h] EXCEPT !.got = row.secret]) /\ req[h].kind \in {"create", "rotate"}
    <3> DEFINE got == row.secret
    <3>1. got \in Secrets
      BY <1>4 DEF Wrote, Row
    <3> HIDE DEF got
    <3> DEFINE q == [req[h] EXCEPT !.got = got]
    <3>2. /\ q \in Request /\ q.got = got /\ q.kind = req[h].kind /\ q.dev = req[h].dev
          /\ q.client = req[h].client /\ q.page = req[h].page
      BY <2>1, <3>1, Updates DEF Got
    <3> HIDE DEF q
    <3>3. Fits("answer", q)
      BY <2>1, <2>4, <3>1, <3>2, NoRequestApart DEF Fits
    <3>4. Move(h, "answer", q)
      BY <2>4 DEF got, q
    <3> QED BY <3>2, <3>3, <3>4, MoveTyped DEF Labels
  <2> QED BY <1>4, <2>2, <2>3, <2>4 DEF Wrote
<1> QED BY <1>1, <1>2, <1>3, <1>4

\* The page loads again: its requests go on without it.
LEMMA ReloadTyped ==
  ASSUME TypeOK, RequestInv, NEW h \in Handlers, Reload(h)
  PROVE  /\ pc' \in [Handlers -> Labels] /\ req' \in [Handlers -> Request \cup {NoRequest}]
         /\ RequestInv'
         /\ pc[h] = "idle" /\ pc'[h] = "run" /\ req'[h] = Fetch(None)
         /\ \A g \in Handlers \ {h} :
              /\ pc'[g] = pc[g] /\ ~req'[g].page /\ req'[g].kind = req[g].kind
              /\ req'[g].client = req[g].client
<1>1. pc' \in [Handlers -> Labels] /\ pc[h] = "idle" /\ pc'[h] = "run"
      /\ \A g \in Handlers \ {h} : pc'[g] = pc[g]
  BY DEF Reload, TypeOK, Labels
<1>2. \A g \in Handlers :
        req'[g] = IF g = h THEN Fetch(None)
                  ELSE IF req[g].page THEN [req[g] EXCEPT !.page = FALSE] ELSE req[g]
  BY DEF Reload
<1>3. ASSUME NEW g \in Handlers \ {h}
      PROVE  /\ req'[g] \in Request \cup {NoRequest} /\ Fits(pc'[g], req'[g])
             /\ ~req'[g].page /\ req'[g].kind = req[g].kind /\ req'[g].client = req[g].client
  <2>1. Fits(pc[g], req[g]) /\ req[g] \in Request \cup {NoRequest}
    BY RequestsFit DEF TypeOK
  <2>2. CASE ~req[g].page
    BY <1>1, <1>2, <2>1, <2>2
  <2>3. CASE req[g].page
    <3> DEFINE q == [req[g] EXCEPT !.page = FALSE]
    <3>1. req[g] \in Request
      BY <2>1, <2>3, NoRequestApart
    <3>2. /\ q \in Request /\ q.page = FALSE /\ q.kind = req[g].kind /\ q.dev = req[g].dev
          /\ q.client = req[g].client /\ q.got = req[g].got
      BY <3>1, Updates
    <3>3. req'[g] = q
      BY <1>2, <2>3
    <3> HIDE DEF q
    <3>4. Fits(pc[g], q)
      BY <2>1, <3>1, <3>2, NoRequestApart DEF Fits
    <3> QED BY <1>1, <3>2, <3>3, <3>4
  <2> QED BY <2>2, <2>3
<1>4. req'[h] = Fetch(None)
  BY <1>2
<1>5. \A g \in Handlers : req'[g] \in Request \cup {NoRequest} /\ Fits(pc'[g], req'[g])
  BY <1>1, <1>3, <1>4, FetchTyped
<1>6. req' \in [Handlers -> Request \cup {NoRequest}]
  <2>1. req' = [g \in Handlers |-> req'[g]]
    BY DEF Reload
  <2> QED BY <1>5, <2>1
<1> QED BY <1>1, <1>3, <1>4, <1>5, <1>6, RequestsFit

\* Another fetch, after a write of the page; the ends of the page's requests.
LEMMA PageMoves ==
  ASSUME TypeOK, RequestInv, NEW h \in Handlers
  PROVE  /\ Refetch(h) => pc[h] = "answer" /\ Move(h, "run", Fetch(None))
         /\ ShowList(h) \/ ShowSecret(h) \/ Answered(h) \/ Abort(h) => Ended(h)
<1>1. Refetch(h) => pc[h] = "answer" /\ Move(h, "run", Fetch(None))
  BY DEF Refetch, Move
<1>2. ShowList(h) \/ ShowSecret(h) \/ Answered(h) \/ Abort(h) => Ended(h)
  BY DEF ShowList, ShowSecret, Answered, Abort, End, Ended, Move
<1> QED BY <1>1, <1>2

\* Every step is one of these.
LEMMA Steps ==
  ASSUME Next
  PROVE  \E h \in Handlers :
           \/ Writer(h) \/ Quiet(h) \/ Calls(h) \/ Clicks(h)
           \/ Reload(h) \/ Refetch(h) \/ ShowList(h) \/ ShowSecret(h) \/ Answered(h) \/ Abort(h)
BY DEF Next, Serve, Page, Elsewhere, Writer, Quiet, Calls, Clicks

LEMMA TypeStep == TypeOK /\ RequestInv /\ [Next]_vars => TypeOK' /\ RequestInv'
<1> SUFFICES ASSUME TypeOK, RequestInv, [Next]_vars PROVE TypeOK' /\ RequestInv'
  OBVIOUS
<1> USE DEF tables, pageVars, histories
<1> DEFINE Requests == /\ pc' \in [Handlers -> Labels]
                       /\ req' \in [Handlers -> Request \cup {NoRequest}]
                       /\ RequestInv'
           Rest == /\ rows' \in [Clients -> Row \cup {NoRow}] /\ legacy' \subseteq Clients
                   /\ list' \in Lists /\ known' \in [Clients -> Secrets \cup {None}]
                   /\ seenLive' \in [Handlers -> BOOLEAN] /\ cut' \subseteq Clients
                   /\ disturbed' \in BOOLEAN
<1>1. Requests /\ Rest => TypeOK' /\ RequestInv'
  BY DEF TypeOK, Labels
<1>2. ASSUME NEW h \in Handlers, Writer(h) PROVE Requests /\ Rest
  <2>1. PICK c, row : Wrote(h, c, row)
    BY <1>2, Written
  <2>2. seenLive' \in [Handlers -> BOOLEAN]
    BY <2>1 DEF Wrote, NoteLive, TypeOK
  <2> QED BY <2>1, <2>2, MovesFit DEF Wrote, TypeOK
<1>3. ASSUME NEW h \in Handlers, Quiet(h) PROVE Requests /\ Rest
  <2>1. UNCHANGED <<rows, list, known, disturbed>> /\ Requests
    BY <1>3, QuietMoves, MovesFit
  <2>2. legacy' \subseteq legacy /\ cut' \subseteq cut
    BY <1>3 DEF Quiet, RevokeSession, DeleteSession, RevokeAllClientSessions, ListClients,
                NotFound, Reject, Lookup, Grant
  <2>3. seenLive' \in [Handlers -> BOOLEAN]
    BY <1>3 DEF Quiet, RevokeSession, DeleteSession, RevokeAllClientSessions, ListClients,
                NotFound, Reject, Lookup, Grant, Forget, TypeOK
  <2> QED BY <2>1, <2>2, <2>3 DEF TypeOK
<1>4. ASSUME NEW h \in Handlers, Calls(h) PROVE Requests /\ Rest
  <2>1. Requests /\ UNCHANGED <<rows, legacy, list, known, disturbed, cut>>
    BY <1>4, CallsBegin, MovesFit DEF Began
  <2>2. seenLive' \in [Handlers -> BOOLEAN]
    BY <1>4 DEF Calls, Call, ClientRequest, Live, Exists, TypeOK, Row
  <2> QED BY <2>1, <2>2 DEF TypeOK
<1>5. ASSUME NEW h \in Handlers, Clicks(h) PROVE Requests /\ Rest
  <2>1. Requests /\ UNCHANGED <<tables, pageVars, seenLive, cut>>
    BY <1>5, ClicksBegin, MovesFit DEF Began
  <2>2. disturbed' \in BOOLEAN
    BY <1>5 DEF Clicks, Click
  <2> QED BY <2>1, <2>2 DEF TypeOK
<1>6. ASSUME NEW h \in Handlers, Reload(h) PROVE Requests /\ Rest
  BY <1>6, ReloadTyped DEF Reload, TypeOK, Lists
<1>7. ASSUME NEW h \in Handlers, Refetch(h) PROVE Requests /\ Rest
  <2>1. Requests
    BY <1>7, PageMoves, FetchTyped, MoveTyped DEF Labels
  <2> QED BY <1>7, <2>1 DEF Refetch, TypeOK
<1>8. ASSUME NEW h \in Handlers, ShowList(h) PROVE Requests /\ Rest
  <2>1. req[h].got \in Lists
    BY <1>8 DEF ShowList, Fetching, Of, RequestInv
  <2> QED BY <1>8, <2>1, PageMoves, MovesFit DEF ShowList, TypeOK
<1>9. ASSUME NEW h \in Handlers, ShowSecret(h) PROVE Requests /\ Rest
  <2>1. req[h].got \in Secrets
    BY <1>9 DEF ShowSecret, Of, RequestInv
  <2>2. Requests
    BY <1>9, PageMoves, MovesFit
  <2> QED BY <1>9, <2>1, <2>2 DEF ShowSecret, TypeOK
<1>10. ASSUME NEW h \in Handlers, Answered(h) PROVE Requests /\ Rest
  BY <1>10, PageMoves, MovesFit DEF Answered, TypeOK
<1>11. ASSUME NEW h \in Handlers, Abort(h) PROVE Requests /\ Rest
  <2>1. Requests
    BY <1>11, PageMoves, MovesFit
  <2>2. Of(h, {"off", "delete"}) => req[h].client \in Clients
    BY DEF RequestInv, Of, Writes
  <2>3. cut' \subseteq Clients
    BY <1>11, <2>2 DEF Abort, TypeOK
  <2>4. disturbed' \in BOOLEAN /\ seenLive' \in [Handlers -> BOOLEAN]
    BY <1>11 DEF Abort, Forget, TypeOK
  <2> QED BY <1>11, <2>1, <2>3, <2>4 DEF Abort, TypeOK
<1>12. CASE UNCHANGED vars
  BY <1>12, RequestsFit DEF vars, TypeOK
<1> HIDE DEF Requests, Rest
<1> QED BY <1>1, <1>2, <1>3, <1>4, <1>5, <1>6, <1>7, <1>8, <1>9, <1>10, <1>11, <1>12, Steps

-----------------------------------------------------------------------------
(* Grants *)

IsLive(rs, c) == c \in Clients /\ rs[c] # NoRow /\ rs[c].active /\ ~rs[c].deleted
Dead(rs) == \A c \in Clients : rs[c] # NoRow /\ rs[c].deleted => ~rs[c].active
LiveFine(rs, label, r, seen) ==
  r.kind \in Grants =>
    /\ label = "run" => (IsLive(rs, r.client) => seen)
    /\ label = "grant" => IF r.client \in DOMAIN BuiltIn THEN BuiltIn[r.client] ELSE seen

LEMMA LiveParts ==
  /\ LiveInv <=> Dead(rows) /\ \A h \in Handlers : LiveFine(rows, pc[h], req[h], seenLive[h])
  /\ LiveInv' <=> Dead(rows') /\ \A h \in Handlers : LiveFine(rows', pc'[h], req'[h], seenLive'[h])
BY DEF LiveInv, Dead, LiveFine, IsLive, Live, Exists, Of

\* A client comes to life by a write that all its requests notice.
LEMMA WrittenLive ==
  ASSUME TypeOK, RequestInv, LiveInv, NEW h \in Handlers, NEW c, NEW row, Wrote(h, c, row)
  PROVE  LiveInv'
<1> USE LiveParts
<1>1. /\ c \in Clients /\ rows'[c] = row /\ \A d \in Clients \ {c} : rows'[d] = rows[d]
      /\ row # NoRow /\ Effect(req[h].kind, rows[c], row)
  BY RowsApart DEF Wrote, TypeOK
<1>2. Dead(rows')
  BY <1>1, RowsApart DEF Dead, Effect
<1>3. req'[h].kind \notin Grants /\ \A g \in Handlers \ {h} : Still(g)
  <2>1. req[h].kind \notin Grants /\ req[h] \in Request
    BY DEF Wrote, Grants
  <2>2. [req[h] EXCEPT !.got = row.secret].kind = req[h].kind
    BY <2>1 DEF Request
  <2> QED BY <2>1, <2>2, Moved DEF Wrote
<1>4. ASSUME NEW g \in Handlers \ {h}, req[g].kind \in Grants
      PROVE  LiveFine(rows', pc'[g], req'[g], seenLive'[g])
  <2>1. LiveFine(rows, pc[g], req[g], seenLive[g])
    OBVIOUS
  <2>2. CASE req[h].kind \in {"create", "on"}
    <3>1. seenLive'[g] = (seenLive[g] \/ (Of(g, Grants) /\ \E d \in Clients : req[g].client = d /\ Live(d)'))
      BY <2>2 DEF Wrote, NoteLive
    <3>2. seenLive[g] => seenLive'[g]
      BY <3>1
    <3>3. Live(req[g].client)' => seenLive'[g]
      <4>1. ASSUME NEW d \in Clients, d = req[g].client, Live(d)' PROVE seenLive'[g]
        BY <1>4, <3>1, <4>1 DEF Of
      <4>2. IsLive(rows', req[g].client) => seenLive'[g]
        BY <4>1 DEF IsLive, Live, Exists
      <4> QED BY <1>3, <4>2 DEF Still, Live, Exists, IsLive
    <3>4. IsLive(rows', req[g].client) => seenLive'[g]
      BY <1>3, <3>3 DEF Still, Live, Exists, IsLive
    <3> QED BY <1>3, <2>1, <3>2, <3>4 DEF LiveFine, Still
  <2>3. CASE req[h].kind \notin {"create", "on"}
    <3>1. IsLive(rows', req[g].client) => IsLive(rows, req[g].client)
      BY <1>1, <2>3, RowsApart DEF IsLive, Effect
    <3>2. UNCHANGED seenLive
      BY <2>3 DEF Wrote
    <3> QED BY <1>3, <2>1, <3>1, <3>2 DEF LiveFine, Still
  <2> QED BY <2>2, <2>3
<1> QED BY <1>2, <1>3, <1>4 DEF LiveFine, Still

\* The registry's row stands for both columns.
LEMMA LiveStep == TypeOK /\ RequestInv /\ LiveInv /\ [Next]_vars => LiveInv'
<1> SUFFICES ASSUME TypeOK, RequestInv, LiveInv, [Next]_vars PROVE LiveInv'
  OBVIOUS
<1> USE DEF tables, pageVars, histories
<1>1. ASSUME NEW h \in Handlers, Writer(h) PROVE LiveInv'
  BY <1>1, Written, WrittenLive
\* A step that leaves the rows and, but for h, what the requests have seen.
<1>2. ASSUME NEW h \in Handlers, UNCHANGED rows, \A g \in Handlers \ {h} : Still(g),
             \A g \in Handlers \ {h} : seenLive'[g] = seenLive[g],
             req'[h].kind \in Grants => LiveFine(rows, pc'[h], req'[h], seenLive'[h])
      PROVE  LiveInv'
  BY <1>2, LiveParts DEF LiveFine, Still
<1>3. ASSUME NEW h \in Handlers, Ended(h), UNCHANGED rows, UNCHANGED seenLive \/ Forget(h)
      PROVE  LiveInv'
  <2>1. req'[h].kind \notin Grants /\ \A g \in Handlers \ {h} : Still(g)
    BY <1>3, Moved, NoRequestApart DEF Ended, Grants
  <2>2. \A g \in Handlers \ {h} : seenLive'[g] = seenLive[g]
    BY <1>3 DEF Forget, TypeOK
  <2> QED BY <1>2, <1>3, <2>1, <2>2
<1>4. ASSUME NEW h \in Handlers, Lookup(h) PROVE LiveInv'
  <2>1. CASE Accepts(req[h].client, req[h].kind)
    <3>1. pc[h] = "run" /\ req[h].kind \in Grants /\ Goto(h, "grant") /\ UNCHANGED <<rows, seenLive>>
      BY <1>4, <2>1 DEF Lookup, Of
    <3>2. req[h].client \in Ids
      BY <3>1 DEF RequestInv, Of
    <3>3. pc'[h] = "grant" /\ req'[h] = req[h] /\ \A g \in Handlers \ {h} : Still(g)
      BY <3>1, GotoMoves, Moved
    <3>4. CASE req[h].client \in DOMAIN BuiltIn
      <4>1. BuiltIn[req[h].client]
        BY <2>1, <3>4 DEF Accepts
      <4> QED BY <1>2, <3>1, <3>3, <3>4, <4>1 DEF LiveFine
    <3>5. CASE req[h].client \notin DOMAIN BuiltIn
      <4>1. req[h].client \in Clients
        BY <3>2, <3>5 DEF Ids
      <4>2. IsLive(rows, req[h].client)
        BY <2>1, <3>5, <4>1, LiveParts DEF Accepts, Exists, Dead, IsLive
      <4>3. seenLive[h]
        BY <3>1, <4>2, LiveParts DEF LiveFine
      <4> QED BY <1>2, <3>1, <3>3, <3>5, <4>3 DEF LiveFine
    <3> QED BY <3>4, <3>5
  <2>2. CASE ~Accepts(req[h].client, req[h].kind)
    BY <1>3, <1>4, <2>2 DEF Lookup, Ended, End, Move
  <2> QED BY <2>1, <2>2
<1>5. ASSUME NEW h \in Handlers, Quiet(h), ~Lookup(h) PROVE LiveInv'
  <2>1. UNCHANGED rows /\ (UNCHANGED seenLive \/ Forget(h))
    BY <1>5 DEF Quiet, RevokeSession, DeleteSession, RevokeAllClientSessions, ListClients,
                NotFound, Reject, Grant
  <2>2. CASE Ended(h)
    BY <1>3, <2>1, <2>2
  <2>3. CASE Served(h) /\ ~Ended(h)
    <3>1. UNCHANGED seenLive
      BY <1>5, <2>3 DEF Quiet, RevokeSession, DeleteSession, RevokeAllClientSessions,
                        ListClients, NotFound, Reject, Grant, End, Ended, Move
    <3>2. req[h] \in Request /\ Fits(pc[h], req[h])
      BY <2>3, Running DEF Served
    <3>3. pc[h] = "cleanup" \/ req[h].kind \in {"revoke", "list"}
      BY <1>5, <2>3 DEF Quiet, RevokeSession, DeleteSession, RevokeAllClientSessions,
                        ListClients, NotFound, Reject, Grant, End, Ended, Move, Of
    <3>4. req[h].kind \notin Grants
      BY <3>2, <3>3 DEF Fits, Grants
    <3>5. [req[h] EXCEPT !.got = Listed(req[h].dev)].kind = req[h].kind
      BY <3>2 DEF Request
    <3>6. req'[h].kind = req[h].kind /\ \A g \in Handlers \ {h} : Still(g)
      <4>1. PICK l, q : Move(h, l, q) /\ q.kind = req[h].kind
        BY <2>3, <3>5 DEF Served
      <4>2. req'[h] = q /\ \A g \in Handlers \ {h} : Still(g)
        BY <4>1, Moved
      <4> QED BY <4>1, <4>2
    <3> QED BY <1>2, <2>1, <3>1, <3>4, <3>6
  <2> QED BY <1>5, <2>2, <2>3, QuietMoves
<1>6. ASSUME NEW h \in Handlers, Calls(h) PROVE LiveInv'
  <2>1. CASE UNCHANGED seenLive /\ \E k \in Writes, d \in Devs \cup {None}, c \in Clients : Call(h, d, k, c)
    <3>1. PICK k \in Writes, d \in Devs \cup {None}, c \in Clients : Call(h, d, k, c)
      BY <2>1
    <3> DEFINE q == [NoRequest EXCEPT !.kind = k, !.dev = d, !.client = c]
    <3>2. q.kind = k
      BY DEF NoRequest
    <3>3. Move(h, "run", q) /\ UNCHANGED rows
      BY <3>1 DEF Call, Begin, Move
    <3> HIDE DEF q
    <3> QED BY <1>2, <2>1, <3>2, <3>3, Moved DEF Writes, Grants
  <2>2. ASSUME NEW k \in Grants, NEW c \in Ids, ClientRequest(h, k, c) PROVE LiveInv'
    <3> DEFINE q == [NoRequest EXCEPT !.kind = k, !.client = c]
    <3>1. q.kind = k /\ q.client = c
      BY DEF NoRequest
    <3>2. Move(h, "run", q) /\ UNCHANGED rows /\ seenLive' = [seenLive EXCEPT ![h] = Live(c)]
      BY <2>2 DEF ClientRequest, Begin, Move
    <3> HIDE DEF q
    <3>3. seenLive'[h] = Live(c) /\ \A g \in Handlers \ {h} : seenLive'[g] = seenLive[g]
      BY <3>2 DEF TypeOK
    <3>4. pc'[h] = "run" /\ req'[h] = q /\ \A g \in Handlers \ {h} : Still(g)
      BY <3>2, Moved
    <3>5. LiveFine(rows, pc'[h], req'[h], seenLive'[h])
      BY <3>1, <3>3, <3>4 DEF LiveFine, IsLive, Live, Exists
    <3> QED BY <1>2, <3>2, <3>3, <3>4, <3>5
  <2> QED BY <1>6, <2>1, <2>2 DEF Calls, Call, Writes
<1>7. ASSUME NEW h \in Handlers, Clicks(h) PROVE LiveInv'
  BY <1>2, <1>7, ClicksBegin, Moved DEF Writes, Grants
<1>8. ASSUME NEW h \in Handlers, Reload(h) PROVE LiveInv'
  <2>1. UNCHANGED <<rows, seenLive>> /\ req'[h].kind \notin Grants
    BY <1>8, ReloadTyped, FetchTyped DEF Reload, Grants
  <2>2. \A g \in Handlers \ {h} : LiveFine(rows', pc'[g], req'[g], seenLive'[g])
    BY <1>8, <2>1, ReloadTyped, LiveParts DEF LiveFine
  <2> QED BY <2>1, <2>2, LiveParts DEF LiveFine
<1>9. ASSUME NEW h \in Handlers, Refetch(h) PROVE LiveInv'
  <2>1. Move(h, "run", Fetch(None)) /\ UNCHANGED <<rows, seenLive>>
    BY <1>9, PageMoves DEF Refetch
  <2>2. req'[h] = Fetch(None) /\ \A g \in Handlers \ {h} : Still(g)
    BY <2>1, Moved
  <2>3. req'[h].kind \notin Grants
    BY <2>2, FetchTyped DEF Grants
  <2> QED BY <1>2, <2>1, <2>2, <2>3
<1>10. ASSUME NEW h \in Handlers, ShowList(h) \/ ShowSecret(h) \/ Answered(h) \/ Abort(h)
       PROVE  LiveInv'
  <2>1. UNCHANGED rows /\ (UNCHANGED seenLive \/ Forget(h))
    BY <1>10 DEF ShowList, ShowSecret, Answered, Abort
  <2> QED BY <1>3, <1>10, <2>1, PageMoves
<1>11. CASE UNCHANGED vars
  BY <1>11, LiveParts DEF vars
<1> QED
  BY <1>1, <1>4, <1>5, <1>6, <1>7, <1>8, <1>9, <1>10, <1>11, Steps

-----------------------------------------------------------------------------
(* Revocations *)

Owes(h, c) == pc[h] = "cleanup" /\ req[h].client = c /\ Of(h, {"off", "delete"})

\* A client that owed nothing goes on owing nothing, and one that owed still does, is
\* cut off, or has no sessions left.
LEMMA RevokeStep == TypeOK /\ RequestInv /\ RevokedWithClient /\ [Next]_vars => RevokedWithClient'
<1> SUFFICES ASSUME TypeOK, RequestInv, RevokedWithClient, [Next]_vars,
                    NEW c \in legacy', rows'[c] # NoRow, ~rows'[c].active
             PROVE  \/ c \in cut'
                    \/ \E h \in Handlers : /\ pc'[h] = "cleanup" /\ req'[h].client = c
                                          /\ req'[h].kind \in {"off", "delete"}
  BY DEF RevokedWithClient, Exists, Of
<1> USE DEF tables, pageVars, histories
<1> DEFINE Goal == \/ c \in cut'
                   \/ \E h \in Handlers : /\ pc'[h] = "cleanup" /\ req'[h].client = c
                                         /\ req'[h].kind \in {"off", "delete"}
<1>1. ASSUME rows'[c] = rows[c], c \in legacy, NEW h \in Handlers,
             \A g \in Handlers \ {h} : /\ pc'[g] = pc[g] /\ req'[g].kind = req[g].kind
                                     /\ req'[g].client = req[g].client,
             c \in cut => c \in cut',
             Owes(h, c) => c \in cut'
      PROVE  Goal
  BY <1>1 DEF RevokedWithClient, Owes, Of, Exists
<1>2. ASSUME rows'[c] = rows[c], NEW h \in Handlers, Still(h) \/ pc[h] # "cleanup",
             \A g \in Handlers \ {h} : Still(g), UNCHANGED <<legacy, cut>>
      PROVE  Goal
  BY <1>2 DEF RevokedWithClient, Still, Of, Exists
<1>3. ASSUME NEW h \in Handlers, Writer(h) PROVE Goal
  <2>1. PICK d, row : Wrote(h, d, row)
    BY <1>3, Written
  <2>2. \A g \in Handlers \ {h} : Still(g)
    BY <2>1, Moved DEF Wrote
  <2>3. CASE c # d
    BY <1>2, <2>1, <2>2, <2>3 DEF Wrote, TypeOK
  <2>4. CASE c = d /\ req[h].kind \in {"off", "delete"}
    <3>1. pc'[h] = "cleanup" /\ req'[h] = req[h]
      BY <2>1, <2>4, Moved DEF Wrote
    <3> QED BY <2>1, <2>4, <3>1 DEF Wrote
  <2>5. CASE c = d /\ req[h].kind \notin {"off", "delete"}
    <3>1. rows'[c] = row /\ rows[c] \in Row /\ row.active = rows[c].active
      BY <2>1, <2>5 DEF Wrote, Effect, TypeOK
    <3>2. rows[c] # NoRow /\ ~rows[c].active /\ pc[h] # "cleanup"
      BY <2>1, <3>1, RowsApart DEF Wrote
    <3> QED BY <2>1, <2>2, <3>2 DEF RevokedWithClient, Wrote, Still, Of, Exists
  <2> QED BY <2>3, <2>4, <2>5
\* The sessions of the client are gone.
<1>4. ASSUME NEW h \in Handlers, RevokeAllClientSessions(h) PROVE Goal
  <2>1. /\ UNCHANGED rows /\ legacy' = legacy \ {req[h].client} /\ cut' = cut \ {req[h].client}
        /\ Goto(h, "answer")
    BY <1>4 DEF RevokeAllClientSessions
  <2>2. c \in legacy /\ c # req[h].client
    BY <2>1
  <2>3. \A g \in Handlers \ {h} : Still(g)
    BY <2>1, GotoMoves, Moved
  <2> QED BY <1>1, <2>1, <2>2, <2>3 DEF Owes, Still
\* The revocation of one session leaves the others to whom they are owed.
<1>12. ASSUME NEW h \in Handlers, DeleteSession(h) PROVE Goal
  <2>1. UNCHANGED <<rows, cut>> /\ legacy' \subseteq legacy /\ Goto(h, "answer")
    BY <1>12 DEF DeleteSession
  <2>2. \A g \in Handlers \ {h} : Still(g)
    BY <2>1, GotoMoves, Moved
  <2>3. ~Owes(h, c)
    BY <1>12 DEF DeleteSession, Owes, Of
  <2> QED BY <1>1, <2>1, <2>2, <2>3 DEF Still
<1>5. ASSUME NEW h \in Handlers, Quiet(h), ~DeleteSession(h), ~RevokeAllClientSessions(h) PROVE Goal
  <2>1. pc[h] # "cleanup" /\ UNCHANGED <<rows, legacy, cut>>
    BY <1>5 DEF Quiet, RevokeSession, ListClients, NotFound, Reject, Lookup, Grant
  <2>2. \A g \in Handlers \ {h} : Still(g)
    BY <1>5, QuietMoves, Moved DEF Served, Ended
  <2> QED BY <1>2, <2>1, <2>2
<1>6. ASSUME NEW h \in Handlers, Calls(h) \/ Clicks(h) PROVE Goal
  <2>1. pc[h] = "idle" /\ UNCHANGED <<rows, legacy, cut>> /\ \A g \in Handlers \ {h} : Still(g)
    BY <1>6, CallsBegin, ClicksBegin, Moved
  <2> QED BY <1>2, <2>1
<1>7. ASSUME NEW h \in Handlers, Reload(h) PROVE Goal
  <2>1. UNCHANGED <<rows, legacy, cut>> /\ ~Owes(h, c)
    BY <1>7, ReloadTyped DEF Reload, Owes
  <2> QED BY <1>1, <1>7, <2>1, ReloadTyped
<1>8. ASSUME NEW h \in Handlers, Refetch(h) \/ ShowList(h) \/ ShowSecret(h) \/ Answered(h)
      PROVE  Goal
  <2>1. pc[h] # "cleanup" /\ UNCHANGED <<rows, legacy, cut>>
    BY <1>8 DEF Refetch, ShowList, ShowSecret, Answered
  <2>2. \A g \in Handlers \ {h} : Still(g)
    BY <1>8, PageMoves, Moved DEF Ended
  <2> QED BY <1>2, <2>1, <2>2
\* A deactivation or a deletion that is cut off is noted.
<1>9. ASSUME NEW h \in Handlers, Abort(h) PROVE Goal
  <2>1. UNCHANGED <<rows, legacy>> /\ (c \in cut => c \in cut') /\ (Owes(h, c) => c \in cut')
    BY <1>9 DEF Abort, Owes
  <2>2. \A g \in Handlers \ {h} : Still(g)
    BY <1>9, PageMoves, Moved DEF Ended
  <2> QED BY <1>1, <2>1, <2>2 DEF Still
<1>10. CASE UNCHANGED vars
  BY <1>10 DEF vars, RevokedWithClient, Of, Exists
<1>11. CASE Next
  <2>1. PICK h \in Handlers :
          \/ Writer(h) \/ Quiet(h) \/ Calls(h) \/ Clicks(h)
          \/ Reload(h) \/ Refetch(h) \/ ShowList(h) \/ ShowSecret(h) \/ Answered(h) \/ Abort(h)
    BY <1>11, Steps
  <2>2. CASE Quiet(h)
    BY <1>4, <1>5, <1>12, <2>2
  <2> QED BY <1>3, <1>6, <1>7, <1>8, <1>9, <2>1, <2>2
<1> QED BY <1>10, <1>11

-----------------------------------------------------------------------------
(* The page *)

Fetches(label, r) == label # "idle" /\ r.page /\ r.kind = "list"
WillFetch(label, r) == label \notin {"idle", "run"} /\ r.page
                       /\ r.kind \in {"update", "on", "off", "delete"}
Rotates(label, r) == label # "idle" /\ r.page /\ r.kind = "rotate"

\* ListInv and SecretInv, in these words.
LEMMA ListParts ==
  /\ ListInv <=>
       (~disturbed =>
          /\ \A g, h \in Handlers : Fetches(pc[g], req[g]) /\ Fetches(pc[h], req[h]) => g = h
          /\ \/ \E h \in Handlers : WillFetch(pc[h], req[h])
             \/ /\ \A h \in Handlers : Fetches(pc[h], req[h]) /\ pc[h] = "answer"
                                         => req[h].got = Listed(Me)
                /\ list = Listed(Me) \/ \E h \in Handlers : Fetches(pc[h], req[h]))
  /\ ListInv' <=>
       (~disturbed' =>
          /\ \A g, h \in Handlers : Fetches(pc'[g], req'[g]) /\ Fetches(pc'[h], req'[h]) => g = h
          /\ \/ \E h \in Handlers : WillFetch(pc'[h], req'[h])
             \/ /\ \A h \in Handlers : Fetches(pc'[h], req'[h]) /\ pc'[h] = "answer"
                                         => req'[h].got = Listed(Me)'
                /\ list' = Listed(Me)' \/ \E h \in Handlers : Fetches(pc'[h], req'[h]))
BY DEF ListInv, Fetches, WillFetch, Fetching, Refetches, FromPage, Of

LEMMA SecretParts ==
  /\ SecretInv <=>
       (~disturbed =>
          /\ \A g, h \in Handlers : Rotates(pc[g], req[g]) /\ Rotates(pc[h], req[h]) => g = h
          /\ \A h \in Handlers : Rotates(pc[h], req[h]) /\ pc[h] = "answer" =>
               rows[req[h].client].owner = Me /\ req[h].got = rows[req[h].client].secret
          /\ \A c \in Clients : known[c] # None =>
               /\ rows[c].owner = Me
               /\ \/ known[c] = rows[c].secret
                  \/ \E h \in Handlers : /\ Rotates(pc[h], req[h]) /\ pc[h] = "answer"
                                        /\ req[h].client = c)
  /\ SecretInv' <=>
       (~disturbed' =>
          /\ \A g, h \in Handlers : Rotates(pc'[g], req'[g]) /\ Rotates(pc'[h], req'[h]) => g = h
          /\ \A h \in Handlers : Rotates(pc'[h], req'[h]) /\ pc'[h] = "answer" =>
               rows'[req'[h].client].owner = Me /\ req'[h].got = rows'[req'[h].client].secret
          /\ \A c \in Clients : known'[c] # None =>
               /\ rows'[c].owner = Me
               /\ \/ known'[c] = rows'[c].secret
                  \/ \E h \in Handlers : /\ Rotates(pc'[h], req'[h]) /\ pc'[h] = "answer"
                                        /\ req'[h].client = c)
BY DEF SecretInv, Rotates, Rotating, FromPage, Of, Mine

\* A step that neither begins a fetch nor takes the answer of one, and whose write does
\* not show in the list.
LEMMA ListFrame ==
  ASSUME ListInv, NEW h \in Handlers, \A g \in Handlers \ {h} : Still(g),
         Listed(Me)' = Listed(Me), list' = list, disturbed => disturbed',
         Fetches(pc'[h], req'[h]) =>
           /\ Fetches(pc[h], req[h])
           /\ pc'[h] = "answer" => req'[h].got = Listed(Me),
         Fetches(pc[h], req[h]) => disturbed' \/ Fetches(pc'[h], req'[h]),
         WillFetch(pc[h], req[h]) => disturbed' \/ WillFetch(pc'[h], req'[h])
  PROVE  ListInv'
BY ListParts DEF Still

\* A step that neither makes a new secret of the page's developer nor takes its answer.
LEMMA SecretFrame ==
  ASSUME SecretInv, TypeOK, RequestInv, NEW h \in Handlers, \A g \in Handlers \ {h} : Still(g),
         \A c \in Clients : rows[c].owner = Me =>
           rows'[c].owner = Me /\ rows'[c].secret = rows[c].secret,
         known' = known, disturbed => disturbed',
         ~Rotates(pc'[h], req'[h]),
         Rotates(pc[h], req[h]) => disturbed' \/ pc[h] # "answer"
  PROVE  SecretInv'
<1>1. \A g \in Handlers : Rotates(pc[g], req[g]) => req[g].client \in Clients
  BY RequestsFit DEF Rotates, Fits, Writes
<1> QED BY <1>1, SecretParts DEF Still

\* What a write does to the list and to the secrets of the page's developer.
LEMMA WrittenFresh ==
  ASSUME TypeOK, RequestInv, NEW h \in Handlers, NEW c, NEW row, Wrote(h, c, row)
  PROVE  /\ req[h].page => req[h].dev = Me
                           /\ req[h].kind \in {"update", "on", "off", "delete", "rotate"}
         /\ rows'[c] = row /\ \A b \in Clients \ {c} : rows'[b] = rows[b]
         /\ rows[c].owner = Me => row.owner = Me /\ req[h].kind # "create"
         /\ req[h].dev # Me \/ req[h].kind = "rotate" => Listed(Me)' = Listed(Me)
<1>1. req[h].page => req[h].dev = Me
                     /\ req[h].kind \in {"update", "on", "off", "delete", "rotate"}
  <2>1. Fits(pc[h], req[h])
    BY RequestsFit
  <2> QED BY <2>1, ClientAssumption DEF Wrote, Fits, Effect
<1>2. rows'[c] = row /\ \A b \in Clients \ {c} : rows'[b] = rows[b]
  BY DEF Wrote, TypeOK
<1>3. rows[c].owner = Me => row.owner = Me /\ req[h].kind # "create"
  BY RowsApart, ClientAssumption DEF Wrote, Effect
<1>4. CASE req[h].dev # Me
  <2>1. rows[c].owner # Me /\ rows'[c].owner # Me
    BY <1>2, <1>3, <1>4 DEF Wrote
  <2> QED BY <1>1, <1>2, <1>3, <2>1 DEF Listed, Mine
<1>5. CASE req[h].kind = "rotate"
  <2>1. /\ rows'[c].owner = rows[c].owner /\ rows'[c].active = rows[c].active
        /\ rows'[c].deleted = rows[c].deleted /\ rows'[c].uris = rows[c].uris
    BY <1>2, <1>5 DEF Wrote, Effect
  <2> QED BY <1>1, <1>2, <1>3, <2>1 DEF Listed, Mine
<1> QED BY <1>1, <1>2, <1>3, <1>4, <1>5

LEMMA WrittenList ==
  ASSUME TypeOK, RequestInv, ListInv, NEW h \in Handlers, NEW c, NEW row, Wrote(h, c, row)
  PROVE  ListInv'
<1>1. CASE req[h].dev = Me /\ ~req[h].page
  BY <1>1, ListParts DEF Wrote
<1> SUFFICES ASSUME req[h].dev # Me \/ req[h].page PROVE ListInv'
  BY <1>1
<1>2. \A g \in Handlers \ {h} : Still(g)
  BY Moved DEF Wrote
<1>3. req'[h].page = req[h].page /\ req'[h].kind = req[h].kind /\ pc'[h] \in {"cleanup", "answer"}
  <2> DEFINE got == row.secret
  <2>1. got \in Got
    BY DEF Wrote, Row, Got
  <2> HIDE DEF got
  <2> DEFINE q == [req[h] EXCEPT !.got = got]
  <2>2. q.page = req[h].page /\ q.kind = req[h].kind
    BY <2>1, Updates DEF Wrote
  <2>3. Move(h, "cleanup", req[h]) \/ Move(h, "answer", req[h]) \/ Move(h, "answer", q)
    BY DEF Wrote, got
  <2> HIDE DEF q
  <2> QED BY <2>2, <2>3, Moved
<1>4. CASE ~req[h].page \/ req[h].kind = "rotate"
  <2>1. ~Fetches(pc'[h], req'[h]) /\ ~WillFetch(pc[h], req[h]) /\ ~Fetches(pc[h], req[h])
    BY <1>3, <1>4 DEF Fetches, WillFetch
  <2>2. Listed(Me)' = Listed(Me) /\ list' = list /\ (disturbed => disturbed')
    BY <1>4, WrittenFresh DEF Wrote
  <2> QED BY <1>2, <2>1, <2>2, ListFrame
<1>5. CASE req[h].page /\ req[h].kind # "rotate"
  <2>1. req[h].kind \in {"update", "on", "off", "delete"}
    BY <1>5, WrittenFresh
  <2>2. WillFetch(pc'[h], req'[h]) /\ ~Fetches(pc'[h], req'[h]) /\ ~Fetches(pc[h], req[h])
    BY <1>3, <1>5, <2>1 DEF Fetches, WillFetch
  <2>3. disturbed => disturbed'
    BY DEF Wrote
  <2> QED BY <1>2, <2>2, <2>3, ListParts DEF Still
<1> QED BY <1>4, <1>5

LEMMA WrittenSecret ==
  ASSUME TypeOK, RequestInv, SecretInv, NEW h \in Handlers, NEW c, NEW row, Wrote(h, c, row)
  PROVE  SecretInv'
<1>1. CASE req[h].dev = Me /\ ~req[h].page
  BY <1>1, SecretParts DEF Wrote
<1> SUFFICES ASSUME req[h].dev # Me \/ req[h].page PROVE SecretInv'
  BY <1>1
<1>2. (\A g \in Handlers \ {h} : Still(g)) /\ known' = known /\ (disturbed => disturbed')
  BY Moved DEF Wrote
<1>3. /\ rows'[c] = row /\ \A b \in Clients \ {c} : rows'[b] = rows[b]
      /\ rows[c].owner = Me => row.owner = Me /\ req[h].kind # "create"
  BY WrittenFresh
<1>4. CASE req[h].page /\ req[h].kind = "rotate"
  <2> DEFINE q == [req[h] EXCEPT !.got = row.secret]
  <2>1. Move(h, "answer", q) /\ row.owner = Me
    BY <1>4, WrittenFresh DEF Wrote
  <2>2. q.page /\ q.kind = "rotate" /\ q.client = c /\ q.got = row.secret
    <3> DEFINE got == row.secret
    <3>1. got \in Got
      BY DEF Wrote, Row, Got
    <3> HIDE DEF got
    <3>2. LET p == [req[h] EXCEPT !.got = got] IN
            p.page = req[h].page /\ p.kind = req[h].kind /\ p.client = c /\ p.got = got
      BY <3>1, Updates DEF Wrote
    <3> QED BY <1>4, <3>2 DEF got
  <2> HIDE DEF q
  <2>3. Rotates(pc'[h], req'[h]) /\ pc'[h] = "answer" /\ req'[h] = q /\ Rotates(pc[h], req[h])
    BY <1>4, <2>1, <2>2, Moved DEF Rotates, Wrote
  <2> SUFFICES ASSUME ~disturbed, ~disturbed' PROVE SecretInv'
    BY <1>2, SecretParts
  <2>4. pc[h] = "run" /\ \A g \in Handlers : Rotates(pc[g], req[g]) => g = h
    BY <2>3, SecretParts DEF Wrote
  <2>5. \A g \in Handlers : Rotates(pc'[g], req'[g]) => g = h
    BY <1>2, <2>4 DEF Still
  <2>6. ASSUME NEW b \in Clients, known'[b] # None
        PROVE  rows'[b].owner = Me /\ (b # c => known'[b] = rows'[b].secret)
    <3>1. rows[b].owner = Me /\ known[b] = rows[b].secret
      BY <1>2, <2>4, <2>6, SecretParts
    <3> QED BY <1>2, <1>3, <2>1, <3>1
  <2>7. rows'[c].owner = Me /\ req'[h].got = rows'[c].secret /\ req'[h].client = c
    BY <1>3, <2>1, <2>2, <2>3
  <2> QED BY <2>3, <2>5, <2>6, <2>7, SecretParts
<1>5. CASE ~(req[h].page /\ req[h].kind = "rotate")
  <2>1. ~Rotates(pc'[h], req'[h]) /\ ~Rotates(pc[h], req[h])
    <3> DEFINE got == row.secret
    <3>1. got \in Got
      BY DEF Wrote, Row, Got
    <3> HIDE DEF got
    <3> DEFINE q == [req[h] EXCEPT !.got = got]
    <3>2. q.page = req[h].page /\ q.kind = req[h].kind
      BY <3>1, Updates DEF Wrote
    <3>3. Move(h, "cleanup", req[h]) \/ Move(h, "answer", req[h]) \/ Move(h, "answer", q)
      BY DEF Wrote, got
    <3> HIDE DEF q
    <3> QED BY <1>5, <3>2, <3>3, Moved DEF Rotates
  <2>2. rows[c].owner = Me => row.secret = rows[c].secret
    <3>1. ASSUME rows[c].owner = Me PROVE req[h].kind \notin {"create", "rotate"}
      BY <1>3, <1>5, <3>1, RowsApart, ClientAssumption DEF Wrote, Effect
    <3> QED BY <3>1 DEF Wrote, Effect
  <2> QED BY <1>2, <1>3, <2>1, <2>2, SecretFrame
<1> QED BY <1>4, <1>5

\* One step of the page, or of a request that is not a write.
LEMMA QuietPage ==
  ASSUME TypeOK, RequestInv, ListInv, SecretInv, NEW h \in Handlers,
         Quiet(h) \/ Calls(h) \/ Clicks(h)
  PROVE  ListInv' /\ SecretInv'
<1> USE DEF tables, pageVars, histories
<1>1. Fits(pc[h], req[h])
  BY RequestsFit
<1>2. ASSUME UNCHANGED <<rows, list, known>>, disturbed => disturbed',
             \A g \in Handlers \ {h} : Still(g),
             Fetches(pc'[h], req'[h]) =>
               Fetches(pc[h], req[h]) /\ (pc'[h] = "answer" => req'[h].got = Listed(Me)),
             Fetches(pc[h], req[h]) => Fetches(pc'[h], req'[h]),
             WillFetch(pc[h], req[h]) => WillFetch(pc'[h], req'[h]),
             ~Rotates(pc'[h], req'[h]), Rotates(pc[h], req[h]) => pc[h] # "answer"
      PROVE  ListInv' /\ SecretInv'
  <2>1. Listed(Me)' = Listed(Me)
    BY <1>2 DEF Listed, Mine
  <2>2. ListInv'
    BY <1>2, <2>1, ListFrame
  <2>3. SecretInv'
    BY <1>2, SecretFrame
  <2> QED BY <2>2, <2>3
<1>3. CASE Quiet(h)
  <2>1. UNCHANGED <<rows, list, known, disturbed>>
    BY <1>3, QuietMoves
  <2>2. CASE RevokeSession(h)
    <3>1. PICK l \in {"cleanup", "answer"} : Move(h, l, req[h])
      BY <2>2, GotoMoves DEF RevokeSession
    <3>2. req[h].kind = "revoke"
      BY <2>2 DEF RevokeSession, Of
    <3> QED BY <1>2, <2>1, <3>1, <3>2, Moved DEF Fetches, WillFetch, Rotates
  <2>3. CASE DeleteSession(h) \/ RevokeAllClientSessions(h)
    <3>1. pc[h] = "cleanup" /\ Move(h, "answer", req[h])
      BY <2>3, GotoMoves DEF DeleteSession, RevokeAllClientSessions
    <3>2. req[h].kind \in {"off", "delete", "revoke"}
      BY <1>1, <3>1 DEF Fits
    <3> QED BY <1>2, <2>1, <3>1, <3>2, Moved DEF Fetches, WillFetch, Rotates
  <2>4. CASE ListClients(h)
    <3>1. pc[h] = "run" /\ req[h].kind = "list"
          /\ Move(h, "answer", [req[h] EXCEPT !.got = Listed(req[h].dev)])
      BY <2>4 DEF ListClients, Of, Answer, Move
    <3> DEFINE got == Listed(req[h].dev)
    <3>2. req[h] \in Request /\ got \in Got
      BY <1>1, <3>1, Running, ListedTyped DEF Fits, Got
    <3>3. req[h].page => got = Listed(Me)
      BY <1>1 DEF Fits
    <3> HIDE DEF got
    <3> DEFINE q == [req[h] EXCEPT !.got = got]
    <3>4. q.got = got /\ q.kind = "list" /\ q.page = req[h].page
      BY <3>1, <3>2, Updates
    <3>5. Move(h, "answer", q)
      BY <3>1 DEF got
    <3> HIDE DEF q
    <3>6. pc'[h] = "answer" /\ req'[h] = q /\ \A g \in Handlers \ {h} : Still(g)
      BY <3>5, Moved
    <3> QED BY <1>2, <2>1, <3>1, <3>3, <3>4, <3>6 DEF Fetches, WillFetch, Rotates
  <2>5. CASE NotFound(h) \/ Lookup(h) \/ Grant(h)
    <3>1. req[h].kind \in Grants \/ (req[h].kind \in Writes /\ pc[h] = "run")
      BY <1>1, <2>5 DEF NotFound, Lookup, Grant, Fits, Of
    <3>2. req[h].kind \in Grants => ~req[h].page
      BY <1>1 DEF Fits, Grants
    <3>3. \/ Move(h, "idle", NoRequest)
          \/ Move(h, "grant", req[h]) /\ req[h].kind \in Grants
      BY <2>5, GotoMoves DEF NotFound, Reject, Lookup, Grant, End, Move, Of
    <3>4. \/ pc'[h] = "idle"
          \/ req'[h] = req[h] /\ req[h].kind \in Grants
      BY <3>3, Moved
    <3>5. ~Fetches(pc'[h], req'[h]) /\ ~Rotates(pc'[h], req'[h])
      BY <3>2, <3>4 DEF Fetches, Rotates
    <3>6. ~Fetches(pc[h], req[h]) /\ ~WillFetch(pc[h], req[h])
          /\ (Rotates(pc[h], req[h]) => pc[h] # "answer")
      BY <3>1, <3>2 DEF Fetches, WillFetch, Rotates, Writes
    <3>7. \A g \in Handlers \ {h} : Still(g)
      BY <3>3, Moved
    <3> QED BY <1>2, <2>1, <3>5, <3>6, <3>7
  <2> QED BY <1>3, <2>2, <2>3, <2>4, <2>5 DEF Quiet
<1>4. CASE Calls(h)
  BY <1>2, <1>4, CallsBegin, Moved DEF Fetches, WillFetch, Rotates
\* A new secret is asked for: no other one is under way.
<1>5. CASE Clicks(h)
  <2>1. PICK r \in Request :
          Move(h, "run", r) /\ r.kind \in Writes /\ (r.kind = "rotate" /\ Overlap({"rotate"}, h) => disturbed')
    BY <1>5, ClicksBegin
  <2>2. pc[h] = "idle" /\ (disturbed => disturbed') /\ UNCHANGED <<rows, list, known>>
    BY <1>5, ClicksBegin
  <2>3. pc'[h] = "run" /\ req'[h] = r /\ \A g \in Handlers \ {h} : Still(g)
    BY <2>1, Moved
  <2>4. /\ ~Fetches(pc[h], req[h]) /\ ~WillFetch(pc[h], req[h]) /\ ~Rotates(pc[h], req[h])
        /\ ~Fetches(pc'[h], req'[h])
    BY <2>1, <2>2, <2>3 DEF Fetches, WillFetch, Rotates, Writes
  <2>5. Listed(Me)' = Listed(Me)
    BY <2>2 DEF Listed, Mine
  <2>6. ListInv'
    BY <2>2, <2>3, <2>4, <2>5, ListFrame
  <2>7. ASSUME Rotates(pc'[h], req'[h]) PROVE SecretInv'
    <3>1. \A g \in Handlers \ {h} : ~disturbed' => ~Rotates(pc[g], req[g])
      BY <2>1, <2>3, <2>7 DEF Rotates, Overlap, FromPage, Of
    <3> SUFFICES ASSUME ~disturbed, ~disturbed' PROVE SecretInv'
      BY <2>2, SecretParts
    <3>2. \A g \in Handlers : Rotates(pc'[g], req'[g]) => g = h /\ pc'[g] # "answer"
      BY <2>3, <3>1 DEF Still
    <3>3. \A c \in Clients : known'[c] # None =>
            rows'[c].owner = Me /\ known'[c] = rows'[c].secret
      BY <2>2, <2>4, <3>1, SecretParts
    <3> QED BY <3>2, <3>3, SecretParts
  <2>8. ASSUME ~Rotates(pc'[h], req'[h]) PROVE SecretInv'
    <3>1. \A c \in Clients : rows[c].owner = Me =>
            rows'[c].owner = Me /\ rows'[c].secret = rows[c].secret
      BY <2>2
    <3>2. known' = known /\ (disturbed => disturbed')
      BY <2>2
    <3> QED BY <2>3, <2>4, <2>8, <3>1, <3>2, SecretFrame
  <2> QED BY <2>6, <2>7, <2>8
<1> QED BY <1>3, <1>4, <1>5

\* The answers, a fetch after a write, and a page that is loaded again.
LEMMA PageFresh ==
  ASSUME TypeOK, RequestInv, ListInv, SecretInv, NEW h \in Handlers,
         Reload(h) \/ Refetch(h) \/ ShowList(h) \/ ShowSecret(h) \/ Answered(h) \/ Abort(h)
  PROVE  ListInv' /\ SecretInv'
<1> USE DEF tables, pageVars, histories
<1>1. Fits(pc[h], req[h])
  BY RequestsFit
<1>2. CASE Reload(h)
  <2>1. \A g \in Handlers \ {h} : ~req'[g].page
    BY <1>2, ReloadTyped
  <2>2. pc'[h] = "run" /\ Fetches(pc'[h], req'[h]) /\ ~Rotates(pc'[h], req'[h])
    BY <1>2, ReloadTyped, FetchTyped DEF Fetches, Rotates
  <2>3. \A c \in Clients : known'[c] = None
    BY <1>2 DEF Reload
  <2>4. ListInv'
    BY <2>1, <2>2, ListParts DEF Fetches
  <2>5. SecretInv'
    BY <2>1, <2>2, <2>3, SecretParts DEF Rotates
  <2> QED BY <2>4, <2>5
<1>3. CASE Refetch(h)
  <2>1. UNCHANGED <<rows, list, known>> /\ Refetches(h) /\ pc[h] = "answer"
        /\ disturbed' = (disturbed \/ Overlap({"list"}, h)) /\ Move(h, "run", Fetch(None))
    BY <1>3, PageMoves DEF Refetch
  <2>2. pc'[h] = "run" /\ req'[h] = Fetch(None) /\ \A g \in Handlers \ {h} : Still(g)
    BY <2>1, Moved
  <2>3. Fetches(pc'[h], req'[h]) /\ ~Rotates(pc'[h], req'[h]) /\ ~Rotates(pc[h], req[h])
    BY <2>1, <2>2, FetchTyped DEF Fetches, Rotates, Refetches, Of
  <2>4. ~disturbed' => \A g \in Handlers \ {h} : ~Fetches(pc[g], req[g])
    BY <2>1 DEF Overlap, Fetches, FromPage, Of
  <2>5. ListInv'
    BY <2>2, <2>3, <2>4, ListParts DEF Still
  <2>6. SecretInv'
    BY <2>1, <2>2, <2>3, SecretFrame
  <2> QED BY <2>5, <2>6
<1>4. CASE ShowList(h)
  <2>1. /\ UNCHANGED <<rows, known, disturbed>> /\ Fetches(pc[h], req[h]) /\ pc[h] = "answer"
        /\ list' = req[h].got /\ Move(h, "idle", NoRequest)
    BY <1>4, PageMoves DEF ShowList, Fetching, FromPage, Of, Fetches, Ended
  <2>2. pc'[h] = "idle" /\ \A g \in Handlers \ {h} : Still(g)
    BY <2>1, Moved
  <2>3. Listed(Me)' = Listed(Me)
    BY <2>1 DEF Listed, Mine
  <2>4. ~WillFetch(pc[h], req[h]) /\ ~Rotates(pc[h], req[h]) /\ ~Rotates(pc'[h], req'[h])
        /\ ~Fetches(pc'[h], req'[h])
    BY <2>1, <2>2 DEF Fetches, WillFetch, Rotates
  <2>5. ListInv'
    BY <2>1, <2>2, <2>3, <2>4, ListParts DEF Still
  <2>6. SecretInv'
    BY <2>1, <2>2, <2>4, SecretFrame
  <2> QED BY <2>5, <2>6
<1>5. CASE ShowSecret(h)
  <2>1. /\ UNCHANGED <<rows, list, disturbed>> /\ Rotates(pc[h], req[h]) /\ pc[h] = "answer"
        /\ known' = [known EXCEPT ![req[h].client] = req[h].got] /\ Move(h, "idle", NoRequest)
    BY <1>5, PageMoves DEF ShowSecret, FromPage, Of, Rotates, Ended
  <2>2. pc'[h] = "idle" /\ \A g \in Handlers \ {h} : Still(g)
    BY <2>1, Moved
  <2>3. Listed(Me)' = Listed(Me)
    BY <2>1 DEF Listed, Mine
  <2>4. /\ ~WillFetch(pc[h], req[h]) /\ ~Fetches(pc[h], req[h])
        /\ ~Fetches(pc'[h], req'[h]) /\ ~Rotates(pc'[h], req'[h])
    BY <2>1, <2>2 DEF Fetches, WillFetch, Rotates
  <2>5. ListInv'
    BY <2>1, <2>2, <2>3, <2>4, ListFrame
  <2>6. SecretInv'
    <3> SUFFICES ASSUME ~disturbed PROVE SecretInv'
      BY <2>1, SecretParts
    <3>1. req[h].client \in Clients
      BY <1>1, <2>1 DEF Fits, Rotates, Writes
    <3>2. \A g \in Handlers : ~Rotates(pc'[g], req'[g])
      BY <2>1, <2>2, <2>4, SecretParts DEF Still
    <3>3. ASSUME NEW c \in Clients, known'[c] # None
          PROVE  rows'[c].owner = Me /\ known'[c] = rows'[c].secret
      <4>1. CASE c = req[h].client
        BY <2>1, <3>1, <4>1, SecretParts DEF TypeOK
      <4>2. CASE c # req[h].client
        <5>1. known'[c] = known[c]
          BY <2>1, <3>1, <4>2 DEF TypeOK
        <5> QED BY <2>1, <3>3, <4>2, <5>1, SecretParts
      <4> QED BY <4>1, <4>2
    <3> QED BY <3>2, <3>3, SecretParts
  <2> QED BY <2>5, <2>6
<1>6. CASE Answered(h) \/ Abort(h)
  <2>1. UNCHANGED <<rows, list, known>> /\ (disturbed => disturbed')
    <3>1. CASE Answered(h)
      BY <3>1 DEF Answered
    <3>2. CASE Abort(h)
      <4>1. UNCHANGED <<rows, list, known>>
        BY <3>2 DEF Abort
      <4>2. disturbed => disturbed'
        BY <3>2 DEF Abort
      <4> QED BY <4>1, <4>2
    <3> QED BY <1>6, <3>1, <3>2
  <2>2. pc'[h] = "idle" /\ \A g \in Handlers \ {h} : Still(g)
    <3>1. Ended(h)
      BY <1>6, PageMoves
    <3> QED BY <3>1, Moved DEF Ended
  <2>3. ~Fetches(pc'[h], req'[h]) /\ ~Rotates(pc'[h], req'[h])
    BY <2>2 DEF Fetches, Rotates
  <2>4. /\ Fetches(pc[h], req[h]) => disturbed'
        /\ WillFetch(pc[h], req[h]) => disturbed'
        /\ Rotates(pc[h], req[h]) => disturbed' \/ pc[h] # "answer"
    BY <1>6 DEF Answered, Abort, Fetches, WillFetch, Rotates, Refetches, Fetching, FromPage, Of
  <2>5. Listed(Me)' = Listed(Me)
    BY <2>1 DEF Listed, Mine
  <2>6. ListInv'
    BY <2>1, <2>2, <2>3, <2>4, <2>5, ListFrame
  <2>7. SecretInv'
    BY <2>1, <2>2, <2>3, <2>4, SecretFrame
  <2> QED BY <2>6, <2>7
<1> QED BY <1>2, <1>3, <1>4, <1>5, <1>6

LEMMA FreshStep ==
  TypeOK /\ RequestInv /\ ListInv /\ SecretInv /\ [Next]_vars => ListInv' /\ SecretInv'
<1> SUFFICES ASSUME TypeOK, RequestInv, ListInv, SecretInv, [Next]_vars
             PROVE  ListInv' /\ SecretInv'
  OBVIOUS
<1>1. CASE UNCHANGED vars
  <2>1. Listed(Me)' = Listed(Me)
    BY <1>1 DEF vars, tables, Listed, Mine
  <2> QED BY <1>1, <2>1, ListParts, SecretParts DEF vars, tables, pageVars, histories
<1>2. CASE Next
  <2>1. PICK h \in Handlers :
          \/ Writer(h) \/ Quiet(h) \/ Calls(h) \/ Clicks(h)
          \/ Reload(h) \/ Refetch(h) \/ ShowList(h) \/ ShowSecret(h) \/ Answered(h) \/ Abort(h)
    BY <1>2, Steps
  <2>2. CASE Writer(h)
    <3>1. PICK c, row : Wrote(h, c, row)
      BY <2>2, Written
    <3> QED BY <3>1, WrittenList, WrittenSecret
  <2> QED BY <2>1, <2>2, QuietPage, PageFresh
<1> QED BY <1>1, <1>2

-----------------------------------------------------------------------------
(* Theorems *)

LEMMA Invariants ==
  Spec => [](TypeOK /\ RequestInv /\ LiveInv /\ RevokedWithClient /\ ListInv /\ SecretInv)
<1>1. Init => TypeOK /\ RequestInv /\ LiveInv /\ RevokedWithClient /\ ListInv /\ SecretInv
  <2> SUFFICES ASSUME Init
               PROVE  TypeOK /\ RequestInv /\ LiveInv /\ RevokedWithClient /\ ListInv /\ SecretInv
    OBVIOUS
  <2>1. \A c \in Clients : rows[c] = NoRow
           \/ (rows[c] \in Row /\ rows[c].active = TRUE /\ rows[c].deleted = FALSE)
    BY DEF Init, Row
  <2>2. rows \in [Clients -> Row \cup {NoRow}]
    BY <2>1 DEF Init
  <2>3. TypeOK
    BY <2>2 DEF Init, TypeOK, Lists
  <2>4. RequestInv
    BY NoRequestFits, RequestsFit DEF Init
  <2>5. LiveInv
    BY <2>1, NoRequestApart DEF Init, LiveInv, Exists, Of, Grants
  <2>6. RevokedWithClient
    BY <2>1 DEF Init, RevokedWithClient, Exists
  <2>7. ListInv /\ SecretInv
    BY DEF Init, ListInv, SecretInv
  <2> QED BY <2>3, <2>4, <2>5, <2>6, <2>7
<1>2. TypeOK /\ RequestInv /\ LiveInv /\ RevokedWithClient /\ ListInv /\ SecretInv /\ [Next]_vars
        => (TypeOK /\ RequestInv /\ LiveInv /\ RevokedWithClient /\ ListInv /\ SecretInv)'
  BY TypeStep, LiveStep, RevokeStep, FreshStep
<1> QED BY <1>1, <1>2, PTL DEF Spec

\* TypeOK: the clients' rows, the requests on them and the page of a developer keep the
\* shapes of client.service.ts and ClientManager.svelte.
THEOREM TypeCorrect == Spec => []TypeOK
BY Invariants, PTL

\* GrantsNeedLiveClient: getClientConfig (the registry) looks at isActive only, some
\* awaits before the row of the request, the session or the tokens is written; still
\* every such row is of a client that was active and not deleted during the request, or of
\* an id of HARDENED_CLIENT_REGISTRY, which is looked at first and never changes.
THEOREM GrantsCorrect == Spec => []GrantsNeedLiveClient
<1>1. RequestInv /\ LiveInv => GrantsNeedLiveClient
  BY DEF RequestInv, LiveInv, GrantsNeedLiveClient
<1> QED BY <1>1, Invariants, PTL

\* RevokedWithClient: a client that ClientService has deactivated or deleted keeps no
\* row in sessions, once the delete that follows is through.
THEOREM RevokedCorrect == Spec => []RevokedWithClient
BY Invariants, PTL

\* QuietPageIsFresh: fetchClients after each write of ClientManager.svelte, and the alert
\* with a rotated secret, leave a page without requests in flight with the rows and the
\* secrets of the database, unless somebody else wrote them, a request failed half way,
\* or two fetches or two rotations of the page overlapped.
THEOREM PageCorrect == Spec => []QuietPageIsFresh
<1>1. ListInv /\ SecretInv => QuietPageIsFresh
  <2> SUFFICES ASSUME ListInv, SecretInv, PageQuiet, ~disturbed
               PROVE  list = Listed(Me) /\ \A c \in Clients : known[c] # None => known[c] = rows[c].secret
    BY DEF QuietPageIsFresh
  <2>1. list = Listed(Me)
    BY DEF ListInv, PageQuiet, Fetching, Refetches
  <2>2. \A c \in Clients : known[c] # None => known[c] = rows[c].secret
    BY DEF SecretInv, PageQuiet, Rotating
  <2> QED BY <2>1, <2>2
<1> QED BY <1>1, Invariants, PTL
=============================================================================
