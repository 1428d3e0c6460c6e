--------------------------- MODULE ClientConsole ---------------------------
(***************************************************************************)
(* The clients of the developers: ClientService and SessionService behind  *)
(* the console's routes, the page ClientManager.svelte with its fetches,   *)
(* and the requests of the clients themselves, which look their row up in  *)
(* the registry and act on it some awaits later.                           *)
(*                                                                         *)
(* The page of one developer is modelled; the same developer in another    *)
(* tab, the other developers and API callers are requests from elsewhere.  *)
(***************************************************************************)
EXTENDS Integers, FiniteSets

CONSTANTS
  Devs, Me,       \* developers, and the one whose page is modelled
  Clients,        \* ids the table may have
  BuiltIn,        \* HARDENED_CLIENT_REGISTRY: for ids of its own, whether they are active
  Secrets, Uris,  \* client secrets, redirect URIs
  Handlers, None

ASSUME ClientAssumption ==
  /\ Me \in Devs
  /\ BuiltIn \in [DOMAIN BuiltIn -> BOOLEAN]
  /\ None \notin Devs \cup Clients \cup Secrets \cup Uris \cup BOOLEAN

VARIABLES
  rows,      \* clients
  legacy,    \* sessions: the clients that have rows there
  pc, req,   \* where each request is, and what it carries
  list, known, \* of the page: the clients it lists, the secrets it has shown
  seenLive,  \* history: the client of a request was live since it began
  cut,       \* history: clients whose revocation was cut off
  disturbed  \* history: the page missed something that no answer told it

tables == <<rows, legacy>>
pageVars == <<list, known>>
histories == <<seenLive, cut, disturbed>>
vars == <<tables, pc, req, pageVars, histories>>

-----------------------------------------------------------------------------
NoRow == [owner |-> None]
Row == [owner : Devs, active : BOOLEAN, deleted : BOOLEAN, keyed : BOOLEAN,
        secret : Secrets, uris : Uris]
Exists(c) == rows[c] # NoRow
Mine(c, d) == rows[c].owner = d
Ids == Clients \cup DOMAIN BuiltIn
Live(c) == c \in Clients /\ Exists(c) /\ rows[c].active /\ ~rows[c].deleted

\* What the page shows of the rows that are not deleted; the answer holds the rows.
Listed(d) ==
  [c \in Clients |-> IF Mine(c, d) /\ ~rows[c].deleted
                       THEN [active |-> rows[c].active, uris |-> rows[c].uris] ELSE None]
Lists == [Clients -> [active : BOOLEAN, uris : Uris] \cup {None}]

Writes == {"create", "update", "on", "off", "rotate", "delete", "revoke"}
Grants == {"par", "session", "token"}
NoRequest == [kind |-> "none", dev |-> None, client |-> None, page |-> FALSE, got |-> None]
Request == [kind : Writes \cup {"list"} \cup Grants, dev : Devs \cup {None},
            client : Ids \cup {None}, page : BOOLEAN,
            got : Lists \cup Secrets \cup {None}]

\* Clients with keys are only ever provisioned in the table itself.
Init ==
  /\ rows \in [Clients -> {NoRow} \cup [owner : Devs, active : {TRUE}, deleted : {FALSE},
                                        keyed : {TRUE}, secret : Secrets, uris : Uris]]
  /\ legacy = {c \in Clients : rows[c] # NoRow}
  /\ pc = [h \in Handlers |-> "idle"]
  /\ req = [h \in Handlers |-> NoRequest]
  /\ list = [c \in Clients |-> None]
  /\ known = [c \in Clients |-> None]
  /\ seenLive = [h \in Handlers |-> FALSE]
  /\ cut = {}
  /\ disturbed = TRUE  \* until the page is loaded

-----------------------------------------------------------------------------
(* Requests *)

Of(h, kinds) == req[h].kind \in kinds
FromPage(h) == pc[h] # "idle" /\ req[h].page
PageQuiet == \A h \in Handlers : ~FromPage(h)

Begin(h, r) ==
  /\ pc[h] = "idle"
  /\ pc' = [pc EXCEPT ![h] = "run"]
  /\ req' = [req EXCEPT ![h] = r]

End(h) ==
  /\ pc' = [pc EXCEPT ![h] = "idle"]
  /\ req' = [req EXCEPT ![h] = NoRequest]

Forget(h) == seenLive' = [seenLive EXCEPT ![h] = FALSE]

Goto(h, where) == pc' = [pc EXCEPT ![h] = where] /\ UNCHANGED req
Answer(h, got) == pc' = [pc EXCEPT ![h] = "answer"] /\ req' = [req EXCEPT ![h].got = got]

Put(c, r) == rows' = [rows EXCEPT ![c] = r]

\* A client that is created or switched on is live for the requests under way.
NoteLive ==
  seenLive' = [g \in Handlers |->
    seenLive[g] \/ (Of(g, Grants) /\ \E c \in Clients : req[g].client = c /\ Live(c)')]

\* Whatever writes a row of the page's developer from elsewhere disturbs the page.
Disturbs(h) == disturbed' = (disturbed \/ (req[h].dev = Me /\ ~req[h].page))

\* An error reaches onError: the page learns that the request failed, and nothing more.
Reject(h) == End(h) /\ UNCHANGED <<tables, pageVars, seenLive, cut>>

-----------------------------------------------------------------------------
(* ClientService and SessionService; the guards are the WHERE of each update *)

Call(h, d, k, c) ==
  /\ Begin(h, [NoRequest EXCEPT !.kind = k, !.dev = d, !.client = c])
  /\ UNCHANGED <<tables, pageVars, histories>>

\* The page posts the name as clientName, the service inserts data.name: from the page
\* the column is null and the insert fails.
CreateClient(h) ==
  /\ pc[h] = "run" /\ Of(h, {"create"}) /\ req[h].client # None
  /\ ~Exists(req[h].client)
  /\ \E s \in Secrets, u \in Uris :
       /\ Put(req[h].client, [owner |-> req[h].dev, active |-> TRUE, deleted |-> FALSE,
                              keyed |-> FALSE, secret |-> s, uris |-> u])
       /\ Answer(h, s)
  /\ NoteLive
  /\ Disturbs(h)
  /\ UNCHANGED <<legacy, pageVars, cut>>

Found(h, deletedToo) ==
  LET c == req[h].client IN Mine(c, req[h].dev) /\ (deletedToo \/ ~rows[c].deleted)

\* Mutant: what the caller leaves out is written as well.
UpdateClientWithNothing(h) ==
  /\ pc[h] = "run" /\ Of(h, {"update"}) /\ Found(h, FALSE)
  /\ Put(req[h].client, [rows[req[h].client] EXCEPT !.uris = None])
  /\ Goto(h, "answer") /\ Disturbs(h)
  /\ UNCHANGED <<legacy, pageVars, seenLive, cut>>

UpdateClient(h) ==
  /\ pc[h] = "run" /\ Of(h, {"update"}) /\ Found(h, FALSE)
  /\ \E u \in Uris : Put(req[h].client, [rows[req[h].client] EXCEPT !.uris = u])
  /\ Goto(h, "answer") /\ Disturbs(h)
  /\ UNCHANGED <<legacy, pageVars, seenLive, cut>>

SwitchOn(h) ==
  /\ Put(req[h].client, [rows[req[h].client] EXCEPT !.active = TRUE])
  /\ NoteLive
  /\ Goto(h, "answer")

\* Mutant: the sessions are left.
SwitchOffOnly(h) ==
  /\ Put(req[h].client, [rows[req[h].client] EXCEPT !.active = FALSE])
  /\ Goto(h, "answer")
  /\ UNCHANGED seenLive

SwitchOff(h) ==
  /\ Put(req[h].client, [rows[req[h].client] EXCEPT !.active = FALSE])
  /\ Goto(h, "cleanup")
  /\ UNCHANGED seenLive

\* Mutant: a deleted client is found too.
ToggleClientStatusOfAny(h) ==
  /\ pc[h] = "run" /\ Of(h, {"on", "off"}) /\ Found(h, TRUE)
  /\ IF Of(h, {"on"}) THEN SwitchOn(h) ELSE SwitchOff(h)
  /\ Disturbs(h)
  /\ UNCHANGED <<legacy, pageVars, cut>>

ToggleClientStatus(h) ==
  /\ pc[h] = "run" /\ Of(h, {"on", "off"}) /\ Found(h, FALSE)
  /\ IF Of(h, {"on"}) THEN SwitchOn(h) ELSE SwitchOff(h)
  /\ Disturbs(h)
  /\ UNCHANGED <<legacy, pageVars, cut>>

\* The secret is hashed first; a deleted client gets a new one too.
RotateSecret(h) ==
  /\ pc[h] = "run" /\ Of(h, {"rotate"}) /\ Found(h, TRUE)
  /\ \E s \in Secrets :
       Put(req[h].client, [rows[req[h].client] EXCEPT !.secret = s]) /\ Answer(h, s)
  /\ Disturbs(h)
  /\ UNCHANGED <<legacy, pageVars, seenLive, cut>>

DeleteClient(h) ==
  /\ pc[h] = "run" /\ Of(h, {"delete"}) /\ Found(h, TRUE)
  /\ Put(req[h].client, [rows[req[h].client] EXCEPT !.deleted = TRUE, !.active = FALSE])
  /\ Goto(h, "cleanup") /\ Disturbs(h)
  /\ UNCHANGED <<legacy, pageVars, seenLive, cut>>

\* revokeSession checks the owner for developers; administrators come without one.
RevokeSession(h) ==
  /\ pc[h] = "run" /\ Of(h, {"revoke"})
  /\ req[h].dev # None => Mine(req[h].client, req[h].dev)
  /\ Goto(h, IF req[h].client \in legacy THEN "cleanup" ELSE "answer")
  /\ UNCHANGED <<tables, pageVars, histories>>

\* The delete of one row by its id; the client may have others.
DeleteSession(h) ==
  /\ pc[h] = "cleanup" /\ Of(h, {"revoke"})
  /\ legacy' \in {legacy, legacy \ {req[h].client}}
  /\ Goto(h, "answer")
  /\ UNCHANGED <<rows, pageVars, histories>>

\* The delete that follows a deactivation or a deletion, of all rows of the client.
RevokeAllClientSessions(h) ==
  /\ pc[h] = "cleanup" /\ Of(h, {"off", "delete"})
  /\ legacy' = legacy \ {req[h].client}
  /\ cut' = cut \ {req[h].client}
  /\ Goto(h, "answer")
  /\ UNCHANGED <<rows, pageVars, seenLive, disturbed>>

ListClients(h) ==
  /\ pc[h] = "run" /\ Of(h, {"list"})
  /\ Answer(h, Listed(req[h].dev))
  /\ UNCHANGED <<tables, pageVars, histories>>

NotFound(h) ==
  /\ pc[h] = "run" /\ Of(h, Writes)
  /\ ~ \/ Of(h, {"create"}) /\ req[h].client # None
       \/ Of(h, {"update", "on", "off"}) /\ Found(h, FALSE)
       \/ Of(h, {"rotate", "delete"}) /\ Found(h, TRUE)
       \/ Of(h, {"revoke"}) /\ (req[h].dev # None => Mine(req[h].client, req[h].dev))
  /\ Reject(h)
  /\ UNCHANGED disturbed

\* A query rejects or the process stops; an update that came before it stays.
Abort(h) ==
  /\ pc[h] # "idle"
  /\ End(h)
  /\ cut' = IF pc[h] = "cleanup" /\ Of(h, {"off", "delete"})
              THEN cut \cup {req[h].client} ELSE cut
  /\ disturbed' = (disturbed \/ (req[h].page /\ (pc[h] # "run" \/ Of(h, {"list"}))))
  /\ Forget(h)
  /\ UNCHANGED <<tables, pageVars>>

-----------------------------------------------------------------------------
(* ClientManager.svelte *)

Fetching(h) == FromPage(h) /\ Of(h, {"list"})
Fetch(c) == [NoRequest EXCEPT !.kind = "list", !.dev = Me, !.page = TRUE]

\* The page is loaded again; requests of the page before it go on without it.
Reload(h) ==
  /\ pc[h] = "idle"
  /\ pc' = [pc EXCEPT ![h] = "run"]
  /\ req' = [g \in Handlers |-> IF g = h THEN Fetch(None)
               ELSE IF req[g].page THEN [req[g] EXCEPT !.page = FALSE] ELSE req[g]]
  /\ list' = [c \in Clients |-> None]
  /\ known' = [c \in Clients |-> None]
  /\ disturbed' = FALSE
  /\ UNCHANGED <<tables, seenLive, cut>>

\* Two fetches, or two new secrets, that overlap may be answered in either order.
Overlap(kinds, h) == \E g \in Handlers \ {h} : FromPage(g) /\ Of(g, kinds)

\* The buttons: of a listed client, or of the form.  The button shows the status the
\* list has, and asks for the other one.
Click(h, k, c) ==
  /\ IF k = "create" THEN c = None ELSE list[c] # None
  /\ k \in {"on", "off"} => list[c].active = (k = "off")
  /\ Begin(h, [NoRequest EXCEPT !.kind = k, !.dev = Me, !.client = c, !.page = TRUE])
  /\ disturbed' = (disturbed \/ (k = "rotate" /\ Overlap({"rotate"}, h)))
  /\ UNCHANGED <<tables, pageVars, seenLive, cut>>

\* Mutant: only the form and the delete button fetch the list.
RefetchesRarely(h) == FromPage(h) /\ Of(h, {"update", "delete"})
Refetches(h) == FromPage(h) /\ Of(h, {"update", "on", "off", "delete"})

Refetch(h) ==
  /\ pc[h] = "answer" /\ Refetches(h)
  /\ pc' = [pc EXCEPT ![h] = "run"]
  /\ req' = [req EXCEPT ![h] = Fetch(None)]
  /\ disturbed' = (disturbed \/ Overlap({"list"}, h))
  /\ UNCHANGED <<tables, pageVars, seenLive, cut>>

ShowList(h) ==
  /\ pc[h] = "answer" /\ Fetching(h)
  /\ list' = req[h].got
  /\ End(h)
  /\ UNCHANGED <<tables, known, histories>>

\* The alert with the new secret.
ShowSecret(h) ==
  /\ pc[h] = "answer" /\ FromPage(h) /\ Of(h, {"rotate"})
  /\ known' = [known EXCEPT ![req[h].client] = req[h].got]
  /\ End(h)
  /\ UNCHANGED <<tables, list, histories>>

Answered(h) ==
  /\ pc[h] = "answer" /\ ~Refetches(h) /\ ~Fetching(h) /\ ~(FromPage(h) /\ Of(h, {"rotate"}))
  /\ End(h)
  /\ UNCHANGED <<tables, pageVars, histories>>

-----------------------------------------------------------------------------
(* The requests of a client: register-par.ts, InitiateAuthSession.ts and *)
(* client-auth.service.ts look the row up in the registry               *)

ClientRequest(h, k, c) ==
  /\ Begin(h, [NoRequest EXCEPT !.kind = k, !.client = c])
  /\ seenLive' = [seenLive EXCEPT ![h] = Live(c)]
  /\ UNCHANGED <<tables, pageVars, cut, disturbed>>

\* The ids built into the registry come first; they all have keys.  Of the others it does
\* not look at deletedAt.  A session needs no key of its own.
Accepts(c, k) ==
  IF c \in DOMAIN BuiltIn THEN BuiltIn[c]
                          ELSE Exists(c) /\ rows[c].active /\ (k = "session" \/ rows[c].keyed)

Lookup(h) ==
  /\ pc[h] = "run" /\ Of(h, Grants)
  /\ IF Accepts(req[h].client, req[h].kind)
       THEN Goto(h, "grant") /\ UNCHANGED seenLive
       ELSE End(h) /\ Forget(h)
  /\ UNCHANGED <<tables, pageVars, cut, disturbed>>

\* The row of the request, of the session or of the tokens is written.
Grant(h) ==
  /\ pc[h] = "grant"
  /\ End(h) /\ Forget(h)
  /\ UNCHANGED <<tables, pageVars, cut, disturbed>>

-----------------------------------------------------------------------------
Serve(h) ==
  \/ CreateClient(h) \/ UpdateClient(h) \/ ToggleClientStatus(h) \/ RotateSecret(h)
  \/ DeleteClient(h) \/ RevokeSession(h) \/ DeleteSession(h)
  \/ RevokeAllClientSessions(h) \/ ListClients(h) \/ NotFound(h)
  \/ Lookup(h) \/ Grant(h)

Page(h) ==
  \/ Reload(h) \/ Refetch(h) \/ ShowList(h) \/ ShowSecret(h)
  \/ \E c \in Clients : \E k \in {"update", "on", "off", "rotate", "delete"} : Click(h, k, c)
  \/ Click(h, "create", None)

Elsewhere(h) ==
  \/ \E c \in Clients : \E d \in Devs, k \in Writes : Call(h, d, k, c)
  \/ \E c \in Clients : Call(h, None, "revoke", c)
  \/ \E c \in Ids, k \in Grants : ClientRequest(h, k, c)
  \/ Answered(h) \/ Abort(h)

Next == \E h \in Handlers : Serve(h) \/ Page(h) \/ Elsewhere(h)

Spec == Init /\ [][Next]_vars

-----------------------------------------------------------------------------
(* Properties *)

\* Rows, requests and page have the shapes of the code.
TypeOK ==
  /\ rows \in [Clients -> Row \cup {NoRow}]
  /\ legacy \subseteq Clients
  /\ pc \in [Handlers -> {"idle", "run", "cleanup", "grant", "answer"}]
  /\ req \in [Handlers -> Request \cup {NoRequest}]
  /\ list \in Lists
  /\ known \in [Clients -> Secrets \cup {None}]
  /\ seenLive \in [Handlers -> BOOLEAN]
  /\ cut \subseteq Clients
  /\ disturbed \in BOOLEAN

\* A pushed request, a session or tokens are written only for a client that was active
\* and not deleted at some moment of the request, although the registry looks at the
\* first of the two columns only and reads it some awaits before the write; or for an id
\* that is built in as active, whatever the console has made of its row.
GrantsNeedLiveClient ==
  \A h \in Handlers : pc[h] = "grant" =>
    IF req[h].client \in DOMAIN BuiltIn THEN BuiltIn[req[h].client] ELSE seenLive[h]

\* A deactivated or deleted client has no row in sessions left, except while the delete
\* that follows is still to come, or was cut off: the revocation of one session is no
\* excuse.
RevokedWithClient ==
  \A c \in legacy :
    Exists(c) /\ ~rows[c].active =>
      \/ c \in cut
      \/ \E h \in Handlers : pc[h] = "cleanup" /\ req[h].client = c /\ Of(h, {"off", "delete"})

\* A page with no request in flight lists the rows as they are, and the secrets it has
\* shown are those stored, unless someone else wrote them, a request failed half way,
\* or two of its fetches or of its new secrets overlapped.
QuietPageIsFresh ==
  PageQuiet /\ ~disturbed =>
    /\ list = Listed(Me)
    /\ \A c \in Clients : known[c] # None => known[c] = rows[c].secret

-----------------------------------------------------------------------------
(* The inductive invariants behind these *)

\* What a request carries, by its kind and the await it is in.
RequestInv ==
  \A h \in Handlers :
    /\ pc[h] = "idle" <=> req[h] = NoRequest
    /\ Of(h, Writes \ {"create"}) => req[h].client \in Clients
    /\ Of(h, {"create"}) => req[h].client \in Clients \cup {None}
    /\ Of(h, Grants) => req[h].client \in Ids
    /\ Of(h, (Writes \ {"revoke"}) \cup {"list"}) => req[h].dev \in Devs
    /\ pc[h] = "answer" /\ Of(h, {"list"}) => req[h].got \in Lists
    /\ pc[h] = "answer" /\ Of(h, {"rotate"}) => req[h].got \in Secrets
    /\ pc[h] = "cleanup" => Of(h, {"off", "delete", "revoke"})
    /\ pc[h] = "grant" => Of(h, Grants)
    /\ req[h].page => /\ req[h].dev = Me
                      /\ Of(h, {"list", "update", "on", "off", "rotate", "delete"})
                           \/ (Of(h, {"create"}) /\ req[h].client = None)

\* No deleted client is active, so that the registry's look at the one column stands
\* for both; a request whose client is live has seen it so.
LiveInv ==
  /\ \A c \in Clients : Exists(c) /\ rows[c].deleted => ~rows[c].active
  /\ \A h \in Handlers : Of(h, Grants) =>
       /\ pc[h] = "run" => (Live(req[h].client) => seenLive[h])
       /\ pc[h] = "grant" =>
            IF req[h].client \in DOMAIN BuiltIn THEN BuiltIn[req[h].client] ELSE seenLive[h]

\* What the page shows is fresh, or about to be: a write of its own that is through will
\* fetch the list, or one fetch is under way, and its answer is the list as it is.
Rotating(h) == FromPage(h) /\ Of(h, {"rotate"})

ListInv ==
  ~disturbed =>
    /\ \A g, h \in Handlers : Fetching(g) /\ Fetching(h) => g = h
    /\ \/ \E h \in Handlers : Refetches(h) /\ pc[h] # "run"
       \/ /\ \A h \in Handlers : Fetching(h) /\ pc[h] = "answer" => req[h].got = Listed(Me)
          /\ list = Listed(Me) \/ \E h \in Handlers : Fetching(h)

SecretInv ==
  ~disturbed =>
    /\ \A g, h \in Handlers : Rotating(g) /\ Rotating(h) => g = h
    /\ \A h \in Handlers : Rotating(h) /\ pc[h] = "answer" =>
         Mine(req[h].client, Me) /\ req[h].got = rows[req[h].client].secret
    /\ \A c \in Clients : known[c] # None =>
         /\ Mine(c, Me)
         /\ \/ known[c] = rows[c].secret
            \/ \E h \in Handlers : Rotating(h) /\ pc[h] = "answer" /\ req[h].client = c
=============================================================================
