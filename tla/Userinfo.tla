------------------------------ MODULE Userinfo ------------------------------
(***************************************************************************)
(* What the provider tells about a user, and for whom it seals it: the     *)
(* payload of the two userinfo routes and of the ID token, encrypted with  *)
(* a key the client publishes and the process caches, behind the rate      *)
(* limit of the routes under /auth.                                        *)
(*                                                                         *)
(* Tokens, codes and proofs are the subject of TokenEndpoint: a request    *)
(* begins here when they have been accepted, with the scopes consented to. *)
(***************************************************************************)
EXTENDS Integers

CONSTANTS
  Clients, Static,     \* clients; those registered with keys instead of a jwks_uri
  Handlers,
  Grants,              \* sets of scopes tokens may carry
  Persons, Rows,       \* contents of a Myinfo profile, filled columns of a users row
  None,
  MinTTL, DefaultTTL,  \* of a cached key set
  MaxAges,             \* lifetimes an answer of a client may ask for
  Limit, Window,       \* of the rate limiter
  MaxDelay,            \* bound on the way of a client's answer
  MaxVersion, MaxClock \* bounds: key sets a client publishes, the clock

ASSUME UserinfoAssumption ==
  /\ Static \subseteq Clients
  /\ None \notin Clients \cup Nat
  /\ {MinTTL, DefaultTTL, Window, MaxDelay, MaxVersion} \cup MaxAges \subseteq Nat
  /\ Limit \in Nat \ {0}

VARIABLES
  now,
  published,   \* the key set each client publishes
  cache,       \* JWKSCacheService.cache
  window,      \* the entry of rateLimitMap for the one address
  pc, req,     \* the await each request is in, and what it carries
  replacedAt,  \* history: when each key set was replaced
  passed       \* history: when the limiter let requests through, newest first, for a window

process == <<cache, window, pc, req>>
keys == <<published, replacedAt>>
vars == <<now, keys, process, passed>>

Last == 0 .. 2 * Limit
Routes == {"auth", "plain", "token"}  \* /auth/userinfo, /userinfo, the ID token
Versions == 0 .. MaxVersion
NoEntry == [version |-> None, expiresAt |-> 0]
NoWindow == [count |-> 0, resetAt |-> 0]
NoRequest == [route |-> "none", client |-> None, grant |-> {}, told |-> {},
              version |-> None, at |-> 0]

-----------------------------------------------------------------------------
(* scope_mapper.ts, myinfo-mapper.ts, claims.ts *)

Balances == {"cpfbalances.oa", "cpfbalances.ma", "cpfbalances.ra", "cpfbalances.sa"}
Finance == Balances \cup {"cpfcontributions", "noa-basic", "noa", "noahistory"}
Family == {"marital", "marriagedate", "childrenbirthrecords"}
Personal == {"uinfin", "name", "sex", "race", "dob", "residentialstatus", "nationality",
             "birthcountry", "regadd", "mobileno", "email", "vehicles"}

AttributesOf(scope) ==
  CASE scope = "openid" -> {"sub"}
    [] scope = "profile" -> {"name", "sex", "dob"}
    [] scope = "phone" -> {"mobileno"}
    [] scope = "address" -> {"regadd"}
    [] scope = "cpfbalances" -> Balances
    [] scope \in Finance \cup Family \cup Personal -> {scope}
    [] OTHER -> {}

Allowed(scopes) == UNION {AttributesOf(s) : s \in scopes}

\* Mutant: the whole catalog of a consented attribute is kept.
FilterByCatalog(p, scopes) ==
  {x \in p : \/ x = <<"personal", "sub">>
             \/ x[1] = "personal" /\ x[2] \in Allowed(scopes)
             \/ x[1] = "finance" /\ Finance \cap Allowed(scopes) # {}
             \/ x[1] = "family" /\ Family \cap Allowed(scopes) # {}}

\* A person is a set of catalogs and the attributes in them.  Three catalogs have scopes;
\* a sub outside the catalogs is kept whatever the scopes.
FilterByScopes(p, scopes) ==
  {x \in p : \/ x = <<"personal", "sub">>
             \/ /\ x[2] \in Allowed(scopes)
                /\ \/ x[1] = "personal"
                   \/ x[1] = "finance" /\ x[2] \in Finance
                   \/ x[1] = "family" /\ x[2] \in Family}

\* person_info is flat.
MapProfile(p) == {x[2] : x \in p}

SubAttributes(columns, scopes) ==
  ({"name", "email", "mobileno"} \cap scopes \cap columns)
    \cup (IF "user.identity" \in scopes
            THEN {"identity_coi", "account_type"}
                   \cup (IF "nric" \in columns THEN {"identity_number"} ELSE {})
            ELSE {})

\* The ID token and the route under /auth look at the scopes, the other route does not.
Payload(route, scopes, person, columns) ==
  CASE route = "token" -> SubAttributes(columns, scopes)
    [] route = "auth" -> MapProfile(FilterByScopes(person, scopes))
    [] route = "plain" -> MapProfile(person)

-----------------------------------------------------------------------------
Init ==
  /\ now = 0
  /\ published = [c \in Clients |-> 0]
  /\ cache = [c \in Clients |-> NoEntry]
  /\ window = NoWindow
  /\ pc = [h \in Handlers |-> "idle"]
  /\ req = [h \in Handlers |-> NoRequest]
  /\ replacedAt = [c \in Clients |-> [v \in Versions |-> None]]
  /\ passed = [i \in Last |-> None]

Goto(h, to) == pc' = [pc EXCEPT ![h] = to]

End(h) == Goto(h, "idle") /\ req' = [req EXCEPT ![h] = NoRequest]

-----------------------------------------------------------------------------
(* rate-limiter.ts *)

\* Mutant: a request that comes on time is not counted.
CountedOnce(w) ==
  IF w = NoWindow \/ now > w.resetAt
    THEN [count |-> 1, resetAt |-> now + Window]
    ELSE w

\* The first request, and the first after the end, open a window.  What counts above
\* the limit is not told apart.
Counted(w) ==
  IF w = NoWindow \/ now > w.resetAt
    THEN [count |-> 1, resetAt |-> now + Window]
    ELSE [w EXCEPT !.count = IF @ > Limit THEN @ ELSE @ + 1]

\* A request of the routes under /auth; the others are not limited.
Arrive(h, route, c, g) ==
  LET r == [NoRequest EXCEPT !.route = route, !.client = c, !.grant = g] IN
  /\ pc[h] = "idle"
  /\ IF route = "auth"
       THEN /\ window' = Counted(window)
            /\ window'.count <= Limit
            /\ passed' = [i \in Last |-> IF i = 0 THEN now ELSE passed[i - 1]]
       ELSE UNCHANGED <<window, passed>>
  /\ Goto(h, "read")
  /\ req' = [req EXCEPT ![h] = r]
  /\ UNCHANGED <<now, keys, cache>>

Throttle ==
  /\ window' = Counted(window)
  /\ window'.count > Limit
  /\ UNCHANGED <<now, keys, cache, pc, req, passed>>

-----------------------------------------------------------------------------
(* get-userinfo.ts, userinfo-routes.ts, token.service.ts *)

\* The profile, or the columns of the users row, as the console has left them: a userinfo
\* request without a profile fails, a token request goes on without a row.
ReadUser(h, person, columns) ==
  /\ pc[h] = "read"
  /\ req' = [req EXCEPT ![h].told = Payload(req[h].route, req[h].grant, person, columns)]
  /\ Goto(h, "key")
  /\ UNCHANGED <<now, keys, cache, window, passed>>

\* The keys that seal the answer have been found, here or with the client.
Found(h, version, to) ==
  /\ req' = [req EXCEPT ![h].version = version, ![h].at = now]
  /\ Goto(h, to)

StaticKey(h) ==
  /\ pc[h] = "key" /\ req[h].client \in Static
  /\ Found(h, published[req[h].client], "seal")
  /\ UNCHANGED <<now, keys, cache, window, passed>>

\* signAndEncrypt, and the answer.
Seal(h) ==
  /\ pc[h] = "seal"
  /\ End(h)
  /\ UNCHANGED <<now, keys, cache, window, passed>>

\* Any await rejects: no profile, no key for encryption, a client that does not answer,
\* a server key that is missing.
Abort(h) ==
  /\ pc[h] # "idle"
  /\ End(h)
  /\ UNCHANGED <<now, keys, cache, window, passed>>

-----------------------------------------------------------------------------
(* jwks_cache.ts *)

\* Mutant: an entry is good for ever.
FreshForEver(entry) == entry # NoEntry
Fresh(entry) == entry # NoEntry /\ entry.expiresAt >= now

CachedKey(h) ==
  LET entry == cache[req[h].client] IN
  /\ pc[h] = "key" /\ req[h].client \notin Static
  /\ Fresh(entry)
  /\ Found(h, entry.version, "seal")
  /\ UNCHANGED <<now, keys, cache, window, passed>>

\* Mutant: nobody waits for the client's answer.
FetchUnawaited(h) ==
  /\ pc[h] = "key" /\ req[h].client \notin Static
  /\ ~Fresh(cache[req[h].client])
  /\ Goto(h, "seal")
  /\ UNCHANGED <<now, keys, cache, window, req, passed>>

Fetch(h) ==
  /\ pc[h] = "key" /\ req[h].client \notin Static
  /\ ~Fresh(cache[req[h].client])
  /\ Goto(h, "fetch")
  /\ UNCHANGED <<now, keys, cache, window, req, passed>>

\* The client answers with the keys it publishes now.
Respond(h) ==
  /\ pc[h] = "fetch"
  /\ Found(h, published[req[h].client], "arriving")
  /\ UNCHANGED <<now, keys, cache, window, passed>>

\* The lifetime counts from the arrival; an answer that asks for none gets the default.
Store(h, asked) ==
  LET c == req[h].client
      ttl == IF asked < MinTTL THEN MinTTL ELSE asked
  IN
  /\ pc[h] = "arriving"
  /\ cache' = [cache EXCEPT ![c] = [version |-> req[h].version, expiresAt |-> now + ttl]]
  /\ Found(h, req[h].version, "seal")
  /\ UNCHANGED <<now, keys, window, passed>>

-----------------------------------------------------------------------------
(* The environment *)

\* A client that serves its keys replaces them.
Rotate(c) ==
  /\ published[c] < MaxVersion /\ c \notin Static
  /\ published' = [published EXCEPT ![c] = @ + 1]
  /\ replacedAt' = [replacedAt EXCEPT ![c][published[c]] = now]
  /\ UNCHANGED <<now, process, passed>>

\* The process stops and starts with empty maps.
Restart ==
  /\ cache' = [c \in Clients |-> NoEntry]
  /\ window' = NoWindow
  /\ pc' = [h \in Handlers |-> "idle"]
  /\ req' = [h \in Handlers |-> NoRequest]
  /\ passed' = [i \in Last |-> None]
  /\ UNCHANGED <<now, keys>>

Tick ==
  /\ now < MaxClock
  /\ \A h \in Handlers : pc[h] = "arriving" => now - req[h].at < MaxDelay
  /\ now' = now + 1
  /\ passed' = [i \in Last |-> IF passed[i] # None /\ passed[i] + Window < now'
                                THEN None ELSE passed[i]]
  /\ UNCHANGED <<keys, process>>

-----------------------------------------------------------------------------
Continue(h) ==
  \/ \E p \in Persons, columns \in Rows \cup {{}} : ReadUser(h, p, columns)
  \/ StaticKey(h) \/ CachedKey(h) \/ Fetch(h) \/ Respond(h)
  \/ \E asked \in MaxAges \cup {DefaultTTL} : Store(h, asked)
  \/ Seal(h) \/ Abort(h)

Next ==
  \/ \E h \in Handlers :
       \/ Continue(h)
       \/ \E route \in Routes, c \in Clients, g \in Grants : Arrive(h, route, c, g)
  \/ Throttle \/ Restart \/ Tick
  \/ \E c \in Clients : Rotate(c)

Spec == Init /\ [][Next]_vars

-----------------------------------------------------------------------------
(* Properties *)

Attributes == (UNION {Allowed(g) : g \in Grants}) \cup (UNION {MapProfile(p) : p \in Persons})
                \cup {"identity_number", "identity_coi", "account_type"}

Entry == [version : Versions, expiresAt : Nat]
Request == [route : Routes, client : Clients, grant : Grants, told : SUBSET Attributes,
            version : Versions \cup {None}, at : Nat]

\* Cache, window and requests have the shapes of the code.
TypeOK ==
  /\ now \in Nat
  /\ published \in [Clients -> Versions]
  /\ cache \in [Clients -> Entry \cup {NoEntry}]
  /\ window \in [count : 0 .. Limit + 1, resetAt : Nat]
  /\ pc \in [Handlers -> {"idle", "read", "key", "fetch", "arriving", "seal"}]
  /\ req \in [Handlers -> Request \cup {NoRequest}]
  /\ \A h \in Handlers : (pc[h] \in {"arriving", "seal"}) = (req[h].version # None)
  /\ replacedAt \in [Clients -> [Versions -> Nat \cup {None}]]
  /\ passed \in [Last -> Nat \cup {None}]

\* A client that asks for a scope is told its attributes, and nothing it has not asked for.
Bundles ==
  {"profile"} \X {"name", "sex", "dob"} \cup {<<"phone", "mobileno">>, <<"address", "regadd">>}
    \cup {"cpfbalances"} \X Balances \cup {<<"openid", "sub">>}
    \cup {"user.identity"} \X {"identity_number", "identity_coi", "account_type"}

ConsentedOn(routes) ==
  \A h \in Handlers : pc[h] # "idle" /\ req[h].route \in routes =>
    \A a \in req[h].told \ {"sub"} : \E s \in req[h].grant : s = a \/ <<s, a>> \in Bundles

\* The ID token and the route under /auth tell what has been consented to, wherever the
\* profile keeps it and however the console has edited it.  Only a sub is told to whoever
\* asks, whose scopes do not have to name openid; each answer has one beside
\* person_info anyway.
LimitedToConsent == ConsentedOn({"token", "auth"})

\* A client that has replaced its keys is answered under the new ones once the longest
\* lifetime and the way of an answer have passed, although a late answer may overwrite a
\* newer entry and put off its expiry.
TTLs == MaxAges \cup {MinTTL, DefaultTTL}
Gone(c, version) == replacedAt[c][version]

KeyWasRecent ==
  \A h \in Handlers : pc[h] = "seal" /\ req[h].client \notin Static =>
    LET gone == Gone(req[h].client, req[h].version)
    IN  gone # None => \E ttl \in TTLs : req[h].at <= gone + ttl + MaxDelay

\* Windows open on demand and one after another, so a span as long as a window meets two
\* of them at most, and no more than twice the limit is let through in it.
WindowsKept == passed[2 * Limit] = None

-----------------------------------------------------------------------------
(* The inductive invariants behind these *)

\* What a request tells is what the payload of its route holds, for some profile.
ToldInv ==
  \A h \in Handlers : pc[h] # "idle" /\ req[h].told # {} =>
    \E p \in Persons, columns \in Rows \cup {{}} :
      req[h].told = Payload(req[h].route, req[h].grant, p, columns)

\* The version a client publishes has not been replaced, nor any after it.
PublishedInv ==
  \A c \in Clients : \A v \in Versions :
    Gone(c, v) # None => v < published[c] /\ Gone(c, v) <= now

\* An entry ends a lifetime after it arrived at the latest, and it arrived a way after the
\* client replaced the keys in it, or before.
EntryInv ==
  \A c \in Clients : cache[c] # NoEntry =>
    \E ttl \in TTLs :
      /\ cache[c].expiresAt <= now + ttl
      /\ Gone(c, cache[c].version) # None =>
           cache[c].expiresAt <= Gone(c, cache[c].version) + ttl + MaxDelay

\* The keys in an answer on its way were published when it was sent.
AnswerInv ==
  \A h \in Handlers :
    LET gone == Gone(req[h].client, req[h].version) IN
    /\ pc[h] # "idle" => req[h] # NoRequest
    /\ pc[h] \in {"fetch", "arriving"} => req[h].client \notin Static
    /\ pc[h] = "arriving" => /\ req[h].at <= now /\ now <= req[h].at + MaxDelay
                             /\ gone # None => req[h].at <= gone
    /\ pc[h] = "seal" => req[h].at <= now

\* Of the requests let through, those before the window opened, and those before the
\* window before it did, which had ended by then.
WindowInv ==
  LET opened == window.resetAt - Window
      since == IF window.count <= Limit THEN window.count ELSE Limit
  IN
  /\ window = NoWindow => passed = [i \in Last |-> None]
  /\ window # NoWindow => window.count > 0 /\ opened <= now
  /\ \A i \in Last : passed[i] # None =>
       /\ passed[i] <= window.resetAt
       /\ i >= since => passed[i] < opened
       /\ i >= since + Limit => passed[i] + Window < opened
       /\ now <= passed[i] + Window

-----------------------------------------------------------------------------
\* specs/026, SC-003: data exposure is strictly limited to the authorized scopes (but for
\* the sub).
ExposureLimited == ConsentedOn(Routes)
=============================================================================
