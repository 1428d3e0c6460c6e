--------------------------- MODULE Userinfo_proofs ---------------------------
(***************************************************************************)
(* Proofs about Userinfo, for all sets of clients, scopes, profiles and    *)
(* columns, all lifetimes, and any number of concurrent requests.          *)
(***************************************************************************)
EXTENDS Userinfo, TLAPS

Labels == {"idle", "read", "key", "fetch", "arriving", "seal"}

-----------------------------------------------------------------------------
(* Scopes *)

LEMMA AttributesCovered ==
  ASSUME NEW s, NEW a \in AttributesOf(s)
  PROVE  s = a \/ <<s, a>> \in Bundles
<1>1. CASE s = "openid"
  BY <1>1 DEF AttributesOf, Bundles
<1>2. CASE s = "profile"
  BY <1>2 DEF AttributesOf, Bundles
<1>3. CASE s = "phone"
  BY <1>3 DEF AttributesOf, Bundles
<1>4. CASE s = "address"
  BY <1>4 DEF AttributesOf, Bundles
<1>5. CASE s = "cpfbalances"
  BY <1>5 DEF AttributesOf, Bundles
<1>6. CASE s \notin {"openid", "profile", "phone", "address", "cpfbalances"}
  <2>1. AttributesOf(s) \in {{s}, {}}
    BY <1>6 DEF AttributesOf
  <2> QED BY <2>1
<1> QED BY <1>1, <1>2, <1>3, <1>4, <1>5, <1>6

\* What the filter lets through but for the sub, and what the ID token carries, somebody
\* asked for.
LEMMA PayloadCovered ==
  ASSUME NEW route \in {"token", "auth"}, NEW scopes, NEW p, NEW columns,
         NEW a \in Payload(route, scopes, p, columns) \ {"sub"}
  PROVE  \E s \in scopes : s = a \/ <<s, a>> \in Bundles
<1>1. CASE route = "auth"
  <2>1. a \in MapProfile(FilterByScopes(p, scopes))
    BY <1>1 DEF Payload
  <2>2. a \in Allowed(scopes)
    <3>1. PICK x \in FilterByScopes(p, scopes) : x[2] = a
      BY <2>1 DEF MapProfile
    <3>2. x # <<"personal", "sub">>
      BY <3>1
    <3> QED BY <3>1, <3>2 DEF FilterByScopes
  <2>3. PICK s \in scopes : a \in AttributesOf(s)
    BY <2>2 DEF Allowed
  <2> QED BY <2>3, AttributesCovered
<1>2. CASE route = "token"
  <2>1. a \in SubAttributes(columns, scopes)
    BY <1>2 DEF Payload
  <2>2. \/ a \in scopes
        \/ "user.identity" \in scopes /\ a \in {"identity_coi", "account_type", "identity_number"}
    BY <2>1 DEF SubAttributes
  <2> QED BY <2>2 DEF Bundles
<1> QED BY <1>1, <1>2

LEMMA PayloadTyped ==
  ASSUME NEW route \in Routes, NEW g \in Grants, NEW p \in Persons, NEW columns
  PROVE  Payload(route, g, p, columns) \subseteq Attributes
<1>1. MapProfile(p) \subseteq Attributes
  BY DEF Attributes
<1>2. MapProfile(FilterByScopes(p, g)) \subseteq MapProfile(p)
  BY DEF MapProfile, FilterByScopes
<1>3. SubAttributes(columns, g) \subseteq Attributes
  <2>1. ASSUME NEW a \in {"name", "email", "mobileno"} \cap g PROVE a \in Attributes
    <3>1. a \in AttributesOf(a)
      BY <2>1 DEF AttributesOf, Personal
    <3>2. a \in Allowed(g)
      BY <3>1 DEF Allowed
    <3> QED BY <3>2 DEF Attributes
  <2>2. {"identity_coi", "account_type", "identity_number"} \subseteq Attributes
    BY DEF Attributes
  <2> QED BY <2>1, <2>2 DEF SubAttributes
<1> QED BY <1>1, <1>2, <1>3 DEF Payload, Routes

-----------------------------------------------------------------------------
(* Requests *)

\* ToldInv, AnswerInv and KeyWasRecent, of one request.
Fine(label, r, t, gone) ==
  /\ label # "idle" => r # NoRequest
  /\ label # "idle" /\ r.told # {} =>
       \E p \in Persons, columns \in Rows \cup {{}} :
         r.told = Payload(r.route, r.grant, p, columns)
  /\ label \in {"fetch", "arriving"} => r.client \notin Static
  /\ label = "arriving" => /\ r.at <= t /\ t <= r.at + MaxDelay
                           /\ gone # None => r.at <= gone
  /\ label = "seal" => r.at <= t
  /\ label = "seal" /\ r.client \notin Static /\ gone # None =>
       \E ttl \in TTLs : r.at <= gone + ttl + MaxDelay

RequestsInv == ToldInv /\ AnswerInv /\ KeyWasRecent

LEMMA RequestsFine ==
  /\ RequestsInv <=> \A h \in Handlers :
       Fine(pc[h], req[h], now, replacedAt[req[h].client][req[h].version])
  /\ RequestsInv' <=> \A h \in Handlers :
       Fine(pc'[h], req'[h], now', replacedAt'[req'[h].client][req'[h].version])
BY DEF RequestsInv, ToldInv, AnswerInv, KeyWasRecent, Gone, Fine

LEMMA NoRequestApart == NoRequest \notin Request /\ NoRequest.version = None
BY DEF NoRequest, Request, Routes

LEMMA NoRequestFine == \A t, gone : Fine("idle", NoRequest, t, gone)
BY DEF Fine

LEMMA Running ==
  ASSUME TypeOK, RequestsInv, NEW h \in Handlers, pc[h] # "idle"
  PROVE  /\ req[h] \in Request
         /\ Fine(pc[h], req[h], now, replacedAt[req[h].client][req[h].version])
BY RequestsFine DEF TypeOK, Fine

\* The step of one request.
Moved(h, label, r) ==
  /\ pc' = [pc EXCEPT ![h] = label] /\ req' = [req EXCEPT ![h] = r]
  /\ UNCHANGED <<now, keys>>

LEMMA MoveKeeps ==
  ASSUME TypeOK, RequestsInv, NEW h \in Handlers, NEW label \in Labels,
         NEW r \in Request \cup {NoRequest}, Moved(h, label, r),
         (label \in {"arriving", "seal"}) = (r.version # None),
         Fine(label, r, now, replacedAt[r.client][r.version])
  PROVE  /\ pc' \in [Handlers -> Labels] /\ req' \in [Handlers -> Request \cup {NoRequest}]
         /\ \A g \in Handlers : (pc'[g] \in {"arriving", "seal"}) = (req'[g].version # None)
         /\ RequestsInv'
<1>1. pc' \in [Handlers -> Labels] /\ req' \in [Handlers -> Request \cup {NoRequest}]
  BY DEF Moved, TypeOK, Labels
<1>2. /\ pc'[h] = label /\ req'[h] = r
      /\ \A g \in Handlers \ {h} : pc'[g] = pc[g] /\ req'[g] = req[g]
  BY DEF Moved, TypeOK
<1>3. \A g \in Handlers : (pc'[g] \in {"arriving", "seal"}) = (req'[g].version # None)
  BY <1>2 DEF TypeOK
<1>4. now' = now /\ replacedAt' = replacedAt
  BY DEF Moved, keys
<1>5. RequestsInv'
  BY <1>2, <1>4, RequestsFine
<1> QED BY <1>1, <1>3, <1>5

\* A request that is given a version and a time.
LEMMA VersionFound ==
  ASSUME TypeOK, NEW h \in Handlers, req[h] \in Request, NEW version \in Versions, NEW label,
         Found(h, version, label), UNCHANGED <<now, keys>>
  PROVE  \E q \in Request :
           /\ Moved(h, label, q) /\ q.version = version /\ q.version # None /\ q.at = now
           /\ q.told = req[h].told /\ q.route = req[h].route /\ q.client = req[h].client
           /\ q.grant = req[h].grant
<1> DEFINE q == [req[h] EXCEPT !.version = version, !.at = now]
<1>1. /\ q \in Request /\ q.told = req[h].told /\ q.route = req[h].route
      /\ q.client = req[h].client /\ q.grant = req[h].grant /\ q.version = version /\ q.at = now
  <2> HIDE DEF Attributes
  <2> QED BY UserinfoAssumption DEF TypeOK, Request
<1>2. req' = [req EXCEPT ![h] = q]
  BY DEF TypeOK, Found
<1>3. version # None
  BY UserinfoAssumption DEF Versions
<1> HIDE DEF q
<1>4. Moved(h, label, q)
  BY <1>2 DEF Moved, Goto, Found
<1> QED BY <1>1, <1>3, <1>4

LEMMA TTLsTyped == TTLs \subseteq Nat /\ MaxDelay \in Nat /\ None \notin Nat /\ MinTTL \in TTLs
BY UserinfoAssumption DEF TTLs

-----------------------------------------------------------------------------
(* The steps of a request *)

Steps(h) ==
  \/ \E p \in Persons, columns \in Rows \cup {{}} : ReadUser(h, p, columns)
  \/ StaticKey(h) \/ CachedKey(h) \/ Fetch(h) \/ Respond(h)
  \/ \E asked \in MaxAges \cup {DefaultTTL} : Store(h, asked)
  \/ Seal(h) \/ Abort(h)
  \/ \E route \in Routes, c \in Clients, g \in Grants : Arrive(h, route, c, g)

Kept ==
  /\ pc' \in [Handlers -> Labels] /\ req' \in [Handlers -> Request \cup {NoRequest}]
  /\ \A g \in Handlers : (pc'[g] \in {"arriving", "seal"}) = (req'[g].version # None)
  /\ RequestsInv'

LEMMA RequestStep ==
  ASSUME TypeOK, RequestsInv, PublishedInv, EntryInv, NEW h \in Handlers, Steps(h)
  PROVE  Kept
<1> USE DEF Labels
<1>1. ASSUME NEW p \in Persons, NEW columns \in Rows \cup {{}}, ReadUser(h, p, columns) PROVE Kept
  <2> DEFINE told == Payload(req[h].route, req[h].grant, p, columns)
  <2>1. pc[h] = "read" /\ req[h] \in Request /\ req[h].version = None
    BY <1>1, Running DEF ReadUser, TypeOK
  <2>2. told \in SUBSET Attributes
    BY <2>1, PayloadTyped DEF Request
  <2> HIDE DEF told
  <2> DEFINE q == [req[h] EXCEPT !.told = told]
  <2>3. /\ q \in Request /\ q.told = told /\ q.route = req[h].route /\ q.client = req[h].client
        /\ q.grant = req[h].grant /\ q.version = None
    BY <2>1, <2>2 DEF Request
  <2>4. Moved(h, "key", q)
    BY <1>1 DEF ReadUser, Goto, Moved, TypeOK, told
  <2> HIDE DEF q
  <2>5. Fine("key", q, now, replacedAt[q.client][q.version])
    BY <2>3, NoRequestApart DEF Fine, told
  <2> QED BY <2>3, <2>4, <2>5, MoveKeeps DEF Kept
<1>2. ASSUME StaticKey(h) PROVE Kept
  <2>1. pc[h] = "key" /\ req[h] \in Request /\ Fine("key", req[h], now, replacedAt[req[h].client][req[h].version])
    BY <1>2, Running DEF StaticKey
  <2>2. published[req[h].client] \in Versions
    BY <2>1 DEF TypeOK, Request
  <2>3. PICK q \in Request :
          /\ Moved(h, "seal", q) /\ q.version # None /\ q.at = now
          /\ q.told = req[h].told /\ q.route = req[h].route /\ q.client = req[h].client
          /\ q.grant = req[h].grant
    BY <1>2, <2>1, <2>2, VersionFound DEF StaticKey
  <2>4. q.client \in Static
    BY <1>2, <2>3 DEF StaticKey
  <2>5. Fine("seal", q, now, replacedAt[q.client][q.version])
    BY <2>1, <2>3, <2>4, NoRequestApart DEF Fine, TypeOK
  <2> QED BY <2>3, <2>5, MoveKeeps DEF Kept
\* The entry ends a lifetime after its keys arrived, which is at most a way later than
\* the client replaced them.
<1>3. ASSUME CachedKey(h) PROVE Kept
  <2> DEFINE c == req[h].client
  <2>1. pc[h] = "key" /\ req[h] \in Request /\ Fine("key", req[h], now, replacedAt[req[h].client][req[h].version])
    BY <1>3, Running DEF CachedKey
  <2>2. c \in Clients /\ cache[c] \in Entry /\ cache[c].expiresAt >= now
    BY <1>3, <2>1 DEF CachedKey, Fresh, TypeOK, Request
  <2>3. cache[c].version \in Versions /\ cache[c] # NoEntry
    BY <1>3, <2>2 DEF Entry, CachedKey, Fresh
  <2>4. PICK q \in Request :
          /\ Moved(h, "seal", q) /\ q.version = cache[c].version /\ q.version # None /\ q.at = now
          /\ q.told = req[h].told /\ q.route = req[h].route /\ q.client = c
          /\ q.grant = req[h].grant
    BY <1>3, <2>1, <2>3, VersionFound DEF CachedKey
  <2> DEFINE gone == replacedAt[c][q.version]
  <2>5. gone # None => \E ttl \in TTLs : now <= gone + ttl + MaxDelay
    <3>1. SUFFICES ASSUME gone # None PROVE \E ttl \in TTLs : now <= gone + ttl + MaxDelay
      OBVIOUS
    <3>2. gone \in Nat
      BY <2>2, <2>3, <2>4, <3>1 DEF TypeOK
    <3>3. PICK ttl \in TTLs : cache[c].expiresAt <= gone + ttl + MaxDelay
      BY <2>2, <2>3, <2>4, <3>1 DEF EntryInv, Gone
    <3>4. ttl \in Nat /\ MaxDelay \in Nat /\ now \in Nat /\ cache[c].expiresAt \in Nat
      BY <2>2, TTLsTyped DEF TypeOK, Entry
    <3>5. now <= gone + ttl + MaxDelay
      BY <2>2, <3>2, <3>3, <3>4
    <3> QED BY <3>5
  <2>6. Fine("seal", q, now, gone)
    BY <2>1, <2>4, <2>5, NoRequestApart DEF Fine, TypeOK
  <2> QED BY <2>4, <2>6, MoveKeeps DEF Kept
<1>4. ASSUME Fetch(h) PROVE Kept
  <2>1. pc[h] = "key" /\ req[h] \in Request /\ Fine("key", req[h], now, replacedAt[req[h].client][req[h].version])
    BY <1>4, Running DEF Fetch
  <2>2. Moved(h, "fetch", req[h])
    BY <1>4 DEF Fetch, Goto, Moved, TypeOK
  <2>3. req[h].version = None /\ req[h].client \notin Static
    BY <1>4, <2>1 DEF TypeOK, Fetch
  <2>4. Fine("fetch", req[h], now, replacedAt[req[h].client][req[h].version])
    BY <2>1, <2>3 DEF Fine
  <2> QED BY <2>1, <2>2, <2>3, <2>4, MoveKeeps DEF Kept
\* What is published now has not been replaced.
<1>5. ASSUME Respond(h) PROVE Kept
  <2> DEFINE c == req[h].client
  <2>1. pc[h] = "fetch" /\ req[h] \in Request /\ Fine("fetch", req[h], now, replacedAt[req[h].client][req[h].version])
    BY <1>5, Running DEF Respond
  <2>2. c \in Clients /\ published[c] \in Versions
    BY <2>1 DEF TypeOK, Request
  <2>3. PICK q \in Request :
          /\ Moved(h, "arriving", q) /\ q.version = published[c] /\ q.version # None /\ q.at = now
          /\ q.told = req[h].told /\ q.route = req[h].route /\ q.client = c
          /\ q.grant = req[h].grant
    BY <1>5, <2>1, <2>2, VersionFound DEF Respond
  <2>4. replacedAt[c][q.version] = None
    <3>1. ~(published[c] < published[c])
      BY <2>2, UserinfoAssumption DEF Versions
    <3> QED BY <2>2, <2>3, <3>1 DEF PublishedInv, Gone
  <2>5. now <= now /\ now <= now + MaxDelay
    BY TTLsTyped DEF TypeOK
  <2>6. Fine("arriving", q, now, replacedAt[q.client][q.version])
    BY <2>1, <2>3, <2>4, <2>5, NoRequestApart DEF Fine
  <2> QED BY <2>3, <2>6, MoveKeeps DEF Kept
<1>6. ASSUME NEW asked \in MaxAges \cup {DefaultTTL}, Store(h, asked) PROVE Kept
  <2> DEFINE c == req[h].client
             gone == replacedAt[c][req[h].version]
  <2>1. pc[h] = "arriving" /\ req[h] \in Request /\ Fine("arriving", req[h], now, gone)
    BY <1>6, Running DEF Store
  <2>2. c \in Clients /\ req[h].version \in Versions
    BY <2>1 DEF TypeOK, Request
  <2>3. PICK q \in Request :
          /\ Moved(h, "seal", q) /\ q.version = req[h].version /\ q.version # None /\ q.at = now
          /\ q.told = req[h].told /\ q.route = req[h].route /\ q.client = c
          /\ q.grant = req[h].grant
    BY <1>6, <2>1, <2>2, VersionFound DEF Store
  <2>4. gone # None => \E ttl \in TTLs : now <= gone + ttl + MaxDelay
    <3>1. SUFFICES ASSUME gone # None PROVE now <= gone + MinTTL + MaxDelay
      BY TTLsTyped
    <3>2. gone \in Nat /\ req[h].at \in Nat /\ now \in Nat /\ MinTTL \in Nat /\ MaxDelay \in Nat
      BY <2>1, <2>2, <3>1, TTLsTyped DEF TypeOK, Request
    <3>3. now <= req[h].at + MaxDelay /\ req[h].at <= gone
      BY <2>1, <3>1 DEF Fine
    <3> QED BY <3>2, <3>3
  <2>5. now <= now
    BY DEF TypeOK
  <2>6. Fine("seal", q, now, replacedAt[q.client][q.version])
    BY <2>1, <2>3, <2>4, <2>5, NoRequestApart DEF Fine
  <2> QED BY <2>3, <2>6, MoveKeeps DEF Kept
<1>7. ASSUME Seal(h) \/ Abort(h) PROVE Kept
  <2>1. Moved(h, "idle", NoRequest)
    BY <1>7 DEF Seal, Abort, End, Goto, Moved
  <2> QED BY <2>1, NoRequestApart, NoRequestFine, MoveKeeps DEF Kept
<1>8. ASSUME NEW route \in Routes, NEW c \in Clients, NEW g \in Grants, Arrive(h, route, c, g) PROVE Kept
  <2> DEFINE q == [NoRequest EXCEPT !.route = route, !.client = c, !.grant = g]
  <2>1. q \in Request /\ q.version = None /\ q.told = {}
    BY DEF NoRequest, Request
  <2>2. Moved(h, "read", q)
    BY <1>8 DEF Arrive, Goto, Moved
  <2> HIDE DEF q
  <2>3. Fine("read", q, now, replacedAt[q.client][q.version])
    BY <2>1, NoRequestApart DEF Fine
  <2> QED BY <2>1, <2>2, <2>3, MoveKeeps DEF Kept
<1> QED BY <1>1, <1>2, <1>3, <1>4, <1>5, <1>6, <1>7, <1>8 DEF Steps

-----------------------------------------------------------------------------
(* The caches, the keys and the limiter *)

Others ==
  /\ now \in Nat /\ published \in [Clients -> Versions]
  /\ cache \in [Clients -> Entry \cup {NoEntry}]
  /\ window \in [count : 0 .. Limit + 1, resetAt : Nat]
  /\ replacedAt \in [Clients -> [Versions -> Nat \cup {None}]]
  /\ passed \in [Last -> Nat \cup {None}]

KeysInv == PublishedInv /\ EntryInv

LEMMA KeysStay ==
  ASSUME KeysInv, UNCHANGED <<now, keys, cache>>
  PROVE  KeysInv'
BY DEF KeysInv, PublishedInv, EntryInv, Gone, keys

LEMMA CountedTyped ==
  ASSUME TypeOK
  PROVE  Counted(window) \in [count : 0 .. Limit + 1, resetAt : Nat]
<1>1. now \in Nat /\ Limit \in Nat /\ Window \in Nat /\ window.count \in 0 .. Limit + 1
      /\ window.resetAt \in Nat
  BY UserinfoAssumption DEF TypeOK
<1>2. CASE window = NoWindow \/ now > window.resetAt
  BY <1>1, <1>2 DEF Counted
<1>3. CASE ~(window = NoWindow \/ now > window.resetAt)
  <2>1. Counted(window) = [window EXCEPT !.count = IF @ > Limit THEN @ ELSE @ + 1]
    BY <1>3 DEF Counted
  <2>2. (IF window.count > Limit THEN window.count ELSE window.count + 1) \in 0 .. Limit + 1
    BY <1>1
  <2> QED BY <1>1, <2>1, <2>2 DEF TypeOK
<1> QED BY <1>2, <1>3

\* The keys that arrive were published at most a way ago.
LEMMA StoreKeeps ==
  ASSUME TypeOK, RequestsInv, KeysInv, NEW h \in Handlers,
         NEW asked \in MaxAges \cup {DefaultTTL}, Store(h, asked)
  PROVE  Others' /\ KeysInv'
<1> DEFINE c == req[h].client
           v == req[h].version
           ttl == IF asked < MinTTL THEN MinTTL ELSE asked
           entry == [version |-> v, expiresAt |-> now + ttl]
<1>1. pc[h] = "arriving" /\ req[h] \in Request /\ Fine("arriving", req[h], now, replacedAt[c][v])
  BY Running DEF Store
<1>2. /\ c \in Clients /\ v \in Versions /\ req[h].at \in Nat /\ now \in Nat
      /\ ttl \in TTLs /\ ttl \in Nat /\ MaxDelay \in Nat
  BY <1>1, TTLsTyped DEF TypeOK, Request, TTLs
<1>3. cache' = [cache EXCEPT ![c] = entry] /\ UNCHANGED <<now, keys, window, passed>>
  BY DEF Store
<1>4. replacedAt[c][v] # None => now + ttl <= replacedAt[c][v] + ttl + MaxDelay
  <2>1. SUFFICES ASSUME replacedAt[c][v] # None
                 PROVE  now + ttl <= replacedAt[c][v] + ttl + MaxDelay
    OBVIOUS
  <2>2. replacedAt[c][v] \in Nat
    BY <1>2, <2>1 DEF TypeOK
  <2>3. now <= req[h].at + MaxDelay /\ req[h].at <= replacedAt[c][v]
    BY <1>1, <2>1 DEF Fine
  <2> QED BY <1>2, <2>2, <2>3
<1>5. entry \in Entry /\ entry.version = v /\ entry.expiresAt = now + ttl
  BY <1>2 DEF Entry
<1> HIDE DEF entry, ttl, v, c
<1>6. cache'[c] = entry /\ \A d \in Clients \ {c} : cache'[d] = cache[d]
  BY <1>2, <1>3 DEF TypeOK
<1>7. now' = now /\ replacedAt' = replacedAt /\ published' = published
  BY <1>3 DEF keys
<1>8. PublishedInv'
  BY <1>7 DEF KeysInv, PublishedInv, Gone
<1>9. EntryInv'
  <2>1. ASSUME NEW d \in Clients, cache'[d] # NoEntry
        PROVE  \E t \in TTLs :
                 /\ cache'[d].expiresAt <= now + t
                 /\ replacedAt[d][cache'[d].version] # None =>
                      cache'[d].expiresAt <= replacedAt[d][cache'[d].version] + t + MaxDelay
    <3>1. CASE d = c
      BY <1>2, <1>4, <1>5, <1>6, <3>1
    <3>2. CASE d # c
      BY <1>6, <2>1, <3>2 DEF KeysInv, EntryInv, Gone
    <3> QED BY <3>1, <3>2
  <2> QED BY <1>7, <2>1 DEF EntryInv, Gone
<1>10. cache' \in [Clients -> Entry \cup {NoEntry}]
  BY <1>3, <1>5 DEF TypeOK
<1>11. Others'
  BY <1>3, <1>7, <1>10 DEF Others, TypeOK
<1> QED BY <1>8, <1>9, <1>11 DEF KeysInv

LEMMA StepKeeps ==
  ASSUME TypeOK, RequestsInv, KeysInv, NEW h \in Handlers, Steps(h)
  PROVE  Others' /\ KeysInv'
<1>1. ASSUME NEW p \in Persons, NEW columns \in Rows \cup {{}}, ReadUser(h, p, columns)
      PROVE  Others' /\ KeysInv'
  BY <1>1, KeysStay DEF ReadUser, TypeOK, Others, keys
<1>2. ASSUME StaticKey(h) \/ CachedKey(h) \/ Fetch(h) \/ Respond(h) \/ Seal(h) \/ Abort(h)
      PROVE  Others' /\ KeysInv'
  <2>1. UNCHANGED <<now, keys, cache, window, passed>>
    BY <1>2 DEF StaticKey, CachedKey, Fetch, Respond, Seal, Abort
  <2> QED BY <2>1, KeysStay DEF TypeOK, Others, keys
<1>3. ASSUME NEW asked \in MaxAges \cup {DefaultTTL}, Store(h, asked) PROVE Others' /\ KeysInv'
  BY <1>3, StoreKeeps
<1>4. ASSUME NEW route \in Routes, NEW c \in Clients, NEW g \in Grants, Arrive(h, route, c, g)
      PROVE  Others' /\ KeysInv'
  <2>1. UNCHANGED <<now, keys, cache>>
    BY <1>4 DEF Arrive
  <2>2. CASE route = "auth"
    <3>1. /\ window' = Counted(window)
          /\ passed' = [i \in Last |-> IF i = 0 THEN now ELSE passed[i - 1]]
      BY <1>4, <2>2 DEF Arrive
    <3>2. passed' \in [Last -> Nat \cup {None}]
      BY <3>1, UserinfoAssumption DEF TypeOK, Last
    <3> QED BY <2>1, <3>1, <3>2, CountedTyped, KeysStay DEF TypeOK, Others, keys
  <2>3. CASE route # "auth"
    <3>1. UNCHANGED <<window, passed>>
      BY <1>4, <2>3 DEF Arrive
    <3> QED BY <2>1, <3>1, KeysStay DEF TypeOK, Others, keys
  <2> QED BY <2>2, <2>3
<1> QED BY <1>1, <1>2, <1>3, <1>4 DEF Steps

-----------------------------------------------------------------------------
(* The environment *)

UserinfoInv == TypeOK /\ RequestsInv /\ KeysInv

LEMMA Assembled ==
  /\ TypeOK <=> /\ Others /\ pc \in [Handlers -> Labels]
                /\ req \in [Handlers -> Request \cup {NoRequest}]
                /\ \A h \in Handlers : (pc[h] \in {"arriving", "seal"}) = (req[h].version # None)
  /\ TypeOK' <=> /\ Others' /\ pc' \in [Handlers -> Labels]
                 /\ req' \in [Handlers -> Request \cup {NoRequest}]
                 /\ \A h \in Handlers : (pc'[h] \in {"arriving", "seal"}) = (req'[h].version # None)
BY DEF TypeOK, Others, Labels

LEMMA ThrottleKeeps ==
  ASSUME UserinfoInv, Throttle
  PROVE  UserinfoInv'
<1>1. window' = Counted(window) /\ UNCHANGED <<now, keys, cache, pc, req, passed>>
  BY DEF Throttle
<1>2. TypeOK'
  BY <1>1, CountedTyped DEF UserinfoInv, TypeOK, keys
<1>3. RequestsInv'
  BY <1>1, RequestsFine DEF UserinfoInv, keys
<1> QED BY <1>1, <1>2, <1>3, KeysStay DEF UserinfoInv, keys

LEMMA RestartKeeps ==
  ASSUME UserinfoInv, Restart
  PROVE  UserinfoInv'
<1>1. /\ cache' = [c \in Clients |-> NoEntry] /\ window' = NoWindow
      /\ pc' = [h \in Handlers |-> "idle"] /\ req' = [h \in Handlers |-> NoRequest]
      /\ passed' = [i \in Last |-> None]
      /\ now' = now /\ published' = published /\ replacedAt' = replacedAt
  BY DEF Restart, keys
<1>2. Others'
  <2>1. NoWindow \in [count : 0 .. Limit + 1, resetAt : Nat]
    BY UserinfoAssumption DEF NoWindow
  <2>2. [c \in Clients |-> NoEntry] \in [Clients -> Entry \cup {NoEntry}]
    OBVIOUS
  <2> QED BY <1>1, <2>1, <2>2 DEF UserinfoInv, TypeOK, Others
<1>3. TypeOK'
  BY <1>1, <1>2, Assembled, NoRequestApart DEF Labels
<1>4. RequestsInv'
  BY <1>1, RequestsFine, NoRequestFine
<1>5. KeysInv'
  BY <1>1 DEF UserinfoInv, KeysInv, PublishedInv, EntryInv, Gone
<1> QED BY <1>3, <1>4, <1>5 DEF UserinfoInv

LEMMA TickKeeps ==
  ASSUME UserinfoInv, Tick
  PROVE  UserinfoInv'
<1>1. /\ now' = now + 1 /\ published' = published /\ replacedAt' = replacedAt
      /\ cache' = cache /\ window' = window /\ pc' = pc /\ req' = req
      /\ passed' = [i \in Last |-> IF passed[i] # None /\ passed[i] + Window < now'
                                   THEN None ELSE passed[i]]
  BY DEF Tick, keys, process
<1>2. now \in Nat /\ Window \in Nat /\ MaxDelay \in Nat /\ TTLs \subseteq Nat
  BY UserinfoAssumption, TTLsTyped DEF UserinfoInv, TypeOK
<1>3. passed' \in [Last -> Nat \cup {None}]
  BY <1>1 DEF UserinfoInv, TypeOK
<1>4. TypeOK'
  BY <1>1, <1>2, <1>3 DEF UserinfoInv, TypeOK
<1>5. ASSUME NEW h \in Handlers
      PROVE  Fine(pc[h], req[h], now + 1, replacedAt[req[h].client][req[h].version])
  <2>1. CASE pc[h] = "idle"
    BY <2>1 DEF Fine
  <2>2. CASE pc[h] # "idle"
    <3>1. /\ req[h] \in Request /\ req[h].at \in Nat
          /\ Fine(pc[h], req[h], now, replacedAt[req[h].client][req[h].version])
      BY <2>2, Running DEF UserinfoInv, Request
    <3>2. pc[h] = "arriving" => now + 1 <= req[h].at + MaxDelay
      BY <1>2, <3>1 DEF Tick
    <3>3. req[h].at <= now => req[h].at <= now + 1
      BY <1>2, <3>1
    <3> QED BY <3>1, <3>2, <3>3 DEF Fine
  <2> QED BY <2>1, <2>2
<1>6. RequestsInv'
  BY <1>1, <1>5, RequestsFine
<1>7. PublishedInv'
  <2>1. ASSUME NEW c \in Clients, NEW v \in Versions, replacedAt[c][v] # None
        PROVE  v < published[c] /\ replacedAt[c][v] <= now + 1
    <3>1. replacedAt[c][v] \in Nat
      BY <2>1 DEF UserinfoInv, TypeOK
    <3>2. v < published[c] /\ replacedAt[c][v] <= now
      BY <2>1 DEF UserinfoInv, KeysInv, PublishedInv, Gone
    <3> QED BY <1>2, <3>1, <3>2
  <2> QED BY <1>1, <2>1 DEF PublishedInv, Gone
<1>8. EntryInv'
  <2>1. ASSUME NEW c \in Clients, cache[c] # NoEntry
        PROVE  \E ttl \in TTLs :
                 /\ cache[c].expiresAt <= now + 1 + ttl
                 /\ replacedAt[c][cache[c].version] # None =>
                      cache[c].expiresAt <= replacedAt[c][cache[c].version] + ttl + MaxDelay
    <3>1. PICK ttl \in TTLs :
            /\ cache[c].expiresAt <= now + ttl
            /\ replacedAt[c][cache[c].version] # None =>
                 cache[c].expiresAt <= replacedAt[c][cache[c].version] + ttl + MaxDelay
      BY <2>1 DEF UserinfoInv, KeysInv, EntryInv, Gone
    <3>2. cache[c].expiresAt \in Nat
      BY <2>1 DEF UserinfoInv, TypeOK, Entry
    <3>3. cache[c].expiresAt <= now + 1 + ttl
      BY <1>2, <3>1, <3>2
    <3> QED BY <3>1, <3>3
  <2> QED BY <1>1, <2>1 DEF EntryInv, Gone
<1> QED BY <1>4, <1>6, <1>7, <1>8 DEF UserinfoInv, KeysInv

\* The keys that are replaced become old now: whoever holds them got them before.
LEMMA RotateKeeps ==
  ASSUME UserinfoInv, NEW c \in Clients, Rotate(c)
  PROVE  UserinfoInv'
<1>1. /\ published[c] \in Versions /\ published[c] < MaxVersion
      /\ published' = [published EXCEPT ![c] = @ + 1]
      /\ replacedAt' = [replacedAt EXCEPT ![c][published[c]] = now]
      /\ now' = now /\ cache' = cache /\ window' = window /\ pc' = pc /\ req' = req
      /\ passed' = passed
  BY DEF Rotate, process, UserinfoInv, TypeOK
<1>2. /\ now \in Nat /\ MaxDelay \in Nat /\ TTLs \subseteq Nat /\ MinTTL \in TTLs
      /\ None \notin Nat /\ MaxVersion \in Nat
  BY UserinfoAssumption, TTLsTyped DEF UserinfoInv, TypeOK
<1>3. published[c] + 1 \in Versions /\ Versions \subseteq Nat
  BY <1>1, <1>2 DEF Versions
<1>4. replacedAt' \in [Clients -> [Versions -> Nat \cup {None}]]
  <2>1. [replacedAt[c] EXCEPT ![published[c]] = now] \in [Versions -> Nat \cup {None}]
    BY <1>2 DEF UserinfoInv, TypeOK
  <2> QED BY <1>1, <2>1 DEF UserinfoInv, TypeOK
<1>5. published' \in [Clients -> Versions]
  BY <1>1, <1>3 DEF UserinfoInv, TypeOK
<1>6. TypeOK'
  BY <1>1, <1>4, <1>5 DEF UserinfoInv, TypeOK
<1>7. /\ \A d \in Clients, v \in Versions :
           ~(d = c /\ v = published[c]) => replacedAt'[d][v] = replacedAt[d][v]
      /\ replacedAt'[c][published[c]] = now
      /\ replacedAt[c][published[c]] = None
  <2>1. ~(published[c] < published[c])
    BY <1>1, <1>3
  <2>2. replacedAt[c][published[c]] = None
    BY <1>1, <2>1 DEF UserinfoInv, KeysInv, PublishedInv, Gone
  <2> QED BY <1>1, <2>2 DEF UserinfoInv, TypeOK
<1>8. ASSUME NEW h \in Handlers
      PROVE  Fine(pc[h], req[h], now, replacedAt'[req[h].client][req[h].version])
  <2>1. CASE pc[h] \notin {"arriving", "seal"}
    <3>1. Fine(pc[h], req[h], now, replacedAt[req[h].client][req[h].version])
      BY RequestsFine DEF UserinfoInv
    <3> QED BY <2>1, <3>1 DEF Fine
  <2>2. CASE pc[h] \in {"arriving", "seal"}
    <3>1. /\ req[h] \in Request /\ req[h].client \in Clients /\ req[h].version \in Versions
          /\ req[h].at \in Nat
          /\ Fine(pc[h], req[h], now, replacedAt[req[h].client][req[h].version])
      BY <2>2, Running DEF UserinfoInv, TypeOK, Request
    <3>2. CASE req[h].client = c /\ req[h].version = published[c]
      <4>1. req[h].at <= now
        BY <2>2, <3>1 DEF Fine
      <4>2. now + MinTTL + MaxDelay >= req[h].at
        BY <1>2, <3>1, <4>1
      <4> QED BY <1>2, <1>7, <3>1, <3>2, <4>1, <4>2 DEF Fine
    <3>3. CASE ~(req[h].client = c /\ req[h].version = published[c])
      BY <1>7, <3>1, <3>3
    <3> QED BY <3>2, <3>3
  <2> QED BY <2>1, <2>2
<1>9. RequestsInv'
  BY <1>1, <1>8, RequestsFine
<1>10. PublishedInv'
  <2>1. ASSUME NEW d \in Clients, NEW v \in Versions, replacedAt'[d][v] # None
        PROVE  v < published'[d] /\ replacedAt'[d][v] <= now
    <3>1. CASE d = c /\ v = published[c]
      <4>1. published'[c] = published[c] + 1
        BY <1>1 DEF UserinfoInv, TypeOK
      <4> QED BY <1>2, <1>3, <1>7, <2>1, <3>1, <4>1
    <3>2. CASE ~(d = c /\ v = published[c])
      <4>1. v < published[d] /\ replacedAt[d][v] <= now
        BY <1>7, <2>1, <3>2 DEF UserinfoInv, KeysInv, PublishedInv, Gone
      <4>2. published'[d] = published[d] \/ published'[d] = published[d] + 1
        BY <1>1 DEF UserinfoInv, TypeOK
      <4>3. published[d] \in Nat /\ v \in Nat
        BY <1>3 DEF UserinfoInv, TypeOK
      <4> QED BY <1>7, <3>2, <4>1, <4>2, <4>3
    <3> QED BY <3>1, <3>2
  <2> QED BY <1>1, <2>1 DEF PublishedInv, Gone
<1>11. EntryInv'
  <2>1. ASSUME NEW d \in Clients, cache[d] # NoEntry
        PROVE  \E ttl \in TTLs :
                 /\ cache[d].expiresAt <= now + ttl
                 /\ replacedAt'[d][cache[d].version] # None =>
                      cache[d].expiresAt <= replacedAt'[d][cache[d].version] + ttl + MaxDelay
    <3>1. PICK ttl \in TTLs :
            /\ cache[d].expiresAt <= now + ttl
            /\ replacedAt[d][cache[d].version] # None =>
                 cache[d].expiresAt <= replacedAt[d][cache[d].version] + ttl + MaxDelay
      BY <2>1 DEF UserinfoInv, KeysInv, EntryInv, Gone
    <3>2. cache[d].expiresAt \in Nat /\ cache[d].version \in Versions
      BY <2>1 DEF UserinfoInv, TypeOK, Entry
    <3>3. CASE d = c /\ cache[d].version = published[c]
      <4>1. cache[d].expiresAt <= now + ttl + MaxDelay
        BY <1>2, <3>1, <3>2
      <4> QED BY <1>7, <3>1, <3>3, <4>1
    <3>4. CASE ~(d = c /\ cache[d].version = published[c])
      <4>1. replacedAt'[d][cache[d].version] = replacedAt[d][cache[d].version]
        BY <1>7, <3>2, <3>4
      <4> QED BY <3>1, <4>1
    <3> QED BY <3>3, <3>4
  <2> QED BY <1>1, <2>1 DEF EntryInv, Gone
<1> QED BY <1>6, <1>9, <1>10, <1>11 DEF UserinfoInv, KeysInv

-----------------------------------------------------------------------------
LEMMA InitKept ==
  ASSUME Init
  PROVE  UserinfoInv
<1>1. TypeOK
  <2>1. 0 \in Versions /\ Window \in Nat /\ Limit \in Nat
    BY UserinfoAssumption DEF Versions
  <2>2. Others
    BY <2>1 DEF Init, Others, NoWindow
  <2>3. /\ pc \in [Handlers -> Labels] /\ req \in [Handlers -> Request \cup {NoRequest}]
        /\ \A h \in Handlers : (pc[h] \in {"arriving", "seal"}) = (req[h].version # None)
    BY NoRequestApart DEF Init, Labels
  <2> QED BY <2>2, <2>3, Assembled
<1>2. RequestsInv
  BY RequestsFine, NoRequestFine DEF Init
<1>3. KeysInv
  BY DEF Init, KeysInv, PublishedInv, EntryInv, Gone
<1> QED BY <1>1, <1>2, <1>3 DEF UserinfoInv

LEMMA NextKept ==
  ASSUME UserinfoInv, [Next]_vars
  PROVE  UserinfoInv'
<1>1. ASSUME NEW h \in Handlers, Steps(h) PROVE UserinfoInv'
  <2>1. Kept
    BY <1>1, RequestStep DEF UserinfoInv, KeysInv
  <2>2. Others' /\ KeysInv'
    BY <1>1, StepKeeps DEF UserinfoInv
  <2> QED BY <2>1, <2>2, Assembled DEF UserinfoInv, Kept
<1>2. CASE UNCHANGED vars
  <2>1. UNCHANGED <<now, published, cache, window, pc, req, replacedAt, passed>>
    BY <1>2 DEF vars, keys, process
  <2>2. TypeOK'
    BY <2>1 DEF UserinfoInv, TypeOK
  <2>3. RequestsInv'
    BY <2>1, RequestsFine DEF UserinfoInv
  <2>4. KeysInv'
    BY <2>1, KeysStay DEF UserinfoInv, keys
  <2> QED BY <2>2, <2>3, <2>4 DEF UserinfoInv
<1>3. CASE Next
  BY <1>1, <1>3, ThrottleKeeps, RestartKeeps, TickKeeps, RotateKeeps DEF Next, Continue, Steps
<1> QED BY <1>2, <1>3

-----------------------------------------------------------------------------
(* The limiter *)

LEMMA WindowMoves ==
  ASSUME [Next]_vars
  PROVE  \/ UNCHANGED <<now, window, passed>>
         \/ Restart \/ Tick \/ Throttle
         \/ \E h \in Handlers, c \in Clients, g \in Grants : Arrive(h, "auth", c, g)
<1>1. ASSUME NEW h \in Handlers, Continue(h) PROVE UNCHANGED <<now, window, passed>>
  BY <1>1 DEF Continue, ReadUser, StaticKey, CachedKey, Fetch, Respond, Store, Seal, Abort
<1>2. ASSUME NEW h \in Handlers, NEW route \in Routes, NEW c \in Clients, NEW g \in Grants,
             Arrive(h, route, c, g), route # "auth"
      PROVE  UNCHANGED <<now, window, passed>>
  BY <1>2 DEF Arrive
<1>3. ASSUME NEW c \in Clients, Rotate(c) PROVE UNCHANGED <<now, window, passed>>
  BY <1>3 DEF Rotate, process
<1>4. UNCHANGED vars => UNCHANGED <<now, window, passed>>
  BY DEF vars, process
<1> QED BY <1>1, <1>2, <1>3, <1>4 DEF Next

\* WindowInv of one request let through at some time, for given bounds of the window.
InWindow(i, at, opened, since, t) ==
  at # None => /\ at <= opened + Window
               /\ i >= since => at < opened
               /\ i >= since + Limit => at + Window < opened
               /\ t <= at + Window

Since(w) == IF w.count <= Limit THEN w.count ELSE Limit

LEMMA WindowParts ==
  /\ TypeOK => (WindowInv <=>
       /\ window = NoWindow => passed = [i \in Last |-> None]
       /\ window # NoWindow => window.count > 0 /\ window.resetAt - Window <= now
       /\ \A i \in Last : InWindow(i, passed[i], window.resetAt - Window, Since(window), now))
  /\ TypeOK' => (WindowInv' <=>
       /\ window' = NoWindow => passed' = [i \in Last |-> None]
       /\ window' # NoWindow => window'.count > 0 /\ window'.resetAt - Window <= now'
       /\ \A i \in Last : InWindow(i, passed'[i], window'.resetAt - Window, Since(window'), now'))
<1>1. Window \in Nat
  BY UserinfoAssumption
<1>2. TypeOK => window.resetAt \in Nat /\ window.resetAt - Window + Window = window.resetAt
  BY <1>1 DEF TypeOK
<1>3. TypeOK' => window'.resetAt \in Nat /\ window'.resetAt - Window + Window = window'.resetAt
  BY <1>1 DEF TypeOK
<1> QED BY <1>2, <1>3 DEF WindowInv, InWindow, Since

\* A request that is counted and let through is the newest of its window; the window it
\* opens begins after the one before has ended.
LEMMA ArriveKeepsWindow ==
  ASSUME TypeOK, TypeOK', WindowInv, NEW h \in Handlers, NEW c \in Clients, NEW g \in Grants,
         Arrive(h, "auth", c, g)
  PROVE  WindowInv'
<1> DEFINE o == window.resetAt - Window
           p == window'.resetAt - Window
<1>1. /\ window' = Counted(window) /\ window'.count <= Limit /\ now' = now
      /\ passed' = [i \in Last |-> IF i = 0 THEN now ELSE passed[i - 1]]
  BY DEF Arrive
<1>2. /\ now \in Nat /\ Window \in Nat /\ Limit \in Nat /\ Limit > 0
      /\ window.count \in 0 .. Limit + 1 /\ window.resetAt \in Nat
      /\ None \notin Nat /\ passed \in [Last -> Nat \cup {None}]
  BY UserinfoAssumption DEF TypeOK
<1>3. CASE window = NoWindow \/ now > window.resetAt
  <2>1. window' = [count |-> 1, resetAt |-> now + Window]
    BY <1>1, <1>3 DEF Counted
  <2>2. p = now /\ Since(window') = 1 /\ window' # NoWindow /\ window'.count > 0
    BY <1>2, <2>1 DEF Since, NoWindow
  <2>3. ASSUME NEW i \in Last PROVE InWindow(i, passed'[i], now, 1, now)
    <3>1. CASE i = 0
      BY <1>1, <1>2, <3>1 DEF InWindow, Last
    <3>2. CASE i # 0 /\ window = NoWindow
      <4>1. i - 1 \in Last /\ passed = [j \in Last |-> None]
        BY <1>2, <3>2, WindowParts DEF Last
      <4>2. passed'[i] = None
        BY <1>1, <3>2, <4>1
      <4> QED BY <4>2 DEF InWindow
    <3>3. CASE i # 0 /\ window # NoWindow
      <4>1. i - 1 \in Last /\ i \in Nat
        BY <1>2, <3>3 DEF Last
      <4>2. passed'[i] = passed[i - 1] /\ InWindow(i - 1, passed[i - 1], o, Since(window), now)
        BY <1>1, <3>3, <4>1, WindowParts
      <4>3. SUFFICES ASSUME passed[i - 1] # None PROVE InWindow(i, passed[i - 1], now, 1, now)
        BY <4>2 DEF InWindow
      <4>4. passed[i - 1] \in Nat
        BY <1>2, <4>1, <4>3
      <4>5. now > o + Window /\ Since(window) \in 0 .. Limit
        BY <1>2, <1>3, <3>3 DEF Since
      <4> HIDE DEF o
      <4>6. /\ passed[i - 1] <= o + Window /\ now <= passed[i - 1] + Window
            /\ i - 1 >= Since(window) => passed[i - 1] < o
        BY <4>2, <4>3 DEF InWindow
      <4>7. o \in Int
        BY <1>2 DEF o
      <4>8. passed[i - 1] < now /\ (i >= 1 + Limit => passed[i - 1] + Window < now)
        BY <1>2, <4>1, <4>4, <4>5, <4>6, <4>7
      <4> QED BY <1>2, <4>4, <4>6, <4>8 DEF InWindow
    <3> QED BY <3>1, <3>2, <3>3
  <2>4. p <= now
    BY <1>2, <2>2
  <2> QED BY <1>1, <2>2, <2>3, <2>4, WindowParts
<1>4. CASE ~(window = NoWindow \/ now > window.resetAt)
  <2>1. window' = [window EXCEPT !.count = IF @ > Limit THEN @ ELSE @ + 1]
    BY <1>1, <1>4 DEF Counted
  <2>2. window.count > 0 /\ o <= now /\ now <= window.resetAt
    BY <1>2, <1>4, WindowParts
  <2>3. /\ window'.count = window.count + 1 /\ window'.resetAt = window.resetAt
        /\ Since(window') = Since(window) + 1 /\ Since(window) = window.count
    BY <1>1, <1>2, <2>1 DEF Since, TypeOK
  <2>4. p = o /\ window' # NoWindow /\ window'.count > 0 /\ p <= now
    BY <1>2, <2>2, <2>3 DEF NoWindow
  <2>5. ASSUME NEW i \in Last PROVE InWindow(i, passed'[i], o, Since(window) + 1, now)
    <3>1. CASE i = 0
      <4>1. passed'[i] = now /\ now <= o + Window
        BY <1>1, <1>2, <2>2, <3>1
      <4> HIDE DEF o
      <4> QED BY <1>2, <2>2, <2>3, <3>1, <4>1 DEF InWindow
    <3>2. CASE i # 0
      <4>1. i - 1 \in Last /\ i \in Nat
        BY <1>2, <3>2 DEF Last
      <4>2. passed'[i] = passed[i - 1] /\ InWindow(i - 1, passed[i - 1], o, Since(window), now)
        BY <1>1, <3>2, <4>1, WindowParts
      <4> HIDE DEF o
      <4> QED BY <1>2, <2>3, <4>1, <4>2 DEF InWindow
    <3> QED BY <3>1, <3>2
  <2> QED BY <1>1, <2>3, <2>4, <2>5, WindowParts
<1> QED BY <1>3, <1>4

\* A request that is refused was preceded by as many as the limit in its window.
LEMMA ThrottleKeepsWindow ==
  ASSUME TypeOK, TypeOK', WindowInv, Throttle
  PROVE  WindowInv'
<1>1. window' = Counted(window) /\ window'.count > Limit /\ now' = now /\ passed' = passed
  BY DEF Throttle
<1>2. Limit \in Nat /\ Limit > 0 /\ window.count \in 0 .. Limit + 1
  BY UserinfoAssumption DEF TypeOK
<1>3. ~(window = NoWindow \/ now > window.resetAt)
  BY <1>1, <1>2 DEF Counted
<1>4. window' = [window EXCEPT !.count = IF @ > Limit THEN @ ELSE @ + 1]
  BY <1>1, <1>3 DEF Counted
<1>5. window'.resetAt = window.resetAt /\ Since(window') = Since(window)
  <2>1. /\ window'.resetAt = window.resetAt
        /\ window'.count = IF window.count > Limit THEN window.count ELSE window.count + 1
    BY <1>4 DEF TypeOK
  <2> QED BY <1>1, <1>2, <2>1 DEF Since
<1>6. window' # NoWindow /\ window'.count > 0
  <2>1. window'.count \in Nat /\ window'.count > 0
    BY <1>1, <1>2 DEF TypeOK
  <2> QED BY <2>1 DEF NoWindow
<1> QED BY <1>1, <1>3, <1>5, <1>6, WindowParts

LEMMA TickKeepsWindow ==
  ASSUME TypeOK, TypeOK', WindowInv, Tick
  PROVE  WindowInv'
<1> DEFINE o == window.resetAt - Window
<1>1. /\ now' = now + 1 /\ window' = window
      /\ passed' = [i \in Last |-> IF passed[i] # None /\ passed[i] + Window < now'
                                   THEN None ELSE passed[i]]
  BY DEF Tick, process
<1>2. now \in Nat /\ Window \in Nat /\ passed \in [Last -> Nat \cup {None}] /\ None \notin Nat
  BY UserinfoAssumption DEF TypeOK
<1>3. ASSUME NEW i \in Last PROVE InWindow(i, passed'[i], o, Since(window), now + 1)
  <2>1. CASE passed'[i] = None
    BY <2>1 DEF InWindow
  <2>2. CASE passed'[i] # None
    <3>1. passed'[i] = passed[i] /\ passed[i] \in Nat /\ ~(passed[i] + Window < now + 1)
      BY <1>1, <1>2, <2>2
    <3>2. InWindow(i, passed[i], o, Since(window), now)
      BY WindowParts
    <3> HIDE DEF o
    <3> QED BY <1>2, <2>2, <3>1, <3>2 DEF InWindow
  <2> QED BY <2>1, <2>2
<1>4. window # NoWindow => window.count > 0 /\ o <= now + 1
  <2>1. o \in Int
    BY <1>2 DEF TypeOK
  <2>2. window # NoWindow => window.count > 0 /\ o <= now
    BY WindowParts
  <2> HIDE DEF o
  <2> QED BY <1>2, <2>1, <2>2
<1>5. window = NoWindow => passed' = [i \in Last |-> None]
  BY <1>1, WindowParts
<1> QED BY <1>1, <1>3, <1>4, <1>5, WindowParts

LEMMA WindowStep ==
  ASSUME TypeOK, TypeOK', WindowInv, [Next]_vars
  PROVE  WindowInv'
<1>1. ASSUME UNCHANGED <<now, window, passed>> PROVE WindowInv'
  BY <1>1 DEF WindowInv
<1>2. ASSUME Restart PROVE WindowInv'
  <2>1. window' = NoWindow /\ passed' = [i \in Last |-> None]
    BY <1>2 DEF Restart
  <2> QED BY <2>1, WindowParts DEF InWindow
<1> QED
  BY <1>1, <1>2, WindowMoves, ArriveKeepsWindow, ThrottleKeepsWindow, TickKeepsWindow

LEMMA WindowAlways == Spec => [](UserinfoInv /\ WindowInv)
<1>1. Init => UserinfoInv /\ WindowInv
  <2>1. Init => WindowInv
    BY DEF Init, WindowInv
  <2> QED BY <2>1, InitKept
<1>2. UserinfoInv /\ WindowInv /\ [Next]_vars => UserinfoInv' /\ WindowInv'
  BY NextKept, WindowStep DEF UserinfoInv
<1> QED BY <1>1, <1>2, PTL DEF Spec

\* Were there one request more, it would be older than a window and forgotten.
LEMMA WindowSuffices ==
  ASSUME TypeOK, WindowInv
  PROVE  WindowsKept
<1>1. SUFFICES ASSUME passed[2 * Limit] # None PROVE FALSE
  BY DEF WindowsKept
<1>2. /\ now \in Nat /\ Window \in Nat /\ Limit \in Nat /\ Limit > 0 /\ window.resetAt \in Nat
      /\ window.count \in 0 .. Limit + 1
  BY UserinfoAssumption DEF TypeOK
<1>3. 2 * Limit \in Last
  BY <1>2 DEF Last
<1>4. passed[2 * Limit] \in Nat
  BY <1>1, <1>3 DEF TypeOK
<1>5. InWindow(2 * Limit, passed[2 * Limit], window.resetAt - Window, Since(window), now)
  BY <1>3, WindowParts
<1>6. Since(window) \in 0 .. Limit
  BY <1>2 DEF Since
<1>7. passed[2 * Limit] + Window < window.resetAt - Window /\ now <= passed[2 * Limit] + Window
  BY <1>1, <1>2, <1>5, <1>6 DEF InWindow
<1>8. window # NoWindow
  <2>1. passed # [i \in Last |-> None]
    BY <1>1, <1>3
  <2> QED BY <2>1, WindowParts
<1>9. window.resetAt - Window <= now
  BY <1>8, WindowParts
<1> QED BY <1>2, <1>4, <1>7, <1>9

LEMMA UserinfoAlways == Spec => []UserinfoInv
BY InitKept, NextKept, PTL DEF Spec

LEMMA ToldCovered ==
  ASSUME UserinfoInv
  PROVE  LimitedToConsent
<1>1. SUFFICES ASSUME NEW h \in Handlers, pc[h] # "idle", req[h].route \in {"token", "auth"},
                      NEW a \in req[h].told \ {"sub"}
               PROVE  \E s \in req[h].grant : s = a \/ <<s, a>> \in Bundles
  BY DEF LimitedToConsent, ConsentedOn
<1>2. PICK p \in Persons, columns \in Rows \cup {{}} :
        req[h].told = Payload(req[h].route, req[h].grant, p, columns)
  BY <1>1 DEF UserinfoInv, RequestsInv, ToldInv
<1> QED BY <1>1, <1>2, PayloadCovered

\* Cache, limiter and requests keep their shapes, whatever clients answer and however
\* long they take.
THEOREM TypeCorrect == Spec => []TypeOK
<1>1. UserinfoInv => TypeOK
  BY DEF UserinfoInv
<1> QED BY <1>1, UserinfoAlways, PTL

\* The ID token and the userinfo route under /auth tell no attribute but the sub that the
\* user has not consented to, for every profile, every row and every set of scopes.
THEOREM ConsentCorrect == Spec => []LimitedToConsent
BY ToldCovered, UserinfoAlways, PTL

\* An answer is sealed under keys the client has replaced only within the longest
\* lifetime of an entry and the way of an answer, however requests interleave.
THEOREM KeyRecentCorrect == Spec => []KeyWasRecent
<1>1. UserinfoInv => KeyWasRecent
  BY DEF UserinfoInv, RequestsInv
<1> QED BY <1>1, UserinfoAlways, PTL

\* No span of a window's length lets more than twice the limit through, for every limit
\* and window, although windows begin with requests and count what they refuse.
THEOREM WindowsCorrect == Spec => []WindowsKept
<1>1. UserinfoInv /\ WindowInv => WindowsKept
  BY WindowSuffices DEF UserinfoInv
<1> QED BY <1>1, WindowAlways, PTL
=============================================================================
