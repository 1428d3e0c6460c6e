# A formal model of the Singpass clone

The repository is a clone of the Singpass identity provider: an OpenID provider with the FAPI 2.0
profile (pushed authorization requests, client assertions, DPoP) for relying parties, a browser
login with password and OTP or with the Singpass app, and a management console. Most of
it happens in `src/apps/backend/src`, one process on a shared SQL database; the pages of the QR login
and of the console are in `src/apps/frontend/src`.

This directory holds TLA+ modules for the parts where the order of steps matters, TLC
configurations for small instances of them, and proofs for every value of the constants. Paths
below are relative to `src/apps/backend/src` unless they start with `src/`.

## 1. The system

### Components

| component | state | operations | modules |
|---|---|---|---|
| Browser login: `InitiateAuthSession`, `ValidateLogin`, `Validate2FA`, `GenerateAuthCode` | `auth_sessions`, `authorization_codes`; reads `par_requests` | start a session, password, OTP, issue a code | `LoginSession`, `AuthGrant` |
| Singpass app login: `core/services/qr_auth_service.ts`, the QR controller, `QRAuth.svelte`, `singpass-polling.ts` | `qr_sessions`, parent row in `auth_sessions`, the page | init, long poll, callback, countdown | `QRLogin` |
| PAR, token and userinfo endpoints: `register-par.ts`, `token-exchange.ts`, `get-userinfo.ts` | `par_requests`, `authorization_codes`, `access_tokens`, `refresh_tokens` | push, redeem, ask | `TokenEndpoint` |
| Replay protection: `dpop_validator.ts`, `client-auth.service.ts`, the PAR repository | `used_jtis` | check a document, look its jti up, write it | `ReplayGuard` |
| Server keys: `drizzle_key_manager.ts`, `main.ts` | `server_keys`, the phase of the process | ensure, rotate, retire, publish | `KeyManager` |
| Clean-up job: `infra/database/cleanup.ts` | deletes expired rows of five tables | every ten minutes | in `TokenEndpoint`, `ReplayGuard`, `KeyManager` |
| Userinfo payload: `userinfo-routes.ts`, `scope_mapper.ts`, `myinfo-mapper.ts`, `claims.ts`, the ID token of `token.service.ts` | none of its own; reads `users`, `myinfo_profiles` | read, filter, seal | `Userinfo` |
| JWKS cache: `jwks_cache.ts` | one map per process | fetch, store, serve | `Userinfo` |
| Rate limiter: `rate-limiter.ts` | one map per process | count a request, close a window | `Userinfo` |
| Console, login: `core/iam/service.ts`, `jwt_utils.ts`, `rbac.ts`, `mgmt-auth.svelte.ts`, `Login.svelte`, `Header.svelte` | `developers`, `otp_codes`, the cached key, `.env`, the cookie | register, ask for a password, verify it, check a role | `ConsoleLogin` |
| Console, clients: `core/clients/service.ts`, `core/sessions/service.ts`, `client_registry.ts`, `ClientManager.svelte` | `clients`, `sessions`, the page | create, edit, switch, rotate, delete, revoke, look up | `ClientConsole` |
| Console, lists: `core/sandbox/service.ts`, `core/admin/service.ts`, `core/sessions/service.ts`, `SandboxManager.svelte`, `GodMode.svelte`, `DeveloperSessions.svelte` | `users`, `myinfo_profiles`, `sessions`, the pages | list a page, insert, delete, update | `ConsoleLists` |
| Nonces, JWS, JWE, PKCE | none (keys from `server_keys`) | sign, verify, encrypt | verdicts are inputs |
| Account links, legacy authentication data, NDI adapter, certificates, servers, discovery, audit log, conformance runner, crawler, example | small or none | | not modelled, see section 8 |

### How they interact

A relying party pushes a request (PAR) and sends the browser to the login with its `request_uri`.
The login makes a row of `auth_sessions`; password and OTP, or the callback of Singpass, complete
it; `GenerateAuthCode` then reads the row again and inserts an authorization code with the client,
the redirect and the DPoP key of the pushed request. The relying party redeems the code at the
token endpoint and uses the access token at the userinfo endpoint, each time with a DPoP proof of
the same key. ID token and userinfo answer are encrypted with a key that the client publishes and
the process caches. The tables are the only thing the handlers share beside the caches: there are no
transactions, no locks and no version columns, and every handler awaits several queries, so two
requests interleave at each `await`. The clean-up deletes rows under all of them.

The console works on the same tables. Developers and administrators log in with a one-time password
and hold a session token signed with a key that the first request loads. What they do to a client
meets the requests of that client, which look the row up in the registry some awaits before they
write; what administrators do to sandbox users meets the answers of userinfo. The pages keep copies
of what they were answered, and send their requests side by side.

### What is hard

* *Stale copies.* `ValidateLogin` and `Validate2FA` read a row, await, and write all of its mutable
  columns back from their copy. Requests of the same session overlap. The console's pages show the
  copy they were last answered.
* *Check, await, act.* The code at the token endpoint, the jtis, the console's one-time password
  and the activation of a client are looked up and written in separate queries.
* *Several clocks.* PAR, session, code, proof, assertion, jti row, server key, cached key set and
  limiter window each expire by a rule of their own, and some compare with `<` and others with `<=`.
* *Late and repeated messages.* A callback of Singpass after a poll has expired the QR row; a
  request sent again; an answer lost on its way to the page, or overtaken by a later one; a client's
  old key set that arrives after its new one.
* *Half-filled state.* `getSigningKey` fills its two variables on two sides of an `await`.
* *Stops.* A handler or the process may end between any two of its writes, and what it kept in
  memory is gone.
* *Midnights.* Keys are rotated by a daily job that the process may miss while it is down, beside a
  task that runs at the start only.

`PROJECT.json` lists each such place with its line under `hazards`, and the properties that cover it.

## 2. Modules

`X` extends `Y` is written `X > Y`.

* `AuthGrant`: the abstract promise of the login side. Users authenticate in a session, a grant is
  issued for a user who has authenticated before, nothing is withdrawn.
* `LoginSession`: the browser login, detailed. `LoginSession_proofs > LoginSession`.
* `QRLogin > LoginSession`: adds the QR login; the steps of `LoginSession` go on beside (`LoginStep`).
  `QRLogin_proofs > QRLogin`.
* `ReplayGuard`: one-time documents and `used_jtis`.
* `TokenEndpoint > ReplayGuard`: the three endpoints, each request passing the guard first.
  `TokenEndpoint_proofs > TokenEndpoint`.
* `KeyManager`: server keys. `KeyManager_proofs > KeyManager`.
* `ConsoleLogin`: the console's login, its session key and its guard.
  `ConsoleLogin_proofs > ConsoleLogin`.
* `ClientConsole`: the clients, the developers' page of them, and the clients' own requests.
  `ClientConsole_proofs > ClientConsole`.
* `ConsoleLists`: the paged lists and the sandbox users. `ConsoleLists_proofs > ConsoleLists`.
* `Userinfo`: what is told about a user, the cache of the clients' keys, the rate limiter.
  `Userinfo_proofs > Userinfo`.
* `MC...`: symmetry sets and the documents or profiles of a run, nothing else.

An operator with the word *Mutant* in its comment is never used by the specification. It is a
definition with a plausible bug; put in the place of the real one it makes a property fail, which
shows that the property depends on the code (`mutants` in `PROJECT.json`).

### LoginSession and the code

| model | code |
|---|---|
| `sessions`, `codes`, `par` | rows of `auth_sessions`, `authorization_codes`, `par_requests` |
| `pc[h]`, `snap[h]`, `draft[h]`, `req[h]` | the await a request is in, the row it read, the code it is about to insert, its parameters |
| `LoginRead`, then `LoginReject` or `LoginAccept` | `ValidateLogin`: the read with its guards; the write-back after password hashing |
| `TwoFactorRead`, then `TwoFactorReject` or `TwoFactorAccept`, then `TwoFactorRespond` | `Validate2FA` |
| `AuthorizeRead`, `AuthorizePar`, `SaveCode` | the three queries of `GenerateAuthCode` |
| `UpdateSession` | `update()` of the session repository: all mutable columns of the copy |
| `Abort` | an await that rejects, or a stop: what was written stays |

`InitiateAuthSession` is one step: a pushed request is never changed, so what it read still holds at
its insert; a client that is deactivated in between is the subject of `ClientConsole`. Deleting an expired request or code
cannot be seen by the login (every lookup compares the expiry), so the clean-up is not part of this
module. The copied columns of the PAR payload are stood for by the request itself. The OTP is a
model value; two users may draw the same one (`Otps = {o1, o2}` with two users), as in the code.
Four histories (`challenged`, `proved`, `rejected`, and `codes` keeping its session) are written
and never read by the actions.

### QRLogin and the code

`InitQR` is the insert at `/init`; `PollStart`, `PollRead`, `PollExpire`, `PollAnswer` and
`PollFail` are a status request as seen by browser and server together; `CountdownEnds` is the
browser's timer; `CallbackRefused`, `CallbackRead`, `CallbackParent`, `CallbackAuthorized` and
`CallbackError` are `handleCallback` from its lookup to its last update. Between `CallbackParent`
and `CallbackAuthorized` the callback goes through the same three steps of `GenerateAuthCode` as
the password login. Singpass and the phone are the environment: a callback may come at any time
after the code is shown, late, or twice. `handleCallback` passes an array for a text column; what
the driver makes of it is not in the repository, so both outcomes are possible (`CallbackError` is
always enabled beside the success). `getSession` and the error redirects only read.

### ReplayGuard and TokenEndpoint and the code

`CheckProof` and `MarkProof` are `DPoPValidator.validate` around its await; `CheckAssertion`,
`LookupAssertion` and `MarkAssertion` are client authentication at the two endpoints that do it.
`KeptUntil` is where they differ: a proof's row is kept until `iat` plus the window, the row of an
assertion for a day at PAR and until its `exp` at the token endpoint. `MarkProof` overwrites
(`onConflictDoUpdate` of the JTI store), the insert at PAR fails on a conflict. `First` is the order
in which an endpoint looks at its documents. `Valid` is what the checks ask, and of an assertion that
is little: the life it states is bounded only when it states both `exp` and `iat`
(`jose_crypto.ts:115`), and its `iat` is never compared with the clock. `Iat` and `Exp` may therefore
be `None` for an assertion, or lie as far ahead as the client likes. `pushedAt` is a history, the time
an assertion of PAR was last accepted; `accepted` is one of the proofs.

`ReadCode`, `BurnCode`, `MintTokens` and `SaveRefresh` are the four table accesses of
`TokenExchangeUseCase` after the guard, `Push` and `Serve` the ends of the other two endpoints.
`UserInfo` and `Serve` stand for both userinfo routes (`get-userinfo.ts` and
`validate-userinfo-request.ts` take the same steps). The login is one step here, `IssueCode`, which
copies what `GenerateAuthCode` copies; that the user of a code has authenticated is the subject of
`LoginSession`. The checks of nonce, `redirect_uri`, PKCE,
scope and the fetch of client keys are reasons for `Abort`. A document is used under one client
(`Owner`) and carries a jti (section 5 has the assertion without one). A pushed request does not expire in this module (it does in `LoginSession`).

### KeyManager and the code

`Start` is the `Promise.all` of `main.ts`: both tasks have sent their first query before either
writes. `EnsureSig`, `LookForEnc`, `EnsureEnc` are the rest of `ensureActiveKey`; `RotateLookup`,
`RotateGenerate`, `RotateRetire` the steps of `rotateKeys`, of which `RotateFail` may drop the rest.
Time is counted in fractions of a day and stands still during a start or a rotation; a running
process misses no midnight, a process that is down misses all of them. Every key can be decrypted
(one master key). `interrupted` remembers that a start was cut off.

### ConsoleLogin and the code

| model | code |
|---|---|
| `devs`, `otps` | rows of `developers` (the role) and `otp_codes` |
| `saved`, `private`, `public` | `OIDC_PRIVATE_KEY` as the next process finds it, `cachedPrivateKey`, `cachedPublicKey` |
| `Register`, `RegisterInsert`, `RequestOtp`, `OtpInsert` | `registerDeveloper` and `requestOtp` with their look-ups and inserts |
| `VerifyOtp`, `MarkUsed`, `ReadOwner`, `OpenSession` | `verifyOtp`: the row by address and password, the update that names its id only, the developer, the signed token |
| `KeyCached`, `KeyMissing`, then `ImportKey`, `PublishKey` or `GenerateKey`, `SaveKey` | `getSigningKey` on its two branches, between its awaits; verification reads the public variable as it is |
| `CheckMe`, `Check` | `checkMe` of the header, `rbac` |
| `step`, `area`, `cookie` | the page of a browser, the console it is for, its session |
| `Restart` | a new process: the variables are empty, `saved` stays |

A browser has one tab. Passwords are never drawn twice (a collision of six digits), a used row loses
its other columns, and a production process without a key, which throws, is left out. No code
writes a developer's status.

### ClientConsole and the code

`CreateClient`, `UpdateClient`, `ToggleClientStatus`, `RotateSecret`, `DeleteClient` are the updates
of `ClientService` with the condition of each `WHERE`; `RevokeAllClientSessions` is the delete that
follows a deactivation or a deletion in a query of its own. `RevokeSession` and `DeleteSession` are
the two halves of the revocation of one session, which may leave others of the client: `legacy` says
which clients have any. `BuiltIn` is `HARDENED_CLIENT_REGISTRY`, which is looked at before the table,
for ids it has of its own or shares with it. `Lookup` is `getClientConfig` on behalf of PAR, of `InitiateAuthSession` or of the client assertion at the
token endpoint, `Grant` the insert at the end of those. The page is `ClientManager.svelte`: `Click` is a button
of a row it lists, `Refetch` the `fetchClients` after an answer, `ShowList` and `ShowSecret` what it
keeps; `Reload` mounts it again while its old requests go on. One developer's page is modelled;
everybody else, that developer's other tabs included, is a `Call` from elsewhere. Client secrets are
stored and shown, and nothing in the repository verifies one.

### ConsoleLists and the code

A row is its place in the order `(created_at, id)`. `PerSecond` places share a `created_at`, and an
insert takes any free place of the latest second, as a random id does. `Descending` is the order of
the queries, `Without` the `filter` of a page that has revoked a session. `ListPage` is the query with
the cursor, `Limit + 1` rows and the next cursor; `InsertRow`, `InsertProfile`, `DeleteProfile`,
`DeleteUser` the two queries of `createUser` and of `deleteUser`. `page` chooses one of the three
pages, which differ in what `LoadMore` does: `GodMode`'s effect reads the cursor, so its button also
fetches the first page (`LoadMoreAndFirst`). Whether foreign keys are enforced is up to the
driver, so both outcomes of the second query are possible. A change of tab with a request in flight
and the read behind the edit window are left out; sessions are not added by the console.

### Userinfo and the code

A request begins when its token and proof have been accepted, which is `TokenEndpoint`. `ReadUser`
reads the profile, any of `Persons`, and the columns of the user, any of `Rows`, because the console
may have edited them at any time. `Payload` puts together `AttributesOf`, `FilterByScopes`,
`MapProfile` and `SubAttributes`, one operator for each function of the code. A `sub` at the root of
a profile stands beside the personal attributes, and the filter keeps it whatever the scopes. `StaticKey`,
`CachedKey`, `Fetch`, `Respond`, `Store` are the ways to the client's key: `Respond` is the moment the
client answers, `Store` the moment the answer is stored, so a later answer may be stored first. A key
set is a version number; `Rotate` is the client publishing the next one. `Counted` and `Throttle` are
the limiter's two branches and its timer, for one address.

## 3. Runs

| run | what it shows | bounds |
|---|---|---|
| `login_concurrent` | two requests in one session, every interleaving of their awaits: `CodeAttestsUser`, `ChallengeNotTorn`, `FailedExactlyAtLimit`; the login implements `AuthGrant` | two users, two OTPs, two handlers, limit 2, clock 0..1 |
| `login_sequential` | requests one after another: `CodeWithinRequest`, `RetryLimit`, `FailedIsFinal`, and every request is answered | one handler, three clients of which one is inactive, two pushed requests, limit 3, clock 0..2 |
| `login_lost_update` | violation: two failed attempts that overlap count once | two handlers, limit 3 |
| `qr_login` | callbacks, polls, lost answers, dying handlers and the password login together: `CodeAttestsUser`, `RedirectIsIssued`, `PageTellsTruth`, and `PageSettles` under fairness | two handlers, one QR code, one callback, limit 1, clock 0..2 |
| `token_endpoint` | `UsedIsRemembered`, `NoProofReplay`, `ParAssertionOnce`, `BoundAsPushed`, `BurntBeforeMinted`, `RedeemedOnce` | two handlers, three proofs, two assertions (one dated ahead, one without `iat`), two keys, one code, two tokens, window 1, leeway 0, retention 1, clock 0..2 |
| `token_two_redemptions` | violation: one code, two access tokens | the same, leeway 1, retention 2 |
| `keys` | `SigningKeyAvailable` | half-day units, rotation 2, grace 4, five keys, clock 0..14 |
| `console_login` | `OneSessionPerCode`, `CacheInStep`, `ConsoleForItsRole`, `SessionsOutliveRestarts` | an administrator and a developer, two passwords, two keys, one browser, two requests, clock 0..1 |
| `console_clients` | `GrantsNeedLiveClient`, `RevokedWithClient`, `QuietPageIsFresh` | two developers, one client and two built-in ids (one active, one not), two secrets, two requests |
| `console_lists` | `PagesFitTogether`, `ProfilesMatchUsers` | three rows of which two share a second, one row to a page, two requests |
| `userinfo` | `LimitedToConsent`, `KeyWasRecent`, `WindowsKept` | two clients of which one has its key in the registry, a token without `openid` and a profile with a `sub`, two key sets, lifetimes 0 to 2, limit 1, clock 0..4 |
| `userinfo_unlimited` | violation: the other userinfo route tells the whole profile | one client, clock 0..2 |

Every passing run also checks the type invariant of its module.

Why the bounds are enough. Two handlers are the least that overlap, and every hazard listed is a
race of two requests; the theorems cover any number. With limit 2 a row passes through "below",
"one below" and "at" the limit, which `FailedExactlyAtLimit` tells apart. A clock of one unit more
than a lifetime reaches every expiry. In `token_endpoint` the retention is the least its assumption
allows, so that the row of a PAR assertion is purged while the run goes on, and the assertion, dated
2, is accepted at 0, forgotten and accepted again at 2, whereas accepted at 1 it is
remembered up to its last moment. The leeway, which only adds to `exp`, is 0 there; the theorems
have all values.
In `keys` seven
periods of rotation pass, so keys of three generations are in the table, and the process may be
down for any part of it; with a grace period of one unit less `SigningKeyAvailable` fails. Five keys
are enough that an id is always free where the check is meant to reach (ids are drawn again after
the clean-up). In `qr_login` one callback meets the poll that expires its row, a lost answer
(`MaxPollFails` is 1 for 5), a handler that dies and a password login of the same session; that more
callbacks change nothing is what the theorems add.
`console_login` has two keys since a second one is only ever made by a race or after a failed
save. In `console_lists` three rows are two pages and a next one, and two in the same second are
what the cursor's second half is for. In `userinfo` a clock of 4 holds two windows in a row, and a
key set that is replaced, answered late, stored for the longest lifetime and used at its end.

`CHECK_DEADLOCK FALSE` where the clock is bounded and a run comes to an end: all but the
runs of the console, which can always go on.

### Fairness

`FairSpec` has weak fairness of `Continue(h)`, for each handler: the runtime goes on with a request
it has started, and an await settles. It is not assumed that any request arrives. `QRFairSpec`
assumes that time passes (`WF(Tick /\ UNCHANGED qrVars)`) and that the browser goes on with its
polling (`Poll(q)`, weakly fair):
`pollQRStatus` schedules its next request whenever one returns. It assumes nothing of callbacks, of
handlers or of the countdown, which a browser may suspend. Answers may be lost for ever; the page
then gives up after the fifth failure, which is why `PageSettles` holds without fairness of the
network.

## 4. What the runs show, in words

* However two requests of a session interleave, an authorization code names a user who passed both
  factors in that session, has assurance level 2, belongs to the client that pushed the request and
  was made while the request was live. The stale write-backs never mix the columns of two logins,
  because each writes the columns of one copy together.
* The retry counter is *consistent* under concurrency (FAILED exactly at the limit) but not *exact*:
  overlapping failures are lost (`login_lost_update`). It is exact when requests follow one another.
* A QR page that says AUTHORIZED has a code behind it, in its own session, even after the row was
  overwritten. The status column itself moves in ways the documents exclude (section 5).
* A DPoP proof that has been accepted is found again for as long as it is valid, although row and
  document expire by different rules. So is a PAR assertion that states both its times and is not
  dated further ahead than a proof may be; the code asks for neither, and another one may pass again
  once its row is gone. Whatever its times, two pushes of one assertion are more than the retention
  apart. Two requests that look a *proof* up before its first acceptance may share it; an
  *assertion* at PAR is stopped by the primary key.
* Tokens are bound to the key, client and user of the pushed request; a code cannot be redeemed once
  a token of it exists, whatever fails in between; it is redeemed once unless two requests hold it
  together, and then twice (`token_two_redemptions`).
* A serving process has an active signing key through any pattern of stops, as long as the grace
  period is at least two rotation periods (the defaults are 14 and 7 days: exactly that) and no start
  was cut off in the middle.
* A console password opens one session, unless two requests found its row before either marked it.
  The two halves of the cached key never belong to different keys. A session outlives a restart
  unless two requests made a key each or the file could not be written. The administrators' console
  opens for administrators although the login page sends everybody there, because `checkMe` asks
  for the role.
* The registry looks at `isActive` only, some awaits before a row is written; since a deletion also
  deactivates and nothing switches a deleted client on, every row is for a client that was active
  and not deleted at some moment of the request. Ids that are built into the registry are the
  exception: they stay as they are built in. A client that is off has no sessions, once the
  delete that follows is through; a failure between the two queries leaves them.
* The developers' page shows the database when it is quiet, but two fetches or two rotations that
  overlap may leave it with the older answer.
* Lists put together from several pages hold every row that was there all the time, in order and
  once, thanks to the two halves of the cursor, unless fetches overlap: then rows may be repeated or
  missing.
* The ID token and the route under `/auth` tell what was consented to and no more, wherever a
  profile keeps an attribute, except for a `sub` at its root; the other route does not filter (`userinfo_unlimited`). A client that
  has replaced its keys is answered under the new ones after the longest lifetime and the way of one
  answer. Any span of a window's length lets through at most twice the limit, restarts aside.

## 5. Divergences from the documents

Three are runs that TLC finds violated, with the line quoted in `PROJECT.json` under `findings`:

* three overlapping failures do not end a session (`src/specs/014-auth-error-redirect/spec.md:61`);
* one code gives two sets of tokens and nothing is revoked
  (`src/specs/008-token-exchange/contracts/token-api.md:51`);
* the route at `/userinfo` tells what its token's scopes do not cover
  (`src/specs/026-userinfo-scope-handling/spec.md:81`).

Others were met while reading and are only stated here:

* an assertion without `exp`, or dated far ahead, passes the checks of PAR again once its row of
  `used_jtis` is gone after a day (`jose_crypto.ts:115` and `:125`, `register-par.ts:222`), and one
  without a jti is not looked up at all at the token endpoint (`client-auth.service.ts:77`), for which
  specs/030, `spec.md:47` promises that assertions are not replayed;
* a `sub` at the root of a profile is told under `person_info` to a client that did not ask for
  `openid` (`scope_mapper.ts:69`; specs/026, `spec.md:81`); PAR does not require the scope;
* the ids of `HARDENED_CLIENT_REGISTRY` are served as they are built in, whatever the console has made
  of a row with the same id (`client_registry.ts:110`);
* `src/packages/shared/src/config.ts:12` says the active key is rotated every 7 days, but an
  encryption key may put a rotation off and a signing key reach two periods; `:13` says old keys are
  kept for 14 days "for verification", but the days count from the key's creation and not from its
  replacement, so a key that signed for two periods is not kept beyond them;
* a late callback overwrites EXPIRED, a terminal status (specs/039, `data-model.md:31` and `:39`);
* a callback of Singpass completes a FAILED parent session (specs/014, `data-model.md:24`);
* `/jwks` loses its encryption key after the grace period of 14 days, since only a start makes one
  (specs/030, `spec.md:43`);
* the lockout of console accounts is not implemented (specs/042, FR-001 and FR-014), nor does any login look at a deactivated `accountType`
  (FR-012, `spec.md:82`); a `jwksUri` posted for a client is dropped (FR-004);
* the client form posts `clientName`, `ClientService` inserts `data.name`: a client cannot be created
  from the page;
* `GodMode`'s effect reads the cursor, so "Load More" also fetches the first page;
* the limiter is mounted with `use('*')`, so it also counts the routes under `/auth/singpass`.

## 6. Proofs

Eight modules of proofs, each about one module of the model, for all values of its constants. Every
safety invariant and every action property of the runs is a theorem. Two of them rest on a
condition that the code does not enforce, and their theorems say so: `RetryLimitCorrect` and
`FailedCorrect`, on `[]Sequential`. What the code does not promise of every document, client or
attribute is an exception the property itself names.

`LoginSession_proofs` proves, for all constants that meet the assumptions of `LoginSession` (a null
that is no value, positive limits, active clients are clients):

| theorem | says |
|---|---|
| `TypeCorrect` | `Spec => []TypeOK` |
| `RetryCorrect` | `Spec => []FailedExactlyAtLimit` |
| `AttestationCorrect` | `Spec => []CodeAttestsUser` |
| `ChallengeCorrect` | `Spec => []ChallengeNotTorn` |
| `WindowCorrect` | `Spec => []CodeWithinRequest` |
| `LoginImplementsGrant` | `Spec => Grant!Spec`: the login implements `AuthGrant` |
| `RetryLimitCorrect` | `Spec /\ []Sequential => []RetryLimit` |
| `FailedCorrect` | `Spec /\ []Sequential => FailedIsFinal` |

`Sequential` says that the requests of one session follow one another: while one of them holds a
copy of the row no other does. Requests of other sessions overlap it as they like, and so does one of
the same session that has gone on to `GenerateAuthCode`. Without it the two properties are false:
`login_lost_update` shows the first. A run with one handler meets the condition by itself; the
theorem is for any number of them.

None of the properties is inductive. What makes them so, in each case, is a statement about the
copies that handlers are about to write back:

* `RetryInv`: a handler holding a copy holds one that is below the limit, so the write it makes is
  consistent on its own, whatever it overwrites.
* `AttestationInv`: what a row, a copy or a drafted code says about authentication was true when it
  was read, and stays true, because `challenged` and `proved` only grow (`HistoryGrows`,
  `AttestedMonotone`). The case of an OTP is the interesting one: the OTP compared is the one of
  the copy, so it proves the user of the copy, not of the row as it is now.
* `WindowInv`: rows, copies and drafts carry the client and expiry of the request they came from,
  and a pushed request never changes (`RequestsKept`).
* `CountInv`: when requests follow one another the copy about to be written back is the row as it is,
  and the row counts at least what was rejected since the last success. This is what an overlapping
  request breaks, and all that `Sequential` is used for.

The refinement needs `AttestationInv` for one step only, `SaveCode`, where the drafted code has to
name a proved user; every other step leaves the grants alone or adds to `proved`.

`TokenEndpoint_proofs` proves, for all constants that meet the assumptions of `ReplayGuard` and
`TokenEndpoint` (documents have one owner; proofs have two times, assertions may do without; the
retention of PAR covers twice the window plus the leeway; a null is no value):

| theorem | says |
|---|---|
| `TypeCorrect` | `Spec => [](TypeOK /\ RequestInv)` |
| `UsedJtiCorrect` | `Spec => []UsedIsRemembered` |
| `ProofReplayCorrect` | `Spec => NoProofReplay` |
| `AssertionReplayCorrect` | `Spec => ParAssertionOnce` |
| `BindingCorrect` | `Spec => []BoundAsPushed` |
| `BurntCorrect` | `Spec => []BurntBeforeMinted` |
| `RedemptionCorrect` | `Spec => []RedeemedOnce` |

* `RequestInv` says what a handler holds at each step (a proof, an assertion that is not from the
  future, a code row, a token). `TypeOK` is not inductive without it: whether the key column of a
  new token is null depends on the proof the request brought some steps before.
* `ReplayInv` is about rows and not about what is valid. `ProofInv`: an accepted proof has a row that
  expires with the window of its `iat`, or that moment has passed. `RowInv`: a PAR assertion has a row
  that expires a retention after it was last accepted, or that much time has passed since. Both hold
  however long a handler waits, since the insert at PAR fails when there is a row, whenever the look-up
  was. `UsedIsRemembered` follows by arithmetic (`ReplayImplies`, the only place
  where the assumption on the retention is used: an assertion that is on time was made at most a
  window after its acceptance, lives for a window and is let through for the leeway).
* `ParAssertionOnce` is `RowInv` at the step that pushes: without a row the last push is further away
  than the retention. This is why it needs nothing of the times of the assertion.
* `BindingInv` follows the key: from the pushed request to `issued`, from there to the code row, the
  handler's copy of it, the token, the answer. `IssuedStays` keeps it when a code is purged.
* `SoleInv` is the argument for one redemption. A code is in one of three phases: no holder and no
  token, one holder and no token, no holder and one token. It stays so because a code with a token
  is burnt (`BurntInv`) and a burnt code that was issued stays burnt (`BurntStays`, which needs
  `BindingInv` to know that the code was issued and so is not issued again).

`QRLogin_proofs` proves, for any number of QR codes, polls, callbacks and sessions:

| theorem | says |
|---|---|
| `QRTypeCorrect` | `QRSpec => []QRTypeOK` |
| `QRAttestationCorrect` | `QRSpec => [](CodeAttestsUser /\ ChallengeNotTorn)` |
| `RedirectCorrect` | `QRSpec => []RedirectIsIssued` |
| `PageCorrect` | `QRSpec => []PageTellsTruth` |
| `QRImplementsGrant` | `QRSpec => ImplementsGrant`: both logins together implement `AuthGrant` |

The steps of the password login keep `AttestationInv` by the lemma of `LoginSession_proofs`; the
callback's steps are new. `QRInv` is what links the two: a handler that is about to answer a
callback has saved its code in the parent session of the very row it answers (`HandlerInv`), so the
row is AUTHORIZED only with such a code, and so are the answer on its way and the page
(`ResultInv`), which is why a later overwrite of the row does no harm.

`KeyManager_proofs` proves, for any rotation, grace period and purge age with
`Grace >= 2 * Rotation` (`PeriodsAssumption`, the defaults of the code):

| theorem | says |
|---|---|
| `TypeCorrect` | `Spec => []TypeOK` |
| `SigningKeyCorrect` | `Spec => []SigningKeyAvailable` |

That there is an active signing key is not inductive: an encryption key counts as the newest key
and puts off the rotation. `SigningInv` bounds how long: an encryption key that does so is younger
than some signing key by a period at most, so at the next rotation the newest signing key is at most
two periods old, and the assumption keeps it from being retired before its successor is there.

`ConsoleLogin_proofs` proves, for any number of addresses, passwords, keys, browsers and requests:

| theorem | says |
|---|---|
| `TypeCorrect` | `Spec => []TypeOK` |
| `OneSessionCorrect` | `Spec => []OneSessionPerCode` |
| `CacheCorrect` | `Spec => []CacheInStep` |
| `RoleCorrect` | `Spec => []ConsoleForItsRole` |
| `SessionsCorrect` | `Spec => []SessionsOutliveRestarts` |

* `OtpInv`: a password that no two requests have held has one holder at most; before it is marked
  it has opened nothing, after that it has no other holder and never gets one.
* `CacheInv`: a process takes one of the two branches of `getSigningKey`. Nobody imports beside a
  request that makes a key, so the two variables are never filled from different keys.
* `KeyInv`: without a mishap there is one key, and as long as it is not saved some request of the
  process that made it is about to save it.
* `PageInv`: a request of a page belongs to that page, and the one of a header is alone and asks about the
  session the browser still has; that is why the answer may open a console.

`ClientConsole_proofs` proves, for any number of developers, clients, secrets and requests:

| theorem | says |
|---|---|
| `TypeCorrect` | `Spec => []TypeOK` |
| `GrantsCorrect` | `Spec => []GrantsNeedLiveClient` |
| `RevokedCorrect` | `Spec => []RevokedWithClient` |
| `PageCorrect` | `Spec => []QuietPageIsFresh` |

* `LiveInv`: a deleted client is not active (deletion clears the column and the update that sets it
  wants a client that is not deleted), and a request whose client is live has noted it; a request that
  was accepted is for such a client, or for an id that is built in as active.
* `RevokedWithClient` is inductive as it stands: sessions of a client that is off are owed to a request
  that switched it off or deleted it. A revocation by hand that happens to be under way is no excuse:
  it deletes one session, and leaves what others owe to them (`RevokeStep`).
* `ListInv`, `SecretInv`: either a write of the page is through and will fetch the list, or there is
  at most one fetch and its answer is the list as it is; likewise for a new secret.
  `Wrote`, `Served`, `Ended` and `Began` state each handler's step as one move of one request, so that
  the invariants are proved once for each kind of move.

`Userinfo_proofs` proves, for any number of requests and clients, all profiles, rows and sets of
scopes, and all lifetimes:

| theorem | says |
|---|---|
| `TypeCorrect` | `Spec => []TypeOK` |
| `ConsentCorrect` | `Spec => []LimitedToConsent` |
| `KeyRecentCorrect` | `Spec => []KeyWasRecent` |
| `WindowsCorrect` | `Spec => []WindowsKept` |

* `ToldInv`: what a request tells is what `Payload` makes of some profile; that such a payload is
  covered by the scopes, but for a `sub`, is a lemma about the operators alone (`PayloadCovered`).
* `AnswerInv` and `EntryInv` are the two ends of the way of a key: the keys in an answer under way
  were published when it was sent (`PublishedInv`), and an entry ends a lifetime after they arrived
  at the latest. An entry that a late answer overwrites is covered like any other, because the bound
  speaks of the keys in it and not of the moment it was written.
* `WindowInv`: `passed` holds what the limiter let through, newest first, for as long as a window
  lasts. At most `Limit` of those came in the window that is open, at most `Limit` more in the one
  before it, and what is older came more than a window before the open one began and has been
  forgotten. So there is never a request in place `2 * Limit`, which is what `WindowsKept` says.

`ConsoleLists_proofs` proves, for any finite set of rows, any number of them to a second, any page
length and any number of overlapping requests:

| theorem | says |
|---|---|
| `TypeCorrect` | `Spec => []TypeOK` |
| `ProfilesCorrect` | `Spec => []ProfilesMatchUsers` |
| `PagesCorrect` | `Spec => []PagesFitTogether` |

* `CarriedInv` says what a request of each kind carries at each step, and that a session whose
  revocation has been answered is gone; without that the filter of a page could take away a row that
  is still there.
* `DeletionsInv`: a deletion finds a profile at its second query only if the creation of the same
  user came between; such users are the exception `ProfilesMatchUsers` names.
* `PagesInv`: as long as nothing went wrong there is one fetch at most, the list covers what stayed
  down to the cursor (`Covers`), and an answer under way covers it from there to the next cursor.
  `FirstPage` and `NextPage` show that of a query, `CoversJoin` that the two fit together, and that
  the rows revoked between them do not matter.
* A page is sorted by `Descending`, a `CHOOSE`. That every finite set of numbers can be put in order
  needs an induction, and the library's induction principles cannot be instantiated here. `Least`
  takes its place: `<` on the naturals is well founded, so a set of numbers that is not
  empty has a least member, and `InOrder` refutes the smallest set without an order.

Model-checked only: liveness (`RequestsAnswered`, `PageSettles`), since the proof system has no
support for fairness.

## 7. Plan

Done: the login and the relying-party endpoints with replay protection, the QR login, the server
keys, the console's login, its clients and its lists, the userinfo answers, the key cache and the
limiter, each with proofs of all its safety properties. What is left, in order:

1. The choice among the keys of one set (`kid`, `use`) in `jwks_cache.ts` and in client
   authentication.
2. The end users' login form (`LoginForm.svelte`, `TwoFactorForm.svelte`) as a client of
   `LoginSession`, with its own retries.
3. Several tabs of one browser on the console, which share a cookie.

## 8. Not modelled, and why

* Cryptography and token contents: stateless; a failed check is a failed request.
* Account links and the legacy authentication data service: nothing on the path of a login reads
  what they write.
* Certificates, HTTP servers, routing, discovery and OpenAPI documents, logging: files, sockets
  and constants.
* Rows of `auth_sessions`, `qr_sessions` and the token tables are never deleted by the code, so
  their growth is unbounded; sessions and tokens are bounded here by the ids a run may draw.
* Conformance runner, crawler, example application, layout and languages of the pages.
* A server key that cannot be decrypted (another master key), and a production process without a
  console key.

## 9. Running

    tlasany LoginSession.tla
    tlc -workers 2 -config login_concurrent.cfg MCLoginSession
    tlapm ClientConsole_proofs.tla

The module of each configuration is in `PROJECT.json` under `runs`; `qr_login` runs `QRLogin` itself.
