------------------------ MODULE TokenEndpoint_proofs ------------------------
(***************************************************************************)
(* Proofs about TokenEndpoint, for every set of documents, clients, codes, *)
(* tokens and concurrent requests, and every window, leeway and lifetime.  *)
(***************************************************************************)
EXTENDS TokenEndpoint, FiniteSetTheorems, TLAPS

-----------------------------------------------------------------------------
(* Types *)

LEMMA ConstantsTyped ==
  /\ NoCode \in CodeRow
  /\ NoToken \in TokenRow
  /\ NoTask \in Task
  /\ NoRequest \in Request
BY DEF NoCode, CodeRow, NoToken, TokenRow, NoTask, Task, NoRequest, Request

\* The ways a handler's place and request change keep their types.
LEMMA PlaceTyped ==
  ASSUME TypeOK, NEW h \in Handlers
  PROVE  /\ End(h) => pc' \in [Handlers -> Labels] /\ req' \in [Handlers -> Request]
         /\ \A l \in Labels : Goto(h, l) =>
              pc' \in [Handlers -> Labels] /\ req' \in [Handlers -> Request]
         /\ \A fit : \A l \in Labels : Pass(h, fit, l) =>
              pc' \in [Handlers -> Labels] /\ req' \in [Handlers -> Request]
<1>1. End(h) => pc' \in [Handlers -> Labels] /\ req' \in [Handlers -> Request]
  BY ConstantsTyped DEF TypeOK, End, Labels
<1>2. \A l \in Labels : Goto(h, l) =>
        pc' \in [Handlers -> Labels] /\ req' \in [Handlers -> Request]
  BY DEF TypeOK, Goto
<1> QED BY <1>1, <1>2 DEF Pass

LEMMA AnswerTyped ==
  ASSUME TypeOK, NEW h \in Handlers, Answer(h)
  PROVE  /\ pc' \in [Handlers -> Labels]
         /\ req' \in [Handlers -> Request]
         /\ task' \in [Handlers -> Task]
BY PlaceTyped, ConstantsTyped DEF Answer, TypeOK

LEMMA KeptUntilTyped ==
  ASSUME NEW d \in Docs, NEW t \in Nat
  PROVE  KeptUntil(d, t) \in Nat
BY DocsAssumption, TimesAssumption DEF KeptUntil, Docs

LEMMA MarksTyped ==
  ASSUME TypeOK, NEW h \in Handlers, MarkProof(h) \/ MarkAssertion(h),
         pc[h] = "markProof" => req[h].proof \in Proofs,
         pc[h] = "markAssertion" => req[h].assertion \in Assertions
  PROVE  /\ now' = now
         /\ jtis' \in [Docs -> Nat \cup {NoJti}]
         /\ accepted' \subseteq Proofs
         /\ pushedAt' \in [ParAssertions -> Nat \cup {None}]
<1>1. ASSUME NEW d \in Docs, Keep(d) PROVE jtis' \in [Docs -> Nat \cup {NoJti}]
  BY <1>1, KeptUntilTyped, TimesAssumption DEF Keep, TypeOK
<1>2. ASSUME NEW d \in Assertions, Asserted(d)
      PROVE  /\ jtis' \in [Docs -> Nat \cup {NoJti}]
             /\ pushedAt' \in [ParAssertions -> Nat \cup {None}]
  <2>1. now \in Nat
    BY TimesAssumption DEF TypeOK
  <2> QED BY <1>1, <1>2, <2>1 DEF Asserted, Docs, TypeOK
<1>3. CASE MarkProof(h)
  BY <1>1, <1>3 DEF MarkProof, Docs, TypeOK
<1>4. CASE MarkAssertion(h)
  BY <1>2, <1>4 DEF MarkAssertion, TypeOK
<1> QED BY <1>3, <1>4

\* A step of the guard keeps the types of what it changes.
LEMMA GuardTyped ==
  ASSUME TypeOK, RequestInv, NEW h \in Handlers, Guard(h)
  PROVE  /\ now' = now
         /\ jtis' \in [Docs -> Nat \cup {NoJti}]
         /\ accepted' \subseteq Proofs
         /\ pushedAt' \in [ParAssertions -> Nat \cup {None}]
         /\ pc' \in [Handlers -> Labels]
         /\ req' \in [Handlers -> Request]
<1> DEFINE Typed == /\ now' = now
                    /\ jtis' \in [Docs -> Nat \cup {NoJti}]
                    /\ accepted' \subseteq Proofs
                    /\ pushedAt' \in [ParAssertions -> Nat \cup {None}]
                    /\ pc' \in [Handlers -> Labels]
                    /\ req' \in [Handlers -> Request]
<1>1. AfterProof(req[h].endpoint) \in Labels /\ AfterAssertion(req[h].endpoint) \in Labels
  BY DEF AfterProof, AfterAssertion, Labels
<1>2. {"markProof", "lookup", "markAssertion"} \subseteq Labels
  BY DEF Labels
<1>3. /\ pc[h] = "markProof" => req[h].proof \in Proofs
      /\ pc[h] = "markAssertion" => req[h].assertion \in Assertions
  BY DEF RequestInv, Fits, StepsOf
<1>4. CASE CheckProof(h) \/ CheckAssertion(h) \/ LookupAssertion(h)
  BY <1>2, <1>4, PlaceTyped DEF CheckProof, CheckAssertion, LookupAssertion, TypeOK
<1>5. CASE MarkProof(h)
  BY <1>1, <1>3, <1>5, PlaceTyped, MarksTyped DEF MarkProof
<1>6. CASE MarkAssertion(h)
  <2>1. CASE req[h].endpoint = "par" /\ Remembered(req[h].assertion)
    BY <2>1, <1>6, PlaceTyped DEF MarkAssertion, TypeOK
  <2>2. CASE ~(req[h].endpoint = "par" /\ Remembered(req[h].assertion))
    BY <2>2, <1>1, <1>3, <1>6, PlaceTyped, MarksTyped DEF MarkAssertion
  <2> QED BY <2>1, <2>2
<1> QED BY <1>4, <1>5, <1>6 DEF Guard

LEMMA BeginTyped ==
  ASSUME TypeOK, NEW h \in Handlers, NEW endpoint \in {"par", "token", "userinfo"},
         NEW a \in Assertions \cup {None}, NEW p \in Proofs \cup {None}, NEW t \in Task,
         Begin(h, endpoint, a, p, t)
  PROVE  TypeOK'
<1>1. First(endpoint, p) \in Labels
  BY DEF First, Labels
<1>2. [endpoint |-> endpoint, assertion |-> a, proof |-> p] \in Request
  BY DEF Request
<1> QED BY <1>1, <1>2 DEF Begin, TypeOK, tables, histories

LEMMA ArriveTyped ==
  ASSUME TypeOK, NEW h \in Handlers, Arrive(h)
  PROVE  TypeOK'
<1>1. ASSUME NEW a \in Assertions, NEW p \in Proofs \cup {None}, NEW key \in Keys \cup {None},
             Register(h, a, p, key)
      PROVE  TypeOK'
  <2>1. [NoTask EXCEPT !.key = key] \in Task
    BY ConstantsTyped DEF Task, NoTask
  <2> QED BY <1>1, <2>1, BeginTyped DEF Register
<1>2. ASSUME NEW a \in Assertions, NEW p \in Proofs, NEW c \in Codes, Exchange(h, a, p, c)
      PROVE  TypeOK'
  <2>1. [NoTask EXCEPT !.code = c] \in Task
    BY ConstantsTyped DEF Task, NoTask
  <2> QED BY <1>2, <2>1, BeginTyped DEF Exchange
<1>3. ASSUME NEW p \in Proofs, NEW t \in Tokens, UserInfo(h, p, t)
      PROVE  TypeOK'
  <2>1. [NoTask EXCEPT !.token = t] \in Task
    BY ConstantsTyped DEF Task, NoTask
  <2> QED BY <1>3, <2>1, BeginTyped DEF UserInfo
<1> QED BY <1>1, <1>2, <1>3 DEF Arrive

\* The rows the actions write.
LEMMA CodeForTyped ==
  ASSUME TypeOK, NEW u \in Users, NEW pr \in pushed, pr.key # None
  PROVE  CodeFor(u, pr) \in CodeRow \ {NoCode}
<1>1. pr.client \in Clients /\ pr.key \in Keys /\ now + CodeTTL \in Nat
  BY TimesAssumption, TokenAssumption DEF TypeOK, Pushed
<1> QED BY <1>1, DocsAssumption DEF CodeFor, CodeRow, NoCode

LEMMA MintTyped ==
  ASSUME TypeOK, RequestInv, NEW h \in Handlers, NEW t \in Tokens, MintTokens(h, t)
  PROVE  /\ tokens'[t] \in TokenRow \ {NoToken}
         /\ \A u \in Tokens : u # t => tokens'[u] = tokens[u]
         /\ tokens' \in [Tokens -> TokenRow]
         /\ tokens[t] = NoToken
         /\ tokens'[t].code = task[h].code
         /\ tokens'[t].client = task[h].row.client
         /\ tokens'[t].user = task[h].row.user
         /\ tokens'[t].key = KeyOf[req[h].proof]
<1>1. /\ task[h].row \in CodeRow \ {NoCode}
      /\ task[h].code \in Codes
      /\ req[h].proof \in Proofs
  <2>1. req[h].endpoint = "token"
    BY DEF MintTokens, RequestInv, Fits, StepsOf, TypeOK, Request
  <2> QED BY <2>1 DEF MintTokens, RequestInv, Fits, TypeOK, Task
<1>2. /\ task[h].row.client \in Clients
      /\ task[h].row.user \in Users
      /\ KeyOf[req[h].proof] \in Keys
      /\ now + TokenTTL \in Nat
  BY <1>1, DocsAssumption, TimesAssumption, TokenAssumption DEF CodeRow, TypeOK
<1> DEFINE row == [code |-> task[h].code, client |-> task[h].row.client,
                   user |-> task[h].row.user, key |-> KeyOf[req[h].proof],
                   expiresAt |-> now + TokenTTL, refresh |-> FALSE]
<1>3. row \in TokenRow \ {NoToken}
  BY <1>1, <1>2, TokenAssumption DEF TokenRow, NoToken
<1>4. tokens' = [tokens EXCEPT ![t] = row] /\ tokens[t] = NoToken
  BY DEF MintTokens
<1> HIDE DEF row
<1>5. /\ tokens'[t] = row
      /\ \A u \in Tokens : u # t => tokens'[u] = tokens[u]
      /\ tokens' \in [Tokens -> TokenRow]
  BY <1>3, <1>4 DEF TypeOK
<1>6. /\ row.code = task[h].code
      /\ row.client = task[h].row.client
      /\ row.user = task[h].row.user
      /\ row.key = KeyOf[req[h].proof]
  BY DEF row
<1> QED BY <1>3, <1>4, <1>5, <1>6

LEMMA RefreshTyped ==
  ASSUME TypeOK, RequestInv, NEW h \in Handlers, SaveRefresh(h)
  PROVE  /\ tokens' \in [Tokens -> TokenRow]
         /\ \A t \in Tokens :
              /\ tokens[t] = NoToken <=> tokens'[t] = NoToken
              /\ tokens'[t].code = tokens[t].code
              /\ tokens'[t].client = tokens[t].client
              /\ tokens'[t].user = tokens[t].user
              /\ tokens'[t].key = tokens[t].key
<1> DEFINE t0 == task[h].token
<1>1. t0 \in Tokens /\ tokens[t0] \in TokenRow \ {NoToken}
  BY DEF SaveRefresh, RequestInv, Fits, TypeOK
<1>2. tokens' = [tokens EXCEPT ![t0].refresh = TRUE]
  BY DEF SaveRefresh
<1>3. [tokens[t0] EXCEPT !.refresh = TRUE] \in TokenRow \ {NoToken}
  BY <1>1, TokenAssumption DEF TokenRow, NoToken
<1>4. /\ tokens'[t0] = [tokens[t0] EXCEPT !.refresh = TRUE]
      /\ \A t \in Tokens : t # t0 => tokens'[t] = tokens[t]
      /\ tokens' \in [Tokens -> TokenRow]
  BY <1>1, <1>2, <1>3 DEF TypeOK
<1> HIDE DEF t0
<1>5. /\ tokens'[t0].code = tokens[t0].code
      /\ tokens'[t0].client = tokens[t0].client
      /\ tokens'[t0].user = tokens[t0].user
      /\ tokens'[t0].key = tokens[t0].key
  BY <1>1, <1>4 DEF TokenRow
<1> QED BY <1>1, <1>3, <1>4, <1>5

LEMMA BurnTyped ==
  ASSUME TypeOK, NEW h \in Handlers, BurnCode(h)
  PROVE  /\ codes' \in [Codes -> CodeRow]
         /\ \A c \in Codes :
              /\ codes'[c].client = codes[c].client
              /\ codes'[c].user = codes[c].user
              /\ codes'[c].key = codes[c].key
              /\ codes'[c] = codes[c] \/ codes'[c].used
              /\ codes[c] = NoCode => codes'[c] = NoCode
         /\ task[h].code \in Codes =>
              codes'[task[h].code] = NoCode \/ codes'[task[h].code].used
<1> DEFINE c0 == task[h].code
<1>1. CASE c0 \notin Codes \/ codes[c0] = NoCode
  <2>1. codes' = codes
    BY <1>1 DEF BurnCode, TypeOK
  <2> QED BY <2>1, <1>1 DEF TypeOK
<1>2. CASE c0 \in Codes /\ codes[c0] # NoCode
  <2>1. codes' = [codes EXCEPT ![c0].used = TRUE]
    BY <1>2 DEF BurnCode
  <2>2. [codes[c0] EXCEPT !.used = TRUE] \in CodeRow
    BY <1>2 DEF TypeOK, CodeRow
  <2>3. codes[c0] \in CodeRow \ {NoCode}
    BY <1>2 DEF TypeOK
  <2>4. /\ codes'[c0] = [codes[c0] EXCEPT !.used = TRUE]
        /\ \A c \in Codes : c # c0 => codes'[c] = codes[c]
        /\ codes' \in [Codes -> CodeRow]
    BY <1>2, <2>1, <2>2 DEF TypeOK
  <2> HIDE DEF c0
  <2>5. /\ codes'[c0].client = codes[c0].client
        /\ codes'[c0].user = codes[c0].user
        /\ codes'[c0].key = codes[c0].key
        /\ codes'[c0].used
    BY <2>3, <2>4 DEF CodeRow
  <2> QED BY <1>2, <2>3, <2>4, <2>5 DEF c0
<1> QED BY <1>1, <1>2

LEMMA TypeStep == TypeOK /\ RequestInv /\ [Next]_vars => TypeOK'
<1> SUFFICES ASSUME TypeOK, RequestInv, [Next]_vars PROVE TypeOK'
  OBVIOUS
<1> USE DEF histories, tables
<1>1. ASSUME NEW h \in Handlers, Arrive(h) PROVE TypeOK'
  BY <1>1, ArriveTyped
<1>2. ASSUME NEW h \in Handlers, PassGuard(h) PROVE TypeOK'
  <2>1. task' \in [Handlers -> Task]
    BY <1>2, ConstantsTyped DEF PassGuard, TypeOK
  <2> QED BY <1>2, <2>1, GuardTyped DEF PassGuard, TypeOK
<1>3. ASSUME NEW h \in Handlers, Push(h) PROVE TypeOK'
  <2>1. req[h].assertion \in Assertions
    BY <1>3 DEF Push, RequestInv, Fits, StepsOf, TypeOK, Request
  <2>2. [client |-> Owner[req[h].assertion],
         key |-> IF req[h].proof = None THEN task[h].key ELSE KeyOf[req[h].proof]] \in Pushed
    BY <2>1, DocsAssumption DEF TypeOK, Request, Task, Pushed, Docs
  <2> QED BY <1>3, <2>2, AnswerTyped DEF Push, TypeOK
<1>4. ASSUME NEW h \in Handlers, ReadCode(h) PROVE TypeOK'
  <2>1. task[h].code \in Codes
    BY <1>4 DEF ReadCode, RequestInv, Fits, StepsOf, TypeOK, Request
  <2>2. task' \in [Handlers -> Task]
    <3>1. codes[task[h].code] \in CodeRow /\ task[h] \in Task
      BY <2>1 DEF TypeOK
    <3>2. [task[h] EXCEPT !.row = codes[task[h].code]] \in Task
      BY <3>1 DEF Task
    <3> QED BY <1>4, <3>2 DEF ReadCode, TypeOK
  <2>3. overlapped' \subseteq Codes
    BY <1>4, <2>1 DEF ReadCode, NoteOverlap, TypeOK
  <2>4. "burn" \in Labels
    BY DEF Labels
  <2> QED BY <1>4, <2>2, <2>3, <2>4, PlaceTyped DEF ReadCode, TypeOK
<1>5. ASSUME NEW h \in Handlers, BurnCode(h) PROVE TypeOK'
  <2>1. "mint" \in Labels
    BY DEF Labels
  <2> QED BY <1>5, <2>1, PlaceTyped, BurnTyped DEF BurnCode, TypeOK
<1>6. ASSUME NEW h \in Handlers, NEW t \in Tokens, MintTokens(h, t) PROVE TypeOK'
  <2>1. "refresh" \in Labels
    BY DEF Labels
  <2>2. task' \in [Handlers -> Task]
    BY <1>6 DEF MintTokens, TypeOK, Task
  <2> QED BY <1>6, <2>1, <2>2, PlaceTyped, MintTyped DEF MintTokens, TypeOK
<1>7. ASSUME NEW h \in Handlers, SaveRefresh(h) PROVE TypeOK'
  BY <1>7, AnswerTyped, RefreshTyped DEF SaveRefresh, TypeOK
<1>8. ASSUME NEW h \in Handlers, Serve(h) PROVE TypeOK'
  <2>1. tokens[task[h].token] \in TokenRow \ {NoToken} /\ req[h].proof \in Proofs
    BY <1>8 DEF Serve, RequestInv, Fits, StepsOf, TypeOK, Request
  <2>2. served' \subseteq [client : Clients, user : Users, key : Keys]
    BY <1>8, <2>1, DocsAssumption DEF Serve, TypeOK, TokenRow
  <2> QED BY <1>8, <2>2, AnswerTyped DEF Serve, TypeOK
<1>9. ASSUME NEW h \in Handlers, Abort(h) PROVE TypeOK'
  BY <1>9, AnswerTyped DEF Abort, TypeOK
<1>10. ASSUME NEW c \in Codes, NEW u \in Users, NEW pr \in pushed, IssueCode(c, u, pr)
       PROVE  TypeOK'
  <2>1. CodeFor(u, pr) \in CodeRow
    BY <1>10, CodeForTyped DEF IssueCode
  <2> QED BY <1>10, <2>1 DEF IssueCode, TypeOK, guardVars
<1>11. CASE PurgeCodes
  BY <1>11, ConstantsTyped DEF PurgeCodes, TypeOK, guardVars
<1>12. CASE PurgeUsedJtis
  BY <1>12 DEF PurgeUsedJtis, PurgeJtis, TypeOK
<1>13. CASE TimePasses
  BY <1>13, TimesAssumption DEF TimePasses, Tick, TypeOK
<1>14. CASE UNCHANGED vars
  BY <1>14 DEF vars, guardVars, TypeOK
<1> QED
  BY <1>1, <1>2, <1>3, <1>4, <1>5, <1>6, <1>7, <1>8, <1>9, <1>10, <1>11, <1>12, <1>13, <1>14
  DEF Next, Proceed

-----------------------------------------------------------------------------
(* What a handler holds *)

\* New tokens take nothing away.
LEMMA FitsMonotone ==
  ASSUME NEW tk1, NEW tk2, NEW label, NEW rq, NEW ts,
         \A t \in Tokens : tk1[t] # NoToken => tk2[t] # NoToken,
         Fits(tk1, label, rq, ts)
  PROVE  Fits(tk2, label, rq, ts)
BY DEF Fits

\* A token once made stays.
LEMMA TokensStay ==
  ASSUME TypeOK, RequestInv, [Next]_vars
  PROVE  \A t \in Tokens : tokens[t] # NoToken => tokens'[t] # NoToken
<1> USE DEF tables
<1>1. ASSUME NEW h \in Handlers, NEW t \in Tokens, MintTokens(h, t)
      PROVE  \A u \in Tokens : tokens[u] # NoToken => tokens'[u] # NoToken
  BY <1>1, MintTyped
<1>2. ASSUME NEW h \in Handlers, SaveRefresh(h)
      PROVE  \A u \in Tokens : tokens[u] # NoToken => tokens'[u] # NoToken
  BY <1>2, RefreshTyped
<1>3. ASSUME NEW h \in Handlers, Arrive(h) \/ PassGuard(h) \/ Push(h) \/ ReadCode(h)
               \/ BurnCode(h) \/ Serve(h) \/ Abort(h)
      PROVE  tokens' = tokens
  BY <1>3 DEF Arrive, Register, Exchange, UserInfo, Begin, PassGuard, Push, ReadCode,
              BurnCode, Serve, Abort
<1> QED BY <1>1, <1>2, <1>3 DEF Next, Proceed, IssueCode, PurgeCodes, PurgeUsedJtis,
                                TimePasses, vars

\* A handler with nothing to do holds nothing.
LEMMA IdleFits ==
  ASSUME NEW tk, NEW ts
  PROVE  Fits(tk, "idle", NoRequest, ts)
BY DEF Fits, StepsOf, NoRequest

\* A step that touches the place, request and task of one handler only.
OnlyOf(h) ==
  /\ \A g \in Handlers \ {h} : pc'[g] = pc[g] /\ req'[g] = req[g] /\ task'[g] = task[g]

LEMMA RequestFromOne ==
  ASSUME TypeOK, RequestInv, [Next]_vars, NEW h \in Handlers, OnlyOf(h),
         Fits(tokens', pc'[h], req'[h], task'[h])
  PROVE  RequestInv'
<1>1. ASSUME NEW g \in Handlers, g # h
      PROVE  Fits(tokens', pc'[g], req'[g], task'[g])
  <2>1. Fits(tokens, pc[g], req[g], task[g])
    BY DEF RequestInv
  <2>2. Fits(tokens', pc[g], req[g], task[g])
    BY <2>1, TokensStay, FitsMonotone
  <2> QED BY <1>1, <2>2 DEF OnlyOf
<1> QED BY <1>1 DEF RequestInv

LEMMA EndFits ==
  ASSUME TypeOK, RequestInv, [Next]_vars, NEW h \in Handlers, End(h),
         \A g \in Handlers \ {h} : task'[g] = task[g]
  PROVE  RequestInv'
<1>1. pc'[h] = "idle" /\ req'[h] = NoRequest
  BY DEF End, TypeOK
<1>2. OnlyOf(h)
  BY DEF OnlyOf, End, TypeOK
<1> QED BY <1>1, <1>2, IdleFits, RequestFromOne

LEMMA AnswerFits ==
  ASSUME TypeOK, RequestInv, [Next]_vars, NEW h \in Handlers, Answer(h)
  PROVE  RequestInv'
<1>1. \A g \in Handlers \ {h} : task'[g] = task[g]
  BY DEF Answer, TypeOK
<1> QED BY <1>1, EndFits DEF Answer

\* Where the guard sends a handler that passes.
LEMMA GuardFits ==
  ASSUME TypeOK, RequestInv, [Next]_vars, NEW h \in Handlers, PassGuard(h)
  PROVE  RequestInv'
<1> DEFINE e == req[h].endpoint
           On(l) == /\ Goto(h, l)
                    /\ l \in StepsOf(e)
                    /\ l \notin {"idle", "burn", "mint", "refresh"}
                    /\ l \in {"proof", "markProof"} => req[h].proof \in Proofs
<1>1. Fits(tokens, pc[h], req[h], task[h]) /\ e \in {"none", "par", "token", "userinfo"}
  BY DEF RequestInv, TypeOK, Request
<1>2. \A g \in Handlers \ {h} : task'[g] = task[g]
  BY DEF PassGuard, TypeOK
<1>3. ASSUME NEW l, On(l) PROVE RequestInv'
  <2>1. pc'[h] = l /\ req'[h] = req[h] /\ task'[h] = task[h]
    BY <1>3 DEF Goto, PassGuard, TypeOK
  <2>2. OnlyOf(h)
    BY <1>2, <1>3 DEF OnlyOf, Goto, TypeOK
  <2>3. Fits(tokens', pc[h], req[h], task[h])
    BY <1>1, TokensStay, FitsMonotone
  <2>4. Fits(tokens', l, req[h], task[h])
    BY <1>3, <2>3 DEF Fits
  <2> QED BY <2>1, <2>2, <2>4, RequestFromOne
<1>4. CheckProof(h) => On("markProof") \/ End(h)
  BY <1>1 DEF CheckProof, Pass, Fits, StepsOf
<1>5. MarkProof(h) => On(AfterProof(e))
  BY <1>1 DEF MarkProof, AfterProof, Fits, StepsOf
<1>6. CheckAssertion(h) => On("lookup") \/ End(h)
  BY <1>1 DEF CheckAssertion, Pass, Fits, StepsOf
<1>7. LookupAssertion(h) => On("markAssertion") \/ End(h)
  BY <1>1 DEF LookupAssertion, Pass, Fits, StepsOf
<1>8. MarkAssertion(h) => On(AfterAssertion(e)) \/ End(h)
  BY <1>1 DEF MarkAssertion, AfterAssertion, Fits, StepsOf
<1>9. (\E l : On(l)) \/ End(h)
  <2> HIDE DEF On
  <2> QED BY <1>4, <1>5, <1>6, <1>7, <1>8 DEF PassGuard, Guard
<1> HIDE DEF On
<1> QED BY <1>2, <1>3, <1>9, EndFits

\* A request arrives with all that its first step needs.
LEMMA ArriveFits ==
  ASSUME TypeOK, RequestInv, [Next]_vars, NEW h \in Handlers, Arrive(h)
  PROVE  RequestInv'
<1> USE DEF tables, histories
<1>1. ASSUME NEW endpoint \in {"par", "token", "userinfo"},
             NEW a \in Assertions \cup {None}, NEW p \in Proofs \cup {None}, NEW t,
             Begin(h, endpoint, a, p, t),
             endpoint \in {"par", "token"} => a \in Assertions,
             endpoint \in {"token", "userinfo"} => p \in Proofs,
             endpoint = "token" => t.code \in Codes,
             endpoint = "userinfo" => t.token \in Tokens /\ tokens[t.token] # NoToken
      PROVE  RequestInv'
  <2> DEFINE rq == [endpoint |-> endpoint, assertion |-> a, proof |-> p]
  <2>1. /\ pc'[h] = First(endpoint, p) /\ req'[h] = rq /\ task'[h] = t
        /\ now' = now /\ tokens' = tokens
    BY <1>1 DEF Begin, TypeOK
  <2>2. OnlyOf(h)
    BY <1>1 DEF OnlyOf, Begin, TypeOK
  <2>3. a # None => Endpoint[a] = endpoint
    BY <1>1 DEF Begin, MadeFor
  <2>4. Fits(tokens, First(endpoint, p), rq, t)
    <3>1. CASE endpoint = "par"
      BY <1>1, <2>3, <3>1, DocsAssumption DEF Fits, First, StepsOf, Docs
    <3>2. CASE endpoint = "token"
      BY <1>1, <2>3, <3>2, DocsAssumption DEF Fits, First, StepsOf, Docs
    <3>3. CASE endpoint = "userinfo"
      BY <1>1, <3>3 DEF Fits, First, StepsOf
    <3> QED BY <3>1, <3>2, <3>3
  <2> QED BY <2>1, <2>2, <2>4, RequestFromOne
<1>2. ASSUME NEW a \in Assertions, NEW p \in Proofs \cup {None}, NEW key \in Keys \cup {None},
             Register(h, a, p, key)
      PROVE  RequestInv'
  BY <1>1, <1>2 DEF Register
<1>3. ASSUME NEW a \in Assertions, NEW p \in Proofs, NEW c \in Codes, Exchange(h, a, p, c)
      PROVE  RequestInv'
  <2>1. [NoTask EXCEPT !.code = c].code = c
    BY DEF NoTask
  <2> QED BY <1>1, <1>3, <2>1 DEF Exchange
<1>4. ASSUME NEW p \in Proofs, NEW t \in Tokens, UserInfo(h, p, t)
      PROVE  RequestInv'
  <2>1. [NoTask EXCEPT !.token = t].token = t
    BY DEF NoTask
  <2> QED BY <1>1, <1>4, <2>1 DEF UserInfo
<1> QED BY <1>2, <1>3, <1>4 DEF Arrive

LEMMA RequestStep == TypeOK /\ RequestInv /\ [Next]_vars => RequestInv'
<1> SUFFICES ASSUME TypeOK, RequestInv, [Next]_vars PROVE RequestInv'
  OBVIOUS
<1> USE DEF histories, tables
<1>1. ASSUME NEW h \in Handlers, Arrive(h) PROVE RequestInv'
  BY <1>1, ArriveFits
<1>2. ASSUME NEW h \in Handlers, PassGuard(h) PROVE RequestInv'
  BY <1>2, GuardFits
<1>3. ASSUME NEW h \in Handlers, Push(h) \/ SaveRefresh(h) \/ Serve(h) \/ Abort(h)
      PROVE  RequestInv'
  BY <1>3, AnswerFits DEF Push, SaveRefresh, Serve, Abort
<1>4. ASSUME NEW h \in Handlers, ReadCode(h) PROVE RequestInv'
  <2>1. /\ pc'[h] = "burn" /\ req'[h] = req[h]
        /\ task'[h] = [task[h] EXCEPT !.row = codes[task[h].code]]
        /\ OnlyOf(h)
    BY <1>4 DEF ReadCode, Goto, OnlyOf, TypeOK
  <2>2. task'[h].code = task[h].code /\ task'[h].row # NoCode
    BY <1>4, <2>1 DEF ReadCode, Redeemable, TypeOK, Task
  <2>3. Fits(tokens', "code", req[h], task[h])
    BY <1>4, TokensStay, FitsMonotone DEF ReadCode, RequestInv
  <2>4. Fits(tokens', "burn", req[h], task'[h])
    BY <2>2, <2>3 DEF Fits, StepsOf
  <2> QED BY <2>1, <2>4, RequestFromOne
<1>5. ASSUME NEW h \in Handlers, BurnCode(h) PROVE RequestInv'
  <2>1. /\ pc'[h] = "mint" /\ req'[h] = req[h] /\ task'[h] = task[h]
        /\ OnlyOf(h)
    BY <1>5 DEF BurnCode, Goto, OnlyOf, TypeOK
  <2>2. Fits(tokens', "burn", req[h], task[h])
    BY <1>5, TokensStay, FitsMonotone DEF BurnCode, RequestInv
  <2>3. Fits(tokens', "mint", req[h], task[h])
    BY <2>2 DEF Fits, StepsOf
  <2> QED BY <2>1, <2>3, RequestFromOne
<1>6. ASSUME NEW h \in Handlers, NEW t \in Tokens, MintTokens(h, t) PROVE RequestInv'
  <2>1. /\ pc'[h] = "refresh" /\ req'[h] = req[h]
        /\ task'[h] = [task[h] EXCEPT !.token = t]
        /\ OnlyOf(h)
    BY <1>6 DEF MintTokens, Goto, OnlyOf, TypeOK
  <2>2. task'[h].code = task[h].code /\ task'[h].token = t
    BY <2>1 DEF TypeOK, Task
  <2>3. tokens'[t] # NoToken
    BY <1>6, MintTyped
  <2>4. Fits(tokens', "mint", req[h], task[h])
    BY <1>6, TokensStay, FitsMonotone DEF MintTokens, RequestInv
  <2>5. Fits(tokens', "refresh", req[h], task'[h])
    BY <2>2, <2>3, <2>4 DEF Fits, StepsOf
  <2> QED BY <2>1, <2>5, RequestFromOne
<1>7. ASSUME UNCHANGED <<pc, req, task>> PROVE RequestInv'
  <2>1. ASSUME NEW h \in Handlers PROVE Fits(tokens', pc[h], req[h], task[h])
    BY TokensStay, FitsMonotone DEF RequestInv
  <2> QED BY <1>7, <2>1 DEF RequestInv
<1>8. ASSUME NEW c \in Codes, NEW u \in Users, NEW pr \in pushed, IssueCode(c, u, pr)
      PROVE  RequestInv'
  BY <1>7, <1>8 DEF IssueCode, guardVars
<1>9. CASE PurgeCodes \/ PurgeUsedJtis \/ TimePasses \/ UNCHANGED vars
  BY <1>7, <1>9 DEF PurgeCodes, PurgeUsedJtis, PurgeJtis, TimePasses, Tick, vars, guardVars
<1> QED
  BY <1>1, <1>2, <1>3, <1>4, <1>5, <1>6, <1>8, <1>9 DEF Next, Proceed

LEMMA TypeInit == Init => TypeOK /\ RequestInv
<1> SUFFICES ASSUME Init PROVE TypeOK /\ RequestInv
  OBVIOUS
<1>1. TypeOK
  BY ConstantsTyped, TimesAssumption DEF Init, TypeOK, Labels
<1>2. RequestInv
  BY IdleFits DEF Init, RequestInv
<1> QED BY <1>1, <1>2

\* Every row has its type, and a handler that is about to use a document, a code, a
\* copied code row or a token really holds one: par.ts, token-exchange.ts and
\* userinfo.ts never store a null in a key column nor serve a token that is missing.
THEOREM TypeCorrect == Spec => [](TypeOK /\ RequestInv)
<1>1. TypeOK /\ RequestInv /\ [Next]_vars => (TypeOK /\ RequestInv)'
  BY TypeStep, RequestStep
<1> QED BY TypeInit, <1>1, PTL DEF Spec

-----------------------------------------------------------------------------
(* Replay *)

\* The step of a handler leaves the other handlers where they are.
LEMMA OneHandler ==
  ASSUME TypeOK, NEW h \in Handlers, Arrive(h) \/ Proceed(h) \/ Abort(h)
  PROVE  OnlyOf(h)
<1>1. CASE Arrive(h)
  BY <1>1 DEF Arrive, Register, Exchange, UserInfo, Begin, OnlyOf, TypeOK
<1>2. CASE PassGuard(h)
  <2>1. pc' = [pc EXCEPT ![h] = pc'[h]] /\ req' = [req EXCEPT ![h] = req'[h]]
    BY <1>2 DEF PassGuard, Guard, CheckProof, MarkProof, CheckAssertion, LookupAssertion,
       MarkAssertion, Pass, Goto, End, TypeOK
  <2> QED BY <1>2, <2>1 DEF PassGuard, OnlyOf, TypeOK
<1>3. CASE Push(h) \/ SaveRefresh(h) \/ Serve(h) \/ Abort(h)
  BY <1>3 DEF Push, SaveRefresh, Serve, Abort, Answer, End, OnlyOf, TypeOK
<1>4. CASE ReadCode(h) \/ BurnCode(h) \/ \E t \in Tokens : MintTokens(h, t)
  BY <1>4 DEF ReadCode, BurnCode, MintTokens, Goto, OnlyOf, TypeOK
<1> QED BY <1>1, <1>2, <1>3, <1>4 DEF Proceed

\* Writing a row leaves the rows of other documents as they were.
LEMMA MarksKeep ==
  ASSUME TypeOK, RequestInv, ReplayInv, NEW h \in Handlers, MarkProof(h) \/ MarkAssertion(h)
  PROVE  ReplayInv'
<1>1. now \in Nat
  BY TimesAssumption DEF TypeOK
<1>2. ASSUME MarkProof(h) PROVE ReplayInv'
  <2> DEFINE d == req[h].proof
  <2>1. d \in Proofs
    BY <1>2 DEF MarkProof, RequestInv, Fits
  <2>2. d \in Docs /\ d \notin ParAssertions
    BY <2>1, DocsAssumption DEF Docs, ParAssertions
  <2>3. KeptUntil(d, now) = Iat[d] + Window /\ Iat[d] + Window \in Nat
    BY <2>1, <2>2, DocsAssumption, TimesAssumption DEF KeptUntil
  <2>4. accepted' = accepted \cup {d} /\ pushedAt' = pushedAt /\ now' = now
    BY <1>2 DEF MarkProof
  <2>5. jtis'[d] = Iat[d] + Window /\ \A e \in Docs \ {d} : jtis'[e] = jtis[e]
    BY <1>2, <2>2, <2>3 DEF MarkProof, Keep, TypeOK
  <2>6. ProofInv'
    BY <2>3, <2>4, <2>5 DEF ProofInv, ReplayInv, Remembered, NoJti, Docs, TypeOK
  <2>7. RowInv'
    BY <2>2, <2>4, <2>5 DEF RowInv, ReplayInv, Remembered, ParAssertions, Docs
  <2> QED BY <2>6, <2>7 DEF ReplayInv
<1>3. ASSUME MarkAssertion(h) PROVE ReplayInv'
  <2> DEFINE d == req[h].assertion
  <2>1. req[h].endpoint \in {"par", "token"}
    BY <1>3 DEF MarkAssertion, RequestInv, Fits, StepsOf, TypeOK, Request
  <2>2. d \in Assertions /\ d \in Docs /\ d \notin Proofs
    BY <2>1, DocsAssumption DEF RequestInv, Fits, Docs
  <2>3. CASE UNCHANGED <<jtis, pushedAt>>
    BY <1>3, <2>3 DEF MarkAssertion, ReplayInv, RowInv, ProofInv, Remembered
  <2>4. CASE Asserted(d)
    <3>1. now' = now /\ accepted' = accepted
      BY <1>3 DEF MarkAssertion
    <3>2. jtis'[d] = KeptUntil(d, now) /\ \A e \in Docs \ {d} : jtis'[e] = jtis[e]
      BY <2>2, <2>4 DEF Asserted, Keep, TypeOK
    <3>3. ProofInv'
      BY <2>2, <3>1, <3>2 DEF ProofInv, ReplayInv, Remembered, Docs, TypeOK
    <3>4. d \in ParAssertions => jtis'[d] = now + Retention /\ pushedAt'[d] = now
      BY <2>2, <2>4, <3>2 DEF KeptUntil, Asserted, TypeOK
    <3>5. \A e \in ParAssertions \ {d} : pushedAt'[e] = pushedAt[e]
      BY <2>4 DEF Asserted, TypeOK
    <3>6. RowInv'
      <4> SUFFICES ASSUME NEW e \in ParAssertions, pushedAt'[e] # None
                   PROVE  IF jtis'[e] # NoJti THEN jtis'[e] = pushedAt'[e] + Retention
                                              ELSE now' > pushedAt'[e] + Retention
        BY DEF RowInv, Remembered
      <4>1. CASE e = d
        BY <1>1, <3>4, <4>1, TimesAssumption DEF NoJti
      <4>2. CASE e # d
        BY <3>1, <3>2, <3>5, <4>2 DEF RowInv, ReplayInv, Remembered, ParAssertions, Docs
      <4> QED BY <4>1, <4>2
    <3> QED BY <3>3, <3>6 DEF ReplayInv
  <2> QED BY <1>3, <2>3, <2>4 DEF MarkAssertion
<1> QED BY <1>2, <1>3

LEMMA ReplayStep == TypeOK /\ RequestInv /\ ReplayInv /\ [Next]_vars => ReplayInv'
<1> SUFFICES ASSUME TypeOK, RequestInv, ReplayInv, [Next]_vars PROVE ReplayInv'
  OBVIOUS
<1>1. ASSUME UNCHANGED <<now, jtis, accepted, pushedAt>> PROVE ReplayInv'
  BY <1>1 DEF ReplayInv, RowInv, ProofInv, Remembered
<1>2. ASSUME NEW h \in Handlers, PassGuard(h) PROVE ReplayInv'
  <2>1. CASE CheckProof(h) \/ CheckAssertion(h) \/ LookupAssertion(h)
    BY <1>1, <2>1 DEF CheckProof, CheckAssertion, LookupAssertion
  <2> QED BY <1>2, <2>1, MarksKeep DEF PassGuard, Guard
<1>3. ASSUME NEW h \in Handlers,
             \/ Arrive(h) \/ Abort(h)
             \/ Push(h) \/ ReadCode(h) \/ BurnCode(h) \/ SaveRefresh(h) \/ Serve(h)
             \/ \E t \in Tokens : MintTokens(h, t)
      PROVE  ReplayInv'
  BY <1>1, <1>3 DEF Arrive, Register, Exchange, UserInfo, Begin, Abort, Push, ReadCode, BurnCode,
     SaveRefresh, Serve, MintTokens
<1>4. ASSUME NEW c \in Codes, NEW u \in Users, NEW pr \in pushed, IssueCode(c, u, pr)
      PROVE  ReplayInv'
  BY <1>1, <1>4 DEF IssueCode, guardVars
<1>5. CASE PurgeCodes \/ UNCHANGED vars
  BY <1>1, <1>5 DEF PurgeCodes, vars, guardVars
<1>6. CASE PurgeUsedJtis
  <2>1. /\ \A d \in Docs : jtis'[d] = IF jtis[d] < now THEN NoJti ELSE jtis[d]
        /\ UNCHANGED <<now, accepted, pushedAt>>
    BY <1>6 DEF PurgeUsedJtis, PurgeJtis
  <2>2. /\ \A d \in Docs : jtis[d] \in Nat \cup {NoJti}
        /\ accepted \subseteq Docs /\ ParAssertions \subseteq Docs
    BY DEF TypeOK, ParAssertions, Docs
  <2>3. RowInv'
    BY <2>1, <2>2 DEF RowInv, ReplayInv, Remembered, NoJti
  <2>4. ProofInv'
    BY <2>1, <2>2 DEF ProofInv, ReplayInv, Remembered, NoJti
  <2> QED BY <2>3, <2>4 DEF ReplayInv
<1>7. CASE TimePasses
  <2>1. now' = now + 1 /\ now \in Nat /\ UNCHANGED <<jtis, accepted, pushedAt>>
    BY <1>7, TimesAssumption DEF TimePasses, Tick, TypeOK
  <2>2. RowInv'
    <3>1. \A d \in ParAssertions : pushedAt[d] # None => pushedAt[d] + Retention \in Nat
      BY TimesAssumption DEF TypeOK
    <3> QED BY <2>1, <3>1 DEF RowInv, ReplayInv, Remembered
  <2>3. ProofInv'
    <3>1. \A p \in accepted : Iat[p] + Window \in Nat
      BY DocsAssumption, TimesAssumption DEF TypeOK, Docs
    <3> QED BY <2>1, <3>1 DEF ProofInv, ReplayInv, Remembered
  <2> QED BY <2>2, <2>3 DEF ReplayInv
<1> QED
  BY <1>2, <1>3, <1>4, <1>5, <1>6, <1>7 DEF Next, Proceed

\* Only the look-up lets a proof through, and it finds what was accepted.
LEMMA ProofOnce ==
  ASSUME TypeOK, RequestInv, ReplayInv, [Next]_vars, NEW h \in Handlers,
         pc[h] = "proof", pc'[h] = "markProof"
  PROVE  req[h].proof \notin accepted
<1>1. CheckProof(h)
  <2>1. ASSUME NEW g \in Handlers, Arrive(g) \/ Proceed(g) \/ Abort(g) PROVE g = h
    BY <2>1, OneHandler DEF OnlyOf
  <2>2. Arrive(h) \/ Proceed(h) \/ Abort(h)
    BY <2>1 DEF Next, IssueCode, PurgeCodes, PurgeUsedJtis, PurgeJtis, TimePasses, Tick, guardVars,
       vars
  <2>3. ~Arrive(h)
    BY DEF Arrive, Register, Exchange, UserInfo, Begin
  <2>4. ~Abort(h)
    BY DEF Abort, Answer, End, TypeOK
  <2> QED
    BY <2>2, <2>3, <2>4 DEF Proceed, PassGuard, Guard, MarkProof, CheckAssertion, LookupAssertion,
       MarkAssertion, Push, ReadCode, BurnCode, SaveRefresh, MintTokens, Serve
<1>2. Valid(req[h].proof, now) /\ ~Remembered(req[h].proof)
  BY <1>1 DEF CheckProof, Pass, End, TypeOK
<1>3. req[h].proof \in Proofs
  BY DEF RequestInv, Fits
<1>4. Iat[req[h].proof] \in Nat /\ now \in Nat
  BY <1>3, DocsAssumption, TimesAssumption DEF TypeOK, Docs
<1>5. now <= Iat[req[h].proof] + Window
  BY <1>2, <1>3, <1>4, TimesAssumption DEF Valid
<1> QED BY <1>2, <1>4, <1>5, TimesAssumption DEF ReplayInv, ProofInv

\* Only the insert of the jti lets an assertion of PAR through: when it finds no row, a
\* row there was has been cleaned up.
LEMMA AssertionOnce ==
  ASSUME TypeOK, RequestInv, ReplayInv, [Next]_vars, NEW h \in Handlers,
         pc[h] = "markAssertion", pc'[h] = "push"
  PROVE  LET d == req[h].assertion IN
         pushedAt[d] = None \/ now > pushedAt[d] + Retention
<1>1. MarkAssertion(h)
  <2>1. ASSUME NEW g \in Handlers, Arrive(g) \/ Proceed(g) \/ Abort(g) PROVE g = h
    BY <2>1, OneHandler DEF OnlyOf
  <2>2. Arrive(h) \/ Proceed(h) \/ Abort(h)
    BY <2>1 DEF Next, IssueCode, PurgeCodes, PurgeUsedJtis, PurgeJtis, TimePasses, Tick, guardVars,
       vars
  <2>3. ~Arrive(h)
    BY DEF Arrive, Register, Exchange, UserInfo, Begin
  <2>4. ~Abort(h)
    BY DEF Abort, Answer, End, TypeOK
  <2> QED
    BY <2>2, <2>3, <2>4 DEF Proceed, PassGuard, Guard, CheckProof, MarkProof, CheckAssertion,
       LookupAssertion, Push, ReadCode, BurnCode, SaveRefresh, MintTokens, Serve
<1>2. req[h].endpoint = "par" /\ ~Remembered(req[h].assertion)
  BY <1>1 DEF MarkAssertion, AfterAssertion, Goto, End, TypeOK
<1>3. req[h].assertion \in ParAssertions
  BY <1>2 DEF RequestInv, Fits, ParAssertions
<1> QED BY <1>2, <1>3 DEF ReplayInv, RowInv

LEMMA ReplayImplies == TypeOK /\ ReplayInv => UsedIsRemembered
<1> SUFFICES ASSUME TypeOK, ReplayInv PROVE UsedIsRemembered
  OBVIOUS
<1>1. now \in Nat
  BY TimesAssumption DEF TypeOK
<1>2. ASSUME NEW p \in accepted, Valid(p, now) PROVE Remembered(p)
  <2>1. p \in Proofs /\ Iat[p] \in Nat
    BY DocsAssumption DEF TypeOK, Docs
  <2>2. now <= Iat[p] + Window
    BY <1>1, <1>2, <2>1, TimesAssumption DEF Valid
  <2> QED BY <1>1, <2>1, <2>2, TimesAssumption DEF ReplayInv, ProofInv
<1>3. ASSUME NEW d \in ParAssertions, OnTime(d), Valid(d, now) PROVE Remembered(d)
  <2>1. d \in Docs /\ d \notin Proofs
    BY DocsAssumption DEF ParAssertions, Docs
  <2>2. Iat[d] \in Nat /\ Exp[d] \in Nat /\ pushedAt[d] \in Nat
    BY <1>3, <2>1, DocsAssumption DEF OnTime, TypeOK
  <2>3. /\ Iat[d] # None /\ Exp[d] # None /\ pushedAt[d] # None
        /\ Iat[d] <= pushedAt[d] + Window
    BY <1>3 DEF OnTime
  <2>4. Exp[d] - Iat[d] <= Window /\ Exp[d] + Leeway > now
    BY <1>3, <2>1, <2>3 DEF Valid
  <2>5. now <= pushedAt[d] + Retention
    BY <1>1, <2>2, <2>3, <2>4, TimesAssumption
  <2>6. ~(now > pushedAt[d] + Retention)
    BY <1>1, <2>2, <2>5, TimesAssumption
  <2> QED BY <2>3, <2>6 DEF ReplayInv, RowInv
<1> QED BY <1>2, <1>3 DEF UsedIsRemembered

LEMMA ReplayInit == Init => ReplayInv
BY DEF Init, ReplayInv, RowInv, ProofInv

\* A proof that the DPoP validator accepted, and an assertion with both its times that
\* register-par.ts accepted no earlier than the window before its iat, is found when it
\* is presented again, for every window, leeway and life of a document that the
\* retention of PAR covers.
THEOREM UsedJtiCorrect == Spec => []UsedIsRemembered
BY TypeInit, TypeStep, RequestStep, ReplayInit, ReplayStep, ReplayImplies, PTL DEF Spec

\* No DPoP proof passes its look-up after it has been accepted (dpop.ts and the JTI
\* store).
THEOREM ProofReplayCorrect == Spec => NoProofReplay
<1>1. TypeOK /\ RequestInv /\ ReplayInv /\ [Next]_vars
        => [\A h \in Handlers : pc[h] = "proof" /\ pc'[h] = "markProof"
              => req[h].proof \notin accepted]_guardVars
  BY ProofOnce
<1> QED BY TypeInit, TypeStep, RequestStep, ReplayInit, ReplayStep, <1>1, PTL
        DEF Spec, NoProofReplay

\* Two requests pushed with one assertion are further apart than the retention of its
\* jti, however many requests bring it, whatever the order of their look-ups and
\* inserts and whatever its times say (register-par.ts).
THEOREM AssertionReplayCorrect == Spec => ParAssertionOnce
<1>1. TypeOK /\ RequestInv /\ ReplayInv /\ [Next]_vars
        => [\A h \in Handlers :
              LET d == req[h].assertion IN
              pc[h] = "markAssertion" /\ pc'[h] = "push" =>
                pushedAt[d] = None \/ now > pushedAt[d] + Retention]_guardVars
  BY AssertionOnce
<1> QED BY TypeInit, TypeStep, RequestStep, ReplayInit, ReplayStep, <1>1, PTL
        DEF Spec, ParAssertionOnce

-----------------------------------------------------------------------------
(* Binding *)

\* Which actions write each table.
LEMMA Writers ==
  ASSUME [Next]_vars
  PROVE  /\ \/ codes' = codes
            \/ \E h \in Handlers : BurnCode(h)
            \/ \E c \in Codes, u \in Users, pr \in pushed : IssueCode(c, u, pr)
            \/ PurgeCodes
         /\ \/ issued' = issued
            \/ \E c \in Codes, u \in Users, pr \in pushed : IssueCode(c, u, pr)
         /\ \/ tokens' = tokens
            \/ \E h \in Handlers : SaveRefresh(h)
            \/ \E h \in Handlers, t \in Tokens : MintTokens(h, t)
         /\ served' = served \/ \E h \in Handlers : Serve(h)
         /\ overlapped' = overlapped \/ \E h \in Handlers : ReadCode(h)
         /\ pushed \subseteq pushed'
<1> USE DEF tables, histories
<1>1. ASSUME NEW h \in Handlers, Arrive(h) \/ PassGuard(h) \/ Abort(h)
      PROVE  UNCHANGED <<tables, histories>>
  BY <1>1 DEF Arrive, Register, Exchange, UserInfo, Begin, PassGuard, Abort
<1>2. ASSUME NEW h \in Handlers, Push(h)
      PROVE  UNCHANGED <<codes, tokens, histories>> /\ pushed \subseteq pushed'
  BY <1>2 DEF Push
<1>3. CASE \E h \in Handlers : Arrive(h) \/ Abort(h) \/ PassGuard(h) \/ Push(h)
  BY <1>1, <1>2, <1>3
<1>4. CASE \E h \in Handlers : \/ ReadCode(h) \/ BurnCode(h) \/ SaveRefresh(h) \/ Serve(h)
                               \/ \E t \in Tokens : MintTokens(h, t)
  BY <1>4 DEF ReadCode, BurnCode, SaveRefresh, Serve, MintTokens
<1>5. CASE \/ \E c \in Codes, u \in Users, pr \in pushed : IssueCode(c, u, pr)
           \/ PurgeCodes \/ PurgeUsedJtis \/ TimePasses \/ UNCHANGED vars
  BY <1>5 DEF IssueCode, PurgeCodes, PurgeUsedJtis, TimePasses, vars
<1> QED BY <1>3, <1>4, <1>5 DEF Next, Proceed

\* What a code said when it was issued is never written again.
LEMMA IssuedStays ==
  ASSUME TypeOK, [Next]_vars, NEW c \in Codes, issued[c] # NoCode
  PROVE  issued'[c] = issued[c]
BY Writers DEF IssueCode, TypeOK

\* A handler that holds a code row has just read it, has just marked it, or has not
\* moved.
LEMMA HoldsRow ==
  ASSUME TypeOK, [Next]_vars, NEW h \in Handlers, pc'[h] \in {"burn", "mint"}
  PROVE  \/ ReadCode(h) \/ BurnCode(h)
         \/ pc'[h] = pc[h] /\ req'[h] = req[h] /\ task'[h] = task[h]
<1>1. ASSUME NEW g \in Handlers, g # h, Arrive(g) \/ Proceed(g) \/ Abort(g)
      PROVE  pc'[h] = pc[h] /\ req'[h] = req[h] /\ task'[h] = task[h]
  BY <1>1, OneHandler DEF OnlyOf
<1>2. ~Arrive(h)
  <2>1. \A p : \A e \in {"par", "token", "userinfo"} : First(e, p) \in {"assertion", "proof"}
    BY DEF First
  <2> QED BY <2>1 DEF Arrive, Register, Exchange, UserInfo, Begin, TypeOK
<1>3. ~PassGuard(h)
  <2>1. AfterProof(req[h].endpoint) \in {"assertion", "code", "userinfo"}
    BY DEF AfterProof
  <2>2. AfterAssertion(req[h].endpoint) \in {"push", "proof"}
    BY DEF AfterAssertion
  <2> QED
    BY <2>1, <2>2 DEF PassGuard, Guard, CheckProof, MarkProof, CheckAssertion, LookupAssertion,
       MarkAssertion, Pass, Goto, End, TypeOK
<1>4. ~(Push(h) \/ SaveRefresh(h) \/ Serve(h) \/ Abort(h))
  BY DEF Push, SaveRefresh, Serve, Abort, Answer, End, TypeOK
<1>5. \A t \in Tokens : ~MintTokens(h, t)
  BY DEF MintTokens, Goto, TypeOK
<1>6. CASE \/ \E c \in Codes, u \in Users, pr \in pushed : IssueCode(c, u, pr)
           \/ PurgeCodes \/ PurgeUsedJtis \/ TimePasses \/ UNCHANGED vars
  BY <1>6 DEF IssueCode, PurgeCodes, PurgeUsedJtis, PurgeJtis, TimePasses, Tick, vars, guardVars
<1> QED BY <1>1, <1>2, <1>3, <1>4, <1>5, <1>6 DEF Next, Proceed

LEMMA CodesBoundStep ==
  ASSUME TypeOK, RequestInv, BindingInv, [Next]_vars
  PROVE  CodesBound'
<1> SUFFICES ASSUME NEW c \in Codes
             PROVE  /\ codes'[c] # NoCode => SameGrant(codes[c], c)'
                    /\ issued'[c] # NoCode =>
                         [client |-> issued'[c].client, key |-> issued'[c].key] \in pushed'
  BY DEF CodesBound
<1>1. ASSUME NEW u \in Users, NEW pr \in pushed, IssueCode(c, u, pr)
      PROVE  /\ SameGrant(codes[c], c)'
             /\ [client |-> issued'[c].client, key |-> issued'[c].key] \in pushed'
  <2>1. codes'[c] = CodeFor(u, pr) /\ issued'[c] = CodeFor(u, pr) /\ pushed' = pushed
    BY <1>1 DEF IssueCode, TypeOK
  <2>2. CodeFor(u, pr) # NoCode
    BY <1>1, CodeForTyped DEF IssueCode
  <2>3. [client |-> CodeFor(u, pr).client, key |-> CodeFor(u, pr).key] = pr
    BY DEF CodeFor, TypeOK, Pushed
  <2> QED BY <2>1, <2>2, <2>3 DEF SameGrant
<1>2. ASSUME ~\E u \in Users, pr \in pushed : IssueCode(c, u, pr)
      PROVE  /\ codes'[c] # NoCode => SameGrant(codes[c], c)'
             /\ issued'[c] # NoCode =>
                  [client |-> issued'[c].client, key |-> issued'[c].key] \in pushed'
  <2>1. issued'[c] = issued[c]
    BY <1>2, Writers DEF IssueCode, TypeOK
  <2>2. codes'[c] # NoCode =>
          /\ codes[c] # NoCode
          /\ codes'[c].client = codes[c].client
          /\ codes'[c].user = codes[c].user
          /\ codes'[c].key = codes[c].key
    <3>1. CASE \E h \in Handlers : BurnCode(h)
      BY <3>1, BurnTyped
    <3>2. CASE \E d \in Codes, u \in Users, pr \in pushed : IssueCode(d, u, pr)
      BY <1>2, <3>2 DEF IssueCode, TypeOK
    <3>3. CASE PurgeCodes
      BY <3>3 DEF PurgeCodes
    <3> QED BY <3>1, <3>2, <3>3, Writers
  <2> QED BY <2>1, <2>2, Writers DEF BindingInv, CodesBound, SameGrant
<1> QED BY <1>1, <1>2

LEMMA RowsBoundStep ==
  ASSUME TypeOK, RequestInv, BindingInv, [Next]_vars
  PROVE  RowsBound'
<1> SUFFICES ASSUME NEW h \in Handlers, pc'[h] \in {"burn", "mint"}
             PROVE  SameGrant(task[h].row, task[h].code)'
                      /\ task'[h].row.key = KeyOf[req'[h].proof]
  BY DEF RowsBound
<1> DEFINE c == task[h].code
<1>1. CASE ReadCode(h)
  <2>1. c \in Codes
    BY <1>1 DEF ReadCode, RequestInv, Fits, StepsOf, TypeOK, Request
  <2>2. task'[h].row = codes[c] /\ task'[h].code = c /\ req'[h] = req[h] /\ issued' = issued
    BY <1>1 DEF ReadCode, Goto, TypeOK, Task
  <2>3. codes[c] # NoCode /\ codes[c].key = KeyOf[req[h].proof]
    BY <1>1 DEF ReadCode, Redeemable
  <2>4. SameGrant(codes[c], c)
    BY <2>1, <2>3 DEF BindingInv, CodesBound
  <2> QED BY <2>2, <2>3, <2>4 DEF SameGrant
<1>2. CASE BurnCode(h)
  BY <1>2 DEF BurnCode, Goto, histories, BindingInv, RowsBound, SameGrant
<1>3. CASE pc'[h] = pc[h] /\ req'[h] = req[h] /\ task'[h] = task[h]
  <2>1. SameGrant(task[h].row, c) /\ task[h].row.key = KeyOf[req[h].proof]
    BY <1>3 DEF BindingInv, RowsBound
  <2>2. c \in Codes
    BY <1>3 DEF RequestInv, Fits, StepsOf, TypeOK, Request
  <2>3. issued'[c] = issued[c]
    BY <2>1, <2>2, IssuedStays DEF SameGrant
  <2> QED BY <1>3, <2>1, <2>3 DEF SameGrant
<1> QED BY <1>1, <1>2, <1>3, HoldsRow

LEMMA TokensBoundStep ==
  ASSUME TypeOK, RequestInv, BindingInv, [Next]_vars
  PROVE  TokensBound'
<1> SUFFICES ASSUME NEW t \in Tokens, tokens'[t] # NoToken
             PROVE  SameGrant(tokens[t], tokens[t].code)'
  BY DEF TokensBound
<1>1. ASSUME NEW h \in Handlers, MintTokens(h, t)
      PROVE  SameGrant(tokens[t], tokens[t].code)'
  <2>1. SameGrant(task[h].row, task[h].code) /\ task[h].row.key = KeyOf[req[h].proof]
    BY <1>1 DEF MintTokens, BindingInv, RowsBound
  <2>2. issued' = issued
    BY <1>1 DEF MintTokens, histories
  <2>3. /\ tokens'[t].code = task[h].code
        /\ tokens'[t].client = task[h].row.client
        /\ tokens'[t].user = task[h].row.user
        /\ tokens'[t].key = KeyOf[req[h].proof]
    BY <1>1, MintTyped
  <2> QED BY <2>1, <2>2, <2>3 DEF SameGrant
<1>2. CASE ~\E h \in Handlers : MintTokens(h, t)
  <2>1. /\ tokens[t] # NoToken
        /\ tokens'[t].code = tokens[t].code
        /\ tokens'[t].client = tokens[t].client
        /\ tokens'[t].user = tokens[t].user
        /\ tokens'[t].key = tokens[t].key
    BY <1>2, Writers, RefreshTyped, MintTyped
  <2>2. tokens[t].code \in Codes
    BY <2>1 DEF TypeOK, TokenRow
  <2>3. SameGrant(tokens[t], tokens[t].code)
    BY <2>1 DEF BindingInv, TokensBound
  <2> QED BY <2>1, <2>2, <2>3, IssuedStays DEF SameGrant
<1> QED BY <1>1, <1>2

LEMMA ServedBoundStep ==
  ASSUME TypeOK, RequestInv, BindingInv, [Next]_vars
  PROVE  ServedBound'
<1>1. ASSUME NEW s \in served PROVE \E c \in Codes : SameGrant(s, c)'
  <2>1. PICK c \in Codes : SameGrant(s, c)
    BY DEF BindingInv, ServedBound
  <2> QED BY <2>1, IssuedStays DEF SameGrant
<1>2. ASSUME NEW h \in Handlers, Serve(h), NEW s \in served'
      PROVE  \E c \in Codes : SameGrant(s, c)'
  <2> DEFINE token == tokens[task[h].token]
  <2>1. token # NoToken /\ token.code \in Codes /\ SameGrant(token, token.code)
    BY <1>2 DEF Serve, RequestInv, Fits, StepsOf, TypeOK, Request, TokenRow, BindingInv, TokensBound
  <2>2. CASE s \in served
    BY <1>1, <2>2
  <2>3. CASE s = [client |-> token.client, user |-> token.user, key |-> token.key]
    <3>1. SameGrant(s, token.code)
      BY <2>1, <2>3 DEF SameGrant
    <3>2. issued'[token.code] = issued[token.code]
      BY <2>1, IssuedStays DEF SameGrant
    <3> QED BY <2>1, <3>1, <3>2 DEF SameGrant
  <2> QED BY <1>2, <2>2, <2>3 DEF Serve
<1> QED BY <1>1, <1>2, Writers DEF ServedBound

LEMMA BindingStep == TypeOK /\ RequestInv /\ BindingInv /\ [Next]_vars => BindingInv'
BY CodesBoundStep, RowsBoundStep, TokensBoundStep, ServedBoundStep DEF BindingInv

LEMMA BindingInit == Init => BindingInv
BY DEF Init, BindingInv, CodesBound, RowsBound, TokensBound, ServedBound

\* Every access token and every userinfo answer goes back, over the code and the
\* pushed request, to a client and a key that stood together at the PAR endpoint
\* (register-par.ts, token-exchange.ts, userinfo.ts).
THEOREM BindingCorrect == Spec => []BoundAsPushed
<1>1. TypeOK /\ BindingInv => BoundAsPushed
  <2> SUFFICES ASSUME TypeOK, BindingInv PROVE BoundAsPushed
    OBVIOUS
  <2>1. \A t \in Tokens : tokens[t] # NoToken => tokens[t].code \in Codes
    BY DEF TypeOK, TokenRow
  <2> QED
    BY <2>1 DEF BoundAsPushed, BindingInv, CodesBound, TokensBound, ServedBound, SameGrant
<1> QED BY TypeInit, TypeStep, RequestStep, BindingInit, BindingStep, <1>1, PTL DEF Spec

-----------------------------------------------------------------------------
(* Redemption *)

\* A code that was issued and marked or purged is never found again.
LEMMA BurntStays ==
  ASSUME TypeOK, [Next]_vars, NEW c \in Codes, issued[c] # NoCode, Burnt(c)
  PROVE  Burnt(c)'
<1>1. CASE codes' = codes
  BY <1>1 DEF Burnt
<1>2. ASSUME NEW h \in Handlers, BurnCode(h) PROVE Burnt(c)'
  BY <1>2, BurnTyped DEF Burnt
<1>3. ASSUME NEW d \in Codes, NEW u \in Users, NEW pr \in pushed, IssueCode(d, u, pr)
      PROVE  Burnt(c)'
  BY <1>3 DEF IssueCode, Burnt, TypeOK
<1>4. CASE PurgeCodes
  BY <1>4 DEF PurgeCodes, Burnt
<1> QED BY <1>1, <1>2, <1>3, <1>4, Writers

LEMMA BurntStep ==
  ASSUME TypeOK, RequestInv, BindingInv, BurntInv, [Next]_vars
  PROVE  BurntInv'
<1>1. ASSUME NEW h \in Handlers, pc'[h] = "mint"
      PROVE  Burnt(task[h].code)'
  <2>1. CASE BurnCode(h)
    <3>1. task[h].code \in Codes
      BY <2>1 DEF BurnCode, RequestInv, Fits, StepsOf, TypeOK, Request
    <3>2. task' = task
      BY <2>1 DEF BurnCode
    <3> QED BY <2>1, <3>1, <3>2, BurnTyped DEF Burnt
  <2>2. CASE pc'[h] = pc[h] /\ task'[h] = task[h]
    <3>1. task[h].code \in Codes
      BY <1>1, <2>2 DEF RequestInv, Fits, StepsOf, TypeOK, Request
    <3>2. Burnt(task[h].code) /\ issued[task[h].code] # NoCode
      BY <1>1, <2>2 DEF BurntInv, BindingInv, RowsBound, SameGrant
    <3>3. Burnt(task[h].code)' <=> LET d == task[h].code IN codes'[d] = NoCode \/ codes'[d].used
      BY <2>2 DEF Burnt
    <3> DEFINE d == task[h].code
    <3>4. codes'[d] = NoCode \/ codes'[d].used
      BY <3>1, <3>2, BurntStays DEF Burnt
    <3> QED BY <3>3, <3>4
  <2>3. ~ReadCode(h)
    BY <1>1 DEF ReadCode, Goto, TypeOK
  <2> QED BY <1>1, <2>1, <2>2, <2>3, HoldsRow
<1>2. ASSUME NEW t \in Tokens, tokens'[t] # NoToken
      PROVE  Burnt(tokens[t].code)'
  <2>1. ASSUME NEW h \in Handlers, MintTokens(h, t)
        PROVE  Burnt(tokens[t].code)'
    <3>1. Burnt(task[h].code) /\ codes' = codes
      BY <2>1 DEF MintTokens, BurntInv
    <3>2. tokens'[t].code = task[h].code
      BY <2>1, MintTyped
    <3> QED BY <3>1, <3>2 DEF Burnt
  <2>2. CASE ~\E h \in Handlers : MintTokens(h, t)
    <3> DEFINE d == tokens[t].code
    <3>1. tokens[t] # NoToken /\ tokens'[t].code = d
      BY <1>2, <2>2, Writers, RefreshTyped, MintTyped
    <3>2. d \in Codes /\ issued[d] # NoCode /\ Burnt(d)
      BY <3>1 DEF TypeOK, TokenRow, BindingInv, TokensBound, SameGrant, BurntInv
    <3>3. codes'[d] = NoCode \/ codes'[d].used
      BY <3>2, BurntStays DEF Burnt
    <3> QED BY <3>1, <3>3 DEF Burnt
  <2> QED BY <2>1, <2>2
<1> QED BY <1>1, <1>2 DEF BurntInv

\* The tokens of a code change only when a handler that holds it makes one.
LEMMA TokensOfStep ==
  ASSUME TypeOK, RequestInv, [Next]_vars, NEW c \in Codes
  PROVE  \/ TokensOf(c)' = TokensOf(c)
         \/ \E h \in Handlers, t \in Tokens :
              /\ MintTokens(h, t) /\ Holding(h, c)
              /\ TokensOf(c)' = TokensOf(c) \cup {t}
<1>1. ASSUME NEW h \in Handlers, NEW t \in Tokens, MintTokens(h, t)
      PROVE  \/ TokensOf(c)' = TokensOf(c)
             \/ Holding(h, c) /\ TokensOf(c)' = TokensOf(c) \cup {t}
  <2>1. /\ tokens[t] = NoToken /\ tokens'[t] # NoToken
        /\ tokens'[t].code = task[h].code
        /\ \A u \in Tokens : u # t => tokens'[u] = tokens[u]
    BY <1>1, MintTyped
  <2>2. CASE task[h].code = c
    BY <1>1, <2>1, <2>2 DEF MintTokens, Holding, TokensOf
  <2>3. CASE task[h].code # c
    BY <2>1, <2>3 DEF TokensOf
  <2> QED BY <2>2, <2>3
<1>2. ASSUME NEW h \in Handlers, SaveRefresh(h)
      PROVE  TokensOf(c)' = TokensOf(c)
  BY <1>2, RefreshTyped DEF TokensOf
<1>3. CASE tokens' = tokens
  BY <1>3 DEF TokensOf
<1> QED BY <1>1, <1>2, <1>3, Writers

\* A handler that holds a code after a step held it before, or found it redeemable.
LEMMA HoldingStep ==
  ASSUME TypeOK, [Next]_vars, NEW h \in Handlers, NEW c \in Codes, Holding(h, c)'
  PROVE  Holding(h, c) \/ (ReadCode(h) /\ task[h].code = c)
<1>1. pc'[h] \in {"burn", "mint"} /\ task'[h].code = c
  BY DEF Holding
<1>2. CASE ReadCode(h)
  <2>1. task'[h].code = task[h].code
    BY <1>2 DEF ReadCode, TypeOK, Task
  <2> QED BY <1>1, <1>2, <2>1
<1>3. CASE BurnCode(h)
  BY <1>1, <1>3 DEF BurnCode, Holding
<1>4. CASE pc'[h] = pc[h] /\ task'[h] = task[h]
  BY <1>1, <1>4 DEF Holding
<1> QED BY <1>1, <1>2, <1>3, <1>4, HoldsRow

LEMMA SoleStep ==
  ASSUME TypeOK, RequestInv, BindingInv, BurntInv, SoleInv, [Next]_vars
  PROVE  SoleInv'
<1> SUFFICES ASSUME NEW c \in Codes, c \notin overlapped'
             PROVE  /\ \A g, h \in Handlers : Holding(g, c)' /\ Holding(h, c)' => g = h
                    /\ (\E h \in Handlers : Holding(h, c)') => TokensOf(c)' = {}
                    /\ \A t, u \in TokensOf(c)' : t = u
  BY DEF SoleInv
<1>1. c \notin overlapped
  BY Writers DEF ReadCode, NoteOverlap
<1>2. /\ \A g, h \in Handlers : Holding(g, c) /\ Holding(h, c) => g = h
      /\ (\E h \in Handlers : Holding(h, c)) => TokensOf(c) = {}
      /\ \A t, u \in TokensOf(c) : t = u
  BY <1>1 DEF SoleInv
<1>3. ASSUME NEW h \in Handlers, ReadCode(h), task[h].code = c
      PROVE  /\ \A g \in Handlers \ {h} : ~Holding(g, c) /\ ~Holding(g, c)'
             /\ TokensOf(c) = {} /\ TokensOf(c)' = {}
  <2>1. \A g \in Handlers \ {h} : ~Holding(g, c)
    BY <1>3 DEF ReadCode, NoteOverlap
  <2>2. \A g \in Handlers \ {h} : ~Holding(g, c)'
    <3>1. OnlyOf(h)
      BY <1>3, OneHandler DEF Proceed
    <3> QED BY <2>1, <3>1 DEF OnlyOf, Holding
  <2>3. ~Burnt(c)
    BY <1>3 DEF ReadCode, Redeemable, Burnt
  <2>4. TokensOf(c) = {}
    BY <2>3 DEF TokensOf, BurntInv
  <2>5. tokens' = tokens
    BY <1>3 DEF ReadCode, tables
  <2> QED BY <2>1, <2>2, <2>4, <2>5 DEF TokensOf
<1>4. CASE \E h \in Handlers : ReadCode(h) /\ task[h].code = c
  <2>1. PICK h \in Handlers : ReadCode(h) /\ task[h].code = c
    BY <1>4
  <2>2. /\ \A g \in Handlers \ {h} : ~Holding(g, c)'
        /\ TokensOf(c)' = {}
    BY <1>3, <2>1
  <2> QED BY <2>2
<1>5. CASE ~\E h \in Handlers : ReadCode(h) /\ task[h].code = c
  <2>1. \A h \in Handlers : Holding(h, c)' => Holding(h, c)
    BY <1>5, HoldingStep
  <2>2. CASE TokensOf(c)' = TokensOf(c)
    BY <1>2, <2>1, <2>2
  <2>3. ASSUME NEW h \in Handlers, NEW t \in Tokens, MintTokens(h, t), Holding(h, c),
               TokensOf(c)' = TokensOf(c) \cup {t}
        PROVE  /\ TokensOf(c)' = {t}
               /\ \A g \in Handlers : ~Holding(g, c)'
    <3>1. ~Holding(h, c)'
      BY <2>3 DEF MintTokens, Goto, Holding, TypeOK
    <3>2. TokensOf(c) = {}
      BY <1>2, <2>3
    <3> QED BY <1>2, <2>1, <2>3, <3>1, <3>2
  <2> QED BY <2>2, <2>3, TokensOfStep
<1> QED BY <1>4, <1>5

LEMMA RedemptionImplies ==
  TypeOK /\ RedemptionInv => BurntBeforeMinted /\ RedeemedOnce
<1> SUFFICES ASSUME TypeOK, RedemptionInv PROVE BurntBeforeMinted /\ RedeemedOnce
  OBVIOUS
<1>1. BurntBeforeMinted
  BY DEF RedemptionInv, BurntInv, BurntBeforeMinted, Burnt, Redeemable
<1>2. ASSUME NEW c \in Codes \ overlapped PROVE Cardinality(TokensOf(c)) <= 1
  <2>1. \A t, u \in TokensOf(c) : t = u
    BY DEF RedemptionInv, SoleInv
  <2>2. CASE TokensOf(c) = {}
    BY <2>2, FS_EmptySet
  <2>3. CASE TokensOf(c) # {}
    <3>1. PICK t \in TokensOf(c) : TRUE
      BY <2>3
    <3>2. TokensOf(c) = {t}
      BY <2>1, <3>1
    <3>3. Cardinality({t}) = 1
      BY FS_Singleton
    <3> QED BY <3>2, <3>3
  <2> QED BY <2>2, <2>3
<1> QED BY <1>1, <1>2 DEF RedeemedOnce

LEMMA RedemptionAlways == Spec => [](BurntBeforeMinted /\ RedeemedOnce)
<1>1. Init => RedemptionInv
  BY DEF Init, RedemptionInv, BurntInv, SoleInv, Holding, TokensOf
<1>2. TypeOK /\ RequestInv /\ BindingInv /\ RedemptionInv /\ [Next]_vars => RedemptionInv'
  BY BurntStep, SoleStep DEF RedemptionInv
<1> QED
  BY TypeInit, TypeStep, RequestStep, BindingInit, BindingStep, RedemptionImplies, <1>1, <1>2, PTL
  DEF Spec

\* Wherever the handlers of token-exchange.ts stop, a code with tokens cannot be
\* redeemed again.
THEOREM BurntCorrect == Spec => []BurntBeforeMinted
BY RedemptionAlways, PTL

\* A code that no two requests of token-exchange.ts held at once has one access token
\* at most.
THEOREM RedemptionCorrect == Spec => []RedeemedOnce
BY RedemptionAlways, PTL
=============================================================================
