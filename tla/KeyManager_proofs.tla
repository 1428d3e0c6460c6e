------------------------- MODULE KeyManager_proofs -------------------------
(***************************************************************************)
(* Proofs about KeyManager, for every number of keys, every rotation       *)
(* period, every grace period of at least two, and every length of the     *)
(* times the process is up or down.                                        *)
(***************************************************************************)
EXTENDS KeyManager, TLAPS

-----------------------------------------------------------------------------
(* Types *)

LEMMA GenerateTyped ==
  ASSUME TypeOK, NEW use \in Uses, Generate(use)
  PROVE  keys' \in [Keys -> KeyRow \cup {NoKey}] /\ \A k \in Keys : keys'[k].createdAt <= now
<1>1. PICK k \in Keys : keys' = [keys EXCEPT ![k] = [use |-> use, createdAt |-> now, active |-> TRUE]]
  BY DEF Generate
<1>2. [use |-> use, createdAt |-> now, active |-> TRUE] \in KeyRow
  BY DEF TypeOK, KeyRow
<1>3. now <= now
  BY PeriodsAssumption DEF TypeOK
<1> QED BY <1>1, <1>2, <1>3 DEF TypeOK

LEMMA TypeStep == TypeOK /\ [Next]_vars => TypeOK'
<1> SUFFICES ASSUME TypeOK, [Next]_vars PROVE TypeOK'
  OBVIOUS
<1> USE PeriodsAssumption
<1>1. CASE Start
  BY <1>1 DEF Start, AfterLookup, TypeOK
<1>2. CASE Ensure
  <2>1. CASE EnsureSig
    BY <2>1, GenerateTyped DEF EnsureSig, TypeOK, Uses
  <2>2. CASE LookForEnc
    BY <2>2 DEF LookForEnc, TypeOK
  <2>3. CASE EnsureEnc
    BY <2>3, GenerateTyped DEF EnsureEnc, TypeOK, Uses
  <2> QED BY <1>2, <2>1, <2>2, <2>3 DEF Ensure
<1>3. CASE Rotate
  <2>1. CASE RotateLookup
    BY <2>1 DEF RotateLookup, AfterLookup, TypeOK
  <2>2. CASE RotateGenerate
    BY <2>2, GenerateTyped DEF RotateGenerate, TypeOK, Uses
  <2>3. CASE RotateRetire
    <3>1. \A k \in Keys : k \in Active =>
            /\ [keys[k] EXCEPT !.active = FALSE] \in KeyRow
            /\ [keys[k] EXCEPT !.active = FALSE].createdAt = keys[k].createdAt
      <4>1. \A k \in Active : keys[k] \in KeyRow
        BY DEF Active, TypeOK, NoKey
      <4> QED BY <4>1 DEF KeyRow
    <3>2. keys' \in [Keys -> KeyRow \cup {NoKey}] /\ \A k \in Keys : keys'[k].createdAt = keys[k].createdAt
      BY <2>3, <3>1 DEF RotateRetire, TypeOK
    <3> QED BY <2>3, <3>2 DEF RotateRetire, TypeOK
  <2>4. CASE RotateFail
    BY <2>4 DEF RotateFail, TypeOK
  <2> QED BY <1>3, <2>1, <2>2, <2>3, <2>4 DEF Rotate
<1>4. CASE Serve
  BY <1>4 DEF Serve, TypeOK
<1>5. CASE CleanUp
  <2>1. NoKey.createdAt = 0
    BY DEF NoKey
  <2>2. \A k \in Keys : keys'[k] \in {NoKey, keys[k]}
    BY <1>5 DEF CleanUp
  <2>3. keys' \in [Keys -> KeyRow \cup {NoKey}]
    BY <1>5 DEF CleanUp, TypeOK
  <2> QED BY <1>5, <2>1, <2>2, <2>3 DEF CleanUp, TypeOK
<1>6. CASE Stop
  BY <1>6 DEF Stop, TypeOK
<1>7. CASE Tick
  <2>1. \A k \in Keys : keys[k].createdAt \in Int
    BY DEF TypeOK, KeyRow, NoKey
  <2>2. now' \in 0..MaxClock /\ \A k \in Keys : keys[k].createdAt <= now'
    BY <1>7, <2>1 DEF Tick, TypeOK
  <2> QED BY <1>7, <2>2 DEF Tick, TypeOK
<1>8. CASE UNCHANGED vars
  BY <1>8 DEF vars, TypeOK
<1> QED BY <1>1, <1>2, <1>3, <1>4, <1>5, <1>6, <1>7, <1>8 DEF Next

\* TypeOK: server_keys, the phases of the process and its two tasks, with what each
\* phase rules out (drizzle_key_manager.ts, main.ts).
THEOREM TypeCorrect == Spec => []TypeOK
<1>1. Init => TypeOK
  <2> SUFFICES ASSUME Init PROVE TypeOK
    OBVIOUS
  <2>1. \A k \in Keys : keys[k] = NoKey /\ keys[k].createdAt = 0
    BY DEF Init, NoKey
  <2>2. keys \in [Keys -> KeyRow \cup {NoKey}]
    BY DEF Init
  <2>3. now \in 0..MaxClock /\ checked \in -1..MaxClock /\ \A k \in Keys : keys[k].createdAt <= now
    BY <2>1, PeriodsAssumption DEF Init
  <2> QED BY <2>2, <2>3 DEF Init, TypeOK
<1> QED BY <1>1, TypeStep, PTL DEF Spec

-----------------------------------------------------------------------------
(* Tables of keys, whatever state they are the table of *)

Is(row, use) == row.active /\ row.use = use
Has(ks, use) == \E k \in Keys : Is(ks[k], use)
HasSince(ks, use, t) == \E k \in Keys : Is(ks[k], use) /\ ks[k].createdAt >= t

\* SigningInv of a table, a time and a state of the tasks.
Covered(ks, t) ==
  \A e \in Keys : Is(ks[e], "enc") => HasSince(ks, "sig", ks[e].createdAt - Rotation)

Starts(ks, t, doing) ==
  /\ Has(ks, "sig")
  /\ HasSince(ks, "sig", t - Rotation) \/ HasSince(ks, "enc", t - Rotation)
  /\ doing = "makeEnc" => HasSince(ks, "sig", t - Rotation)

Fine(ks, t, p, en, ro) ==
  /\ Covered(ks, t) \/ (p = "starting" /\ ro = "generate")
  /\ ro = "retire" => HasSince(ks, "sig", t - 2 * Rotation)
  /\ p = "serving" => Has(ks, "sig")
  /\ p = "starting" /\ ro # "generate" => Starts(ks, t, en)

\* The invariant speaks of the table, and nothing else, through these.
LEMMA SigningIsFine ==
  /\ SigningInv <=> (~interrupted => Fine(keys, now, phase, ensure, rotate))
  /\ SigningInv' <=> (~interrupted' => Fine(keys', now', phase', ensure', rotate'))
BY DEF SigningInv, Fine, Covered, Starts, Has, HasSince, Is, Since, ActiveFor, Active

Table == [Keys -> [use : Uses, createdAt : Int, active : BOOLEAN] \cup {NoKey}]

\* A table with one more active key keeps what the first had.
Grows(ks, js) ==
  \A k \in Keys : ks[k].active => js[k] = ks[k]

LEMMA GrowthKeeps ==
  ASSUME NEW ks \in Table, NEW js \in Table, Grows(ks, js), NEW use
  PROVE  /\ Has(ks, use) => Has(js, use)
         /\ \A t : HasSince(ks, use, t) => HasSince(js, use, t)
BY DEF Grows, Has, HasSince, Is

LEMMA GenerateGrows ==
  ASSUME TypeOK, NEW use \in Uses, Generate(use)
  PROVE  /\ keys \in Table /\ keys' \in Table /\ Grows(keys, keys')
         /\ HasSince(keys', use, now) /\ Has(keys', use)
         /\ \A k \in Keys : keys'[k].active /\ ~keys[k].active
              => keys'[k].use = use /\ keys'[k].createdAt = now
<1>1. keys \in Table /\ keys' \in Table
  BY GenerateTyped, PeriodsAssumption DEF TypeOK, KeyRow, Table
<1>2. PICK k \in Keys : /\ keys[k] = NoKey
                        /\ keys' = [keys EXCEPT ![k] = [use |-> use, createdAt |-> now, active |-> TRUE]]
  BY DEF Generate
<1>3. /\ keys'[k].active /\ keys'[k].use = use /\ keys'[k].createdAt = now
      /\ ~keys[k].active /\ \A j \in Keys \ {k} : keys'[j] = keys[j]
  BY <1>2 DEF TypeOK, NoKey
<1>4. now >= now
  BY PeriodsAssumption DEF TypeOK
<1> QED BY <1>1, <1>3, <1>4 DEF Grows, HasSince, Has, Is

\* When the look-up finds no rotation due, some active key is young.
LEMMA NotDue ==
  ASSUME TypeOK, ~RotationDue
  PROVE  HasSince(keys, "sig", now - Rotation) \/ HasSince(keys, "enc", now - Rotation)
<1>1. PICK k \in Newest(Active) : ~(now - keys[k].createdAt > Rotation)
  BY DEF RotationDue
<1>2. k \in Keys /\ keys[k].active /\ keys[k].createdAt \in Int /\ now \in Int
  BY <1>1, PeriodsAssumption DEF Newest, Active, TypeOK, KeyRow, NoKey
<1>3. keys[k].createdAt >= now - Rotation
  BY <1>1, <1>2, PeriodsAssumption
<1>4. keys[k].use \in Uses
  BY <1>2 DEF TypeOK, KeyRow, NoKey
<1> QED BY <1>2, <1>3, <1>4 DEF HasSince, Is, Uses

-----------------------------------------------------------------------------
(* The signing key *)

\* What a look-up leaves: a key to be made, or a young enough signing key.
LEMMA AfterLookupFine ==
  ASSUME TypeOK, Covered(keys, now), rotate' = AfterLookup
  PROVE  /\ rotate' = "generate" \/ rotate' = "retire"
         /\ rotate' = "retire" =>
              /\ HasSince(keys, "sig", now - 2 * Rotation)
              /\ HasSince(keys, "sig", now - Rotation) \/ HasSince(keys, "enc", now - Rotation)
              /\ Has(keys, "sig")
<1>1. rotate' \in {"generate", "retire"}
  BY DEF AfterLookup
<1>2. ASSUME rotate' = "retire"
      PROVE  HasSince(keys, "sig", now - Rotation) \/ HasSince(keys, "enc", now - Rotation)
  BY <1>2, NotDue DEF AfterLookup
<1>3. /\ now \in Int /\ Rotation \in Nat
      /\ \A k \in Keys : keys[k].createdAt \in Int
  BY PeriodsAssumption DEF TypeOK, KeyRow, NoKey
<1>4. ASSUME HasSince(keys, "sig", now - Rotation) PROVE HasSince(keys, "sig", now - 2 * Rotation)
  BY <1>3, <1>4 DEF HasSince
<1>5. ASSUME HasSince(keys, "enc", now - Rotation) PROVE HasSince(keys, "sig", now - 2 * Rotation)
  <2>1. PICK e \in Keys : Is(keys[e], "enc") /\ keys[e].createdAt >= now - Rotation
    BY <1>5 DEF HasSince
  <2>2. PICK k \in Keys : Is(keys[k], "sig") /\ keys[k].createdAt >= keys[e].createdAt - Rotation
    BY <2>1 DEF Covered, HasSince
  <2>3. keys[k].createdAt >= now - 2 * Rotation
    BY <1>3, <2>1, <2>2
  <2> QED BY <2>2, <2>3 DEF HasSince
<1>6. HasSince(keys, "sig", now - 2 * Rotation) => Has(keys, "sig")
  BY DEF HasSince, Has
<1> QED BY <1>1, <1>2, <1>4, <1>5, <1>6

\* A retirement that is covered by a young enough signing key leaves it, and with it
\* all that speaks of keys within the grace period.
LEMMA RetireKeeps ==
  ASSUME TypeOK, RotateRetire, HasSince(keys, "sig", now - 2 * Rotation)
  PROVE  /\ Has(keys', "sig")
         /\ \A use : HasSince(keys, use, now - Rotation) => HasSince(keys', use, now - Rotation)
         /\ Covered(keys, now) => Covered(keys', now)
<1>1. /\ now \in Int /\ Rotation \in Nat /\ Grace \in Nat /\ Grace >= 2 * Rotation
      /\ \A k \in Keys : keys[k].createdAt \in Int
  BY PeriodsAssumption DEF TypeOK, KeyRow, NoKey
<1>2. ASSUME NEW k \in Keys
      PROVE  /\ keys'[k].use = keys[k].use /\ keys'[k].createdAt = keys[k].createdAt
             /\ keys'[k].active => keys[k].active
             /\ keys[k].createdAt >= now - Grace => keys'[k] = keys[k]
  <2>1. keys'[k] = IF k \in Active /\ keys[k].createdAt < now - Grace
                     THEN [keys[k] EXCEPT !.active = FALSE] ELSE keys[k]
    BY DEF RotateRetire
  <2>2. k \in Active => keys[k] \in KeyRow
    BY DEF Active, TypeOK, NoKey
  <2>3. CASE k \in Active /\ keys[k].createdAt < now - Grace
    BY <1>1, <2>1, <2>2, <2>3 DEF KeyRow, Active
  <2>4. CASE ~(k \in Active /\ keys[k].createdAt < now - Grace)
    BY <2>1, <2>4
  <2> QED BY <1>1, <2>3, <2>4
<1>3. ASSUME NEW k \in Keys, NEW use, Is(keys[k], use), keys[k].createdAt >= now - 2 * Rotation
      PROVE  Is(keys'[k], use) /\ keys'[k].createdAt = keys[k].createdAt
  <2>1. keys[k].createdAt >= now - Grace
    BY <1>1, <1>3
  <2> QED BY <1>2, <1>3, <2>1 DEF Is
<1>4. PICK s \in Keys : Is(keys[s], "sig") /\ keys[s].createdAt >= now - 2 * Rotation
  BY DEF HasSince
<1>5. Is(keys'[s], "sig") /\ keys'[s].createdAt = keys[s].createdAt
  BY <1>3, <1>4
<1>6. ASSUME NEW use, HasSince(keys, use, now - Rotation) PROVE HasSince(keys', use, now - Rotation)
  <2>1. PICK k \in Keys : Is(keys[k], use) /\ keys[k].createdAt >= now - Rotation
    BY <1>6 DEF HasSince
  <2>2. keys[k].createdAt >= now - 2 * Rotation
    BY <1>1, <2>1
  <2>3. Is(keys'[k], use) /\ keys'[k].createdAt = keys[k].createdAt
    BY <1>3, <2>1, <2>2
  <2> QED BY <2>1, <2>3 DEF HasSince
\* The signing key that covers e stays, or the one that stays is younger.
<1>7. ASSUME Covered(keys, now), NEW e \in Keys, Is(keys'[e], "enc")
      PROVE  HasSince(keys', "sig", keys'[e].createdAt - Rotation)
  <2>1. Is(keys[e], "enc") /\ keys'[e].createdAt = keys[e].createdAt
    BY <1>2, <1>7 DEF Is
  <2>2. PICK k \in Keys : Is(keys[k], "sig") /\ keys[k].createdAt >= keys[e].createdAt - Rotation
    BY <1>7, <2>1 DEF Covered, HasSince
  <2>3. CASE keys[k].createdAt >= now - 2 * Rotation
    BY <1>3, <2>1, <2>2, <2>3 DEF HasSince
  <2>4. CASE ~(keys[k].createdAt >= now - 2 * Rotation)
    <3>1. keys[s].createdAt >= keys[e].createdAt - Rotation
      BY <1>1, <1>4, <2>2, <2>4
    <3> QED BY <1>5, <2>1, <3>1 DEF HasSince
  <2> QED BY <2>3, <2>4
<1> QED BY <1>5, <1>6, <1>7 DEF Has, Covered

\* A new signing key; a new encryption key beside a signing key that is young enough.
LEMMA GrowthCovered ==
  ASSUME TypeOK, NEW use \in Uses, Generate(use), Covered(keys, now),
         use = "enc" => HasSince(keys, "sig", now - Rotation)
  PROVE  Covered(keys', now)
<1> SUFFICES ASSUME NEW e \in Keys, Is(keys'[e], "enc")
             PROVE  HasSince(keys', "sig", keys'[e].createdAt - Rotation)
  BY DEF Covered
<1>1. \A t : HasSince(keys, "sig", t) => HasSince(keys', "sig", t)
  BY GenerateGrows, GrowthKeeps
<1>2. CASE keys[e].active
  <2>1. keys'[e] = keys[e]
    BY <1>2, GenerateGrows DEF Grows
  <2> QED BY <1>1, <2>1 DEF Covered
<1>3. CASE ~keys[e].active
  <2>1. use = "enc" /\ keys'[e].createdAt = now
    BY <1>3, GenerateGrows DEF Is
  <2> QED BY <1>1, <2>1
<1> QED BY <1>2, <1>3

LEMMA SigningStep == TypeOK /\ SigningInv /\ [Next]_vars => SigningInv'
<1> SUFFICES ASSUME TypeOK, SigningInv, [Next]_vars, ~interrupted'
             PROVE  Fine(keys', now', phase', ensure', rotate')
  BY SigningIsFine
<1> USE PeriodsAssumption
<1>1. ~interrupted
  BY DEF Next, Start, Ensure, EnsureSig, LookForEnc, EnsureEnc, Rotate, RotateLookup,
         RotateGenerate, RotateRetire, RotateFail, Serve, CleanUp, Stop, Tick, vars
<1>2. Fine(keys, now, phase, ensure, rotate)
  BY <1>1, SigningIsFine
\* Without a signing key there is no encryption key either, and one is due.
<1>3. CASE Start
  <2>1. Covered(keys, now) /\ rotate' = AfterLookup /\ phase' = "starting" /\ UNCHANGED <<keys, now>>
    BY <1>2, <1>3 DEF Start, Fine
  <2>2. ensure' # "makeEnc"
    BY <1>3 DEF Start
  <2> QED BY <2>1, <2>2, AfterLookupFine DEF Fine, Starts, Covered
<1>4. CASE EnsureSig
  <2>1. Generate("sig") /\ phase = "starting" /\ ensure' = "lookForEnc" /\ UNCHANGED <<now, phase, rotate>>
    BY <1>4 DEF EnsureSig, TypeOK
  <2>2. /\ \A use : Has(keys, use) => Has(keys', use)
        /\ \A use, t : HasSince(keys, use, t) => HasSince(keys', use, t)
    BY <2>1, GenerateGrows, GrowthKeeps DEF Uses
  <2>3. Covered(keys, now) => Covered(keys', now)
    BY <2>1, GrowthCovered DEF Uses
  <2> QED BY <1>2, <2>1, <2>2, <2>3 DEF Fine, Starts, Covered
\* An active key that is young enough to put the rotation off is a signing key, when no
\* encryption key is found.
<1>5. CASE LookForEnc
  <2>1. /\ phase = "starting" /\ UNCHANGED <<keys, now, phase, rotate>>
        /\ ensure' = "makeEnc" => ActiveFor("enc") = {}
    BY <1>5 DEF LookForEnc, TypeOK
  <2>2. ActiveFor("enc") = {} => ~HasSince(keys, "enc", now - Rotation)
    BY DEF ActiveFor, Active, HasSince, Is
  <2> QED BY <1>2, <2>1, <2>2 DEF Fine, Starts, Covered
<1>6. CASE EnsureEnc
  <2>1. /\ Generate("enc") /\ phase = "starting" /\ ensure = "makeEnc" /\ ensure' = "idle"
        /\ UNCHANGED <<now, phase, rotate>>
    BY <1>6 DEF EnsureEnc, TypeOK
  <2>2. /\ \A use : Has(keys, use) => Has(keys', use)
        /\ \A use, t : HasSince(keys, use, t) => HasSince(keys', use, t)
    BY <2>1, GenerateGrows, GrowthKeeps DEF Uses
  <2>3. CASE rotate = "generate"
    BY <2>1, <2>3 DEF Fine
  <2>4. CASE rotate # "generate"
    <3>1. Covered(keys, now) /\ HasSince(keys, "sig", now - Rotation)
      BY <1>2, <2>1, <2>4 DEF Fine, Starts
    <3>2. Covered(keys', now)
      BY <2>1, <3>1, GrowthCovered DEF Uses
    <3> QED BY <1>2, <2>1, <2>2, <2>4, <3>2 DEF Fine, Starts, Covered
  <2> QED BY <2>3, <2>4
<1>7. CASE RotateLookup
  <2>1. /\ Covered(keys, now) /\ rotate' = AfterLookup /\ phase = "serving"
        /\ UNCHANGED <<keys, now, phase>>
    BY <1>2, <1>7 DEF RotateLookup, Fine
  <2> QED BY <1>2, <2>1, AfterLookupFine DEF Fine, Covered
\* The key that was due covers every other.
<1>8. CASE RotateGenerate
  <2>1. Generate("sig") /\ rotate' = "retire" /\ UNCHANGED <<now, phase, ensure>>
    BY <1>8 DEF RotateGenerate
  <2>2. Has(keys', "sig") /\ HasSince(keys', "sig", now)
    BY <2>1, GenerateGrows DEF Uses
  <2>3. \A k \in Keys : keys'[k].createdAt \in Int /\ keys'[k].createdAt <= now
    BY <2>1, GenerateTyped DEF Uses, KeyRow, NoKey, TypeOK
  <2>4. now \in Int
    BY DEF TypeOK
  <2>5. \A t \in Int : t <= now => HasSince(keys', "sig", t)
    BY <2>2, <2>3, <2>4 DEF HasSince
  <2>6. Covered(keys', now)
    BY <2>3, <2>4, <2>5 DEF Covered
  <2>7. HasSince(keys', "sig", now - Rotation) /\ HasSince(keys', "sig", now - 2 * Rotation)
    BY <2>4, <2>5
  <2> QED BY <2>1, <2>2, <2>6, <2>7 DEF Fine, Starts, Covered
<1>9. CASE RotateRetire
  <2>1. rotate = "retire" /\ rotate' = "idle" /\ UNCHANGED <<now, phase, ensure>>
    BY <1>9 DEF RotateRetire
  <2>2. Covered(keys, now) /\ HasSince(keys, "sig", now - 2 * Rotation)
    BY <1>2, <2>1 DEF Fine
  <2>3. /\ Has(keys', "sig") /\ Covered(keys', now)
        /\ \A use : HasSince(keys, use, now - Rotation) => HasSince(keys', use, now - Rotation)
    BY <1>9, <2>2, RetireKeeps
  <2> QED BY <1>2, <2>1, <2>3 DEF Fine, Starts, Covered
<1>10. CASE RotateFail
  BY <1>2, <1>10 DEF RotateFail, Fine, Covered
<1>11. CASE Serve
  BY <1>2, <1>11 DEF Serve, Fine, Starts, Covered
\* Only inactive keys are deleted.
<1>12. CASE CleanUp
  <2>1. \A k \in Keys : keys[k].active => keys'[k] = keys[k]
    BY <1>12 DEF CleanUp
  <2>2. \A k \in Keys : ~keys[k].active => ~keys'[k].active
    BY <1>12 DEF CleanUp, NoKey
  <2>3. /\ phase = "serving" /\ UNCHANGED <<now, phase, ensure, rotate>>
    BY <1>12 DEF CleanUp
  <2>4. /\ \A use : Has(keys, use) => Has(keys', use)
        /\ \A use, t : HasSince(keys, use, t) => HasSince(keys', use, t)
    BY <2>1 DEF Has, HasSince, Is
  <2>5. Covered(keys, now) => Covered(keys', now)
    BY <2>1, <2>2, <2>4 DEF Covered, Is
  <2> QED BY <1>2, <2>3, <2>4, <2>5 DEF Fine, Covered
<1>13. CASE Stop
  BY <1>1, <1>2, <1>13 DEF Stop, Fine, Covered
<1>14. CASE Tick
  BY <1>2, <1>14 DEF Tick, Fine, Covered
<1>15. CASE UNCHANGED vars
  BY <1>2, <1>15 DEF vars, Fine, Starts, Covered
<1> QED
  BY <1>3, <1>4, <1>5, <1>6, <1>7, <1>8, <1>9, <1>10, <1>11, <1>12, <1>13, <1>14, <1>15
  DEF Next, Ensure, Rotate

LEMMA SigningInvariant == Spec => [](TypeOK /\ SigningInv)
<1>1. Init => SigningInv
  <2> SUFFICES ASSUME Init PROVE Fine(keys, now, phase, ensure, rotate)
    BY SigningIsFine
  <2>1. \A k \in Keys : ~Is(keys[k], "enc")
    BY DEF Init, Is, NoKey
  <2> QED BY <2>1 DEF Init, Fine, Covered
<1>2. TypeOK /\ SigningInv /\ [Next]_vars => SigningInv'
  BY SigningStep
<1> QED BY <1>1, <1>2, TypeCorrect, PTL DEF Spec

\* SigningKeyAvailable: getActiveKey finds a signing key as long as a process serves,
\* whatever the periods are, as long as the grace period is twice the rotation period
\* (drizzle_key_manager.ts, ensureActiveKey and rotateKeys side by side in main.ts).
THEOREM SigningKeyCorrect == Spec => []SigningKeyAvailable
<1>1. SigningInv => SigningKeyAvailable
  BY DEF SigningInv, SigningKeyAvailable
<1> QED BY <1>1, SigningInvariant, PTL
=============================================================================
