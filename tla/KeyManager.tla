----------------------------- MODULE KeyManager -----------------------------
(***************************************************************************)
(* The server's keys (server_keys).  The newest active signing key signs   *)
(* ID tokens and DPoP nonces; every active key is published at /jwks and   *)
(* used to verify.  Two tasks write the table: ensureActiveKey, at the     *)
(* start of the process only, and rotateKeys, at the start and every       *)
(* midnight; at the start they run side by side.  rotateKeys makes a       *)
(* signing key when the newest active key, of EITHER use, is too old, and  *)
(* then retires all that are past the grace period.                        *)
(*                                                                         *)
(* Time is counted in fractions of a day.  The process may stop at any     *)
(* point, for any time.                                                    *)
(***************************************************************************)
EXTENDS Integers, FiniteSets

CONSTANTS
  Keys,      \* key ids that may be drawn
  Day,       \* units in a day
  Rotation,  \* SERVER_KEY_ROTATION_DAYS
  Grace,     \* SERVER_KEY_GRACE_PERIOD_DAYS
  Purge,     \* age at which the clean-up deletes an inactive key
  MaxClock   \* bound on the clock

\* 14 days are twice 7: SigningKeyAvailable needs no less.
ASSUME PeriodsAssumption ==
  /\ Day \in Nat \ {0} /\ MaxClock \in Nat
  /\ Rotation \in Nat /\ Grace \in Nat /\ Purge \in Nat
  /\ Grace >= 2 * Rotation

VARIABLES
  now,         \* the clock
  keys,        \* server_keys, by id
  phase,       \* of the process: "down", "starting" or "serving"
  ensure,      \* what ensureActiveKey does next
  rotate,      \* what rotateKeys does next
  checked,     \* when rotateKeys last ran, -1 before
  interrupted  \* history: the process has stopped in the middle of a start

vars == <<now, keys, phase, ensure, rotate, checked, interrupted>>

-----------------------------------------------------------------------------
Uses == {"sig", "enc"}
KeyRow == [use : Uses, createdAt : 0..MaxClock, active : BOOLEAN]
NoKey == [use |-> "none", createdAt |-> 0, active |-> FALSE]

Active == {k \in Keys : keys[k].active}
ActiveFor(use) == {k \in Active : keys[k].use = use}

\* The keys none of ks is newer than.
Newest(ks) == {k \in ks : \A j \in ks : keys[j].createdAt <= keys[k].createdAt}

Init ==
  /\ now = 0
  /\ keys = [k \in Keys |-> NoKey]
  /\ phase = "down"
  /\ ensure = "idle"
  /\ rotate = "idle"
  /\ checked = -1
  /\ interrupted = FALSE

-----------------------------------------------------------------------------
\* generateKeyPair inserts an active row.
Generate(use) ==
  \E k \in Keys :
    /\ keys[k] = NoKey
    /\ keys' = [keys EXCEPT ![k] = [use |-> use, createdAt |-> now, active |-> TRUE]]

\* Mutant: the newest key is given the whole grace period.
RotationDueByGrace == \A k \in Newest(Active) : now - keys[k].createdAt > Grace

\* There is no active key, or the newest, of whatever use, is older than the period.
RotationDue == \A k \in Newest(Active) : now - keys[k].createdAt > Rotation

AfterLookup == IF RotationDue THEN "generate" ELSE "retire"

-----------------------------------------------------------------------------
(* The start: main.ts calls both tasks before it waits, so each has made its first *)
(* query before either writes.                                                     *)

Start ==
  /\ phase = "down"
  /\ phase' = "starting"
  /\ ensure' = IF ActiveFor("sig") = {} THEN "makeSig" ELSE "lookForEnc"
  /\ rotate' = AfterLookup
  /\ checked' = now
  /\ UNCHANGED <<now, keys, interrupted>>

EnsureSig ==
  /\ ensure = "makeSig"
  /\ Generate("sig")
  /\ ensure' = "lookForEnc"
  /\ UNCHANGED <<now, phase, rotate, checked, interrupted>>

LookForEnc ==
  /\ ensure = "lookForEnc"
  /\ ensure' = IF ActiveFor("enc") = {} THEN "makeEnc" ELSE "idle"
  /\ UNCHANGED <<now, keys, phase, rotate, checked, interrupted>>

EnsureEnc ==
  /\ ensure = "makeEnc"
  /\ Generate("enc")
  /\ ensure' = "idle"
  /\ UNCHANGED <<now, phase, rotate, checked, interrupted>>

\* Mutant: nobody waits for the two tasks.
ServeAtOnce ==
  /\ phase = "starting"
  /\ phase' = "serving"
  /\ UNCHANGED <<now, keys, ensure, rotate, checked, interrupted>>

\* The servers start when both tasks are done.
Serve ==
  /\ phase = "starting"
  /\ ensure = "idle" /\ rotate = "idle"
  /\ phase' = "serving"
  /\ UNCHANGED <<now, keys, ensure, rotate, checked, interrupted>>

-----------------------------------------------------------------------------
(* rotateKeys *)

\* The job of midnight; it is made once the process serves.
RotateLookup ==
  /\ phase = "serving"
  /\ rotate = "idle"
  /\ now % Day = 0
  /\ checked # now
  /\ rotate' = AfterLookup
  /\ checked' = now
  /\ UNCHANGED <<now, keys, phase, ensure, interrupted>>

RotateGenerate ==
  /\ rotate = "generate"
  /\ Generate("sig")
  /\ rotate' = "retire"
  /\ UNCHANGED <<now, phase, ensure, checked, interrupted>>

\* Every active key past the grace period, counted from its creation.
RotateRetire ==
  /\ rotate = "retire"
  /\ keys' = [k \in Keys |-> IF k \in Active /\ keys[k].createdAt < now - Grace
                               THEN [keys[k] EXCEPT !.active = FALSE] ELSE keys[k]]
  /\ rotate' = "idle"
  /\ UNCHANGED <<now, phase, ensure, checked, interrupted>>

\* The job fails: nothing more of it happens before the next midnight.
RotateFail ==
  /\ phase = "serving"
  /\ rotate # "idle"
  /\ rotate' = "idle"
  /\ UNCHANGED <<now, keys, phase, ensure, checked, interrupted>>

-----------------------------------------------------------------------------
\* cleanupExpiredRecords, the server_keys part.
CleanUp ==
  /\ phase = "serving"
  /\ keys' = [k \in Keys |-> IF ~keys[k].active /\ keys[k].createdAt < now - Purge
                               THEN NoKey ELSE keys[k]]
  /\ keys' # keys
  /\ UNCHANGED <<now, phase, ensure, rotate, checked, interrupted>>

\* The process stops, on a signal, a failure of its start, or a crash.
Stop ==
  /\ phase # "down"
  /\ phase' = "down"
  /\ ensure' = "idle"
  /\ rotate' = "idle"
  /\ interrupted' = (interrupted \/ phase = "starting")
  /\ UNCHANGED <<now, keys, checked>>

\* The tasks take no time worth counting, and no midnight of a running process is missed.
Tick ==
  /\ now < MaxClock
  /\ phase # "starting" /\ rotate = "idle"
  /\ phase = "serving" /\ now % Day = 0 => checked = now
  /\ now' = now + 1
  /\ UNCHANGED <<keys, phase, ensure, rotate, checked, interrupted>>

Ensure == EnsureSig \/ LookForEnc \/ EnsureEnc
Rotate == RotateLookup \/ RotateGenerate \/ RotateRetire \/ RotateFail

Next == Start \/ Ensure \/ Rotate \/ Serve \/ CleanUp \/ Stop \/ Tick

Spec == Init /\ [][Next]_vars

-----------------------------------------------------------------------------
\* The types, with what each phase rules out.
TypeOK ==
  /\ now \in 0..MaxClock
  /\ keys \in [Keys -> KeyRow \cup {NoKey}]
  /\ phase \in {"down", "starting", "serving"}
  /\ ensure \in {"idle", "makeSig", "lookForEnc", "makeEnc"}
  /\ rotate \in {"idle", "generate", "retire"}
  /\ checked \in -1..MaxClock
  /\ interrupted \in BOOLEAN
  /\ phase # "starting" => ensure = "idle"
  /\ phase = "down" => rotate = "idle"
  /\ \A k \in Keys : keys[k].createdAt <= now

\* getActiveKey always finds a signing key once the server serves, however long the
\* process has been up or down: an encryption key made at a start postpones the
\* rotation, but never past the grace period of the signing key, and a replacement
\* comes before the retirement.  (A start cut off between the two is the exception.)
SigningKeyAvailable == phase = "serving" /\ ~interrupted => ActiveFor("sig") # {}

-----------------------------------------------------------------------------
(* The inductive invariant behind SigningKeyAvailable *)

Since(use, t) == \E k \in ActiveFor(use) : keys[k].createdAt >= t

\* Unless a start was cut off: an encryption key that postpones the rotation is at most
\* a period younger than some signing key, or that key is about to be made; so what
\* rotateKeys retires after a look at the newest key leaves a signing key.
SigningInv ==
  ~interrupted =>
    /\ \A e \in ActiveFor("enc") :
         Since("sig", keys[e].createdAt - Rotation) \/ (phase = "starting" /\ rotate = "generate")
    /\ rotate = "retire" => Since("sig", now - 2 * Rotation)
    /\ phase = "serving" => ActiveFor("sig") # {}
    /\ phase = "starting" /\ rotate # "generate" =>
         /\ ActiveFor("sig") # {}
         /\ Since("sig", now - Rotation) \/ Since("enc", now - Rotation)
         /\ ensure = "makeEnc" => Since("sig", now - Rotation)
=============================================================================
