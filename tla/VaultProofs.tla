----------------------------- MODULE VaultProofs -----------------------------
(***************************************************************************)
(* Proofs about module Vault, for any key ids, keys, profiles, passwords   *)
(* and bounds, with writes failing or not, power failing in any places and *)
(* the gate holding or not. Base holds of every behaviour. The code itself *)
(* can lose a key or a password, or leave one in plaintext, in a few       *)
(* places: KeyLoss, PwLoss and LeftPlain name those steps, and the         *)
(* theorems say that nothing else does.                                    *)
(***************************************************************************)
EXTENDS Vault, FiniteSetTheorems, TLAPS

USE ConstAssumption DEF ConstAssumption
USE DEF keyFiles, credFiles, call, ghosts

Base == TypeOK /\ Progress /\ StoreFits

-----------------------------------------------------------------------------
(* Loading and saving the profile list.                                    *)

LEMMA ContentType == ASSUME CredTypes PROVE Content \in [Names -> Pws \union {Empty}]
  BY DEF CredTypes, Content, Bundles, NoBundle, NoPws

LEMMA HydratedType == ASSUME CredTypes, NEW ok PROVE Hydrated(ok) \in Rows
  BY ContentType DEF CredTypes, Hydrated, Rows

LEMMA LoadedType ==
  ASSUME CredTypes, NEW ok
  PROVE  Loaded(ok) \in [ok : BOOLEAN, pw : [Names -> Pws \union {Empty}]]
<1>1. Loaded(ok) \in {cache, [ok |-> TRUE, pw |-> Content]}
  BY Zenon DEF Loaded
<1>2. [ok |-> TRUE, pw |-> Content] \in [ok : BOOLEAN, pw : [Names -> Pws \union {Empty}]]
  BY ContentType
<1>3. cache \in [ok : BOOLEAN, pw : [Names -> Pws \union {Empty}]]
  BY DEF CredTypes
<1>. QED
  BY <1>1, <1>2, <1>3

LEMMA SaveBase ==
  ASSUME NEW list \in Rows, Save(list), Base
  PROVE  /\ tmp' \in Rows /\ todo' \subseteq Names
         /\ pc' \in {"divert", "write"}
         /\ pc' = "divert" => mk # 0 /\ todo' \subseteq {n \in Names : tmp'[n] \in Pws}
         /\ job' = job /\ cur' = cur /\ was' = was
  BY DEF Save

\* What the three edits have in common.
Edited(old) ==
  /\ \E list \in Rows : Save(list)
  /\ asked' \in [row : Names \union {None}, pw : Pws \union {Empty}]
  /\ want' \in [Names -> SUBSET (Pws \union {Empty})]

LEMMA PutEdits == ASSUME CredTypes, NEW old \in Rows, PutRow(old) PROVE Edited(old)
<1>1. PICK n \in Names, p \in Pws \union {Empty} :
        /\ Save([old EXCEPT ![n] = p])
        /\ asked' = [row |-> n, pw |-> p]
        /\ want' = [want EXCEPT ![n] = IF ini[n] = Absent THEN {p}
                                       ELSE IF @ = {} THEN @ ELSE @ \union {p}]
  BY DEF PutRow
<1>2. [old EXCEPT ![n] = p] \in Rows
  BY DEF Rows
<1>3. asked' \in [row : Names \union {None}, pw : Pws \union {Empty}]
  BY <1>1
<1>4. want' \in [Names -> SUBSET (Pws \union {Empty})]
  BY <1>1 DEF CredTypes
<1>. QED
  BY <1>1, <1>2, <1>3, <1>4 DEF Edited

LEMMA RenameEdits == ASSUME CredTypes, NEW old \in Rows, RenameRow(old) PROVE Edited(old)
<1>1. PICK n \in Names, m \in Names :
        /\ Save([old EXCEPT ![n] = Absent, ![m] = old[n]])
        /\ want' = [want EXCEPT ![m] = want[n]]
        /\ UNCHANGED asked
  BY DEF RenameRow
<1>2. [old EXCEPT ![n] = Absent, ![m] = old[n]] \in Rows
  BY DEF Rows
<1>. QED
  BY <1>1, <1>2 DEF Edited, CredTypes

LEMMA DropEdits == ASSUME CredTypes, NEW old \in Rows, DropRow(old) PROVE Edited(old)
<1>1. PICK n \in Names :
        /\ Save([old EXCEPT ![n] = Absent])
        /\ want' = [want EXCEPT ![n] = {}]
        /\ UNCHANGED asked
  BY DEF DropRow
<1>2. [old EXCEPT ![n] = Absent] \in Rows
  BY DEF Rows
<1>. QED
  BY <1>1, <1>2 DEF Edited, CredTypes

LEMMA EditProfileBase == ASSUME Base, EditProfile PROVE Base'
<1>. USE DEF Base, TypeOK
<1>1. PICK ok \in Loads, list \in Rows :
        /\ Save(list) /\ cache' \in {cache, Loaded(ok)}
        /\ asked' \in [row : Names \union {None}, pw : Pws \union {Empty}]
        /\ want' \in [Names -> SUBSET (Pws \union {Empty})]
  <2>1. PICK ok \in Loads :
          /\ cache' = IF Marked THEN Loaded(ok) ELSE cache
          /\ PutRow(Hydrated(ok)) \/ RenameRow(Hydrated(ok)) \/ DropRow(Hydrated(ok))
    BY DEF EditProfile
  <2>2. Edited(Hydrated(ok))
    BY <2>1, HydratedType, PutEdits, RenameEdits, DropEdits
  <2>. QED
    BY <2>1, <2>2 DEF Edited
<1>2. pc = "idle" /\ UNCHANGED <<keyFiles, credFiles, mk, stores, good>>
  BY DEF EditProfile
<1>3. cache' \in [ok : BOOLEAN, pw : [Names -> Pws \union {Empty}]]
  BY <1>1, LoadedType DEF CredTypes
<1>4. KeyTypes'
  BY <1>2 DEF KeyTypes
<1>5. CredTypes'
  BY <1>1, <1>2, <1>3, SaveBase DEF CredTypes
<1>6. CallTypes' /\ pc' \in {"divert", "write"}
  BY <1>1, <1>2, SaveBase DEF CallTypes, Steps
<1>7. Progress'
  BY <1>1, <1>2, <1>6, SaveBase DEF Progress, InHand, CallTypes
<1>8. StoreFits'
  BY <1>1, <1>2, <1>6, ContentType DEF StoreFits, Loaded, EditProfile, Marked
<1>. QED
  BY <1>4, <1>5, <1>6, <1>7, <1>8

LEMMA AdoptSecretsBase == ASSUME Base, AdoptSecrets PROVE Base'
<1>. USE DEF Base, TypeOK
<1>1. pc = "adopt" /\ mk # 0 /\ todo = {} /\ cur = None /\ job = "adopt"
  BY DEF AdoptSecrets, Progress, InHand
<1>2. UNCHANGED <<keyFiles, credFiles, mk, stores, good>>
  BY DEF AdoptSecrets
<1>3. CASE \E n \in Names : ini[n] \in Pws
  <2>1. PICK ok \in Loads :
          /\ Save(Hydrated(ok)) /\ cache' \in {cache, Loaded(ok)}
          /\ UNCHANGED <<asked, want>>
    BY <1>3 DEF AdoptSecrets
  <2>2. cache' \in [ok : BOOLEAN, pw : [Names -> Pws \union {Empty}]]
    BY <2>1, LoadedType DEF CredTypes
  <2>3. KeyTypes' /\ CredTypes'
    BY <1>2, <2>1, <2>2, HydratedType, SaveBase DEF KeyTypes, CredTypes
  <2>4. CallTypes' /\ pc' \in {"divert", "write"}
    BY <1>1, <2>1, HydratedType, SaveBase DEF CallTypes, Steps
  <2>5. Progress' /\ StoreFits'
    BY <1>1, <1>2, <2>1, <2>4, HydratedType, SaveBase DEF Progress, InHand, StoreFits
  <2>. QED
    BY <2>3, <2>4, <2>5
<1>4. CASE ~ \E n \in Names : ini[n] \in Pws
  <2>1. Done /\ UNCHANGED <<cache, want>>
    BY <1>4 DEF AdoptSecrets
  <2>. QED
    BY <1>1, <1>2, <2>1
    DEF Done, KeyTypes, CredTypes, CallTypes, Steps, Progress, InHand, StoreFits,
    NoRows, NoEdit, Rows
<1>. QED
  BY <1>3, <1>4

-----------------------------------------------------------------------------
(* Each action keeps Base.                                                 *)

LEMMA DivertBase == ASSUME Base, Divert PROVE Base'
<1>. USE DEF Base, TypeOK, Divert
<1>1. KeyTypes'
  BY DEF KeyTypes, CallTypes, Progress, Content, Loads, Writes, Plain, Wrapped, Wraps,
     NoWrap
<1>2. CredTypes'
  BY DEF KeyTypes, CredTypes, CallTypes, Progress, Content, Loads, Writes, Bundles,
     NoBundle, NoPws, Rows
<1>3. CallTypes' /\ (pc' \notin {"divert", "write"} => tmp' = NoRows)
  BY DEF CallTypes, Progress, Steps, Content, Loads, Writes, Plain, Wrapped
<1>4. Progress'
  BY DEF KeyTypes, CallTypes, Progress, InHand, Content, Loads, Writes, Plain, Wrapped
<1>5. StoreFits'
  BY DEF KeyTypes, Progress, StoreFits, Content, Loads, Writes, Cold
<1>. QED
  BY <1>1, <1>2, <1>3, <1>4, <1>5

LEMMA PruneBase == ASSUME Base, Prune PROVE Base'
<1>. USE DEF Base, TypeOK, Prune
<1>1. KeyTypes'
  BY DEF KeyTypes, CallTypes, Progress, Content, Loads, NoBundle, NoPws, Writes, Plain,
     Wrapped, Wraps, NoWrap
<1>2. CredTypes'
  BY DEF KeyTypes, CredTypes, CallTypes, Progress, Content, Loads, NoBundle, NoPws,
     Writes, Bundles, Rows
<1>3. CallTypes' /\ (pc' \notin {"divert", "write"} => tmp' = NoRows)
  BY DEF CallTypes, Progress, Steps, Content, Loads, NoBundle, NoPws, Writes, Plain,
     Wrapped
<1>4. Progress'
  BY DEF KeyTypes, CallTypes, Progress, InHand, Content, Loads, NoBundle, NoPws,
     Writes, Plain, Wrapped
<1>5. StoreFits'
  BY DEF KeyTypes, Progress, StoreFits, Content, Loads, NoBundle, NoPws, Writes, Cold
<1>. QED
  BY <1>1, <1>2, <1>3, <1>4, <1>5

LEMMA WriteIniBase == ASSUME Base, WriteIni PROVE Base'
<1>. USE DEF Base, TypeOK, WriteIni
<1>1. KeyTypes'
  BY DEF KeyTypes, CallTypes, Progress, Done, NoEdit, NoRows, Plain, Wrapped, Wraps,
     NoWrap
<1>2. CredTypes'
  BY DEF KeyTypes, CredTypes, CallTypes, Progress, Done, NoEdit, NoRows, Bundles,
     NoBundle, NoPws, Rows
<1>3. CallTypes' /\ (pc' \notin {"divert", "write"} => tmp' = NoRows)
  BY DEF CallTypes, Progress, Steps, Done, NoEdit, NoRows, Plain, Wrapped
<1>4. Progress'
  BY DEF KeyTypes, CallTypes, Progress, InHand, Done, NoEdit, NoRows, Plain, Wrapped
<1>5. StoreFits'
  BY DEF KeyTypes, Progress, StoreFits, Done, NoEdit, NoRows, Cold
<1>. QED
  BY <1>1, <1>2, <1>3, <1>4, <1>5

LEMMA SetKeyBase == ASSUME Base, SetKey PROVE Base'
<1>. USE DEF Base, TypeOK, SetKey
<1>1. KeyTypes'
  BY DEF KeyTypes, CallTypes, Progress, Gate, Plain, Wrapped, Wraps, NoWrap
<1>2. CredTypes'
  BY DEF KeyTypes, CredTypes, CallTypes, Progress, Gate, Bundles, NoBundle, NoPws, Rows
<1>3. CallTypes' /\ (pc' \notin {"divert", "write"} => tmp' = NoRows)
  BY DEF CallTypes, Progress, Steps, Gate, Plain, Wrapped
<1>4. Progress'
  BY DEF KeyTypes, CallTypes, Progress, InHand, Gate, Plain, Wrapped
<1>5. StoreFits'
  BY DEF KeyTypes, Progress, StoreFits, Gate, Cold
<1>. QED
  BY <1>1, <1>2, <1>3, <1>4, <1>5

LEMMA SetKeyDoneBase == ASSUME Base, SetKeyDone PROVE Base'
<1>. USE DEF Base, TypeOK, SetKeyDone
<1>1. KeyTypes'
  BY DEF KeyTypes, CallTypes, Progress, Done, NoEdit, NoRows, Plain, Wrapped, Wraps,
     NoWrap
<1>2. CredTypes'
  BY DEF KeyTypes, CredTypes, CallTypes, Progress, Done, NoEdit, NoRows, Bundles,
     NoBundle, NoPws, Rows
<1>3. CallTypes' /\ (pc' \notin {"divert", "write"} => tmp' = NoRows)
  BY DEF CallTypes, Progress, Steps, Done, NoEdit, NoRows, Plain, Wrapped
<1>4. Progress'
  BY DEF KeyTypes, CallTypes, Progress, InHand, Done, NoEdit, NoRows, Plain, Wrapped
<1>5. StoreFits'
  BY DEF KeyTypes, Progress, StoreFits, Done, NoEdit, NoRows, Cold
<1>. QED
  BY <1>1, <1>2, <1>3, <1>4, <1>5

LEMMA DeleteKeyBase == ASSUME Base, DeleteKey PROVE Base'
<1>. USE DEF Base, TypeOK, DeleteKey
<1>1. KeyTypes'
  BY DEF KeyTypes, CallTypes, Progress, Plain, Wrapped, Wraps, NoWrap
<1>2. CredTypes'
  BY DEF KeyTypes, CredTypes, CallTypes, Progress, Bundles, NoBundle, NoPws, Rows
<1>3. CallTypes' /\ (pc' \notin {"divert", "write"} => tmp' = NoRows)
  BY DEF CallTypes, Progress, Steps, Plain, Wrapped
<1>4. Progress'
  BY DEF KeyTypes, CallTypes, Progress, InHand, Plain, Wrapped
<1>5. StoreFits'
  BY DEF KeyTypes, Progress, StoreFits, Cold
<1>. QED
  BY <1>1, <1>2, <1>3, <1>4, <1>5

LEMMA ShredZeroBase == ASSUME Base, ShredZero PROVE Base'
<1>. USE DEF Base, TypeOK, ShredZero
<1>1. KeyTypes'
  BY DEF KeyTypes, CallTypes, Progress, Plain, Wrapped, Wraps, NoWrap
<1>2. CredTypes'
  BY DEF KeyTypes, CredTypes, CallTypes, Progress, Bundles, NoBundle, NoPws, Rows
<1>3. CallTypes' /\ (pc' \notin {"divert", "write"} => tmp' = NoRows)
  BY DEF CallTypes, Progress, Steps, Plain, Wrapped
<1>4. Progress'
  BY DEF KeyTypes, CallTypes, Progress, InHand, Plain, Wrapped
<1>5. StoreFits'
  BY DEF KeyTypes, Progress, StoreFits, Cold
<1>. QED
  BY <1>1, <1>2, <1>3, <1>4, <1>5

LEMMA ShredRemoveBase == ASSUME Base, ShredRemove PROVE Base'
<1>. USE DEF Base, TypeOK, ShredRemove
<1>1. KeyTypes'
  BY DEF KeyTypes, CallTypes, Progress, Plain, Wrapped, Wraps, NoWrap
<1>2. CredTypes'
  BY DEF KeyTypes, CredTypes, CallTypes, Progress, Bundles, NoBundle, NoPws, Rows
<1>3. CallTypes' /\ (pc' \notin {"divert", "write"} => tmp' = NoRows)
  BY DEF CallTypes, Progress, Steps, Plain, Wrapped
<1>4. Progress'
  BY DEF KeyTypes, CallTypes, Progress, InHand, Plain, Wrapped
<1>5. StoreFits'
  BY DEF KeyTypes, Progress, StoreFits, Cold
<1>. QED
  BY <1>1, <1>2, <1>3, <1>4, <1>5

LEMMA DeleteWrappedBase == ASSUME Base, DeleteWrapped PROVE Base'
<1>. USE DEF Base, TypeOK, DeleteWrapped
<1>1. KeyTypes'
  BY DEF KeyTypes, CallTypes, Progress, Done, NoEdit, NoRows, NoWrap, Plain, Wrapped,
     Wraps
<1>2. CredTypes'
  BY DEF KeyTypes, CredTypes, CallTypes, Progress, Done, NoEdit, NoRows, NoWrap,
     Bundles, NoBundle, NoPws, Rows
<1>3. CallTypes' /\ (pc' \notin {"divert", "write"} => tmp' = NoRows)
  BY DEF CallTypes, Progress, Steps, Done, NoEdit, NoRows, NoWrap, Plain, Wrapped
<1>4. Progress'
  BY DEF KeyTypes, CallTypes, Progress, InHand, Done, NoEdit, NoRows, NoWrap, Plain,
     Wrapped
<1>5. StoreFits'
  BY DEF KeyTypes, Progress, StoreFits, Done, NoEdit, NoRows, NoWrap, Cold
<1>. QED
  BY <1>1, <1>2, <1>3, <1>4, <1>5

LEMMA CreateBase == ASSUME Base, Create PROVE Base'
<1>. USE DEF Base, TypeOK, Create
<1>1. KeyTypes'
  BY DEF KeyTypes, CallTypes, Progress, Plain, Scan, StartAdopt, Wrapped, Wraps, NoWrap
<1>2. CredTypes'
  BY DEF KeyTypes, CredTypes, CallTypes, Progress, Plain, Scan, StartAdopt, Bundles,
     NoBundle, NoPws, Rows
<1>3. CallTypes' /\ (pc' \notin {"divert", "write"} => tmp' = NoRows)
  BY DEF CallTypes, Progress, Steps, Plain, Scan, StartAdopt, Wrapped
<1>4. Progress'
  BY DEF KeyTypes, CallTypes, Progress, InHand, Plain, Scan, StartAdopt, Wrapped
<1>5. StoreFits'
  BY DEF KeyTypes, Progress, StoreFits, Plain, Scan, StartAdopt, Cold
<1>. QED
  BY <1>1, <1>2, <1>3, <1>4, <1>5

LEMMA UnlockBase == ASSUME Base, Unlock PROVE Base'
<1>. USE DEF Base, TypeOK, Unlock
<1>1. KeyTypes'
  BY DEF KeyTypes, CallTypes, Progress, Plain, Scan, StartAdopt, Wrapped, Wraps, NoWrap
<1>2. CredTypes'
  BY DEF KeyTypes, CredTypes, CallTypes, Progress, Plain, Scan, StartAdopt, Bundles,
     NoBundle, NoPws, Rows
<1>3. CallTypes' /\ (pc' \notin {"divert", "write"} => tmp' = NoRows)
  BY DEF CallTypes, Progress, Steps, Plain, Scan, StartAdopt, Wrapped
<1>4. Progress'
  BY DEF KeyTypes, CallTypes, Progress, InHand, Plain, Scan, StartAdopt, Wrapped
<1>5. StoreFits'
  BY DEF KeyTypes, Progress, StoreFits, Plain, Scan, StartAdopt, Cold
<1>. QED
  BY <1>1, <1>2, <1>3, <1>4, <1>5

LEMMA AdoptKeyBase == ASSUME Base, AdoptKey PROVE Base'
<1>. USE DEF Base, TypeOK, AdoptKey
<1>1. KeyTypes'
  BY DEF KeyTypes, CallTypes, Progress, Plain, Wrapped, Wraps, NoWrap
<1>2. CredTypes'
  BY DEF KeyTypes, CredTypes, CallTypes, Progress, Bundles, NoBundle, NoPws, Rows
<1>3. CallTypes' /\ (pc' \notin {"divert", "write"} => tmp' = NoRows)
  BY DEF CallTypes, Progress, Steps, Plain, Wrapped
<1>4. Progress'
  BY DEF KeyTypes, CallTypes, Progress, InHand, Plain, Wrapped
<1>5. StoreFits'
  BY DEF KeyTypes, Progress, StoreFits, Cold
<1>. QED
  BY <1>1, <1>2, <1>3, <1>4, <1>5

LEMMA LockBase == ASSUME Base, Lock PROVE Base'
<1>. USE DEF Base, TypeOK, Lock
<1>1. KeyTypes'
  BY DEF KeyTypes, CallTypes, Progress, Cold, NoPws, Plain, Wrapped, Wraps, NoWrap
<1>2. CredTypes'
  BY DEF KeyTypes, CredTypes, CallTypes, Progress, Cold, NoPws, Bundles, NoBundle, Rows
<1>3. CallTypes' /\ (pc' \notin {"divert", "write"} => tmp' = NoRows)
  BY DEF CallTypes, Progress, Steps, Cold, NoPws, Plain, Wrapped
<1>4. Progress'
  BY DEF KeyTypes, CallTypes, Progress, InHand, Cold, NoPws, Plain, Wrapped
<1>5. StoreFits'
  BY DEF KeyTypes, Progress, StoreFits, Cold, NoPws
<1>. QED
  BY <1>1, <1>2, <1>3, <1>4, <1>5

LEMMA ChangePinBase == ASSUME Base, ChangePin PROVE Base'
<1>. USE DEF Base, TypeOK, ChangePin
<1>1. KeyTypes'
  BY DEF KeyTypes, CallTypes, Progress, Plain, Wrapped, Wraps, NoWrap
<1>2. CredTypes'
  BY DEF KeyTypes, CredTypes, CallTypes, Progress, Bundles, NoBundle, NoPws, Rows
<1>3. CallTypes' /\ (pc' \notin {"divert", "write"} => tmp' = NoRows)
  BY DEF CallTypes, Progress, Steps, Plain, Wrapped
<1>4. Progress'
  BY DEF KeyTypes, CallTypes, Progress, InHand, Plain, Wrapped
<1>5. StoreFits'
  BY DEF KeyTypes, Progress, StoreFits, Cold
<1>. QED
  BY <1>1, <1>2, <1>3, <1>4, <1>5

LEMMA RemoveStartBase == ASSUME Base, RemoveStart PROVE Base'
<1>. USE DEF Base, TypeOK, RemoveStart
<1>1. KeyTypes'
  BY DEF KeyTypes, CallTypes, Progress, Gate, Plain, Wrapped, Wraps, NoWrap
<1>2. CredTypes'
  BY DEF KeyTypes, CredTypes, CallTypes, Progress, Gate, Bundles, NoBundle, NoPws, Rows
<1>3. CallTypes' /\ (pc' \notin {"divert", "write"} => tmp' = NoRows)
  BY DEF CallTypes, Progress, Steps, Gate, Plain, Wrapped
<1>4. Progress'
  BY DEF KeyTypes, CallTypes, Progress, InHand, Gate, Plain, Wrapped
<1>5. StoreFits'
  BY DEF KeyTypes, Progress, StoreFits, Gate, Cold
<1>. QED
  BY <1>1, <1>2, <1>3, <1>4, <1>5

LEMMA RestoreBase == ASSUME Base, Restore PROVE Base'
<1>. USE DEF Base, TypeOK, Restore
<1>1. KeyTypes'
  BY DEF KeyTypes, CallTypes, Progress, Content, Hydrated, Loaded, Loads, NoPws,
     Writes, Plain, Wrapped, Wraps, NoWrap
<1>2. CredTypes'
  BY DEF KeyTypes, CredTypes, CallTypes, Progress, Content, Hydrated, Loaded, Loads,
     NoPws, Writes, Bundles, NoBundle, Rows
<1>3. CallTypes' /\ (pc' \notin {"divert", "write"} => tmp' = NoRows)
  BY DEF CallTypes, Progress, Steps, Content, Hydrated, Loaded, Loads, NoPws, Writes,
     Plain, Wrapped
<1>4. Progress'
  BY DEF KeyTypes, CallTypes, Progress, InHand, Content, Hydrated, Loaded, Loads,
     NoPws, Writes, Plain, Wrapped
<1>5. StoreFits'
  BY DEF KeyTypes, Progress, StoreFits, Content, Hydrated, Loaded, Loads, NoPws,
     Writes, Cold
<1>. QED
  BY <1>1, <1>2, <1>3, <1>4, <1>5

LEMMA DropBundleBase == ASSUME Base, DropBundle PROVE Base'
<1>. USE DEF Base, TypeOK, DropBundle
<1>1. KeyTypes'
  BY DEF KeyTypes, CallTypes, Progress, Cold, NoBundle, NoPws, Scan, Wrapped, Plain,
     Wraps, NoWrap
<1>2. CredTypes'
  BY DEF KeyTypes, CredTypes, CallTypes, Progress, Cold, NoBundle, NoPws, Scan,
     Wrapped, Bundles, Rows
<1>3. CallTypes' /\ (pc' \notin {"divert", "write"} => tmp' = NoRows)
  BY DEF CallTypes, Progress, Steps, Cold, NoBundle, NoPws, Scan, Wrapped, Plain
<1>4. Progress'
  BY DEF KeyTypes, CallTypes, Progress, InHand, Cold, NoBundle, NoPws, Scan, Wrapped,
     Plain
<1>5. StoreFits'
  BY DEF KeyTypes, Progress, StoreFits, Cold, NoBundle, NoPws, Scan, Wrapped
<1>. QED
  BY <1>1, <1>2, <1>3, <1>4, <1>5

LEMMA EmitBase == ASSUME Base, Emit PROVE Base'
<1>. USE DEF Base, TypeOK, Emit
<1>1. KeyTypes'
  BY DEF KeyTypes, CallTypes, Progress, Plain, Wrapped, Wraps, NoWrap
<1>2. CredTypes'
  BY DEF KeyTypes, CredTypes, CallTypes, Progress, Bundles, NoBundle, NoPws, Rows
<1>3. CallTypes' /\ (pc' \notin {"divert", "write"} => tmp' = NoRows)
  BY DEF CallTypes, Progress, Steps, Plain, Wrapped
<1>4. Progress'
  BY DEF KeyTypes, CallTypes, Progress, InHand, Plain, Wrapped
<1>5. StoreFits'
  BY DEF KeyTypes, Progress, StoreFits, Cold
<1>. QED
  BY <1>1, <1>2, <1>3, <1>4, <1>5

LEMMA EmittedBase == ASSUME Base, Emitted PROVE Base'
<1>. USE DEF Base, TypeOK, Emitted
<1>1. KeyTypes'
  BY DEF KeyTypes, CallTypes, Progress, NoWrap, Plain, Wrapped, Wraps
<1>2. CredTypes'
  BY DEF KeyTypes, CredTypes, CallTypes, Progress, NoWrap, Bundles, NoBundle, NoPws,
     Rows
<1>3. CallTypes' /\ (pc' \notin {"divert", "write"} => tmp' = NoRows)
  BY DEF CallTypes, Progress, Steps, NoWrap, Plain, Wrapped
<1>4. Progress'
  BY DEF KeyTypes, CallTypes, Progress, InHand, NoWrap, Plain, Wrapped
<1>5. StoreFits'
  BY DEF KeyTypes, Progress, StoreFits, NoWrap, Cold
<1>. QED
  BY <1>1, <1>2, <1>3, <1>4, <1>5

LEMMA EmitFailsBase == ASSUME Base, EmitFails PROVE Base'
<1>. USE DEF Base, TypeOK, EmitFails
<1>1. KeyTypes'
  BY DEF KeyTypes, CallTypes, Progress, Cold, Done, NoEdit, NoPws, NoRows, Plain,
     Wrapped, Wraps, NoWrap
<1>2. CredTypes'
  BY DEF KeyTypes, CredTypes, CallTypes, Progress, Cold, Done, NoEdit, NoPws, NoRows,
     Bundles, NoBundle, Rows
<1>3. CallTypes' /\ (pc' \notin {"divert", "write"} => tmp' = NoRows)
  BY DEF CallTypes, Progress, Steps, Cold, Done, NoEdit, NoPws, NoRows, Plain, Wrapped
<1>4. Progress'
  BY DEF KeyTypes, CallTypes, Progress, InHand, Cold, Done, NoEdit, NoPws, NoRows,
     Plain, Wrapped
<1>5. StoreFits'
  BY DEF KeyTypes, Progress, StoreFits, Cold, Done, NoEdit, NoPws, NoRows
<1>. QED
  BY <1>1, <1>2, <1>3, <1>4, <1>5

LEMMA DropHeaderBase == ASSUME Base, DropHeader PROVE Base'
<1>. USE DEF Base, TypeOK, DropHeader
<1>1. KeyTypes'
  BY DEF KeyTypes, CallTypes, Progress, Cold, Done, NoEdit, NoPws, NoRows, Plain,
     Wrapped, Wraps, NoWrap
<1>2. CredTypes'
  BY DEF KeyTypes, CredTypes, CallTypes, Progress, Cold, Done, NoEdit, NoPws, NoRows,
     Bundles, NoBundle, Rows
<1>3. CallTypes' /\ (pc' \notin {"divert", "write"} => tmp' = NoRows)
  BY DEF CallTypes, Progress, Steps, Cold, Done, NoEdit, NoPws, NoRows, Plain, Wrapped
<1>4. Progress'
  BY DEF KeyTypes, CallTypes, Progress, InHand, Cold, Done, NoEdit, NoPws, NoRows,
     Plain, Wrapped
<1>5. StoreFits'
  BY DEF KeyTypes, Progress, StoreFits, Cold, Done, NoEdit, NoPws, NoRows
<1>. QED
  BY <1>1, <1>2, <1>3, <1>4, <1>5

LEMMA FactoryResetBase == ASSUME Base, FactoryReset PROVE Base'
<1>. USE DEF Base, TypeOK, FactoryReset
<1>1. KeyTypes'
  BY DEF KeyTypes, CallTypes, Progress, NoRows, Plain, Wrapped, Wraps, NoWrap
<1>2. CredTypes'
  BY DEF KeyTypes, CredTypes, CallTypes, Progress, NoRows, Bundles, NoBundle, NoPws,
     Rows
<1>3. CallTypes' /\ (pc' \notin {"divert", "write"} => tmp' = NoRows)
  BY DEF CallTypes, Progress, Steps, NoRows, Plain, Wrapped
<1>4. Progress'
  BY DEF KeyTypes, CallTypes, Progress, InHand, NoRows, Plain, Wrapped
<1>5. StoreFits'
  BY DEF KeyTypes, Progress, StoreFits, NoRows, Cold
<1>. QED
  BY <1>1, <1>2, <1>3, <1>4, <1>5

LEMMA ResetHeaderBase == ASSUME Base, ResetHeader PROVE Base'
<1>. USE DEF Base, TypeOK, ResetHeader
<1>1. KeyTypes'
  BY DEF KeyTypes, CallTypes, Progress, Plain, Wrapped, Wraps, NoWrap
<1>2. CredTypes'
  BY DEF KeyTypes, CredTypes, CallTypes, Progress, Bundles, NoBundle, NoPws, Rows
<1>3. CallTypes' /\ (pc' \notin {"divert", "write"} => tmp' = NoRows)
  BY DEF CallTypes, Progress, Steps, Plain, Wrapped
<1>4. Progress'
  BY DEF KeyTypes, CallTypes, Progress, InHand, Plain, Wrapped
<1>5. StoreFits'
  BY DEF KeyTypes, Progress, StoreFits, Cold
<1>. QED
  BY <1>1, <1>2, <1>3, <1>4, <1>5

LEMMA WipeFileBase == ASSUME Base, WipeFile PROVE Base'
<1>. USE DEF Base, TypeOK, WipeFile
<1>1. KeyTypes'
  BY DEF KeyTypes, CallTypes, Progress, NoBundle, NoPws, NoWrap, Plain, Wrapped, Wraps
<1>2. CredTypes'
  BY DEF KeyTypes, CredTypes, CallTypes, Progress, NoBundle, NoPws, NoWrap, Plain,
     Wrapped, Bundles, Rows
<1>3. CallTypes' /\ (pc' \notin {"divert", "write"} => tmp' = NoRows)
  BY DEF CallTypes, Progress, Steps, NoBundle, NoPws, NoWrap, Plain, Wrapped
<1>4. Progress'
  BY DEF KeyTypes, CallTypes, Progress, InHand, NoBundle, NoPws, NoWrap, Plain, Wrapped
<1>5. StoreFits'
  BY DEF KeyTypes, Progress, StoreFits, NoBundle, NoPws, NoWrap, Plain, Wrapped, Cold
<1>. QED
  BY <1>1, <1>2, <1>3, <1>4, <1>5

LEMMA WipeDoneBase == ASSUME Base, WipeDone PROVE Base'
<1>. USE DEF Base, TypeOK, WipeDone
<1>1. KeyTypes'
  BY DEF KeyTypes, CallTypes, Progress, Cold, Done, NoEdit, NoPws, NoRows, Plain,
     Wrapped, Wraps, NoWrap
<1>2. CredTypes'
  BY DEF KeyTypes, CredTypes, CallTypes, Progress, Cold, Done, NoEdit, NoPws, NoRows,
     Plain, Wrapped, Bundles, NoBundle, Rows
<1>3. CallTypes' /\ (pc' \notin {"divert", "write"} => tmp' = NoRows)
  BY DEF CallTypes, Progress, Steps, Cold, Done, NoEdit, NoPws, NoRows, Plain, Wrapped
<1>4. Progress'
  BY DEF KeyTypes, CallTypes, Progress, InHand, Cold, Done, NoEdit, NoPws, NoRows,
     Plain, Wrapped
<1>5. StoreFits'
  BY DEF KeyTypes, Progress, StoreFits, Cold, Done, NoEdit, NoPws, NoRows, Plain,
     Wrapped
<1>. QED
  BY <1>1, <1>2, <1>3, <1>4, <1>5

LEMMA CrashBase == ASSUME Base, Crash PROVE Base'
<1>. USE DEF Base, TypeOK, Crash
<1>1. KeyTypes'
  BY DEF KeyTypes, CallTypes, Progress, Cold, Done, NoEdit, NoPws, NoRows, Plain,
     Wrapped, Wraps, NoWrap
<1>2. CredTypes'
  BY DEF KeyTypes, CredTypes, CallTypes, Progress, Cold, Done, NoEdit, NoPws, NoRows,
     Bundles, NoBundle, Rows
<1>3. CallTypes' /\ (pc' \notin {"divert", "write"} => tmp' = NoRows)
  BY DEF CallTypes, Progress, Steps, Cold, Done, NoEdit, NoPws, NoRows, Plain, Wrapped
<1>4. Progress'
  BY DEF KeyTypes, CallTypes, Progress, InHand, Cold, Done, NoEdit, NoPws, NoRows,
     Plain, Wrapped
<1>5. StoreFits'
  BY DEF KeyTypes, Progress, StoreFits, Cold, Done, NoEdit, NoPws, NoRows
<1>. QED
  BY <1>1, <1>2, <1>3, <1>4, <1>5

LEMMA InitBase == ASSUME Init PROVE Base
<1>1. KeyTypes
  BY DEF Init, KeyTypes, Wraps
<1>2. CredTypes
  BY DEF Init, CredTypes, Bundles, NoBundle, NoPws, NoRows, NoEdit, Cold, Rows
<1>3. CallTypes
  BY DEF Init, CallTypes, Steps
<1>4. Progress /\ StoreFits
  BY DEF Init, Progress, InHand, StoreFits
<1>. QED
  BY <1>1, <1>2, <1>3, <1>4 DEF Init, Base, TypeOK

LEMMA StutterBase == ASSUME Base, UNCHANGED vars PROVE Base'
  BY DEF vars, Base, TypeOK, KeyTypes, CredTypes, CallTypes, Progress, StoreFits,
     Plain, Wrapped

LEMMA NextBase == ASSUME Base, [Next]_vars PROVE Base'
<1>1. CASE Calls
  BY <1>1, EditProfileBase, SetKeyBase, DeleteKeyBase, CreateBase, UnlockBase, LockBase,
     ChangePinBase, RemoveStartBase, FactoryResetBase DEF Calls
<1>2. CASE SaveStep
  BY <1>2, DivertBase, PruneBase, WriteIniBase DEF SaveStep
<1>3. CASE KeyStep
  BY <1>3, SetKeyDoneBase, ShredZeroBase, ShredRemoveBase, DeleteWrappedBase DEF KeyStep
<1>4. CASE AdoptStep
  BY <1>4, AdoptKeyBase, AdoptSecretsBase DEF AdoptStep
<1>5. CASE RemoveStep
  BY <1>5, RestoreBase, DropBundleBase, EmitBase, EmittedBase, EmitFailsBase, DropHeaderBase
  DEF RemoveStep
<1>6. CASE ResetStep
  BY <1>6, ResetHeaderBase, WipeFileBase, WipeDoneBase DEF ResetStep
<1>. QED
  BY <1>1, <1>2, <1>3, <1>4, <1>5, <1>6, CrashBase, StutterBase DEF Next, Work

(* In every behaviour, whatever fails and wherever power does, the call    *)
(* under way is where Progress says and every variable in its range.       *)
THEOREM StoreInvariant == Spec => []Base
<1>1. Init => Base
  BY InitBase
<1>2. Base /\ [Next]_vars => Base'
  BY NextBase
<1>. QED
  BY <1>1, <1>2, PTL DEF Spec

(* The staging copy of the profile list is gone when no save runs.         *)
THEOREM TypeCorrect == Spec => []TypeOK
<1>1. Base => TypeOK
  BY DEF Base
<1>. QED
  BY <1>1, StoreInvariant, PTL

(* A locked store holds no password in RAM, and the key of an open one is  *)
(* the one its header on flash wraps.                                      *)
THEOREM ColdWhenLocked == Spec => []StoreFits
<1>1. Base => StoreFits
  BY DEF Base
<1>. QED
  BY <1>1, StoreInvariant, PTL

-----------------------------------------------------------------------------
(* keystore_remove, with no more keys than one scan returns.               *)
ScanAll == Cardinality(Ids) <= ScanMax

LEMMA ScanIsAll ==
  ASSUME ScanAll, NEW files \in SUBSET Ids, NEW s \in Scan(files) PROVE s = files
<1>1. IsFiniteSet(files) /\ Cardinality(files) \in Nat /\ Cardinality(files) <= Cardinality(Ids)
  BY FS_Subset, FS_CardinalityType
<1>2. s \in SUBSET files /\ (Cardinality(s) = ScanMax \/ s = files)
  BY DEF Scan
<1>3. Cardinality(s) \in Nat /\ Cardinality(s) <= Cardinality(files)
  BY <1>1, <1>2, FS_Subset, FS_CardinalityType
<1>4. Cardinality(Ids) \in Nat
  BY FS_CardinalityType
<1>5. Cardinality(s) = ScanMax => Cardinality(s) = Cardinality(files)
  BY <1>1, <1>3, <1>4 DEF ScanAll
<1>. QED
  BY <1>1, <1>2, <1>5, FS_Subset

LEMMA NextListed == ASSUME ScanAll, Base, AllListed, [Next]_vars PROVE AllListed'
<1>1. CASE DropBundle
  <2>1. todo' = Wrapped
    BY <1>1, ScanIsAll DEF DropBundle, Wrapped
  <2>. QED
    BY <1>1, <2>1 DEF DropBundle, AllListed, Wrapped
<1>2. CASE Emit \/ Emitted
  BY <1>2 DEF Emit, Emitted, AllListed, Wrapped, Base, TypeOK, KeyTypes, NoWrap
<1>3. CASE SaveStep \/ KeyStep \/ AdoptStep \/ ResetStep
  BY <1>3 DEF SaveStep, KeyStep, AdoptStep, ResetStep, AllListed, Divert, Prune,
     WriteIni,
     SetKeyDone, ShredZero, ShredRemove, DeleteWrapped, AdoptKey, AdoptSecrets,
     ResetHeader,
     WipeFile, WipeDone, Save, Done
<1>4. CASE Restore \/ EmitFails \/ DropHeader
  BY <1>4 DEF Restore, EmitFails, DropHeader, Done, AllListed
<1>5. CASE Calls
  BY <1>5 DEF Calls, AllListed, EditProfile, PutRow, RenameRow, DropRow, Save, SetKey,
     DeleteKey,
     Create, Unlock, Lock, ChangePin, RemoveStart, FactoryReset, StartAdopt
<1>6. CASE Crash \/ UNCHANGED vars
  BY <1>6 DEF Crash, Done, vars, AllListed, Wrapped
<1>. QED
  BY <1>1, <1>2, <1>3, <1>4, <1>5, <1>6 DEF Next, Work, RemoveStep

(* keystore_remove leaves no wrapped key behind when it deletes the        *)
(* header, if one scan returns all keys.                                   *)
THEOREM RemovalComplete == ScanAll => (Spec => HeaderLast)
<1>. SUFFICES ASSUME ScanAll PROVE Spec => HeaderLast
  OBVIOUS
<1>1. Init => Base /\ AllListed
  BY InitBase DEF Init, AllListed
<1>2. Base /\ AllListed /\ [Next]_vars => (Base /\ AllListed)'
  BY NextBase, NextListed
<1>3. Base /\ AllListed /\ [Next]_vars
        => [pc = "emit" /\ hdr'.mk = 0 => Wrapped = {}]_vars
  <2>. SUFFICES ASSUME Base, AllListed, Next, pc = "emit", hdr'.mk = 0 PROVE Wrapped = {}
    OBVIOUS
  <2>1. mk # 0 /\ hdr.mk = mk
    BY DEF Base, Progress, StoreFits
  <2>2. DropHeader \/ hdr' = hdr
    BY DEF Next, Work, Calls, SaveStep, KeyStep, AdoptStep, RemoveStep, ResetStep,
       EditProfile, SetKey, DeleteKey, Create, Unlock, Lock, ChangePin, RemoveStart,
       FactoryReset,
       Divert, Prune, WriteIni, SetKeyDone, ShredZero, ShredRemove, DeleteWrapped,
       AdoptKey, AdoptSecrets, Restore, DropBundle, Emit, Emitted, EmitFails,
       ResetHeader, WipeFile, WipeDone, Crash
  <2>. QED
    BY <2>1, <2>2 DEF DropHeader, AllListed
<1>. QED
  BY <1>1, <1>2, <1>3, PTL DEF Spec, HeaderLast

-----------------------------------------------------------------------------
(* Where every key is, whatever fails and wherever power does, with the    *)
(* gate or without it.                                                     *)

(* The four steps by which the code itself loses a key or brings back an   *)
(* old one: power fails while a plaintext file that has been zeroed (in an *)
(* adoption) or is out of date (in storage_set_key) lies beside the        *)
(* wrapped copy, and is adopted over it by the next unlock; a removal      *)
(* writes the wrapped copy over a newer plaintext one; a key is stored     *)
(* without a store beside a wrapped copy left by an interrupted reset; the *)
(* header goes before the last wrapped key, of more than one scan returns. *)
KeyLoss ==
  \/ /\ Crash /\ pc \in {"unlink", "setrm"}
     /\ good[cur] # None /\ pem[cur] \notin {None, good[cur]}
  \/ /\ Emit
     /\ \E i \in Ids : good[i] # None /\ pem[i] = good[i] /\ pem'[i] # good[i]
  \/ /\ SetKey /\ hdr.mk = 0
     /\ \E i \in Wrapped : good'[i] # good[i]
  \/ DropHeader /\ Wrapped # {}

USE DEF Base, TypeOK, KeyTypes, CallTypes, Progress, StoreFits, InHand
USE DEF KeysSafe, KeyNow, Covered, Wraps, NoWrap, Plain, Wrapped

LEMMA DivertKeys == ASSUME Base, KeysSafe, Divert PROVE KeysSafe'
  BY DEF Divert

LEMMA PruneKeys == ASSUME Base, KeysSafe, Prune PROVE KeysSafe'
  BY DEF Prune

LEMMA WriteIniKeys == ASSUME Base, KeysSafe, WriteIni PROVE KeysSafe'
  BY DEF WriteIni, Done

LEMMA EditProfileKeys == ASSUME Base, KeysSafe, EditProfile PROVE KeysSafe'
  BY DEF EditProfile, DropRow, Gate, PutRow, RenameRow, Save

LEMMA SetKeyDoneKeys == ASSUME Base, KeysSafe, SetKeyDone PROVE KeysSafe'
  BY DEF SetKeyDone, Done

LEMMA DeleteKeyKeys == ASSUME Base, KeysSafe, DeleteKey PROVE KeysSafe'
  BY DEF DeleteKey

LEMMA ShredZeroKeys == ASSUME Base, KeysSafe, ShredZero PROVE KeysSafe'
  BY DEF ShredZero

LEMMA ShredRemoveKeys == ASSUME Base, KeysSafe, ShredRemove PROVE KeysSafe'
  BY DEF ShredRemove

LEMMA DeleteWrappedKeys == ASSUME Base, KeysSafe, DeleteWrapped PROVE KeysSafe'
  BY DEF DeleteWrapped, Done

LEMMA CreateKeys == ASSUME Base, KeysSafe, Create PROVE KeysSafe'
  BY DEF Create, Scan, StartAdopt

LEMMA UnlockKeys == ASSUME Base, KeysSafe, Unlock PROVE KeysSafe'
  BY DEF Unlock, Scan, StartAdopt

LEMMA AdoptKeyKeys == ASSUME Base, KeysSafe, AdoptKey PROVE KeysSafe'
  BY DEF AdoptKey

LEMMA AdoptSecretsKeys == ASSUME Base, KeysSafe, AdoptSecrets PROVE KeysSafe'
  BY DEF AdoptSecrets, Done, Save

LEMMA LockKeys == ASSUME Base, KeysSafe, Lock PROVE KeysSafe'
  BY DEF Lock

LEMMA ChangePinKeys == ASSUME Base, KeysSafe, ChangePin PROVE KeysSafe'
  BY DEF ChangePin

LEMMA RemoveStartKeys == ASSUME Base, KeysSafe, RemoveStart PROVE KeysSafe'
  BY DEF RemoveStart

LEMMA RestoreKeys == ASSUME Base, KeysSafe, Restore PROVE KeysSafe'
  BY DEF Restore

LEMMA DropBundleKeys == ASSUME Base, KeysSafe, DropBundle PROVE KeysSafe'
  BY DEF DropBundle

LEMMA EmittedKeys == ASSUME Base, KeysSafe, Emitted PROVE KeysSafe'
  BY DEF Emitted

LEMMA EmitFailsKeys == ASSUME Base, KeysSafe, EmitFails PROVE KeysSafe'
  BY DEF EmitFails, Done

LEMMA FactoryResetKeys == ASSUME Base, KeysSafe, FactoryReset PROVE KeysSafe'
  BY DEF FactoryReset

LEMMA ResetHeaderKeys == ASSUME Base, KeysSafe, ResetHeader PROVE KeysSafe'
  BY DEF ResetHeader

LEMMA WipeFileKeys == ASSUME Base, KeysSafe, WipeFile PROVE KeysSafe'
  BY DEF WipeFile

LEMMA WipeDoneKeys == ASSUME Base, KeysSafe, WipeDone PROVE KeysSafe'
  BY DEF WipeDone, Done

LEMMA SetKeyKeys == ASSUME Base, KeysSafe, SetKey, ~KeyLoss PROVE KeysSafe'
  BY DEF SetKey, KeyLoss

\* What is written back is the key's current material.
LEMMA EmitCurrent ==
  ASSUME Base, KeysSafe, Emit, ~KeyLoss
  PROVE  /\ cur' \in Ids
         /\ pem' = [pem EXCEPT ![cur'] = pem'[cur']]
         /\ good[cur'] # None => pem'[cur'] = good[cur']
<1>1. PICK i \in todo : kw[i].mk = mk /\ pem' = [pem EXCEPT ![i] = kw[i].mat] /\ cur' = i
  BY DEF Emit
<1>2. i \in Ids /\ i # cur /\ hdr.mk = mk /\ mk # 0 /\ pem'[i] = kw[i].mat
  BY <1>1 DEF Emit
<1>3. ASSUME good[i] # None PROVE pem'[i] = good[i]
  <2>1. KeyNow(i) = good[i]
    BY <1>2, <1>3
  <2>2. CASE pem[i] = None
    BY <1>1, <1>2, <1>3, <2>1, <2>2
  <2>3. CASE pem[i] # None
    BY <1>2, <1>3, <2>1, <2>3 DEF KeyLoss
  <2>. QED
    BY <2>2, <2>3
<1>. QED
  BY <1>1, <1>2, <1>3

LEMMA EmitKeys == ASSUME Base, KeysSafe, Emit, ~KeyLoss PROVE KeysSafe'
<1>1. /\ pc = "emit" /\ pc' = "emitted" /\ cur' \in Ids /\ cur = None /\ job # "delete"
      /\ UNCHANGED <<hdr, kw, good, job>>
  BY EmitCurrent DEF Emit
<1>2. good'[cur'] # None => pem'[cur'] = good'[cur']
  BY <1>1, EmitCurrent
<1>3. \A i \in Ids \ {cur'} : pem'[i] = pem[i]
  BY <1>1, EmitCurrent
<1>4. \A i \in Ids \ {cur'} : good'[i] # None => KeyNow(i)' = good'[i]
  BY <1>1, <1>3
<1>. QED
  BY <1>1, <1>2, <1>4

LEMMA DropHeaderKeys == ASSUME Base, KeysSafe, DropHeader, ~KeyLoss PROVE KeysSafe'
  BY DEF DropHeader, Done, KeyLoss

LEMMA CrashKeys == ASSUME Base, KeysSafe, Crash, ~KeyLoss PROVE KeysSafe'
  BY DEF Crash, Done, KeyLoss

HIDE DEF Base, TypeOK, KeyTypes, CallTypes, Progress, StoreFits, InHand
HIDE DEF KeysSafe, KeyNow, Covered, Wraps, NoWrap, Plain, Wrapped

LEMMA InitKeys == ASSUME Init PROVE KeysSafe
  BY DEF Init, KeysSafe, InHand

LEMMA StutterKeys == ASSUME KeysSafe, UNCHANGED vars PROVE KeysSafe'
  BY DEF vars, KeysSafe, KeyNow, Covered

LEMMA NextKeys ==
  ASSUME Base, KeysSafe, [Next]_vars, [~KeyLoss]_vars PROVE KeysSafe'
<1>1. CASE UNCHANGED vars
  BY <1>1, StutterKeys
<1>. SUFFICES ASSUME Next, ~KeyLoss PROVE KeysSafe'
  BY <1>1
<1>2. CASE Calls
  BY <1>2, EditProfileKeys, SetKeyKeys, DeleteKeyKeys, CreateKeys, UnlockKeys, LockKeys,
     ChangePinKeys, RemoveStartKeys, FactoryResetKeys DEF Calls
<1>3. CASE SaveStep
  BY <1>3, DivertKeys, PruneKeys, WriteIniKeys DEF SaveStep
<1>4. CASE KeyStep
  BY <1>4, SetKeyDoneKeys, ShredZeroKeys, ShredRemoveKeys, DeleteWrappedKeys DEF KeyStep
<1>5. CASE AdoptStep
  BY <1>5, AdoptKeyKeys, AdoptSecretsKeys DEF AdoptStep
<1>6. CASE RemoveStep
  BY <1>6, RestoreKeys, DropBundleKeys, EmitKeys, EmittedKeys, EmitFailsKeys, DropHeaderKeys
  DEF RemoveStep
<1>7. CASE ResetStep
  BY <1>7, ResetHeaderKeys, WipeFileKeys, WipeDoneKeys DEF ResetStep
<1>. QED
  BY <1>2, <1>3, <1>4, <1>5, <1>6, <1>7, CrashKeys DEF Next, Work

(* No sequence of calls loses or reverts a key, with any write failing and *)
(* power failing anywhere, but by one of the steps that KeyLoss names.     *)
THEOREM KeysSurvive == Spec /\ [][~KeyLoss]_vars => []KeyKept
<1>1. Init => Base /\ KeysSafe
  BY InitBase, InitKeys
<1>2. Base /\ KeysSafe /\ [Next]_vars /\ [~KeyLoss]_vars => (Base /\ KeysSafe)'
  BY NextBase, NextKeys
<1>3. Base /\ KeysSafe => KeyKept
  BY DEF Base, TypeOK, CallTypes, Progress, InHand, KeysSafe, KeyKept
<1>. QED
  BY <1>1, <1>2, <1>3, PTL DEF Spec

(* In the same behaviours a key's plaintext goes only with a current       *)
(* wrapped copy on flash.                                                  *)
THEOREM NeverUncovered == Spec /\ [][~KeyLoss]_vars => NoKeyUncovered
<1>1. Base /\ KeysSafe /\ [Next]_vars /\ [~KeyLoss]_vars
        => [\A i \in Ids : pem[i] \in Mats /\ pem'[i] \notin Mats /\ good'[i] # None
              => kw[i] = [mk |-> hdr.mk, mat |-> good[i]]]_vars
  <2>. SUFFICES ASSUME Base, KeysSafe, Next, ~KeyLoss,
                       NEW i \in Ids, pem[i] \in Mats, pem'[i] \notin Mats,
                       good'[i] # None
                PROVE  kw[i] = [mk |-> hdr.mk, mat |-> good[i]]
    OBVIOUS
  <2>1. CASE ShredZero \/ ShredRemove \/ SetKeyDone
    BY <2>1 DEF ShredZero, ShredRemove, SetKeyDone, Base, Progress, InHand, TypeOK,
       KeyTypes, CallTypes, KeysSafe, Covered
  <2>2. CASE Emit
    <3>1. i = cur' /\ good[i] # None
      BY <2>2, EmitCurrent DEF Emit, Base, TypeOK, KeyTypes
    <3>2. pem'[i] \in Mats
      BY <2>2, <3>1, EmitCurrent DEF Base, TypeOK, KeyTypes
    <3>. QED
      BY <3>2
  <2>3. CASE WipeFile
    BY <2>3 DEF WipeFile, KeysSafe
  <2>4. CASE SetKey
    BY <2>4 DEF SetKey, Base, TypeOK, KeyTypes
  <2>5. CASE pem' = pem
    BY <2>5
  <2>6. ShredZero \/ ShredRemove \/ SetKeyDone \/ Emit \/ WipeFile \/ SetKey \/ pem' = pem
    BY DEF Next, Work, Calls, SaveStep, KeyStep, AdoptStep, RemoveStep, ResetStep,
       EditProfile, DeleteKey, Create, Unlock, Lock, ChangePin, RemoveStart,
       FactoryReset,
       Divert, Prune, WriteIni, DeleteWrapped, AdoptKey, AdoptSecrets, Restore,
       DropBundle,
       Emitted, EmitFails, DropHeader, ResetHeader, WipeDone, Crash
  <2>. QED
    BY <2>1, <2>2, <2>3, <2>4, <2>5, <2>6
<1>2. Init => Base /\ KeysSafe
  BY InitBase, InitKeys
<1>3. Base /\ KeysSafe /\ [Next]_vars /\ [~KeyLoss]_vars => (Base /\ KeysSafe)'
  BY NextBase, NextKeys
<1>. QED
  BY <1>1, <1>2, <1>3, PTL DEF Spec, NoKeyUncovered

-----------------------------------------------------------------------------
(* Where every password is, whatever fails and wherever power does, with   *)
(* the gate or without it.                                                 *)

(* The four steps by which the code itself loses a profile's password: a   *)
(* list is loaded while the bundle cannot be read, and saved without its   *)
(* passwords; a removal deletes the bundle although a password in it is    *)
(* not back in the ini; a profile has been renamed, the bundle pruned of   *)
(* its old name, and the list is not written; a profile whose password is  *)
(* in the bundle is renamed while the store is locked.                     *)
PwLoss ==
  \/ (EditProfile \/ AdoptSecrets) /\ pc' # "idle" /\ Marked /\ ~cache'.ok
  \/ DropBundle /\ \E n \in Names : ini[n] = Marker /\ want[n] # {} /\ bundle.pw[n] # Empty
  \/ /\ pc = "write" /\ (WriteIni \/ Crash) /\ ini' = ini
     /\ \E n \in Names : ini[n] = Marker /\ tmp[n] = Absent /\ want[n] # {}
  \/ /\ EditProfile /\ mk = 0
     /\ \E n \in Names : ini[n] = Marker /\ tmp'[n] = Absent /\ want'[n] # {}

Saving == pc \in {"divert", "write"}

\* What the marker in row n stands for, on flash and in RAM: a bundle that
\* could not be written leaves the cache ahead of it.
OnFlash(n) == IF hdr.mk # 0 /\ bundle.mk = hdr.mk THEN bundle.pw[n] ELSE Empty
Stands(n) == {OnFlash(n)} \union (IF cache.ok THEN {cache.pw[n]} ELSE {})

\* A row of profile n that holds pw bears a password of set.
Fits(pw, n, set) == IF pw = Marker THEN Stands(n) \subseteq set ELSE pw \in set

\* The passwords a profile may have once the save under way is done.
Due(n) == IF n = asked.row THEN {asked.pw} ELSE want[n]

(* A cache that is loaded is that of a bundle this store can open.         *)
Own == cache.ok => bundle.mk \in {0, mk}

(* A row with the marker has no bundle but the store's own to look in.     *)
NoStray == (\E n \in Names : ini[n] = Marker \/ tmp[n] = Marker) => bundle.mk \in {0, hdr.mk}

(* The bundle goes before the header, in a removal, and after the profiles *)
(* in a reset.                                                             *)
GoesLast ==
  /\ pc \in {"emit", "emitted"} => bundle.mk = 0
  /\ pc \in {"reset", "wipe"} => ini = NoRows

(* A password is asked for only by a save, and allowed from its start on.  *)
Asking ==
  /\ ~Saving => asked = NoEdit
  /\ asked.row # None => want[asked.row] = {} \/ asked.pw \in want[asked.row]

\* The list being saved leaves n out, and the bundle has been pruned of it.
Pruned(n) == pc = "write" /\ tmp[n] = Absent /\ ini[n] = Marker

(* Each profile in profiles.ini bears a password it may have; and so does  *)
(* each one in the list being saved.                                       *)
BearsNow ==
  \A n \in Names : ini[n] # Absent /\ want[n] # {} /\ ~Pruned(n) => Fits(ini[n], n, want[n])
BearsSoon ==
  Saving => \A n \in Names : tmp[n] # Absent /\ Due(n) # {} => Fits(tmp[n], n, Due(n))

PInv == Base /\ Own /\ NoStray /\ GoesLast /\ Asking /\ BearsNow /\ BearsSoon

LEMMA EmptyPlain == Empty \notin {Marker, Absent} /\ Marker # Absent
  BY Zenon DEF Empty, Marker, Absent

LEMMA NoBundleEmpty ==
  ASSUME Base PROVE bundle.mk = 0 => bundle.pw = NoPws
  BY DEF Base, TypeOK, CredTypes, Bundles, NoBundle

LEMMA LoadsOwn ==
  ASSUME Own, NEW ok \in Loads
  PROVE  /\ ok \in BOOLEAN
         /\ ok => bundle.mk \in {0, mk}
         /\ cache.ok => ok
  BY DEF Loads, Writes, Own

\* What secrets_load reads for a row is what its marker stands for.
LEMMA ContentStands ==
  ASSUME Base, mk # 0, hdr.mk = mk, bundle.mk \in {0, mk}, NEW n \in Names
  PROVE  Content[n] \in Stands(n)
<1>1. CASE cache.ok
  BY <1>1 DEF Content, Stands
<1>2. CASE ~cache.ok
  <2>1. Content[n] = bundle.pw[n]
    BY <1>2 DEF Content
  <2>2. bundle.mk = 0 => bundle.pw[n] = Empty
    BY NoBundleEmpty DEF NoPws
  <2>3. OnFlash(n) = bundle.pw[n]
    BY <2>2 DEF OnFlash
  <2>. QED
    BY <2>1, <2>3 DEF Stands
<1>. QED
  BY <1>1, <1>2

\* Loading the list adds nothing to what the markers stand for.
LEMMA LoadStands ==
  ASSUME Base, Own, pc \in {"idle", "adopt", "restore"}, NEW ok \in Loads,
         cache' \in {cache, Loaded(ok)}, mk # 0 \/ cache' = cache,
         UNCHANGED <<hdr, bundle, mk>>
  PROVE  Own' /\ \A n \in Names : Stands(n)' \subseteq Stands(n)
<1>1. CASE cache' = cache
  BY <1>1 DEF Own, Stands, OnFlash
<1>2. CASE cache' # cache
  <2>1. ok /\ cache'.ok /\ cache'.pw = Content /\ bundle.mk \in {0, mk}
    BY <1>2, LoadsOwn DEF Loaded
  <2>2. mk # 0 /\ hdr.mk = mk
    BY <1>2 DEF Base, StoreFits
  <2>3. \A n \in Names : Content[n] \in Stands(n) /\ OnFlash(n)' = OnFlash(n)
    BY <2>1, <2>2, ContentStands DEF OnFlash
  <2>. QED
    BY <2>1, <2>3 DEF Own, Stands
<1>. QED
  BY <1>1, <1>2

\* What storage_load_profiles returns bears the passwords the rows bear, if
\* the bundle could be read where it had to be.
LEMMA HydratedFits ==
  ASSUME Base, pc \in {"idle", "adopt", "restore"}, NEW ok,
         Marked => ok /\ bundle.mk \in {0, mk},
         NEW n \in Names, NEW set, Fits(ini[n], n, set)
  PROVE  Fits(Hydrated(ok)[n], n, set)
<1>1. CASE mk = 0 \/ ini[n] # Marker
  BY <1>1 DEF Hydrated
<1>2. CASE mk # 0 /\ ini[n] = Marker
  <2>1. hdr.mk = mk /\ Marked
    BY <1>2 DEF Base, StoreFits, Marked
  <2>2. Hydrated(ok)[n] = Content[n]
    BY <1>2, <2>1 DEF Hydrated
  <2>3. Content[n] \in set
    BY <1>2, <2>1, ContentStands DEF Fits
  <2>4. Content[n] # Marker
    BY ContentType, EmptyPlain DEF Base, TypeOK
  <2>. QED
    BY <2>2, <2>3, <2>4 DEF Fits
<1>. QED
  BY <1>1, <1>2

LEMMA HydratedRows ==
  ASSUME Base, NEW ok, NEW n \in Names
  PROVE  /\ Hydrated(ok)[n] = Absent <=> ini[n] = Absent
         /\ mk # 0 => Hydrated(ok)[n] # Marker
         /\ mk = 0 => Hydrated(ok)[n] = ini[n]
<1>1. Content[n] \notin {Marker, Absent}
  BY ContentType, EmptyPlain DEF Base, TypeOK
<1>. QED
  BY <1>1, EmptyPlain DEF Hydrated

\* What a step keeps that touches neither the passwords nor a save.
LEMMA QuietPasswords ==
  ASSUME PInv, Base', ~Saving, ~Saving', UNCHANGED <<bundle, ini, want>>,
         tmp' = NoRows, asked' = NoEdit, Own', GoesLast',
         hdr'.mk = hdr.mk \/ bundle.mk = 0 \/ \A n \in Names : ini[n] # Marker,
         cache' = cache \/ ~cache'.ok
  PROVE  PInv'
<1>. USE DEF PInv
<1>1. \A n \in Names : ini[n] = Marker => OnFlash(n)' = OnFlash(n) /\ bundle'.mk \in {0, hdr'.mk}
  BY DEF OnFlash, NoStray, Base, TypeOK, KeyTypes
<1>2. \A n \in Names : ini[n] = Marker => Stands(n)' \subseteq Stands(n)
  BY <1>1 DEF Stands
<1>3. NoStray'
  BY <1>1 DEF NoStray, NoRows, Marker, Absent
<1>4. Asking' /\ BearsSoon'
  BY DEF Asking, BearsSoon, NoEdit
<1>5. BearsNow'
  BY <1>2 DEF BearsNow, Fits, Pruned, Saving
<1>. QED
  BY <1>3, <1>4, <1>5

\* The same of the steps of calls on keys, on the store, and of a reset.
Elsewhere ==
  SetKey \/ DeleteKey \/ Create \/ Unlock \/ Lock \/ ChangePin \/ RemoveStart \/ KeyStep
    \/ AdoptKey \/ Emit \/ Emitted \/ EmitFails \/ DropHeader \/ ResetHeader \/ WipeDone

LEMMA ElsewhereQuiet ==
  ASSUME PInv, Base', Elsewhere
  PROVE  /\ ~Saving /\ ~Saving'
         /\ UNCHANGED <<bundle, ini, want>>
         /\ tmp' = NoRows /\ asked' = NoEdit
<1>. USE DEF PInv, Asking, Saving
<1>1. ~Saving => tmp = NoRows /\ asked = NoEdit
  BY DEF Base, TypeOK
<1>2. CASE SetKey \/ DeleteKey \/ Create \/ Unlock \/ Lock \/ ChangePin \/ RemoveStart
  BY <1>1, <1>2 DEF SetKey, DeleteKey, Create, Unlock, Lock, ChangePin, RemoveStart,
     StartAdopt
<1>3. CASE KeyStep \/ AdoptKey
  BY <1>1, <1>3 DEF KeyStep, SetKeyDone, ShredZero, ShredRemove, DeleteWrapped, AdoptKey,
     Done
<1>4. CASE Emit \/ Emitted \/ EmitFails \/ DropHeader \/ ResetHeader \/ WipeDone
  BY <1>1, <1>4 DEF Emit, Emitted, EmitFails, DropHeader, ResetHeader, WipeDone, Done
<1>. QED
  BY <1>2, <1>3, <1>4 DEF Elsewhere

LEMMA ElsewhereCache ==
  ASSUME Base, Own, Elsewhere PROVE Own' /\ (cache' = cache \/ ~cache'.ok)
<1>. USE DEF Own, Cold
<1>1. CASE SetKey \/ DeleteKey \/ ChangePin
  BY <1>1 DEF SetKey, DeleteKey, ChangePin
<1>2. CASE Create \/ Unlock \/ RemoveStart
  <2>1. cache' = cache /\ bundle' = bundle
    BY <1>2 DEF Create, Unlock, RemoveStart, StartAdopt
  <2>2. pc = "idle" /\ (mk # 0 => mk' = mk)
    BY <1>2 DEF Create, Unlock, RemoveStart, Base, StoreFits
  <2>3. mk = 0 => ~cache.ok
    BY DEF Base, StoreFits
  <2>. QED
    BY <2>1, <2>2, <2>3
<1>3. CASE Lock \/ DropHeader \/ WipeDone
  BY <1>3 DEF Lock, DropHeader, WipeDone, Done
<1>4. CASE KeyStep \/ AdoptKey
  BY <1>4 DEF KeyStep, SetKeyDone, ShredZero, ShredRemove, DeleteWrapped, AdoptKey, Done
<1>5. CASE Emit \/ Emitted \/ EmitFails \/ ResetHeader
  BY <1>5 DEF Emit, Emitted, EmitFails, ResetHeader, Done
<1>. QED
  BY <1>1, <1>2, <1>3, <1>4, <1>5 DEF Elsewhere

LEMMA ElsewherePasswords == ASSUME PInv, Base', Elsewhere PROVE PInv'
<1>. USE DEF PInv
<1>1. CASE Create
  <2>1. hdr.mk = 0 /\ pc' = "adopt"
    BY <1>1 DEF Create, StartAdopt
  <2>2. bundle.mk = 0 \/ \A n \in Names : ini[n] # Marker
    BY <2>1 DEF NoStray
  <2>. QED
    BY <1>1, <2>1, <2>2, ElsewhereQuiet, ElsewhereCache, QuietPasswords
    DEF Elsewhere, GoesLast
<1>2. CASE DropHeader \/ ResetHeader
  <2>1. GoesLast'
    BY <1>2, ElsewhereQuiet DEF DropHeader, ResetHeader, Elsewhere, GoesLast, Done
  <2>2. bundle.mk = 0 \/ \A n \in Names : ini[n] # Marker
    BY <1>2 DEF DropHeader, ResetHeader, GoesLast, NoRows, Marker, Absent
  <2>. QED
    BY <1>2, <2>1, <2>2, ElsewhereQuiet, ElsewhereCache, QuietPasswords DEF Elsewhere
<1>3. CASE Elsewhere /\ ~Create /\ ~DropHeader /\ ~ResetHeader
  <2>1. hdr'.mk = hdr.mk
    BY <1>3 DEF Elsewhere, KeyStep, SetKey, DeleteKey, Unlock, Lock, ChangePin, RemoveStart,
       SetKeyDone, ShredZero, ShredRemove, DeleteWrapped, AdoptKey, Emit, Emitted,
       EmitFails, WipeDone, Base, TypeOK, KeyTypes
  <2>2. GoesLast'
    BY <1>3, ElsewhereQuiet
    DEF Elsewhere, KeyStep, SetKey, DeleteKey, Unlock, Lock, ChangePin, RemoveStart,
        SetKeyDone, ShredZero, ShredRemove, DeleteWrapped, AdoptKey, Emit, Emitted,
        EmitFails, WipeDone, GoesLast, StartAdopt, Done
  <2>. QED
    BY <2>1, <2>2, ElsewhereQuiet, ElsewhereCache, QuietPasswords
<1>. QED
  BY <1>1, <1>2, <1>3

-----------------------------------------------------------------------------
(* The steps that write the passwords.                                     *)

\* Starting a save of a list that bears, for each profile kept, a password
\* it may have.
LEMMA SavePasswords ==
  ASSUME PInv, Base', NEW list \in Rows, Save(list), pc \in {"idle", "adopt"},
         UNCHANGED <<keyFiles, credFiles, mk>>, Own',
         \A n \in Names : Stands(n)' \subseteq Stands(n),
         mk # 0 => \A n \in Names : list[n] # Marker,
         mk = 0 => \A n \in Names : list[n] = Marker => bundle.mk \in {0, hdr.mk},
         asked'.row # None => want'[asked'.row] = {} \/ asked'.pw \in want'[asked'.row],
         \A n \in Names : ini[n] # Absent /\ want'[n] # {} => Fits(ini[n], n, want'[n]),
         \A n \in Names : list[n] # Absent /\ Due(n)' # {} => Fits(list[n], n, Due(n)')
  PROVE  PInv'
<1>. USE DEF PInv, Save
<1>1. Saving' /\ tmp' = list /\ pc' \notin {"emit", "emitted", "reset", "wipe"}
  BY DEF Saving
<1>2. NoStray'
  BY <1>1 DEF NoStray
<1>3. GoesLast' /\ Asking'
  BY <1>1 DEF GoesLast, Asking
<1>4. BearsNow'
  BY DEF BearsNow, Fits
<1>5. BearsSoon'
  BY <1>1 DEF BearsSoon, Fits
<1>. QED
  BY <1>2, <1>3, <1>4, <1>5

LEMMA EditPasswords == ASSUME PInv, Base', EditProfile, ~PwLoss PROVE PInv'
<1>. USE DEF PInv
<1>1. pc = "idle" /\ UNCHANGED <<keyFiles, credFiles, mk>>
  BY DEF EditProfile
<1>2. PICK ok \in Loads :
        /\ cache' = IF Marked THEN Loaded(ok) ELSE cache
        /\ PutRow(Hydrated(ok)) \/ RenameRow(Hydrated(ok)) \/ DropRow(Hydrated(ok))
  BY DEF EditProfile
<1>. DEFINE old == Hydrated(ok)
<1>3. Own' /\ \A n \in Names : Stands(n)' \subseteq Stands(n)
  BY <1>1, <1>2, LoadStands DEF Marked
<1>4. old \in [Names -> Pws \union {Empty, Marker, Absent}]
  BY HydratedType DEF Base, TypeOK, Rows
<1>5. \E list \in Rows : Save(list)
  BY <1>2, HydratedType, PutEdits, RenameEdits, DropEdits DEF Base, TypeOK, Edited
<1>6. Marked => ok /\ bundle.mk \in {0, mk}
  <2>1. pc' # "idle"
    BY <1>5 DEF Save
  <2>2. Marked => cache'.ok
    BY <2>1 DEF PwLoss
  <2>. QED
    BY <1>2, <2>2, LoadsOwn DEF Loaded
<1>7. \A n \in Names : /\ old[n] = Absent <=> ini[n] = Absent
                       /\ mk # 0 => old[n] # Marker
                       /\ mk = 0 => old[n] = ini[n]
  BY HydratedRows
<1>8. mk = 0 => \A n \in Names : old[n] = Marker => bundle.mk \in {0, hdr.mk}
  BY <1>7 DEF NoStray
<1>9. asked = NoEdit /\ asked.row = None /\ ~Saving
  BY <1>1 DEF Asking, Saving, NoEdit
<1>10. \A n \in Names : ini[n] # Absent /\ want[n] # {} => Fits(ini[n], n, want[n])
  BY <1>1 DEF BearsNow, Pruned
<1>11. \A n \in Names : ini[n] # Absent /\ want[n] # {} => Fits(old[n], n, want[n])
  BY <1>1, <1>6, <1>10, HydratedFits
<1>12. want \in [Names -> SUBSET (Pws \union {Empty})]
  BY DEF Base, TypeOK, CredTypes
<1>. HIDE DEF old
<1>13. CASE PutRow(old)
  <2>1. PICK n \in Names, p \in Pws \union {Empty} :
          /\ Save([old EXCEPT ![n] = p])
          /\ asked' = [row |-> n, pw |-> p]
          /\ want' = [want EXCEPT ![n] = IF ini[n] = Absent THEN {p}
                                         ELSE IF @ = {} THEN @ ELSE @ \union {p}]
    BY <1>13 DEF PutRow
  <2>. DEFINE list == [old EXCEPT ![n] = p]
  <2>2. list \in Rows
    BY <1>4 DEF Rows
  <2>3. /\ list[n] = p /\ p # Marker /\ p # Absent
        /\ \A k \in Names \ {n} : list[k] = old[k]
    BY <1>4, EmptyPlain
  <2>4. /\ want'[n] = {} \/ p \in want'[n]
        /\ ini[n] # Absent /\ want'[n] # {} => want[n] # {} /\ want[n] \subseteq want'[n]
        /\ \A k \in Names \ {n} : want'[k] = want[k]
    BY <1>12, <2>1
  <2>5. Save(list) /\ asked'.row = n /\ asked'.pw = p
    BY <2>1
  <2>. HIDE DEF list
  <2>6. /\ mk # 0 => \A k \in Names : list[k] # Marker
        /\ mk = 0 => \A k \in Names : list[k] = Marker => bundle.mk \in {0, hdr.mk}
    BY <1>7, <1>8, <2>3
  <2>7. \A k \in Names : ini[k] # Absent /\ want'[k] # {} => Fits(ini[k], k, want'[k])
    BY <1>10, <2>4 DEF Fits
  <2>8. \A k \in Names : list[k] # Absent /\ Due(k)' # {} => Fits(list[k], k, Due(k)')
    <3>. SUFFICES ASSUME NEW k \in Names, list[k] # Absent, Due(k)' # {}
                  PROVE  Fits(list[k], k, Due(k)')
      OBVIOUS
    <3>1. CASE k = n
      <4>1. Due(k)' = {p} /\ list[k] = p
        BY <2>3, <2>5, <3>1 DEF Due
      <4>. QED
        BY <2>3, <4>1 DEF Fits
    <3>2. CASE k # n
      <4>1. Due(k)' = want[k] /\ list[k] = old[k]
        BY <2>3, <2>4, <2>5, <3>2 DEF Due
      <4>. QED
        BY <1>7, <1>11, <4>1
    <3>. QED
      BY <3>1, <3>2
  <2>. QED
    BY <1>1, <1>3, <2>2, <2>4, <2>5, <2>6, <2>7, <2>8, SavePasswords
<1>14. CASE DropRow(old)
  <2>1. PICK n \in Names :
          /\ Save([old EXCEPT ![n] = Absent])
          /\ want' = [want EXCEPT ![n] = {}]
          /\ UNCHANGED asked
    BY <1>14 DEF DropRow
  <2>. DEFINE list == [old EXCEPT ![n] = Absent]
  <2>2. list \in Rows
    BY <1>4 DEF Rows
  <2>3. list[n] = Absent /\ \A k \in Names \ {n} : list[k] = old[k]
    BY <1>4
  <2>4. want'[n] = {} /\ \A k \in Names \ {n} : want'[k] = want[k]
    BY <1>12, <2>1
  <2>5. Save(list) /\ asked'.row = None
    BY <1>9, <2>1
  <2>. HIDE DEF list
  <2>6. /\ mk # 0 => \A k \in Names : list[k] # Marker
        /\ mk = 0 => \A k \in Names : list[k] = Marker => bundle.mk \in {0, hdr.mk}
    BY <1>7, <1>8, <2>3 DEF Marker, Absent
  <2>7. \A k \in Names : ini[k] # Absent /\ want'[k] # {} => Fits(ini[k], k, want'[k])
    BY <1>10, <2>4
  <2>8. \A k \in Names : list[k] # Absent /\ Due(k)' # {} => Fits(list[k], k, Due(k)')
    <3>. SUFFICES ASSUME NEW k \in Names, list[k] # Absent, Due(k)' # {}
                  PROVE  Fits(list[k], k, Due(k)')
      OBVIOUS
    <3>1. k # n /\ Due(k)' = want[k] /\ list[k] = old[k]
      BY <2>3, <2>4, <2>5 DEF Due
    <3>. QED
      BY <1>7, <1>11, <3>1
  <2>. QED
    BY <1>1, <1>3, <2>2, <2>5, <2>6, <2>7, <2>8, SavePasswords
<1>15. CASE RenameRow(old)
  <2>1. PICK n \in Names, m \in Names :
          /\ old[n] # Absent /\ old[m] = Absent
          /\ Save([old EXCEPT ![n] = Absent, ![m] = old[n]])
          /\ want' = [want EXCEPT ![m] = want[n]]
          /\ UNCHANGED asked
    BY <1>15 DEF RenameRow
  <2>. DEFINE list == [old EXCEPT ![n] = Absent, ![m] = old[n]]
  <2>2. list \in Rows
    BY <1>4 DEF Rows
  <2>3. /\ n # m /\ list[n] = Absent /\ list[m] = old[n]
        /\ \A k \in Names \ {n, m} : list[k] = old[k]
    BY <1>4, <2>1
  <2>4. /\ want'[m] = want[n] /\ want'[n] = want[n]
        /\ \A k \in Names \ {m} : want'[k] = want[k]
    BY <1>12, <2>1, <2>3
  <2>5. Save(list) /\ asked'.row = None
    BY <1>9, <2>1
  <2>. HIDE DEF list
  <2>6. /\ mk # 0 => \A k \in Names : list[k] # Marker
        /\ mk = 0 => \A k \in Names : list[k] = Marker => bundle.mk \in {0, hdr.mk}
    BY <1>7, <1>8, <2>3 DEF Marker, Absent
  <2>7. \A k \in Names : ini[k] # Absent /\ want'[k] # {} => Fits(ini[k], k, want'[k])
    BY <1>7, <1>10, <2>1, <2>4
  <2>8. want[n] # {} => old[n] # Marker
    <3>1. mk = 0 /\ ini[n] = Marker /\ want'[n] # {} => PwLoss
      <4>1. tmp'[n] = Absent
        BY <2>3, <2>5 DEF Save
      <4>. QED
        BY <4>1 DEF PwLoss
    <3>. QED
      BY <1>7, <2>4, <3>1
  <2>9. \A k \in Names : list[k] # Absent /\ Due(k)' # {} => Fits(list[k], k, Due(k)')
    <3>. SUFFICES ASSUME NEW k \in Names, list[k] # Absent, Due(k)' # {}
                  PROVE  Fits(list[k], k, Due(k)')
      OBVIOUS
    <3>1. k # n /\ Due(k)' = want'[k]
      BY <2>3, <2>5 DEF Due
    <3>2. CASE k # m
      <4>1. Due(k)' = want[k] /\ list[k] = old[k]
        BY <2>3, <2>4, <3>1, <3>2
      <4>. QED
        BY <1>7, <1>11, <4>1
    <3>3. CASE k = m
      <4>1. Due(k)' = want[n] /\ list[k] = old[n] /\ want[n] # {}
        BY <2>3, <2>4, <3>1, <3>3
      <4>2. Fits(old[n], n, want[n]) /\ old[n] # Marker
        BY <1>7, <1>11, <2>1, <2>8, <4>1
      <4>. QED
        BY <4>1, <4>2 DEF Fits
    <3>. QED
      BY <3>2, <3>3
  <2>. QED
    BY <1>1, <1>3, <2>2, <2>5, <2>6, <2>7, <2>9, SavePasswords
<1>. QED
  BY <1>2, <1>13, <1>14, <1>15 DEF old

LEMMA AdoptPasswords == ASSUME PInv, Base', AdoptSecrets, ~PwLoss PROVE PInv'
<1>. USE DEF PInv
<1>1. pc = "adopt" /\ UNCHANGED <<keyFiles, credFiles, mk>> /\ tmp = NoRows
  BY DEF AdoptSecrets, Base, TypeOK
<1>2. asked = NoEdit /\ ~Saving
  BY <1>1 DEF Asking, Saving
<1>3. CASE \E n \in Names : ini[n] \in Pws
  <2>1. PICK ok \in Loads :
          /\ cache' = IF Marked THEN Loaded(ok) ELSE cache
          /\ Save(Hydrated(ok))
          /\ UNCHANGED <<asked, want>>
    BY <1>3 DEF AdoptSecrets
  <2>. DEFINE list == Hydrated(ok)
  <2>2. list \in Rows
    BY HydratedType DEF Base, TypeOK
  <2>3. Own' /\ \A n \in Names : Stands(n)' \subseteq Stands(n)
    BY <1>1, <2>1, LoadStands DEF Marked
  <2>4. Marked => ok /\ bundle.mk \in {0, mk}
    <3>1. Marked => cache'.ok
      BY <2>1 DEF PwLoss, Save
    <3>. QED
      BY <2>1, <3>1, LoadsOwn DEF Loaded
  <2>5. \A n \in Names : /\ list[n] = Absent <=> ini[n] = Absent
                         /\ mk # 0 => list[n] # Marker
                         /\ mk = 0 => list[n] = ini[n]
    BY HydratedRows
  <2>6. \A n \in Names : ini[n] # Absent /\ want[n] # {} => Fits(ini[n], n, want[n])
    BY <1>1 DEF BearsNow, Pruned
  <2>7. \A n \in Names : ini[n] # Absent /\ want[n] # {} => Fits(list[n], n, want[n])
    BY <1>1, <2>4, <2>6, HydratedFits
  <2>8. Save(list)
    BY <2>1
  <2>. HIDE DEF list
  <2>9. asked'.row = None /\ \A n \in Names : Due(n)' = want[n]
    BY <1>2, <2>1 DEF Due, NoEdit
  <2>10. mk = 0 => \A n \in Names : list[n] = Marker => bundle.mk \in {0, hdr.mk}
    BY <2>5 DEF NoStray
  <2>11. \A n \in Names : list[n] # Absent /\ Due(n)' # {} => Fits(list[n], n, Due(n)')
    BY <2>5, <2>7, <2>9
  <2>12. \A n \in Names : ini[n] # Absent /\ want'[n] # {} => Fits(ini[n], n, want'[n])
    BY <2>1, <2>6
  <2>. QED
    BY <1>1, <2>2, <2>3, <2>5, <2>8, <2>9, <2>10, <2>11, <2>12, SavePasswords
<1>4. CASE ~ \E n \in Names : ini[n] \in Pws
  <2>1. Done /\ UNCHANGED <<cache, want>>
    BY <1>4 DEF AdoptSecrets
  <2>2. ~Saving' /\ tmp' = NoRows /\ asked' = NoEdit /\ Own' /\ GoesLast'
    BY <1>1, <2>1 DEF Done, Saving, Own, GoesLast
  <2>. QED
    BY <1>1, <1>2, <2>1, <2>2, QuietPasswords
<1>. QED
  BY <1>3, <1>4

\* A step of a save: a marker in a row that is kept goes on standing for
\* what it stood for, or for the password the save gives the row.
LEMMA BundlePasswords ==
  ASSUME PInv, Base', pc = "divert", Saving', UNCHANGED <<keyFiles, ini, mk, asked, want>>,
         Own', bundle'.mk \in {0, mk} \/ UNCHANGED <<bundle, tmp>>,
         \A n \in Names :
           /\ tmp'[n] = Absent <=> tmp[n] = Absent
           /\ \/ tmp'[n] = tmp[n] /\ Stands(n)' \subseteq Stands(n)
              \/ tmp[n] = Absent /\ pc' = "write"
              \/ /\ tmp[n] \in Pws /\ Stands(n)' \subseteq Stands(n) \union {tmp[n]}
                 /\ tmp'[n] = tmp[n] \/ (tmp'[n] = Marker /\ Stands(n)' = {tmp[n]})
  PROVE  PInv'
<1>. USE DEF PInv
<1>1. pc' \in {"divert", "write"} /\ Saving
  BY DEF Saving
<1>2. hdr.mk = mk
  BY DEF Base, Progress, StoreFits
<1>3. NoStray'
  BY <1>2 DEF NoStray
<1>4. GoesLast' /\ Asking'
  BY <1>1 DEF GoesLast, Asking
<1>5. \A n \in Names : tmp[n] # Absent /\ Due(n) # {} => Fits(tmp[n], n, Due(n))
  BY <1>1 DEF BearsSoon
<1>6. \A n \in Names : Due(n)' = Due(n)
  BY DEF Due
<1>7. Marker \notin Pws /\ Absent \notin Pws /\ Marker # Absent
  BY EmptyPlain
<1>8. BearsSoon'
  <2>. SUFFICES ASSUME NEW n \in Names, tmp'[n] # Absent, Due(n) # {}
                PROVE  Fits(tmp[n], n, Due(n))'
    BY <1>6 DEF BearsSoon
  <2>. QED
    BY <1>5, <1>6, <1>7 DEF Fits
<1>9. BearsNow'
  <2>. SUFFICES ASSUME NEW n \in Names, ini[n] # Absent, want[n] # {}, ~Pruned(n)'
                PROVE  Fits(ini[n], n, want[n])'
    BY DEF BearsNow
  <2>1. Fits(ini[n], n, want[n])
    BY DEF BearsNow, Pruned
  <2>2. CASE ini[n] # Marker
    BY <2>1, <2>2 DEF Fits
  <2>3. CASE ini[n] = Marker /\ Stands(n)' \subseteq Stands(n)
    BY <2>1, <2>3 DEF Fits
  <2>4. CASE /\ ini[n] = Marker /\ tmp[n] \in Pws
             /\ Stands(n)' \subseteq Stands(n) \union {tmp[n]}
    <3>1. Due(n) # {} /\ Due(n) \subseteq want[n]
      BY DEF Due, Asking, Base, TypeOK, CredTypes
    <3>2. tmp[n] \in want[n]
      BY <1>5, <1>7, <2>4, <3>1 DEF Fits
    <3>. QED
      BY <2>1, <2>4, <3>2 DEF Fits
  <2>. QED
    BY <1>7, <2>2, <2>3, <2>4 DEF Pruned
<1>. QED
  BY <1>3, <1>4, <1>8, <1>9

LEMMA DivertPasswords == ASSUME PInv, Base', Divert PROVE PInv'
<1>. USE DEF PInv
<1>1. PICK n \in todo, ok \in Loads, written \in Writes :
        /\ todo' = todo \ {n}
        /\ cache' = IF ok THEN [ok |-> TRUE, pw |-> [Content EXCEPT ![n] = tmp[n]]] ELSE cache
        /\ bundle' = IF ok /\ written THEN [mk |-> mk, pw |-> cache'.pw] ELSE bundle
        /\ tmp' = IF ok /\ written THEN [tmp EXCEPT ![n] = Marker] ELSE tmp
  BY DEF Divert
<1>2. /\ pc = "divert" /\ pc' = "divert" /\ Saving'
      /\ UNCHANGED <<keyFiles, ini, mk, asked, want>>
  BY DEF Divert, Saving
<1>3. ok \in BOOLEAN /\ (ok => bundle.mk \in {0, mk})
  BY LoadsOwn
<1>4. CASE ~ok
  <2>1. UNCHANGED <<bundle, tmp, cache>>
    BY <1>1, <1>4
  <2>2. Own' /\ \A k \in Names : Stands(k)' = Stands(k)
    BY <1>2, <2>1 DEF Own, Stands, OnFlash
  <2>. QED
    BY <1>2, <2>1, <2>2, BundlePasswords
<1>5. CASE ok
  <2>1. mk # 0 /\ hdr.mk = mk /\ hdr' = hdr /\ bundle.mk \in {0, mk}
    BY <1>2, <1>3, <1>5 DEF Base, Progress, StoreFits
  <2>2. /\ Content \in [Names -> Pws \union {Empty}]
        /\ tmp \in [Names -> Pws \union {Empty, Marker, Absent}]
        /\ n \in Names /\ tmp[n] \in Pws
    BY <1>1, <1>2, ContentType DEF Base, TypeOK, CredTypes, Rows, Progress
  <2>3. cache'.ok /\ cache'.pw = [Content EXCEPT ![n] = tmp[n]]
    BY <1>1, <1>5
  <2>4. Own' /\ bundle'.mk \in {0, mk}
    BY <1>1, <1>2, <2>1 DEF Own
  <2>5. \A k \in Names : Content[k] \in Stands(k)
    BY <2>1, ContentStands
  <2>6. \/ UNCHANGED <<bundle, tmp>>
        \/ /\ bundle'.mk = mk /\ bundle'.pw = cache'.pw
           /\ tmp' = [tmp EXCEPT ![n] = Marker]
    BY <1>1
  <2>7. ASSUME NEW k \in Names
        PROVE  \/ OnFlash(k)' = OnFlash(k) /\ tmp'[k] = tmp[k]
               \/ /\ OnFlash(k)' = cache'.pw[k]
                  /\ tmp'[k] = IF k = n THEN Marker ELSE tmp[k]
    BY <1>2, <2>1, <2>2, <2>6 DEF OnFlash
  <2>8. \A k \in Names : Stands(k)' = {OnFlash(k)', cache'.pw[k]}
    BY <2>3 DEF Stands
  <2>9. \A k \in Names : OnFlash(k) \in Stands(k)
    BY DEF Stands
  <2>10. \A k \in Names : k # n => tmp'[k] = tmp[k] /\ Stands(k)' \subseteq Stands(k)
    <3>1. \A k \in Names : k # n => cache'.pw[k] = Content[k]
      BY <2>2, <2>3
    <3>. QED
      BY <2>5, <2>7, <2>8, <2>9, <3>1
  <2>11. /\ Stands(n)' \subseteq Stands(n) \union {tmp[n]}
         /\ tmp'[n] = tmp[n] \/ (tmp'[n] = Marker /\ Stands(n)' = {tmp[n]})
    <3>1. cache'.pw[n] = tmp[n]
      BY <2>2, <2>3
    <3>. QED
      BY <2>2, <2>7, <2>8, <2>9, <3>1
  <2>12. \A k \in Names : tmp'[k] = Absent <=> tmp[k] = Absent
    BY <2>2, <2>10, <2>11, EmptyPlain
  <2>. QED
    BY <1>2, <2>2, <2>4, <2>10, <2>11, <2>12, BundlePasswords
<1>. QED
  BY <1>3, <1>4, <1>5

LEMMA PrunePasswords == ASSUME PInv, Base', Prune PROVE PInv'
<1>. USE DEF PInv
<1>. DEFINE kept == [n \in Names |-> IF tmp[n] = Absent THEN Empty ELSE Content[n]]
<1>1. PICK ok \in Loads, written \in Writes :
        /\ cache' = IF ok THEN [ok |-> TRUE, pw |-> kept] ELSE cache
        /\ bundle' = CASE ~ok \/ kept = Content -> bundle
                       [] ok /\ kept # Content /\ kept = NoPws -> NoBundle
                       [] OTHER -> IF written THEN [mk |-> mk, pw |-> kept] ELSE bundle
  BY DEF Prune
<1>2. /\ pc = "divert" /\ pc' = "write" /\ Saving'
      /\ UNCHANGED <<keyFiles, ini, mk, tmp, asked, want>>
  BY DEF Prune, Saving
<1>3. ok \in BOOLEAN /\ (ok => bundle.mk \in {0, mk})
  BY LoadsOwn
<1>4. \A n \in Names : tmp[n] # Absent => kept[n] = Content[n]
  OBVIOUS
<1>5. \/ UNCHANGED <<bundle, cache>>
      \/ /\ ok /\ cache' = [ok |-> TRUE, pw |-> kept]
         /\ \/ UNCHANGED bundle
            \/ kept = NoPws /\ bundle' = NoBundle
            \/ bundle' = [mk |-> mk, pw |-> kept]
  <2>. HIDE DEF kept
  <2>. QED
    BY <1>1, <1>3
<1>. HIDE DEF kept
<1>6. CASE UNCHANGED <<bundle, cache>>
  <2>1. Own' /\ \A n \in Names : Stands(n)' = Stands(n)
    BY <1>2, <1>6 DEF Own, Stands, OnFlash
  <2>. QED
    BY <1>2, <1>6, <2>1, BundlePasswords
<1>7. CASE /\ ok /\ cache' = [ok |-> TRUE, pw |-> kept]
           /\ \/ UNCHANGED bundle
              \/ kept = NoPws /\ bundle' = NoBundle
              \/ bundle' = [mk |-> mk, pw |-> kept]
  <2>1. mk # 0 /\ hdr.mk = mk /\ hdr' = hdr /\ bundle.mk \in {0, mk}
    BY <1>2, <1>3, <1>7 DEF Base, Progress, StoreFits
  <2>2. Own' /\ bundle'.mk \in {0, mk}
    BY <1>2, <1>7, <2>1 DEF Own, NoBundle
  <2>3. ASSUME NEW n \in Names, tmp[n] # Absent PROVE Stands(n)' \subseteq Stands(n)
    <3>1. kept[n] = Content[n] /\ Content[n] \in Stands(n) /\ OnFlash(n) \in Stands(n)
      BY <1>4, <2>1, <2>3, ContentStands DEF Stands
    <3>2. Stands(n)' = {OnFlash(n)', kept[n]}
      BY <1>7 DEF Stands
    <3>3. CASE UNCHANGED bundle
      BY <2>1, <3>1, <3>2, <3>3 DEF OnFlash
    <3>4. CASE kept = NoPws /\ bundle' = NoBundle
      <4>1. OnFlash(n)' = Empty /\ kept[n] = Empty
        BY <2>1, <3>4 DEF OnFlash, NoBundle, NoPws
      <4>. QED
        BY <3>1, <3>2, <4>1
    <3>5. CASE bundle' = [mk |-> mk, pw |-> kept]
      BY <2>1, <3>1, <3>2, <3>5 DEF OnFlash
    <3>. QED
      BY <1>7, <3>3, <3>4, <3>5
  <2>. QED
    BY <1>2, <2>2, <2>3, BundlePasswords
<1>. QED
  BY <1>5, <1>6, <1>7

\* The end of a save whose list is not written: nothing was pruned of a
\* profile that is kept.
LEMMA UnwrittenPasswords ==
  ASSUME PInv, Base', WriteIni \/ Crash, ini' = ini, want' = want, ~PwLoss PROVE PInv'
<1>. USE DEF PInv
<1>1. /\ pc' = "idle" /\ tmp' = NoRows /\ asked' = NoEdit
      /\ UNCHANGED <<hdr, bundle>> /\ (cache' = Cold \/ UNCHANGED <<cache, mk>>)
  BY DEF WriteIni, Crash, Done
<1>2. Own' /\ GoesLast' /\ Asking' /\ BearsSoon'
  BY <1>1 DEF Own, GoesLast, Asking, BearsSoon, NoEdit, Saving, Cold
<1>3. NoStray'
  BY <1>1 DEF NoStray, NoRows, Marker, Absent
<1>4. \A n \in Names : Stands(n)' \subseteq Stands(n)
  BY <1>1 DEF Stands, OnFlash, Cold
<1>5. \A n \in Names : want[n] # {} => ~Pruned(n)
  BY DEF PwLoss, Pruned
<1>6. BearsNow'
  BY <1>4, <1>5 DEF BearsNow, Fits
<1>. QED
  BY <1>2, <1>3, <1>6

LEMMA WritePasswords == ASSUME PInv, Base', WriteIni, ~PwLoss PROVE PInv'
<1>1. CASE ini' = ini /\ want' = want
  BY <1>1, UnwrittenPasswords
<1>2. CASE ini' = tmp /\ want' = [n \in Names |-> Due(n)]
  <2>. USE DEF PInv
  <2>1. /\ pc = "write" /\ pc' = "idle" /\ ~Saving' /\ Saving
        /\ tmp' = NoRows /\ asked' = NoEdit /\ UNCHANGED <<hdr, bundle, mk, cache>>
    BY DEF WriteIni, Done, Saving
  <2>2. Own' /\ NoStray'
    BY <1>2, <2>1 DEF Own, NoStray, NoRows, Marker, Absent
  <2>3. GoesLast' /\ Asking' /\ BearsSoon'
    BY <2>1 DEF GoesLast, Asking, BearsSoon, NoEdit
  <2>4. \A n \in Names : Stands(n)' = Stands(n)
    BY <2>1 DEF Stands, OnFlash
  <2>5. BearsNow'
    BY <1>2, <2>1, <2>4 DEF BearsNow, BearsSoon, Fits
  <2>. QED
    BY <2>2, <2>3, <2>5
<1>. QED
  BY <1>1, <1>2 DEF WriteIni, Due

LEMMA RestorePasswords == ASSUME PInv, Base', Restore PROVE PInv'
<1>. USE DEF PInv
<1>1. PICK ok \in Loads, written \in Writes :
        /\ cache' = Loaded(ok)
        /\ ini' = IF ok /\ Content # NoPws /\ written THEN Hydrated(ok) ELSE ini
  BY DEF Restore
<1>2. /\ pc = "restore" /\ pc' = "dropbundle"
      /\ UNCHANGED <<hdr, bundle, mk, tmp, asked, want>>
  BY DEF Restore
<1>3. mk # 0 /\ hdr.mk = mk /\ tmp = NoRows /\ ~Saving /\ ~Saving' /\ asked = NoEdit
  BY <1>2 DEF Base, Progress, StoreFits, TypeOK, Saving, Asking
<1>4. Own' /\ \A n \in Names : Stands(n)' \subseteq Stands(n)
  BY <1>1, <1>2, <1>3, LoadStands
<1>5. ASSUME NEW n \in Names
      PROVE  /\ ini'[n] = Absent <=> ini[n] = Absent
             /\ ini'[n] = Marker => ini[n] = Marker
             /\ \A set \in SUBSET (Pws \union {Empty}) :
                  Fits(ini[n], n, set) => Fits(ini'[n], n, set)
  <2>1. CASE ini' = ini
    BY <2>1
  <2>2. CASE ok /\ ini' = Hydrated(ok)
    <3>1. bundle.mk \in {0, mk}
      BY <2>2, LoadsOwn
    <3>2. /\ Hydrated(ok)[n] = Absent <=> ini[n] = Absent
          /\ Hydrated(ok)[n] # Marker
      BY <1>3, HydratedRows
    <3>3. \A set \in SUBSET (Pws \union {Empty}) :
            Fits(ini[n], n, set) => Fits(Hydrated(ok)[n], n, set)
      BY <1>2, <2>2, <3>1, HydratedFits
    <3>. QED
      BY <2>2, <3>2, <3>3
  <2>. QED
    BY <1>1, <2>1, <2>2
<1>6. NoStray'
  BY <1>2, <1>3, <1>5 DEF NoStray, NoRows, Marker, Absent
<1>7. GoesLast' /\ Asking' /\ BearsSoon'
  BY <1>2, <1>3 DEF GoesLast, Asking, BearsSoon, NoEdit
<1>8. BearsNow'
  <2>. SUFFICES ASSUME NEW n \in Names, ini'[n] # Absent, want[n] # {}
                PROVE  Fits(ini[n], n, want[n])'
    BY <1>2 DEF BearsNow
  <2>1. Fits(ini[n], n, want[n])
    BY <1>2, <1>5 DEF BearsNow, Pruned
  <2>2. Fits(ini'[n], n, want[n])
    BY <1>5, <2>1 DEF Base, TypeOK, CredTypes
  <2>. QED
    BY <1>2, <1>4, <2>2 DEF Fits
<1>. QED
  BY <1>4, <1>6, <1>7, <1>8

LEMMA DropBundlePasswords == ASSUME PInv, Base', DropBundle, ~PwLoss PROVE PInv'
<1>. USE DEF PInv
<1>1. /\ pc = "dropbundle" /\ pc' = "emit" /\ bundle' = NoBundle /\ cache' = Cold
      /\ UNCHANGED <<hdr, ini, mk, tmp, asked, want>>
  BY DEF DropBundle
<1>2. tmp = NoRows /\ ~Saving /\ ~Saving' /\ asked = NoEdit /\ bundle'.mk = 0
  BY <1>1 DEF Base, TypeOK, Saving, Asking, NoBundle
<1>3. Own' /\ NoStray' /\ GoesLast'
  BY <1>1, <1>2 DEF Own, NoStray, GoesLast, Cold
<1>4. Asking' /\ BearsSoon'
  BY <1>1, <1>2 DEF Asking, BearsSoon, NoEdit
<1>5. \A n \in Names : Stands(n)' = {Empty}
  BY <1>1, <1>2 DEF Stands, OnFlash, Cold
<1>6. \A n \in Names : ini[n] = Marker /\ want[n] # {} => OnFlash(n) = Empty
  BY DEF PwLoss, OnFlash
<1>7. BearsNow'
  BY <1>1, <1>5, <1>6 DEF BearsNow, Fits, Pruned, Stands
<1>. QED
  BY <1>3, <1>4, <1>7

LEMMA ResetPasswords == ASSUME PInv, Base', FactoryReset \/ WipeFile PROVE PInv'
<1>. USE DEF PInv
<1>1. /\ pc' \in {"reset", "wipe"} /\ ini' = NoRows /\ tmp' = NoRows
      /\ ~Saving' /\ asked' = NoEdit
  BY DEF FactoryReset, WipeFile, Base, TypeOK, GoesLast, Saving, Asking
<1>2. GoesLast' /\ Asking' /\ BearsSoon'
  BY <1>1 DEF GoesLast, Asking, BearsSoon, NoEdit
<1>3. Own'
  BY DEF FactoryReset, WipeFile, Own, NoBundle
<1>4. NoStray' /\ BearsNow'
  BY <1>1 DEF NoStray, BearsNow, NoRows, Marker, Absent
<1>. QED
  BY <1>2, <1>3, <1>4

LEMMA CrashPasswords == ASSUME PInv, Base', Crash, ~PwLoss PROVE PInv'
<1>1. ini' = ini /\ want' = want
  BY DEF Crash
<1>. QED
  BY <1>1, UnwrittenPasswords

LEMMA StutterPasswords == ASSUME PInv, UNCHANGED vars PROVE PInv'
<1>1. Base'
  BY StutterBase DEF PInv
<1>. QED
  BY <1>1 DEF PInv, vars, Own, NoStray, GoesLast, Asking, BearsNow, BearsSoon, Saving,
     Pruned, Fits, Stands, OnFlash, Due

LEMMA NextPasswords == ASSUME PInv, [Next]_vars, [~PwLoss]_vars PROVE PInv'
<1>1. CASE UNCHANGED vars
  BY <1>1, StutterPasswords
<1>. SUFFICES ASSUME Next, ~PwLoss PROVE PInv'
  BY <1>1
<1>2. Base'
  BY NextBase DEF PInv
<1>3. Elsewhere \/ EditProfile \/ AdoptSecrets \/ SaveStep \/ Restore \/ DropBundle
        \/ FactoryReset \/ WipeFile \/ Crash
  BY DEF Next, Calls, Work, AdoptStep, RemoveStep, ResetStep, Elsewhere
<1>. QED
  BY <1>2, <1>3, ElsewherePasswords, EditPasswords, AdoptPasswords, DivertPasswords,
     PrunePasswords, WritePasswords, RestorePasswords, DropBundlePasswords, ResetPasswords,
     CrashPasswords
  DEF SaveStep

LEMMA InitPasswords == ASSUME Init PROVE PInv
<1>1. Base
  BY InitBase
<1>2. Own /\ GoesLast /\ Asking /\ BearsSoon
  BY DEF Init, Own, GoesLast, Asking, BearsSoon, Saving, Cold, NoEdit
<1>3. NoStray /\ BearsNow
  BY DEF Init, NoStray, BearsNow, NoRows, Marker, Absent
<1>. QED
  BY <1>1, <1>2, <1>3 DEF PInv

(* No profile loses or reverts its password, with any write or load        *)
(* failing, power failing anywhere, and whatever store is created, removed *)
(* or reset, but by one of the steps that PwLoss names.                    *)
THEOREM PasswordsSurvive == Spec /\ [][~PwLoss]_vars => []CredentialKept
<1>1. Init => PInv
  BY InitPasswords
<1>2. PInv /\ [Next]_vars /\ [~PwLoss]_vars => PInv'
  BY NextPasswords
<1>3. PInv => CredentialKept
  BY DEF PInv, BearsNow, Fits, Stands, OnFlash, Pruned, CredentialKept, PwNow
<1>. QED
  BY <1>1, <1>2, <1>3, PTL DEF Spec

-----------------------------------------------------------------------------
(* With the store open, no password stays in plaintext.                    *)

(* The three steps that leave a password in plaintext with the store open  *)
(* and a bundle that it can read: a password the bundle does not take; a   *)
(* list that is not written, with the one it replaces in plaintext; and a  *)
(* removal that gives up after the passwords were restored.                *)
LeftPlain ==
  /\ mk # 0 /\ bundle.mk \in {0, mk}
  /\ \/ Divert /\ tmp' = tmp
     \/ WriteIni /\ ini' # tmp /\ \E n \in Names : ini[n] \in Pws
     \/ EmitFails /\ was /\ \E n \in Names : ini[n] \in Pws

(* What the calls on an open store find in profiles.ini, and the save      *)
(* under way will leave in it.                                             *)
Swept ==
  mk # 0 /\ bundle.mk \in {0, mk} =>
    /\ pc \in {"idle", "setrm"} \/ job = "delete" => \A n \in Names : ini[n] \notin Pws
    /\ pc = "divert" => \A n \in Names : tmp[n] \in Pws => n \in todo
    /\ pc = "write" => \A n \in Names : tmp[n] \notin Pws

LEMMA NextOwn == ASSUME Base, Own, [Next]_vars PROVE Own'
<1>1. CASE Elsewhere
  BY <1>1, ElsewhereCache
<1>2. CASE EditProfile \/ AdoptSecrets
  <2>1. PICK ok \in Loads : cache' = cache \/ (Marked /\ cache' = Loaded(ok))
    <3>1. TRUE \in Loads \/ FALSE \in Loads
      BY DEF Loads, Writes
    <3>. QED
      BY <1>2, <3>1, Zenon DEF EditProfile, AdoptSecrets
  <2>2. pc \in {"idle", "adopt"} /\ UNCHANGED <<hdr, bundle, mk>>
    BY <1>2 DEF EditProfile, AdoptSecrets
  <2>. QED
    BY <2>1, <2>2, LoadStands DEF Marked
<1>3. CASE Divert \/ Prune
  <2>1. PICK ok \in Loads :
          /\ ok \/ cache' = cache
          /\ bundle'.mk \in {0, mk, bundle.mk}
    BY <1>3 DEF Divert, Prune, NoBundle
  <2>2. mk' = mk
    BY <1>3 DEF Divert, Prune
  <2>3. ok => bundle.mk \in {0, mk}
    BY LoadsOwn
  <2>. QED
    BY <2>1, <2>2, <2>3 DEF Own
<1>4. CASE Restore
  <2>1. PICK ok \in Loads : cache' = Loaded(ok)
    BY <1>4 DEF Restore
  <2>2. pc = "restore" /\ mk # 0 /\ UNCHANGED <<hdr, bundle, mk>>
    BY <1>4 DEF Restore, Base, Progress
  <2>. QED
    BY <2>1, <2>2, LoadStands
<1>5. CASE WriteIni \/ DropBundle \/ FactoryReset \/ WipeFile \/ Crash \/ UNCHANGED vars
  BY <1>5 DEF WriteIni, DropBundle, FactoryReset, WipeFile, Crash, vars, Own, Cold,
     NoBundle
<1>. QED
  BY <1>1, <1>2, <1>3, <1>4, <1>5
  DEF Next, Calls, Work, SaveStep, AdoptStep, RemoveStep, ResetStep, Elsewhere

LEMMA SweptCalls == ASSUME Base, Base', Own, Swept, Calls PROVE Swept'
<1>. USE DEF Swept
<1>1. CASE EditProfile
  <2>1. \E list \in Rows : Save(list)
    BY <1>1, HydratedType, PutEdits, RenameEdits, DropEdits
    DEF EditProfile, Edited, Base, TypeOK
  <2>. QED
    BY <1>1, <2>1 DEF EditProfile, Save, Base, Progress
<1>2. CASE SetKey \/ DeleteKey \/ ChangePin
  BY <1>2 DEF SetKey, DeleteKey, ChangePin, Base, Progress
<1>3. CASE Create \/ Unlock \/ RemoveStart
  BY <1>3 DEF Create, Unlock, RemoveStart, StartAdopt, Base, Progress
<1>4. CASE Lock \/ FactoryReset
  BY <1>4 DEF Lock, FactoryReset, Base, Progress
<1>. QED
  BY <1>1, <1>2, <1>3, <1>4 DEF Calls

LEMMA SweptSave == ASSUME ~LeftPlain, Base, Base', Own, Swept, SaveStep PROVE Swept'
<1>. USE DEF Swept
<1>1. mk # 0 /\ pc = "divert" => job # "delete"
  BY DEF Base, Progress
<1>2. CASE Divert
  <2>1. PICK n \in todo, ok \in Loads, written \in Writes :
          /\ todo' = todo \ {n}
          /\ bundle' = IF ok /\ written THEN [mk |-> mk, pw |-> cache'.pw] ELSE bundle
          /\ tmp' = IF ok /\ written THEN [tmp EXCEPT ![n] = Marker] ELSE tmp
    BY <1>2 DEF Divert
  <2>2. pc = "divert" /\ pc' = "divert" /\ mk # 0 /\ UNCHANGED <<mk, job, ini>>
    BY <1>2 DEF Divert, Base, Progress
  <2>3. ok => bundle.mk \in {0, mk}
    BY LoadsOwn
  <2>4. tmp \in [Names -> Pws \union {Empty, Marker, Absent}] /\ Marker \notin Pws
    BY DEF Base, TypeOK, CredTypes, Rows
  <2>5. CASE ok /\ written
    <3>1. tmp' = [tmp EXCEPT ![n] = Marker] /\ bundle.mk \in {0, mk}
      BY <2>1, <2>3, <2>5
    <3>2. \A k \in Names : tmp'[k] \in Pws => k # n /\ tmp[k] \in Pws
      BY <2>4, <3>1
    <3>3. \A k \in Names : tmp'[k] \in Pws => k \in todo'
      BY <2>1, <2>2, <3>1, <3>2
    <3>. QED
      BY <2>2, <3>3 DEF Base, Progress
  <2>6. CASE ~(ok /\ written)
    <3>1. tmp' = tmp /\ bundle' = bundle
      BY <2>1, <2>6
    <3>. QED
      BY <1>2, <2>2, <3>1 DEF LeftPlain
  <2>. QED
    BY <2>5, <2>6
<1>3. CASE Prune
  <2>1. /\ pc = "divert" /\ todo = {} /\ pc' = "write"
        /\ UNCHANGED <<mk, job, ini, tmp>>
    BY <1>3 DEF Prune
  <2>2. bundle'.mk \in {0, mk} => bundle.mk \in {0, mk}
    BY <1>3, <2>1, LoadsOwn DEF Prune
  <2>. QED
    BY <2>1, <2>2 DEF Base, Progress
<1>4. CASE WriteIni
  <2>1. pc = "write" /\ pc' = "idle" /\ UNCHANGED <<mk, bundle>>
    BY <1>4 DEF WriteIni, Done
  <2>2. ini' = tmp \/ ini' = ini
    BY <1>4 DEF WriteIni
  <2>3. mk # 0 /\ bundle.mk \in {0, mk} => \A n \in Names : ini'[n] \notin Pws
    BY <1>4, <2>1, <2>2 DEF LeftPlain
  <2>. QED
    BY <2>1, <2>3
<1>. QED
  BY <1>2, <1>3, <1>4 DEF SaveStep

LEMMA SweptKeys == ASSUME Base, Base', Swept, KeyStep PROVE Swept'
  BY DEF Swept, KeyStep, SetKeyDone, ShredZero, ShredRemove, DeleteWrapped, Done, Base,
     Progress

LEMMA SweptAdopt == ASSUME Base, Base', Swept, AdoptStep PROVE Swept'
<1>. USE DEF Swept
<1>1. CASE AdoptKey
  BY <1>1 DEF AdoptKey, Base, Progress
<1>2. CASE AdoptSecrets
  <2>1. pc = "adopt" /\ job = "adopt" /\ UNCHANGED <<bundle, ini, mk>>
    BY <1>2 DEF AdoptSecrets, Base, Progress
  <2>2. \/ (\A n \in Names : ini[n] \notin Pws) /\ Done
        \/ \E ok \in Loads : Save(Hydrated(ok))
    BY <1>2 DEF AdoptSecrets
  <2>. QED
    BY <2>1, <2>2 DEF Save, Done
<1>. QED
  BY <1>1, <1>2 DEF AdoptStep

LEMMA SweptRest ==
  ASSUME ~LeftPlain, Base, Base', Swept,
         RemoveStep \/ ResetStep \/ Crash \/ UNCHANGED vars
  PROVE  Swept'
<1>. USE DEF Swept
<1>1. CASE Restore \/ DropBundle \/ Emit \/ Emitted \/ DropHeader
  BY <1>1 DEF Restore, DropBundle, Emit, Emitted, DropHeader, Done, Base, Progress
<1>2. CASE EmitFails
  <2>1. pc' = "idle" /\ job' = "none" /\ mk' \in {0, mk} /\ UNCHANGED <<bundle, ini>>
    BY <1>2 DEF EmitFails, Done
  <2>2. mk' # 0 => was
    BY <1>2 DEF EmitFails
  <2>. QED
    BY <1>2, <2>1, <2>2 DEF LeftPlain
<1>3. CASE ResetHeader \/ WipeFile \/ WipeDone
  BY <1>3 DEF ResetHeader, WipeFile, WipeDone, Done, Base, Progress
<1>4. CASE Crash \/ UNCHANGED vars
  BY <1>4 DEF Crash, Done, vars
<1>. QED
  BY <1>1, <1>2, <1>3, <1>4 DEF RemoveStep, ResetStep

LEMMA NextSwept == ASSUME ~LeftPlain, Base, Own, Swept, [Next]_vars PROVE Swept'
<1>1. Base'
  BY NextBase
<1>. QED
  BY <1>1, SweptCalls, SweptSave, SweptKeys, SweptAdopt, SweptRest DEF Next, Work

(* As long as no step of LeftPlain is taken, no password is in plaintext   *)
(* between two calls with the store open and a bundle of its own, whatever *)
(* else fails and wherever power does: each unlock adopts what it finds,   *)
(* what a lock, a removal or a cut left behind included.                   *)
THEOREM PasswordsDiverted == Spec /\ [][~LeftPlain]_vars => []DivertedUnlessForeign
<1>1. Init => Base /\ Own /\ Swept
  <2>1. Init => Own /\ Swept
    BY DEF Init, Own, Cold, Swept
  <2>. QED
    BY <2>1, InitBase
<1>2. Base /\ Own /\ Swept /\ [Next]_vars /\ [~LeftPlain]_vars => (Base /\ Own /\ Swept)'
  <2>1. CASE UNCHANGED vars
    BY <2>1, NextBase, NextOwn DEF vars, Swept
  <2>2. CASE ~LeftPlain
    BY <2>2, NextBase, NextOwn, NextSwept
  <2>. QED
    BY <2>1, <2>2
<1>3. Base /\ Swept => DivertedUnlessForeign
  BY DEF Base, Swept, DivertedUnlessForeign, SecretsDiverted
<1>. QED
  BY <1>1, <1>2, <1>3, PTL DEF Spec
=============================================================================
