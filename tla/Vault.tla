-------------------------------- MODULE Vault --------------------------------
(***************************************************************************)
(* keystore.c and the credential half of storage.c: what lies on flash,    *)
(* what the unlocked store holds in RAM, and the order in which the files  *)
(* are replaced. Power can fail between any two file operations.           *)
(*                                                                         *)
(* A key is keys/<id>.pem (plaintext) or keys/<id>.kw1 (wrapped under a    *)
(* master key). A profile's password is a field of profiles.ini, or lies   *)
(* in the bundle keys/secrets.kw1 with the marker "@bundle" in its field;  *)
(* wifi.ini is handled the same way and is not repeated here. LittleFS     *)
(* replaces a file atomically (ks_write_atomic, atomic_close), so a write  *)
(* happens, or fails and changes nothing. Calls do not overlap: the shell  *)
(* waits for the unlock worker, and while the web importer's handlers run  *)
(* it stays on a screen that touches no file. The failed-attempt backoff   *)
(* only refuses calls, and a refused or mistyped code changes nothing here.*)
(***************************************************************************)
EXTENDS Naturals, FiniteSets

CONSTANTS
  Ids,        \* key ids
  Mats,       \* key material
  Names,      \* profile names
  Pws,        \* passwords
  Codes,      \* access codes
  MaxStores,  \* bound: stores ever created
  ScanMax,    \* ids per storage_scan_key_ext (16)
  Edits,      \* what the profile editor does: "put", "rename", "drop"
  GateHolds,  \* keys and profiles are edited only with the store open or absent
  MayFail,    \* file writes and allocations may fail
  Cuts        \* the places of a call (Steps) in which power may fail

None   == "none"
Zeros  == "zeros"      \* a file overwritten with zeros
Empty  == ""           \* password=
Marker == "@bundle"    \* STORAGE_PW_BUNDLED
Absent == "absent"     \* no such profile in the file

\* The next file operation of a call.
Steps == {"idle", "adopt", "zero", "unlink", "delkw", "setrm", "divert", "write",
          "restore", "dropbundle", "emit", "emitted", "reset", "wipe"}

ASSUME ConstAssumption ==
  /\ {None, Zeros} \cap Mats = {} /\ None \notin Ids \union Names
  /\ {Empty, Marker, Absent} \cap Pws = {}
  /\ IsFiniteSet(Ids) /\ MaxStores \in Nat /\ ScanMax \in Nat
  /\ Edits \subseteq {"put", "rename", "drop"}
  /\ GateHolds \in BOOLEAN /\ MayFail \in BOOLEAN /\ Cuts \subseteq Steps

VARIABLES
  hdr,     \* keystore.kv1: which master key it holds (0: no file), under which code
  pem,     \* keys/<id>.pem
  kw,      \* keys/<id>.kw1: under which master key (0: no file), and what
  bundle,  \* keys/secrets.kw1
  ini,     \* password fields of profiles.ini
  mk,      \* s_ks.mk: the master key in RAM, 0 while locked
  cache,   \* s_sec, s_sec_loaded
  pc,      \* the next file operation of the call under way
  job,     \* which call: adopting keys, deleting one, or none of them
  todo,    \* ids or names it has still to go through
  cur,     \* the id in hand
  tmp,     \* s_save_tmp: the profile list being saved
  was,     \* was_unlocked of keystore_remove
  stores,  \* stores created so far
  good,    \* (history) the material last stored under an id
  asked,   \* (history) the row the save under way gives a password, and which
  want     \* (history) passwords a profile may have; {} once it is being dropped

keyFiles == <<hdr, pem, kw>>
credFiles == <<bundle, ini>>
call == <<job, cur, was>>
ghosts == <<good, asked, want>>
vars == <<keyFiles, credFiles, mk, cache, pc, call, todo, tmp, stores, ghosts>>

NoWrap == [mk |-> 0, mat |-> None]
NoPws  == [n \in Names |-> Empty]
NoRows == [n \in Names |-> Absent]
NoBundle == [mk |-> 0, pw |-> NoPws]
Cold   == [ok |-> FALSE, pw |-> NoPws]
NoEdit == [row |-> None, pw |-> Empty]

\* A call in one of these places has the key cur in hand.
InHand == {"zero", "unlink", "delkw", "setrm", "emitted"}

Wraps == {NoWrap} \union [mk : 1..MaxStores, mat : Mats \union {Zeros}]
Rows == [Names -> Pws \union {Empty, Marker, Absent}]
Bundles == {NoBundle} \union [mk : 1..MaxStores, pw : [Names -> Pws \union {Empty}]]

KeyTypes ==
  /\ hdr \in [mk : 0..MaxStores, code : Codes \union {None}]
  /\ pem \in [Ids -> Mats \union {None, Zeros}] /\ kw \in [Ids -> Wraps]
  /\ mk \in 0..MaxStores /\ stores \in 0..MaxStores
  /\ good \in [Ids -> Mats \union {None}]

CredTypes ==
  /\ bundle \in Bundles
  /\ ini \in Rows
  /\ cache \in [ok : BOOLEAN, pw : [Names -> Pws \union {Empty}]]
  /\ tmp \in Rows
  /\ asked \in [row : Names \union {None}, pw : Pws \union {Empty}]
  /\ want \in [Names -> SUBSET (Pws \union {Empty})]

CallTypes ==
  /\ pc \in Steps /\ job \in {"none", "adopt", "delete"} /\ was \in BOOLEAN
  /\ todo \subseteq Ids \union Names /\ cur \in Ids \union {None}

(* Every variable in its range; the staging copy of the profile list       *)
(* exists only while a save runs, and nothing secret is left when it ends. *)
TypeOK ==
  /\ KeyTypes /\ CredTypes /\ CallTypes
  /\ pc \notin {"divert", "write"} => tmp = NoRows

Init ==
  /\ hdr = [mk |-> 0, code |-> None]
  /\ pem = [i \in Ids |-> None] /\ kw = [i \in Ids |-> NoWrap]
  /\ bundle = NoBundle /\ ini = NoRows
  /\ mk = 0 /\ cache = Cold
  /\ pc = "idle" /\ job = "none" /\ todo = {} /\ cur = None /\ tmp = NoRows
  /\ was = FALSE /\ stores = 0
  /\ good = [i \in Ids |-> None] /\ asked = NoEdit /\ want = [n \in Names |-> {}]

-----------------------------------------------------------------------------
(* Helpers. A write succeeds, or may fail and then changes nothing.        *)
Writes == IF MayFail THEN BOOLEAN ELSE {TRUE}

Done ==
  /\ pc' = "idle" /\ job' = "none" /\ todo' = {} /\ cur' = None
  /\ tmp' = NoRows /\ asked' = NoEdit /\ was' = FALSE

\* storage_scan_key_ext: at most ScanMax of the files there are, in no
\* particular order.
Scan(files) ==
  {s \in SUBSET files : Cardinality(s) = ScanMax \/ (s = files /\ Cardinality(s) < ScanMax)}
Plain   == {i \in Ids : pem[i] # None}
Wrapped == {i \in Ids : kw[i].mk # 0}

\* secrets_load: the cache once loaded; else the file if this master key
\* opens it, and there is memory for it.
Loads ==
  IF cache.ok \/ bundle.mk = 0 THEN {TRUE}
  ELSE IF bundle.mk = mk THEN Writes
  ELSE {FALSE}
Content == IF cache.ok THEN cache.pw ELSE bundle.pw
Loaded(ok) == IF ok THEN [ok |-> TRUE, pw |-> Content] ELSE cache

\* storage_load_profiles: markers are replaced while the store is open.
Marked == mk # 0 /\ \E n \in Names : ini[n] = Marker
Hydrated(ok) ==
  [n \in Names |-> IF mk = 0 \/ ini[n] # Marker THEN ini[n]
                   ELSE IF ok THEN Content[n] ELSE Empty]

-----------------------------------------------------------------------------
(* storage_save_profiles. Open: each plaintext password goes to the bundle *)
(* (keystore_secret_set), the bundle is pruned against the list            *)
(* (keystore_secrets_prune), the ini is written. Else the ini is written   *)
(* as it is.                                                               *)
Save(list) ==
  /\ tmp' = list
  /\ IF mk # 0 THEN pc' = "divert" /\ todo' = {n \in Names : list[n] \in Pws}
               ELSE pc' = "write" /\ todo' = {}
  /\ UNCHANGED call

\* Variant: the row loses its password even if the bundle did not take it.
DivertAlways ==
  /\ pc = "divert"
  /\ \E n \in todo, ok \in Loads, written \in Writes :
       /\ todo' = todo \ {n}
       /\ cache' = IF ok THEN [ok |-> TRUE, pw |-> [Content EXCEPT ![n] = tmp[n]]] ELSE cache
       /\ bundle' = IF ok /\ written THEN [mk |-> mk, pw |-> cache'.pw] ELSE bundle
       /\ tmp' = [tmp EXCEPT ![n] = Marker]
  /\ UNCHANGED <<keyFiles, ini, mk, pc, call, stores, ghosts>>

Divert ==
  /\ pc = "divert"
  /\ \E n \in todo, ok \in Loads, written \in Writes :
       /\ todo' = todo \ {n}
       /\ cache' = IF ok THEN [ok |-> TRUE, pw |-> [Content EXCEPT ![n] = tmp[n]]] ELSE cache
       /\ bundle' = IF ok /\ written THEN [mk |-> mk, pw |-> cache'.pw] ELSE bundle
       /\ tmp' = IF ok /\ written THEN [tmp EXCEPT ![n] = Marker] ELSE tmp
  /\ UNCHANGED <<keyFiles, ini, mk, pc, call, stores, ghosts>>

Prune ==
  /\ pc = "divert" /\ todo = {}
  /\ \E ok \in Loads, written \in Writes :
       LET kept == [n \in Names |-> IF tmp[n] = Absent THEN Empty ELSE Content[n]]
       IN  /\ cache' = IF ok THEN [ok |-> TRUE, pw |-> kept] ELSE cache
           /\ bundle' = CASE ~ok \/ kept = Content -> bundle
                          [] ok /\ kept # Content /\ kept = NoPws -> NoBundle
                          [] OTHER -> IF written THEN [mk |-> mk, pw |-> kept] ELSE bundle
  /\ pc' = "write"
  /\ UNCHANGED <<keyFiles, ini, mk, call, todo, tmp, stores, ghosts>>

WriteIni ==
  /\ pc = "write"
  /\ \/ /\ ini' = tmp
        /\ want' = [n \in Names |-> IF n = asked.row THEN {asked.pw} ELSE want[n]]
     \/ MayFail /\ UNCHANGED <<ini, want>>
  /\ Done
  /\ UNCHANGED <<keyFiles, bundle, mk, cache, stores, good>>

(* The shell's screens write keys and profiles with the store open or       *)
(* absent, if the gate holds.                                              *)
Gate == GateHolds => hdr.mk = 0 \/ mk # 0

(* A new or edited row, a renamed one, one that is deleted.                *)
PutRow(old) ==
  \E n \in Names, p \in Pws \union {Empty} :
    /\ "put" \in Edits
    /\ Save([old EXCEPT ![n] = p])
    /\ asked' = [row |-> n, pw |-> p]
    /\ want' = [want EXCEPT ![n] = IF ini[n] = Absent THEN {p}
                                   ELSE IF @ = {} THEN @ ELSE @ \union {p}]

RenameRow(old) ==
  \E n, m \in Names :
    /\ "rename" \in Edits
    /\ old[n] # Absent /\ old[m] = Absent
    /\ Save([old EXCEPT ![n] = Absent, ![m] = old[n]])
    /\ want' = [want EXCEPT ![m] = want[n]]
    /\ UNCHANGED asked

DropRow(old) ==
  \E n \in Names :
    /\ "drop" \in Edits
    /\ old[n] # Absent
    /\ Save([old EXCEPT ![n] = Absent])
    /\ want' = [want EXCEPT ![n] = {}]
    /\ UNCHANGED asked

(* profile_commit, delete_profile_at, the importer: the list is loaded,    *)
(* one row is changed, the list is saved.                                  *)
EditProfile ==
  /\ pc = "idle" /\ Gate
  /\ \E ok \in Loads :
       /\ cache' = IF Marked THEN Loaded(ok) ELSE cache
       /\ PutRow(Hydrated(ok)) \/ RenameRow(Hydrated(ok)) \/ DropRow(Hydrated(ok))
  /\ UNCHANGED <<keyFiles, credFiles, mk, stores, good>>

-----------------------------------------------------------------------------
(* storage_set_key. Open: wrap, then drop a stale plaintext copy. Else the *)
(* plaintext file is replaced, to be adopted by the next unlock.           *)
SetKey ==
  /\ pc = "idle" /\ Gate
  /\ \E i \in Ids, m \in Mats :
       IF mk # 0
         THEN /\ kw' = [kw EXCEPT ![i] = [mk |-> mk, mat |-> m]]
              /\ cur' = i /\ pc' = "setrm"
              /\ UNCHANGED pem
              /\ good' = [good EXCEPT ![i] = m]
         ELSE /\ pem' = [pem EXCEPT ![i] = m]
              /\ UNCHANGED <<kw, cur, pc>>
              /\ good' = [good EXCEPT ![i] = m]
  /\ UNCHANGED <<hdr, credFiles, mk, cache, job, todo, tmp, was, stores, asked, want>>

SetKeyDone ==
  /\ pc = "setrm"
  /\ pem' = [pem EXCEPT ![cur] = None]
  /\ Done
  /\ UNCHANGED <<hdr, kw, credFiles, mk, cache, stores, good, want>>

(* storage_delete_key: the plaintext is shredded, the wrapped copy removed.*)
DeleteKey ==
  /\ pc = "idle"
  /\ \E i \in Ids : cur' = i /\ good' = [good EXCEPT ![i] = None]
  /\ pc' = "zero" /\ job' = "delete"
  /\ UNCHANGED <<keyFiles, credFiles, mk, cache, todo, tmp, was, stores, asked, want>>

(* storage_shred_file: zeros over the content, then remove.                *)
ShredZero ==
  /\ pc = "zero"
  /\ pem' = [pem EXCEPT ![cur] = IF pem[cur] = None THEN None ELSE Zeros]
  /\ pc' = "unlink"
  /\ UNCHANGED <<hdr, kw, credFiles, mk, cache, call, todo, tmp, stores, ghosts>>

ShredRemove ==
  /\ pc = "unlink"
  /\ pem' = [pem EXCEPT ![cur] = None]
  /\ IF job = "delete" THEN pc' = "delkw" /\ UNCHANGED <<todo, cur>>
                       ELSE pc' = "adopt" /\ todo' = todo \ {cur} /\ cur' = None
  /\ UNCHANGED <<hdr, kw, credFiles, mk, cache, job, was, tmp, stores, ghosts>>

DeleteWrapped ==
  /\ pc = "delkw"
  /\ kw' = [kw EXCEPT ![cur] = NoWrap]
  /\ Done
  /\ UNCHANGED <<hdr, pem, credFiles, mk, cache, stores, good, want>>

-----------------------------------------------------------------------------
(* keystore_create and keystore_unlock both end in the adoption of what    *)
(* still lies in plaintext: first keys, then passwords.                    *)
StartAdopt ==
  /\ pc' = "adopt" /\ job' = "adopt"
  /\ todo' \in Scan(Plain)

Create ==
  /\ pc = "idle"
  /\ hdr.mk = 0 /\ stores < MaxStores
  /\ stores' = stores + 1
  /\ \E c \in Codes : hdr' = [mk |-> stores', code |-> c]
  /\ mk' = stores'
  /\ StartAdopt
  /\ UNCHANGED <<pem, kw, credFiles, cache, cur, tmp, was, ghosts>>

Unlock ==
  /\ pc = "idle"
  /\ mk = 0 /\ hdr.mk # 0
  /\ mk' = hdr.mk
  /\ StartAdopt
  /\ UNCHANGED <<keyFiles, credFiles, cache, cur, tmp, was, stores, ghosts>>

\* Variant: the plaintext is shredded before its wrapped copy is written.
AdoptShredFirst ==
  /\ pc = "adopt"
  /\ \E i \in todo :
       \/ /\ cur' = i /\ pc' = "zero"
          /\ UNCHANGED <<kw, todo>>
       \/ /\ MayFail
          /\ todo' = todo \ {i}
          /\ UNCHANGED <<kw, cur, pc>>
  /\ UNCHANGED <<hdr, pem, credFiles, mk, cache, job, tmp, was, stores, ghosts>>

AdoptKey ==
  /\ pc = "adopt"
  /\ \E i \in todo :
       \/ /\ kw' = [kw EXCEPT ![i] = [mk |-> mk, mat |-> pem[i]]]
          /\ cur' = i /\ pc' = "zero"
          /\ UNCHANGED todo
       \/ /\ MayFail
          /\ todo' = todo \ {i}
          /\ UNCHANGED <<kw, cur, pc>>
  /\ UNCHANGED <<hdr, pem, credFiles, mk, cache, job, tmp, was, stores, ghosts>>

\* Variant: passwords stay where they are.
AdoptNoSecrets ==
  /\ pc = "adopt" /\ todo = {}
  /\ Done
  /\ UNCHANGED <<cache, keyFiles, credFiles, mk, stores, good, want>>

(* ks_adopt_secrets: only when a plaintext password exists, by loading and *)
(* saving the list.                                                        *)
AdoptSecrets ==
  /\ pc = "adopt" /\ todo = {}
  /\ IF \E n \in Names : ini[n] \in Pws
       THEN \E ok \in Loads :
              /\ cache' = IF Marked THEN Loaded(ok) ELSE cache
              /\ Save(Hydrated(ok))
              /\ UNCHANGED <<asked, want>>
       ELSE Done /\ UNCHANGED <<cache, want>>
  /\ UNCHANGED <<keyFiles, credFiles, mk, stores, good>>

\* Variant: the secrets cache outlives the master key.
LockKeepsCache ==
  /\ pc = "idle" /\ mk # 0
  /\ mk' = 0
  /\ UNCHANGED <<keyFiles, credFiles, cache, pc, call, todo, tmp, stores, ghosts>>

(* keystore_lock; a lock while nothing is under way.                       *)
Lock ==
  /\ pc = "idle" /\ mk # 0
  /\ mk' = 0 /\ cache' = Cold
  /\ UNCHANGED <<keyFiles, credFiles, pc, call, todo, tmp, stores, ghosts>>

(* keystore_change_pin: one slot is wrapped anew; no file but the header   *)
(* changes, and the store stays open or locked as it was.                  *)
ChangePin ==
  /\ pc = "idle" /\ hdr.mk # 0
  /\ \E c \in Codes : hdr' = [hdr EXCEPT !.code = c]
  /\ UNCHANGED <<pem, kw, credFiles, mk, cache, pc, call, todo, tmp, stores, ghosts>>

-----------------------------------------------------------------------------
(* keystore_remove: passwords back to the ini, keys back to .pem, then the *)
(* header.                                                                 *)
RemoveStart ==
  /\ pc = "idle" /\ hdr.mk # 0 /\ Gate
  /\ was' = (mk # 0)
  /\ mk' = hdr.mk
  /\ pc' = "restore"
  /\ UNCHANGED <<keyFiles, credFiles, cache, job, todo, cur, tmp, stores, ghosts>>

(* secrets_restore_plaintext: neither a bundle that does not load nor an   *)
(* ini that cannot be written stops it.                                    *)
Restore ==
  /\ pc = "restore"
  /\ \E ok \in Loads, written \in Writes :
       /\ cache' = Loaded(ok)
       /\ ini' = IF ok /\ Content # NoPws /\ written THEN Hydrated(ok) ELSE ini
  /\ pc' = "dropbundle"
  /\ UNCHANGED <<keyFiles, bundle, mk, call, todo, tmp, stores, ghosts>>

DropBundle ==
  /\ pc = "dropbundle"
  /\ bundle' = NoBundle
  /\ cache' = Cold
  /\ pc' = "emit"
  /\ todo' \in Scan(Wrapped)
  /\ UNCHANGED <<keyFiles, ini, mk, call, tmp, stores, ghosts>>

(* One key back to plaintext; the wrapped copy goes after that (Emitted).  *)
Emit ==
  /\ pc = "emit"
  /\ \E i \in todo :
       /\ kw[i].mk = mk
       /\ pem' = [pem EXCEPT ![i] = kw[i].mat]
       /\ cur' = i
  /\ pc' = "emitted"
  /\ UNCHANGED <<hdr, kw, credFiles, mk, cache, job, was, todo, tmp, stores, ghosts>>

Emitted ==
  /\ pc = "emitted"
  /\ kw' = [kw EXCEPT ![cur] = NoWrap]
  /\ todo' = todo \ {cur} /\ cur' = None
  /\ pc' = "emit"
  /\ UNCHANGED <<hdr, pem, credFiles, mk, cache, job, was, tmp, stores, ghosts>>

(* A key that does not unwrap, or cannot be written, stops the removal.    *)
EmitFails ==
  /\ pc = "emit"
  /\ MayFail \/ \E i \in todo : kw[i].mk # mk
  /\ mk' = IF was THEN mk ELSE 0
  /\ cache' = IF was THEN cache ELSE Cold
  /\ Done
  /\ UNCHANGED <<keyFiles, credFiles, stores, good, want>>

\* Variant: a key that fails is skipped.
DropHeaderAnyway ==
  /\ pc = "emit"
  /\ hdr' = [mk |-> 0, code |-> None]
  /\ mk' = 0 /\ cache' = Cold
  /\ Done
  /\ UNCHANGED <<pem, kw, credFiles, stores, good, want>>

DropHeader ==
  /\ pc = "emit" /\ todo = {}
  /\ hdr' = [mk |-> 0, code |-> None]
  /\ mk' = 0 /\ cache' = Cold
  /\ Done
  /\ UNCHANGED <<pem, kw, credFiles, stores, good, want>>

-----------------------------------------------------------------------------
(* storage_factory_reset: inis, header, then every file under keys/; the   *)
(* RAM copy of the store last.                                             *)
FactoryReset ==
  /\ pc = "idle"
  /\ ini' = NoRows
  /\ good' = [i \in Ids |-> None] /\ want' = [n \in Names |-> {}]
  /\ pc' = "reset"
  /\ UNCHANGED <<keyFiles, bundle, mk, cache, call, todo, tmp, stores, asked>>

ResetHeader ==
  /\ pc = "reset"
  /\ hdr' = [mk |-> 0, code |-> None]
  /\ pc' = "wipe"
  /\ UNCHANGED <<pem, kw, credFiles, mk, cache, call, todo, tmp, stores, ghosts>>

WipeFile ==
  /\ pc = "wipe"
  /\ \/ \E i \in Plain : pem' = [pem EXCEPT ![i] = None] /\ UNCHANGED <<kw, bundle>>
     \/ \E i \in Wrapped : kw' = [kw EXCEPT ![i] = NoWrap] /\ UNCHANGED <<pem, bundle>>
     \/ /\ bundle.mk # 0
        /\ bundle' = NoBundle
        /\ UNCHANGED <<pem, kw>>
  /\ UNCHANGED <<hdr, ini, mk, cache, pc, call, todo, tmp, stores, ghosts>>

WipeDone ==
  /\ pc = "wipe"
  /\ Plain = {} /\ Wrapped = {} /\ bundle.mk = 0
  /\ mk' = 0 /\ cache' = Cold
  /\ Done
  /\ UNCHANGED <<keyFiles, credFiles, stores, good, want>>

(* Power fails: the files stay as they are, RAM is lost.                   *)
Crash ==
  /\ pc \in Cuts
  /\ mk' = 0 /\ cache' = Cold
  /\ Done
  /\ UNCHANGED <<keyFiles, credFiles, stores, good, want>>

SaveStep == Divert \/ Prune \/ WriteIni
KeyStep == SetKeyDone \/ ShredZero \/ ShredRemove \/ DeleteWrapped
AdoptStep == AdoptKey \/ AdoptSecrets
RemoveStep == Restore \/ DropBundle \/ Emit \/ Emitted \/ EmitFails \/ DropHeader
ResetStep == ResetHeader \/ WipeFile \/ WipeDone

Calls == EditProfile \/ SetKey \/ DeleteKey \/ Create \/ Unlock \/ Lock \/ ChangePin
           \/ RemoveStart \/ FactoryReset
Work == SaveStep \/ KeyStep \/ AdoptStep \/ RemoveStep \/ ResetStep

Next == Calls \/ Work \/ Crash

Spec == Init /\ [][Next]_vars

-----------------------------------------------------------------------------
(* What a key is after the next unlock: a plaintext copy beside a store is *)
(* adopted over the wrapped one; without a store a wrapped one is lost.    *)
KeyNow(i) ==
  IF hdr.mk = 0 THEN (IF kw[i] = NoWrap THEN pem[i] ELSE None)
  ELSE IF pem[i] # None THEN pem[i]
  ELSE IF kw[i].mk = hdr.mk THEN kw[i].mat
  ELSE None

PwNow(n) ==
  IF ini[n] # Marker THEN ini[n]
  ELSE IF hdr.mk # 0 /\ bundle.mk = hdr.mk THEN bundle.pw[n]
  ELSE Empty

(* Between calls every key is what was last stored under its id, whatever  *)
(* was created, unlocked, removed or has failed since (storage_set_key,    *)
(* keystore_create, keystore_unlock, keystore_remove).                     *)
KeyKept == pc = "idle" => \A i \in Ids : good[i] # None => KeyNow(i) = good[i]

(* Between calls every profile has the password it was last given, or the  *)
(* one an interrupted edit was giving it (storage_save_profiles and the    *)
(* adoption, restoring and pruning of passwords).                          *)
CredentialKept ==
  pc = "idle" => \A n \in Names : ini[n] # Absent /\ want[n] # {} => PwNow(n) \in want[n]

(* keystore.h: entries are pruned "after a profile delete/rename": the      *)
(* password of a profile that is still to be had under its name on flash    *)
(* does not go.                                                             *)
PruneAfterRename ==
  [][\A n \in Names : pc = "divert" /\ ini[n] = Marker /\ want[n] # {} /\ bundle.pw[n] \in Pws
       => bundle'.pw[n] # Empty]_vars

(* A key's plaintext file is zeroed or removed only while a wrapped copy of *)
(* the key's current material exists that the store on flash can open      *)
(* (ks_adopt_plaintext, storage_set_key).                                  *)
NoKeyUncovered ==
  [][\A i \in Ids : pem[i] \in Mats /\ pem'[i] \notin Mats /\ good'[i] # None
       => kw[i] = [mk |-> hdr.mk, mat |-> good[i]]]_vars

(* keystore_remove deletes the header last: no key is left wrapped under a *)
(* master key that is gone.                                                *)
HeaderLast == [][pc = "emit" /\ hdr'.mk = 0 => Wrapped = {}]_vars

(* With the store open and no call under way, no password is left in       *)
(* plaintext in the ini: each unlock adopts what lies there, each save     *)
(* diverts it.                                                             *)
SecretsDiverted == pc = "idle" /\ mk # 0 => \A n \in Names : ini[n] \notin Pws

(* The same, unless the bundle on flash is one of a store that is gone.    *)
DivertedUnlessForeign == bundle.mk \in {0, mk} => SecretsDiverted

(* The master key in RAM is the one the header on flash wraps, but for the *)
(* end of a factory reset; and the secrets cache lives no longer than it   *)
(* (keystore_lock, keystore_reset_cache, keystore_remove).                 *)
StoreFits ==
  /\ mk # 0 /\ pc # "wipe" => hdr.mk = mk
  /\ mk = 0 => cache = Cold

-----------------------------------------------------------------------------
(* How far the call under way is: parts of the inductive invariant.        *)
Progress ==
  /\ pc \in {"adopt", "divert", "setrm", "restore", "dropbundle", "emit", "emitted"} => mk # 0
  /\ job = "adopt" => mk # 0
  /\ pc = "idle" => job = "none" /\ todo = {}
  /\ pc \in InHand <=> cur # None
  /\ pc = "adopt" => job = "adopt" /\ todo \subseteq Plain
  /\ pc \in {"zero", "unlink"} => job # "none" /\ todo \subseteq {cur} \union Plain
  /\ job = "delete" => pc \in {"zero", "unlink", "delkw"}
  /\ pc = "delkw" => job = "delete"
  /\ pc = "emit" => todo \subseteq Wrapped
  /\ pc = "emitted" => cur \in todo /\ todo \subseteq Wrapped
  /\ pc = "divert" => todo \subseteq {n \in Names : tmp[n] \in Pws}

Covered == hdr.mk # 0 /\ kw[cur] = [mk |-> hdr.mk, mat |-> good[cur]]

(* Every key is what was last stored, and the one in a call's hands has a  *)
(* current copy while the other one changes.                               *)
KeysSafe ==
  /\ \A i \in Ids \ {cur} : good[i] # None => KeyNow(i) = good[i]
  /\ pc \in {"reset", "wipe"} => \A i \in Ids : good[i] = None
  /\ job = "delete" => good[cur] = None
  /\ pc \in InHand /\ job # "delete" /\ good[cur] # None =>
       /\ pc \in {"zero", "unlink", "setrm"} => Covered
       /\ pc \in {"zero", "emitted"} => pem[cur] = good[cur]

(* keystore_remove's list holds every wrapped key still on flash.          *)
AllListed == pc \in {"emit", "emitted"} => Wrapped \subseteq todo
=============================================================================
