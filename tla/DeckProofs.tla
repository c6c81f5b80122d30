----------------------------- MODULE DeckProofs -----------------------------
(***************************************************************************)
(* What holds of the shell for every set of profiles: what a lock takes    *)
(* back, what stands between the gate and HOME, and what a save keeps.     *)
(***************************************************************************)
EXTENDS Deck, TLAPS

(* The connect worker's buffer is wiped when its result is taken.          *)
Held == cred # None => conn = "running"

(* The unlock worker, from its start to the taking of its result, belongs  *)
(* to a pad that waits for it, and no rain falls.                          *)
Working == task.at \in {"run", "done"}
Busy == Working => screen = "unlock" /\ deriving /\ saver = "off"

(* The gate only ever unlocks, and an unlock that worked left the store    *)
(* open.                                                                   *)
GateFits ==
  /\ pad.gate => pad.mode = "unlock"
  /\ pad.gate /\ Working => task.op = "unlock"
  /\ task.at = "done" /\ task.op = "unlock" /\ task.result = "ok" => store = "open"

(* Rain falls over HOME and the gate.                                      *)
Rain == saver # "off" => screen \in {"home", "unlock"}

(* Only the import server edits behind the shell's back, and only a grabbed *)
(* tile is out of place.                                                   *)
Fresh == screen # "import" => \A n \in Names : ram[n] = Absent <=> ini[n] = Absent
Still == moved => grab

Inv == TypeOK /\ Held /\ Busy /\ GateFits /\ Rain /\ Fresh /\ Still /\ LockedIsCold

-----------------------------------------------------------------------------
(* Loading and saving.                                                     *)
LEMMA LoadList ==
  ASSUME NEW st, NEW rows \in Files, NEW entries
  PROVE  /\ LoadOf(st, rows, entries) \in Lists
         /\ \A n \in Names : LoadOf(st, rows, entries)[n] = Absent <=> rows[n] = Absent
         /\ st # "open" => \A n \in Names : LoadOf(st, rows, entries)[n] = rows[n]
BY DEF LoadOf, Lists, Files, None, Plain, Opened, Mark, Blank, Absent, Copies, Readable

LEMMA LoadReads ==
  ASSUME NEW st, NEW rows \in Files, NEW entries, NEW n \in Names,
         rows[n] = Plain \/ (st = "open" /\ rows[n] = Mark /\ n \in entries)
  PROVE  LoadOf(st, rows, entries)[n] \in Readable
BY DEF LoadOf, Plain, Mark, Readable

LEMMA SaveList ==
  ASSUME NEW st, NEW list \in Lists, NEW entries \in SUBSET Names
  PROVE  /\ SavedIni(st, list) \in Files
         /\ SavedBundle(st, list, entries) \in SUBSET Names
         /\ \A n \in Names : SavedIni(st, list)[n] = Absent <=> list[n] = Absent
BY DEF SavedIni, SavedBundle, Raw, Lists, Files, None, Plain, Opened, Mark, Blank, Absent, Copies, Readable

(* Reloading: the list names the profiles on flash, and is as cold as the  *)
(* store.                                                                  *)
LEMMA Reloaded ==
  ASSUME Reload, ini' \in Files
  PROVE  /\ ram' \in Lists /\ moved' = FALSE
         /\ \A n \in Names : ram'[n] = Absent <=> ini'[n] = Absent
         /\ store' = "locked" => \A n \in Names : ram'[n] # Opened
<1>1. ram' = LoadOf(store', ini', bundle') /\ moved' = FALSE
  BY DEF Reload
<1>2. \A n \in Names : ini'[n] # Opened
  BY DEF Files, Plain, Opened, Mark, Blank, Absent
<1> DEFINE list == LoadOf(store', ini', bundle')
<1>3. /\ list \in Lists
      /\ \A n \in Names : list[n] = Absent <=> ini'[n] = Absent
      /\ store' # "open" => \A n \in Names : list[n] = ini'[n]
  <2>1. list \in Lists
    BY LoadList
  <2>2. \A n \in Names : list[n] = Absent <=> ini'[n] = Absent
    BY LoadList
  <2>3. store' # "open" => \A n \in Names : list[n] = ini'[n]
    BY LoadList
  <2>4. QED
    BY <2>1, <2>2, <2>3
<1>4. store' = "locked" => store' # "open"
  OBVIOUS
<1> HIDE DEF list
<1>5. QED
  BY <1>1, <1>2, <1>3, <1>4 DEF list

(* Locking: nothing the vault gave out is left in RAM.                     *)
LEMMA Wiped ==
  ASSUME TypeOK, LockAndWipe
  PROVE  /\ ram' \in Lists /\ snap' = Blank /\ draft' = Blank /\ moved' = moved
         /\ store' \in {"absent", "locked", "open"}
         /\ \A n \in Names : ram'[n] # Opened /\ (ram'[n] = Absent <=> ram[n] = Absent)
BY DEF LockAndWipe, TypeOK, Lists, None, Plain, Opened, Mark, Blank, Absent, Copies, Readable

(* Opening the pad.                                                        *)
LEMMA PadOpens ==
  ASSUME NEW m \in {"unlock", "old", "new", "remove"}, NEW r \in {"home", "connect", "menu"},
         NEW g \in BOOLEAN, OpenPad(m, r, g)
  PROVE  /\ pad' \in Pads /\ pad'.mode = m /\ pad'.ret = r /\ pad'.gate = g
         /\ screen' = "unlock" /\ deriving' = FALSE
BY DEF OpenPad, Pads, Go

LEMMA GateOpens ==
  ASSUME OpenGate
  PROVE  /\ pad' \in Pads /\ pad'.mode = "unlock"
         /\ screen' = "unlock" /\ deriving' = FALSE
BY PadOpens DEF OpenGate

LEMMA PadCloses == Closed \in Pads /\ ~Closed.gate
BY DEF Closed, Pads, None

LEMMA InitInv == Init => Inv
<1> SUFFICES ASSUME Init PROVE Inv
  OBVIOUS
<1>1. ini \in Files /\ ram \in Lists /\ \A n \in Names : ram[n] = Absent /\ ini[n] = Absent
  BY DEF Init, Files, Lists, Copies
<1>2. /\ pad \in Pads /\ ~pad.gate /\ task \in Works /\ task.at = "none"
      /\ snap \in Copies /\ draft \in Copies
  BY PadCloses DEF Init, Works, NoTask, Copies, None
<1>3. TypeOK
  BY <1>1, <1>2 DEF Init, TypeOK, Screens
<1>4. QED
  BY <1>1, <1>2, <1>3
     DEF Init, Inv, Held, Busy, Working, GateFits, Rain, Fresh, Still, LockedIsCold

USE DEF vars, flash, copies, editor, unlocking, dial, menu

-----------------------------------------------------------------------------
(* Handlers that change neither a password nor the list.                   *)
LEMMA MovesInv ==
  ASSUME Inv,
         \/ BootDone \/ RainGate \/ RainSettles \/ WakeEarly \/ Wake
         \/ ConnectCancel \/ HostKeyAnswer \/ LinkDrops \/ SessionMenu \/ PowerOffDone
         \/ HomeConfig \/ PairingEnter \/ PairingExit \/ ServiceEnter \/ WifiprovExit
         \/ MenuLeave \/ MenuDisconnect \/ MenuCode \/ MenuGrab \/ PadCancel \/ PadIdle
  PROVE  Inv'
<1> USE DEF Inv, TypeOK, Screens, Held, Busy, Working, GateFits, Rain, Fresh, Still, LockedIsCold,
            Go, EnterHome, Arm, Awake, InMenu, Collapse
<1>1. CASE BootDone
  <2>1. CASE store = "locked"
    BY <1>1, <2>1, GateOpens DEF BootDone
  <2>2. CASE store # "locked"
    BY <1>1, <2>2 DEF BootDone
  <2>3. QED
    BY <2>1, <2>2
<1>2. CASE RainGate \/ RainSettles \/ WakeEarly
  BY <1>2 DEF RainGate, RainSettles, WakeEarly
<1>3. CASE Wake
  <2>1. CASE store = "locked"
    BY <1>3, <2>1, GateOpens DEF Wake
  <2>2. CASE store # "locked"
    BY <1>3, <2>2 DEF Wake
  <2>3. QED
    BY <2>1, <2>2
<1>4. CASE ConnectCancel
  BY <1>4 DEF ConnectCancel
<1>5. CASE HostKeyAnswer
  BY <1>5 DEF HostKeyAnswer
<1>6. CASE LinkDrops
  BY <1>6 DEF LinkDrops
<1>7. CASE SessionMenu \/ HomeConfig
  <2>1. UNCHANGED <<store, flash, copies, editor, unlocking, saver, dial, grab>>
    BY <1>7 DEF SessionMenu, HomeConfig
  <2>2. screen' = "menu" /\ fromHome' \in BOOLEAN /\ screen \notin {"unlock", "import", "connecting"}
    BY <1>7 DEF SessionMenu, HomeConfig
  <2>3. QED
    BY <1>7, <2>1, <2>2 DEF SessionMenu, HomeConfig
<1>8. CASE PowerOffDone \/ WifiprovExit
  BY <1>8 DEF PowerOffDone, WifiprovExit
<1>9. CASE PairingEnter
  BY <1>9 DEF PairingEnter
<1>10. CASE PairingExit
  BY <1>10 DEF PairingExit
<1>11. CASE ServiceEnter
  BY <1>11 DEF ServiceEnter
<1>12. CASE MenuLeave
  BY <1>12 DEF MenuLeave
<1>13. CASE MenuDisconnect
  BY <1>13 DEF MenuDisconnect
<1>14. CASE MenuCode
  <2>1. \E m \in {"old", "new", "remove"} : OpenPad(m, "menu", FALSE)
    BY <1>14 DEF MenuCode
  <2>2. pad' \in Pads /\ ~pad'.gate /\ screen' = "unlock" /\ deriving' = FALSE
    BY <2>1, PadOpens
  <2>3. /\ screen = "menu" /\ ~grab
        /\ UNCHANGED <<store, flash, copies, editor, task, saver, dial, menu>>
    BY <1>14 DEF MenuCode
  <2>4. TypeOK'
    BY <2>2, <2>3
  <2>5. (Held /\ Busy /\ GateFits /\ Rain /\ Still)'
    BY <2>2, <2>3
  <2>6. (Fresh /\ LockedIsCold)'
    BY <2>2, <2>3
  <2>7. QED
    BY <2>4, <2>5, <2>6
<1>15. CASE MenuGrab
  BY <1>15 DEF MenuGrab
<1>16. CASE PadCancel
  <2>1. CASE pad.ret = "menu"
    BY <1>16, <2>1, PadCloses DEF PadCancel
  <2>2. CASE pad.ret # "menu"
    BY <1>16, <2>2, PadCloses DEF PadCancel
  <2>3. QED
    BY <2>1, <2>2
<1>17. CASE PadIdle
  BY <1>17, PadCloses DEF PadIdle
<1>18. QED
  BY <1>1, <1>2, <1>3, <1>4, <1>5, <1>6, <1>7, <1>8, <1>9, <1>10, <1>11, <1>12, <1>13,
     <1>14, <1>15, <1>16, <1>17
-----------------------------------------------------------------------------
(* Locking.                                                                *)
LEMMA LockInv ==
  ASSUME Inv, RainHome \/ LockDeck
  PROVE  Inv'
<1> USE DEF Inv, TypeOK, Screens, Held, Busy, Working, GateFits, Rain, Fresh, Still, LockedIsCold,
            Awake
<1>1. /\ ram' \in Lists /\ snap' = Blank /\ draft' = Blank /\ moved' = moved
      /\ store' \in {"absent", "locked", "open"}
      /\ \A n \in Names : ram'[n] # Opened /\ (ram'[n] = Absent <=> ram[n] = Absent)
  BY Wiped DEF RainHome, LockDeck
<1>2. Blank \in Copies /\ Blank # Opened /\ None # Opened
  BY DEF Copies, Blank, Opened, None
<1>3. CASE RainHome
  BY <1>1, <1>2, <1>3 DEF RainHome
<1>4. CASE LockDeck
  BY <1>1, <1>2, <1>4, GateOpens DEF LockDeck
<1>5. QED
  BY <1>3, <1>4

-----------------------------------------------------------------------------
(* The pad.                                                                *)
LEMMA SubmitInv ==
  ASSUME Inv, Submit
  PROVE  Inv'
<1> USE DEF Inv, TypeOK, Screens, Held, Busy, Working, GateFits, Rain, Fresh, Still, LockedIsCold,
            Awake, Go, EnterHome
<1>0. screen = "unlock" /\ saver = "off" /\ ~deriving
      /\ UNCHANGED <<store, flash, copies, editor, dial, menu>>
  BY DEF Submit
<1>1. ASSUME NEW op \in {"unlock", "remove", "create", "change"}, StartWorker(op),
             pad.gate => op = "unlock"
      PROVE  Inv'
  <2>1. CASE deriving' = TRUE /\ task' = [at |-> "run", op |-> op, result |-> None]
             /\ UNCHANGED <<screen, pad, saver>>
    <3>1. task' \in Works /\ task'.at = "run" /\ task'.op = op
      BY <2>1 DEF Works
    <3>2. QED
      BY <1>0, <1>1, <2>1, <3>1
  <2>2. CASE EnterHome /\ pad' = Closed /\ task' = Refused /\ UNCHANGED deriving
    <3>1. task' \in Works /\ task'.at = "refused"
      BY <2>2 DEF Works, Refused, NoTask
    <3>2. QED
      BY <1>0, <2>2, <3>1, PadCloses
  <2>3. QED
    BY <1>1, <2>1, <2>2 DEF StartWorker
<1>2. CASE /\ \E next \in {<<"old", "new">>, <<"new", "confirm">>, <<"confirm", "new">>} :
                pad.mode = next[1] /\ pad' = [pad EXCEPT !.mode = next[2]]
           /\ UNCHANGED <<screen, deriving, task, saver>>
  <2>1. /\ pad.mode \in {"old", "new", "confirm"}
        /\ \E m \in {"new", "confirm"} : pad' = [pad EXCEPT !.mode = m]
    BY <1>2
  <2>2. pad' \in Pads /\ pad'.gate = pad.gate
    BY <2>1 DEF Pads
  <2>3. ~pad.gate
    BY <2>1
  <2>4. QED
    BY <1>0, <1>2, <2>2, <2>3
<1>3. QED
  <2>1. CASE pad.mode = "unlock" /\ StartWorker("unlock")
    BY <1>1, <2>1
  <2>2. CASE pad.mode = "remove" /\ StartWorker("remove")
    BY <1>1, <2>2
  <2>3. CASE pad.mode = "confirm" /\ StartWorker(IF store = "absent" THEN "create" ELSE "change")
    <3>1. ~pad.gate
      BY <2>3
    <3>2. CASE store = "absent"
      BY <1>1, <2>3, <3>1, <3>2
    <3>3. CASE store # "absent"
      BY <1>1, <2>3, <3>1, <3>3
    <3>4. QED
      BY <3>2, <3>3
  <2>4. QED
    BY <1>2, <2>1, <2>2, <2>3 DEF Submit

(* What the worker does to the flash keeps the list of names.              *)
LEMMA Adopted ==
  ASSUME ini \in Files, bundle \in SUBSET Names, Adopt \/ Restore
  PROVE  /\ ini' \in Files /\ bundle' \in SUBSET Names
         /\ \A n \in Names : ini'[n] = Absent <=> ini[n] = Absent
<1>1. /\ LoadOf("open", ini, bundle) \in Lists
      /\ \A n \in Names : LoadOf("open", ini, bundle)[n] = Absent <=> ini[n] = Absent
  BY LoadList
<1>2. CASE Adopt
  BY <1>1, <1>2, SaveList DEF Adopt
<1>3. CASE Restore
  <2>1. /\ Raw(LoadOf("open", ini, bundle)) \in Files
        /\ \A n \in Names : Raw(LoadOf("open", ini, bundle))[n] = Absent <=> ini[n] = Absent
    BY <1>1 DEF Raw, Lists, Files, Copies, Plain, Opened, Mark, Blank, Absent
  <2>2. QED
    BY <1>3, <2>1 DEF Restore
<1>4. QED
  BY <1>2, <1>3

LEMMA WorkerInv ==
  ASSUME Inv, WorkerRun
  PROVE  Inv'
<1> USE DEF Inv, TypeOK, Screens, Held, Busy, Working, GateFits, Rain, Fresh, Still, LockedIsCold
<1>1. /\ task.at = "run"
      /\ UNCHANGED <<screen, order, copies, editor, pad, deriving, saver, dial, menu>>
  BY DEF WorkerRun
<1>2. /\ task' \in Works /\ task'.at = "done" /\ task'.op = task.op
      /\ task.op = "unlock" /\ task'.result = "ok" => store' = "open"
  BY DEF WorkerRun, Works
<1>3. store' \in {store, "open", "absent"}
  BY DEF WorkerRun
<1>4. /\ ini' \in Files /\ bundle' \in SUBSET Names
      /\ \A n \in Names : ini'[n] = Absent <=> ini[n] = Absent
  BY Adopted DEF WorkerRun
<1>5. QED
  BY <1>1, <1>2, <1>3, <1>4

(* The pad gives way to the screen it was asked for.                       *)
LEMMA PadLeft ==
  ASSUME TypeOK, conn = "none", ~grab,
         UNCHANGED <<store, flash, snap, draft, editor, active, cred, link, menu>>,
         deriving' = FALSE, task' = NoTask, pad' = Closed, saver' = "off",
         screen' \in {"home", "connecting", "menu"},
         conn' = IF screen' = "connecting" THEN "armed" ELSE conn,
         ram' \in Lists, moved' \in BOOLEAN
  PROVE  TypeOK'
<1>1. NoTask \in Works /\ Closed \in Pads
  BY PadCloses DEF NoTask, Works, None
<1>2. /\ screen' \in Screens /\ conn' \in {"none", "armed", "running"}
      /\ conn' # "none" => screen' = "connecting"
  BY DEF Screens
<1>3. /\ store' \in {"absent", "locked", "open"} /\ ini' \in Files /\ bundle' \in SUBSET Names
      /\ order' \in BOOLEAN /\ snap' \in Copies /\ draft' \in Copies
      /\ editing' \in Names \union {"new", None} /\ back' \in BOOLEAN
      /\ active' \in Names \union {None} /\ cred' \in Copies \union {None}
      /\ link' \in {"none", "live", "dropped"} /\ fromHome' \in BOOLEAN /\ ~grab'
  BY DEF TypeOK
<1>4. grab' \in BOOLEAN
  BY DEF TypeOK
<1>. QED
  BY <1>1, <1>2, <1>3, <1>4 DEF TypeOK

LEMMA ResultInv ==
  ASSUME Inv, PadResult
  PROVE  Inv'
<1> USE DEF Inv, TypeOK, Screens, Held, Busy, Working, GateFits, Rain, Fresh, Still, LockedIsCold,
            Go, EnterHome, Arm
<1>1. /\ screen = "unlock" /\ deriving /\ task.at = "done"
      /\ deriving' = FALSE /\ task' = NoTask
      /\ UNCHANGED <<store, flash, snap, draft, editor, active, cred, link, menu>>
  BY DEF PadResult
<1>2. NoTask \in Works /\ NoTask.at = "none"
  BY DEF NoTask, Works, None
<1>3. ASSUME PadDone
      PROVE  /\ screen' \in {"home", "connecting", "menu"} /\ pad' = Closed /\ saver' = "off"
             /\ conn' = (IF screen' = "connecting" THEN "armed" ELSE conn)
  BY <1>1, <1>3 DEF PadDone
<1>4. CASE Unlocked
  <2>1. PadDone /\ Reload /\ task.op = "unlock" /\ task.result = "ok"
    BY <1>4 DEF Unlocked
  <2>2. /\ screen' \in {"home", "connecting", "menu"} /\ pad' = Closed /\ saver' = "off"
        /\ conn' = IF screen' = "connecting" THEN "armed" ELSE conn
    BY <1>3, <2>1
  <2>3. conn = "none" /\ ~grab
    BY <1>1
  <2>4. /\ ram' \in Lists /\ moved' = FALSE
        /\ \A n \in Names : ram'[n] = Absent <=> ini'[n] = Absent
        /\ store' = "locked" => \A n \in Names : ram'[n] # Opened
    <3>1. ini' \in Files
      BY <1>1
    <3>2. QED
      BY <2>1, <3>1, Reloaded
  <2>5. TypeOK'
    BY <1>1, <2>2, <2>3, <2>4, PadLeft
  <2>6. (Held /\ Busy /\ GateFits /\ Rain /\ Still)'
    BY <1>1, <1>2, <2>2, <2>3, <2>4, PadCloses
  <2>7. (Fresh /\ LockedIsCold)'
    BY <1>1, <2>4
  <2>8. QED
    BY <2>5, <2>6, <2>7
<1>5. CASE PadStays
  <2>1. pad' \in Pads /\ pad'.gate = pad.gate /\ (pad.gate => pad'.mode = pad.mode)
    BY <1>1, <1>5 DEF PadStays, Pads
  <2>2. UNCHANGED <<screen, saver, conn, ram, moved>>
    BY <1>5 DEF PadStays
  <2>3. TypeOK'
    BY <1>1, <1>2, <2>1, <2>2
  <2>4. (Held /\ Busy /\ GateFits /\ Rain /\ Still)'
    BY <1>1, <1>2, <2>1, <2>2
  <2>5. (Fresh /\ LockedIsCold)'
    BY <1>1, <2>2
  <2>6. QED
    BY <2>3, <2>4, <2>5
<1>6. CASE PadOver
  <2>1. PadDone /\ UNCHANGED <<ram, moved>>
    BY <1>6 DEF PadOver
  <2>2. /\ screen' \in {"home", "connecting", "menu"} /\ pad' = Closed /\ saver' = "off"
        /\ conn' = IF screen' = "connecting" THEN "armed" ELSE conn
    BY <1>3, <2>1
  <2>3. conn = "none" /\ ~grab
    BY <1>1
  <2>4. QED
    <3>1. TypeOK'
      <4>1. ram' \in Lists /\ moved' \in BOOLEAN
        BY <2>1
      <4>2. QED
        BY <1>1, <2>2, <2>3, <4>1, PadLeft
    <3>2. (Held /\ Busy /\ GateFits /\ Rain /\ Still)'
      BY <1>1, <1>2, <2>1, <2>2, <2>3, PadCloses
    <3>3. (Fresh /\ LockedIsCold)'
      BY <1>1, <2>1
    <3>4. QED
      BY <3>1, <3>2, <3>3
<1>7. CASE PadBroken
  <2>1. screen' = "home" /\ saver' = "off" /\ pad' = Closed /\ UNCHANGED <<conn, ram, moved>>
    BY <1>7 DEF PadBroken
  <2>2. QED
    <3>1. TypeOK'
      BY <1>1, <1>2, <2>1, PadCloses
    <3>2. (Held /\ Busy /\ GateFits /\ Rain /\ Still)'
      BY <1>1, <1>2, <2>1, PadCloses
    <3>3. (Fresh /\ LockedIsCold)'
      BY <1>1, <2>1
    <3>4. QED
      BY <3>1, <3>2, <3>3
<1>8. QED
  BY <1>4, <1>5, <1>6, <1>7 DEF PadResult

-----------------------------------------------------------------------------
(* Connecting.                                                             *)
LEMMA HomeConnectInv ==
  ASSUME Inv, HomeConnect
  PROVE  Inv'
<1> USE DEF Inv, TypeOK, Screens, Held, Busy, Working, GateFits, Rain, Fresh, Still, LockedIsCold,
            Go, EnterHome, Arm, Awake
<1>1. /\ screen = "home" /\ saver = "off"
      /\ UNCHANGED <<store, flash, ram, moved, draft, editor, task, saver, cred, link, menu>>
  BY DEF HomeConnect
<1>2. PICK n \in Names :
        /\ ram[n] # Absent
        /\ active' = n /\ snap' = ram[n]
        /\ IF n \in KeyNames /\ store = "locked"
             THEN OpenPad("unlock", "connect", FALSE) /\ UNCHANGED conn
             ELSE Arm /\ UNCHANGED <<pad, deriving>>
  BY DEF HomeConnect
<1>3. snap' \in Copies /\ (store = "locked" => snap' # Opened)
  BY <1>2 DEF Lists
<1>4. CASE OpenPad("unlock", "connect", FALSE) /\ UNCHANGED conn
  <2>1. pad' \in Pads /\ ~pad'.gate /\ screen' = "unlock" /\ deriving' = FALSE
    BY <1>4, PadOpens
  <2>2. QED
    BY <1>1, <1>2, <1>3, <1>4, <2>1
<1>5. CASE Arm /\ UNCHANGED <<pad, deriving>>
  BY <1>1, <1>2, <1>3, <1>5
<1>6. QED
  BY <1>2, <1>4, <1>5

(* The credential handed to the worker is wiped with its lock: none that   *)
(* the vault gave out is made while it is locked.                          *)
LEMMA SecretCold ==
  ASSUME Inv
  PROVE  Secret \in Copies /\ Secret # None /\ (store = "locked" => Secret # Opened)
BY DEF Inv, TypeOK, LockedIsCold, Secret, Readable, Copies, Plain, Opened, Mark, Blank, None

LEMMA ConnectStartInv ==
  ASSUME Inv, ConnectStart
  PROVE  Inv'
<1> USE DEF Inv, TypeOK, Screens, Held, Busy, Working, GateFits, Rain, Fresh, Still, LockedIsCold,
            Go, EnterHome
<1>1. /\ screen = "connecting" /\ conn = "armed"
      /\ UNCHANGED <<store, flash, copies, editor, task, active, menu>>
  BY DEF ConnectStart
<1>2. CASE /\ OpenPad("unlock", "connect", FALSE) /\ conn' = "none"
           /\ UNCHANGED <<cred, link, saver>>
  <2>1. pad' \in Pads /\ ~pad'.gate /\ screen' = "unlock" /\ deriving' = FALSE
    BY <1>2, PadOpens
  <2>2. cred = None /\ ~Working /\ saver = "off" /\ ~grab
    BY <1>1
  <2>3. UNCHANGED <<store, ini, bundle, order, ram, moved, snap, draft, task, cred, saver, grab>>
    BY <1>1, <1>2
  <2>4. TypeOK'
    BY <1>1, <1>2, <2>1, <2>2
  <2>5. (Held /\ Busy /\ GateFits /\ Rain /\ Still)'
    BY <2>1, <2>2, <2>3
  <2>6. (Fresh /\ LockedIsCold)'
    BY <1>1, <2>3
  <2>7. QED
    BY <2>4, <2>5, <2>6
<1>3. CASE /\ cred' = Secret /\ conn' = "running" /\ link' = "none"
           /\ UNCHANGED <<screen, pad, deriving, saver>>
  <2>1. cred' \in Copies /\ (store = "locked" => cred' # Opened)
    BY <1>3, SecretCold
  <2>2. QED
    BY <1>1, <1>3, <2>1
<1>4. CASE conn' = "none" /\ EnterHome /\ UNCHANGED <<cred, link, pad, deriving>>
  BY <1>1, <1>4
<1>5. QED
  BY <1>2, <1>3, <1>4 DEF ConnectStart

LEMMA ConnectFinishInv ==
  ASSUME Inv, ConnectFinish
  PROVE  Inv'
<1> USE DEF Inv, TypeOK, Screens, Held, Busy, Working, GateFits, Rain, Fresh, Still, LockedIsCold,
            Go, EnterHome, Arm
<1>1. /\ screen = "connecting" /\ conn = "running" /\ cred' = None
      /\ UNCHANGED <<store, flash, copies, editor, unlocking, active, menu>>
  BY DEF ConnectFinish
<1>2. /\ screen' \in {"session", "hostkey", "connecting", "home"}
      /\ conn' \in {"none", "armed"} /\ (conn' # "none" => screen' = "connecting")
      /\ saver' \in {"off", saver} /\ link' \in {"live", link}
  BY <1>1 DEF ConnectFinish
<1>3. None # Opened
  BY DEF None, Opened
<1>4. QED
  BY <1>1, <1>2, <1>3

-----------------------------------------------------------------------------
(* The list is read again from flash.                                      *)
LEMMA ReloadInv ==
  ASSUME Inv, Reload, ini' \in Files, bundle' \in SUBSET Names, order' \in BOOLEAN,
         store' \in {"absent", "locked", "open"}, store' = "locked" => store = "locked",
         UNCHANGED <<snap, cred, active, link, unlocking, conn, fromHome>>,
         draft' \in Copies, draft' = Opened => draft = Opened \/ store' # "locked",
         editing' \in Names \union {"new", None}, back' \in BOOLEAN,
         screen' \in Screens, saver' \in {"off", saver}, grab' \in BOOLEAN,
         grab' => screen' = "menu",
         screen \notin {"unlock", "connecting"}, screen' \notin {"unlock", "connecting"},
         saver # "off" => screen' = "home",
         store # store' => store' = "absent"
  PROVE  Inv'
<1> USE DEF Inv, TypeOK, Held, Busy, Working, GateFits, Rain, Fresh, Still, LockedIsCold
<1>1. /\ ram' \in Lists /\ moved' = FALSE
      /\ \A n \in Names : ram'[n] = Absent <=> ini'[n] = Absent
      /\ store' = "locked" => \A n \in Names : ram'[n] # Opened
  BY Reloaded
<1>2. TypeOK'
  BY <1>1
<1>3. (Held /\ Busy /\ Rain /\ Still)'
  BY <1>1
<1>4. GateFits'
  OBVIOUS
<1>5. Fresh'
  BY <1>1
<1>6. LockedIsCold'
  BY <1>1
<1>7. QED
  BY <1>2, <1>3, <1>4, <1>5, <1>6

LEMMA ReadAgainInv ==
  ASSUME Inv,
         HomeReload \/ ImportExit \/ EditorSave \/ MenuDelete \/ MenuDrop \/ MenuLetGo \/ FactoryReset
  PROVE  Inv'
<1> USE DEF Inv, TypeOK, Screens, Go, EnterHome, Awake, InMenu, Rain
<1>0. None \in {None} /\ Plain \in Copies /\ Opened \in Copies
  BY DEF Copies
<1>1. CASE HomeReload
  <2>1. /\ Reload /\ screen = "home" /\ saver = "off"
        /\ UNCHANGED <<screen, store, flash, snap, draft, editor, unlocking, saver, dial, menu>>
    BY <1>1 DEF HomeReload
  <2>2. QED
    BY <2>1, ReloadInv
<1>2. CASE ImportExit
  <2>1. /\ Reload /\ screen = "import" /\ screen' = "home" /\ saver' = "off"
        /\ UNCHANGED <<store, flash, snap, draft, editor, unlocking, dial, menu>>
    BY <1>2 DEF ImportExit
  <2>2. QED
    BY <2>1, ReloadInv
<1>3. CASE EditorSave
  <2>1. /\ Reload /\ screen = "profile" /\ screen' \in {"menu", "home"} /\ saver' \in {"off", saver}
        /\ editing' = None /\ back' = FALSE
        /\ UNCHANGED <<store, order, snap, unlocking, dial, menu>>
    BY <1>3 DEF EditorSave, ExitEditor
  <2>2. LoadOf(store, ini, bundle) \in Lists
    BY LoadList
  <2>3. PICK n \in Names, pw \in {draft, Plain} :
          /\ draft' = IF store = "open" /\ pw = Plain THEN Opened ELSE pw
          /\ Save([m \in Names |-> IF m = n THEN pw
                                   ELSE IF m = editing THEN Absent ELSE LoadOf(store, ini, bundle)[m]])
    BY <1>3 DEF EditorSave, Commit
  <2>4. [m \in Names |-> IF m = n THEN pw
                         ELSE IF m = editing THEN Absent ELSE LoadOf(store, ini, bundle)[m]] \in Lists
    BY <1>0, <2>2 DEF Lists
  <2>5. ini' \in Files /\ bundle' \in SUBSET Names
    BY <2>3, <2>4, SaveList DEF Save
  <2>6. draft' \in Copies /\ (draft' = Opened => draft = Opened \/ store' # "locked")
    BY <1>0, <2>1, <2>3 DEF Plain, Opened
  <2>7. saver = "off" /\ ~grab
    BY <2>1
  <2>8. QED
    BY <2>1, <2>5, <2>6, <2>7, ReloadInv
<1>4. CASE MenuDelete
  <2>1. /\ Reload /\ screen = "menu" /\ ~grab /\ order' = (order # moved)
        /\ UNCHANGED <<screen, store, snap, draft, editor, unlocking, saver, dial, menu>>
    BY <1>4 DEF MenuDelete
  <2>2. PICK n \in Names : Save([ram EXCEPT ![n] = Absent])
    BY <1>4 DEF MenuDelete
  <2>3. [ram EXCEPT ![n] = Absent] \in Lists
    BY DEF Lists
  <2>4. ini' \in Files /\ bundle' \in SUBSET Names
    BY <2>2, <2>3, SaveList DEF Save
  <2>5. order' \in BOOLEAN
    BY <2>1
  <2>6. saver = "off"
    BY <2>1
  <2>7. QED
    BY <2>1, <2>4, <2>5, <2>6, ReloadInv
<1>5. CASE MenuDrop
  <2>1. /\ Reload /\ screen = "menu" /\ grab' = FALSE /\ order' = (order # moved) /\ Save(ram)
        /\ UNCHANGED <<screen, store, snap, draft, editor, unlocking, saver, dial, fromHome>>
    BY <1>5 DEF MenuDrop
  <2>2. ini' \in Files /\ bundle' \in SUBSET Names
    BY <2>1, SaveList DEF Save
  <2>3. order' \in BOOLEAN
    BY <2>1
  <2>4. saver = "off"
    BY <2>1
  <2>5. QED
    BY <2>1, <2>2, <2>3, <2>4, ReloadInv
<1>6. CASE MenuLetGo
  <2>1. /\ Reload /\ screen = "menu" /\ grab' = FALSE
        /\ UNCHANGED <<screen, store, flash, snap, draft, editor, unlocking, saver, dial, fromHome>>
    BY <1>6 DEF MenuLetGo
  <2>2. saver = "off"
    BY <2>1
  <2>3. QED
    BY <2>1, <2>2, ReloadInv
<1>7. CASE FactoryReset
  <2>1. /\ Reload /\ screen = "menu" /\ ~grab /\ store' = "absent" /\ order' = FALSE
        /\ ini' = [n \in Names |-> Absent] /\ bundle' = {}
        /\ UNCHANGED <<screen, snap, draft, editor, unlocking, saver, dial, menu>>
    BY <1>7 DEF FactoryReset
  <2>2. ini' \in Files
    BY <2>1 DEF Files
  <2>3. saver = "off"
    BY <2>1
  <2>4. QED
    BY <2>1, <2>2, <2>3, ReloadInv
<1>8. QED
  BY <1>1, <1>2, <1>3, <1>4, <1>5, <1>6, <1>7

-----------------------------------------------------------------------------
(* The rest.                                                               *)
LEMMA DroppedInv ==
  ASSUME Inv, SessionTick \/ MenuTick
  PROVE  Inv'
<1> USE DEF Inv, TypeOK, Screens, Held, Busy, Working, GateFits, Rain, Fresh, Still, LockedIsCold,
            Go, EnterHome, Arm
<1>1. /\ screen \in {"session", "menu"} /\ ~Working /\ saver = "off" /\ conn = "none" /\ cred = None
      /\ UNCHANGED <<store, flash, snap, draft, editor, unlocking, active, cred, fromHome>>
  BY DEF SessionTick, MenuTick
<1>2. CASE SessionDropped /\ UNCHANGED conn /\ link' \in {link, "none"}
  <2>1. /\ screen' \in {"home", "poweroff"} /\ saver' = "off" /\ grab' = FALSE
        /\ conn' = "none" /\ link' \in {"none", "live", "dropped"}
    BY <1>1, <1>2 DEF SessionDropped, Collapse
  <2>2. CASE grab
    <3>1. Reload
      BY <1>1, <1>2, <2>2 DEF SessionDropped, Reload
    <3>2. /\ ram' \in Lists /\ moved' = FALSE
          /\ \A n \in Names : ram'[n] = Absent <=> ini'[n] = Absent
          /\ store' = "locked" => \A n \in Names : ram'[n] # Opened
      BY <1>1, <3>1, Reloaded
    <3>3. TypeOK'
      BY <1>1, <2>1, <3>2
    <3>4. (Held /\ Busy /\ GateFits /\ Rain /\ Still)'
      BY <1>1, <1>2, <2>1, <3>2
    <3>5. (Fresh /\ LockedIsCold)'
      BY <1>1, <3>2
    <3>6. QED
      BY <3>3, <3>4, <3>5
  <2>3. CASE ~grab
    <3>1. UNCHANGED <<ram, moved>>
      BY <1>2, <2>3 DEF SessionDropped
    <3>2. TypeOK'
      BY <1>1, <2>1, <2>3, <3>1
    <3>3. (Held /\ Busy /\ GateFits /\ Rain /\ Still)'
      BY <1>1, <1>2, <2>1, <2>3, <3>1
    <3>4. (Fresh /\ LockedIsCold)'
      BY <1>1, <3>1
    <3>5. QED
      BY <3>2, <3>3, <3>4
  <2>4. QED
    BY <2>2, <2>3
<1>3. CASE screen = "session" /\ Arm /\ UNCHANGED <<ram, moved, grab, link, saver>>
  BY <1>1, <1>3
<1>4. QED
  <2>1. CASE SessionTick
    BY <1>2, <1>3, <2>1 DEF SessionTick
  <2>2. CASE MenuTick
    BY <1>2, <2>2 DEF MenuTick
  <2>3. QED
    BY <2>1, <2>2

LEMMA MenuMoveInv ==
  ASSUME Inv, MenuMove
  PROVE  Inv'
<1> USE DEF Inv, TypeOK, Held, Busy, Working, GateFits, Rain, Fresh, Still, LockedIsCold
<1>1. /\ grab /\ moved' \in BOOLEAN
      /\ UNCHANGED <<screen, store, flash, ram, snap, draft, editor, unlocking, saver, dial, menu>>
  BY DEF MenuMove
<1>2. QED
  BY <1>1

LEMMA ImportEditInv ==
  ASSUME Inv, ImportEdit
  PROVE  Inv'
<1> USE DEF Inv, TypeOK, Screens, Held, Busy, Working, GateFits, Rain, Fresh, Still, LockedIsCold
<1>1. /\ screen = "import"
      /\ UNCHANGED <<screen, store, order, copies, editor, unlocking, saver, dial, menu>>
  BY DEF ImportEdit
<1>2. PICK n \in Names, what \in {Plain, Absent} :
        Save([LoadOf(store, ini, bundle) EXCEPT ![n] = what])
  BY DEF ImportEdit
<1>3. [LoadOf(store, ini, bundle) EXCEPT ![n] = what] \in Lists
  <2>1. LoadOf(store, ini, bundle) \in Lists
    BY LoadList
  <2>2. QED
    BY <2>1 DEF Lists, Copies
<1>4. ini' \in Files /\ bundle' \in SUBSET Names
  BY <1>2, <1>3, SaveList DEF Save
<1>5. QED
  BY <1>1, <1>4

LEMMA EditorInv ==
  ASSUME Inv, EditorOpen \/ EditorCancel
  PROVE  Inv'
<1> USE DEF Inv, TypeOK, Screens, Held, Busy, Working, GateFits, Rain, Fresh, Still, LockedIsCold,
            Go, EnterHome, Awake, InMenu
<1>0. Blank \in Copies /\ Plain \in Copies /\ Blank # Opened /\ Plain # Opened
  BY DEF Copies, Blank, Plain, Opened
<1>1. CASE EditorOpen
  <2>1. /\ screen \in {"home", "menu"} /\ saver = "off" /\ ~grab /\ screen' = "profile"
        /\ back' = (screen = "menu")
        /\ UNCHANGED <<store, flash, ram, moved, snap, unlocking, saver, dial, menu>>
    BY <1>1 DEF EditorOpen
  <2>2. /\ draft' \in Copies /\ (store = "locked" => draft' # Opened)
        /\ editing' \in Names \union {"new", None}
    BY <1>0, <1>1 DEF EditorOpen, Lists
  <2>3. back' \in BOOLEAN
    BY <2>1
  <2>4. QED
    BY <2>1, <2>2, <2>3
<1>2. CASE EditorCancel
  <2>1. /\ screen = "profile" /\ screen' \in {"menu", "home"} /\ saver' \in {"off", saver}
        /\ editing' = None /\ back' = FALSE /\ draft' \in {draft, Plain}
        /\ UNCHANGED <<store, flash, ram, moved, snap, unlocking, dial, menu>>
    BY <1>2 DEF EditorCancel, ExitEditor
  <2>2. saver = "off" /\ ~Working /\ ~grab /\ conn = "none"
    BY <2>1
  <2>3. draft' \in Copies /\ (store = "locked" => draft' # Opened)
    BY <1>0, <2>1
  <2>4. TypeOK'
    BY <2>1, <2>2, <2>3
  <2>5. (Held /\ Busy /\ GateFits /\ Rain /\ Still)'
    BY <2>1, <2>2
  <2>6. (Fresh /\ LockedIsCold)'
    BY <2>1, <2>3
  <2>7. QED
    BY <2>4, <2>5, <2>6
<1>3. QED
  BY <1>1, <1>2

LEMMA PowerInv ==
  ASSUME Inv, PowerCycle
  PROVE  Inv'
<1> USE DEF Inv, TypeOK, Screens, Held, Busy, Working, GateFits, Rain, Fresh, Still, LockedIsCold
<1>1. /\ screen' = "boot" /\ store' \in {"absent", "locked"}
      /\ active' = None /\ snap' = Blank /\ cred' = None /\ draft' = Blank
      /\ editing' = None /\ back' = FALSE /\ pad' = Closed /\ deriving' = FALSE /\ task' = NoTask
      /\ saver' = "off" /\ conn' = "none" /\ link' = "none" /\ fromHome' = FALSE /\ grab' = FALSE
      /\ UNCHANGED flash
  BY DEF PowerCycle
<1>2. Reload
  BY DEF PowerCycle
<1>3. /\ ram' \in Lists /\ moved' = FALSE
      /\ \A n \in Names : ram'[n] = Absent <=> ini'[n] = Absent
      /\ store' = "locked" => \A n \in Names : ram'[n] # Opened
  BY <1>1, <1>2, Reloaded
<1>4. Blank \in Copies /\ Blank # Opened /\ None # Opened
  BY DEF Copies, Blank, None, Opened
<1>5. NoTask \in Works /\ NoTask.at = "none"
  BY DEF NoTask, Works, None
<1>6. TypeOK'
  BY <1>1, <1>3, <1>4, <1>5, PadCloses
<1>7. (Held /\ Busy /\ GateFits /\ Rain /\ Still)'
  BY <1>1, <1>3, <1>5, PadCloses
<1>8. (Fresh /\ LockedIsCold)'
  BY <1>1, <1>3, <1>4
<1>9. QED
  BY <1>6, <1>7, <1>8

LEMMA NextInv ==
  ASSUME Inv, [Next]_vars
  PROVE  Inv'
<1>1. CASE UNCHANGED vars
  BY <1>1 DEF Inv, TypeOK, Held, Busy, Working, GateFits, Rain, Fresh, Still, LockedIsCold
<1>2. CASE Shell
  BY <1>2, MovesInv, LockInv, SubmitInv, ResultInv, HomeConnectInv, ConnectStartInv,
     ConnectFinishInv, ReadAgainInv, DroppedInv, EditorInv, MenuMoveInv
     DEF Shell
<1>3. CASE Others
  BY <1>3, MovesInv, WorkerInv, ImportEditInv, PowerInv DEF Others
<1>4. QED
  BY <1>1, <1>2, <1>3 DEF Next

(* In every behaviour of the shell the invariant holds.                    *)
THEOREM Invariant == Spec => []Inv
<1>1. Init => Inv
  BY InitInv
<1>2. Inv /\ [Next]_vars => Inv'
  BY NextInv
<1>3. QED
  BY <1>1, <1>2, PTL DEF Spec

(* Every variable keeps its range, and what belongs to a screen (a running *)
(* connect, a grabbed tile) is never left behind when the screen is left   *)
(* (app_connect.c, app_menu.c).                                            *)
THEOREM TypeCorrect == Spec => []TypeOK
<1>1. Inv => TypeOK
  BY DEF Inv
<1>2. QED
  BY <1>1, Invariant, PTL

(* For any profiles, a locked store means that no password out of its      *)
(* bundle is left in the list, in the connect's snapshot, in the editor's  *)
(* draft or with the connect worker (app_creds_wipe).                      *)
THEOREM Cold == Spec => []LockedIsCold
<1>1. Inv => LockedIsCold
  BY DEF Inv
<1>2. QED
  BY <1>1, Invariant, PTL

(* For any profiles and however the pad is reached, left and reached       *)
(* again, a running unlock worker has the pad waiting for it: no second    *)
(* one is given the static buffers of app_unlock.c.                        *)
THEOREM OneWorkerAtATime == Spec => []OneWorker
<1>1. Inv => OneWorker
  BY DEF Inv, Busy, Working, OneWorker
<1>2. QED
  BY <1>1, Invariant, PTL

(* HOME and the menu name exactly the profiles that are on flash, whoever  *)
(* edited them: the editor, the import server, the worker, a reset.        *)
THEOREM ListIsFresh == Spec => []ListFresh
<1>1. Inv => ListFresh
  <2>1. SUFFICES ASSUME Inv, screen \in {"home", "menu"}, NEW n \in Names
                 PROVE  (ram[n] = Absent) = (ini[n] = Absent)
    BY DEF ListFresh
  <2>2. ram[n] = Absent <=> ini[n] = Absent
    BY <2>1 DEF Inv, Fresh
  <2>3. QED
    BY <2>2
<1>2. QED
  BY <1>1, Invariant, PTL

-----------------------------------------------------------------------------
(* Steps. The handlers that write the flash:                               *)
LEMMA FlashSteps ==
  ASSUME [Next]_vars
  PROVE  \/ UNCHANGED flash
         \/ WorkerRun \/ ImportEdit \/ EditorSave \/ MenuDelete \/ MenuDrop \/ FactoryReset
<1>1. CASE UNCHANGED vars
  BY <1>1
<1>2. CASE \/ BootDone \/ RainHome \/ RainGate \/ RainSettles \/ WakeEarly \/ Wake \/ LockDeck
           \/ Submit \/ PadResult \/ PadCancel \/ PadIdle \/ HomeConnect \/ ConnectStart
           \/ ConnectCancel \/ ConnectFinish \/ HostKeyAnswer \/ SessionTick \/ SessionMenu
  BY <1>2 DEF BootDone, RainHome, RainGate, RainSettles, WakeEarly, Wake, LockDeck, Submit,
     PadResult, PadCancel, PadIdle, HomeConnect, ConnectStart, ConnectCancel, ConnectFinish,
     HostKeyAnswer, SessionTick, SessionMenu
<1>3. CASE \/ PowerOffDone \/ HomeReload \/ HomeConfig \/ PairingEnter \/ PairingExit
           \/ ServiceEnter \/ WifiprovExit \/ ImportExit \/ EditorOpen \/ EditorCancel
           \/ MenuTick \/ MenuLeave \/ MenuDisconnect \/ MenuCode \/ MenuGrab \/ MenuMove
           \/ MenuLetGo \/ LinkDrops \/ PowerCycle
  BY <1>3 DEF PowerOffDone, HomeReload, HomeConfig, PairingEnter, PairingExit, ServiceEnter,
     WifiprovExit, ImportExit, EditorOpen, EditorCancel, MenuTick, MenuLeave, MenuDisconnect,
     MenuCode, MenuGrab, MenuMove, MenuLetGo, LinkDrops, PowerCycle
<1>4. QED
  BY <1>1, <1>2, <1>3 DEF Next, Shell, Others

(* The order on flash changes with the drop of a grabbed tile or a reset   *)
(* only: a session that drops in mid-drag leaves no move behind that a     *)
(* later save would persist (menu_abort_reorder).                          *)
THEOREM OrderIsKept == Spec => OrderKept
<1> DEFINE Step == order' # order => grab \/ store' = "absent"
<1>1. ASSUME Inv, [Next]_vars
      PROVE  Step
  <2>1. CASE UNCHANGED flash
    BY <2>1
  <2>2. CASE WorkerRun \/ ImportEdit \/ EditorSave
    BY <2>2 DEF WorkerRun, ImportEdit, EditorSave
  <2>3. CASE MenuDelete
    <3>1. moved \in BOOLEAN /\ order \in BOOLEAN /\ (moved => grab) /\ ~grab
      BY <1>1, <2>3 DEF MenuDelete, InMenu, Inv, TypeOK, Still
    <3>2. moved = FALSE
      BY <3>1
    <3>3. order' = (order # moved)
      BY <2>3 DEF MenuDelete
    <3>4. order' = order
      BY <3>1, <3>2, <3>3
    <3>5. QED
      BY <3>4
  <2>4. CASE MenuDrop
    BY <2>4 DEF MenuDrop
  <2>5. CASE FactoryReset
    BY <2>5 DEF FactoryReset
  <2>6. QED
    BY <1>1, <2>1, <2>2, <2>3, <2>4, <2>5, FlashSteps
<1>2. Inv /\ [Next]_vars => [Step]_vars
  BY <1>1
<1>3. QED
  BY <1>2, Invariant, PTL DEF Spec, OrderKept

(* Saving one profile leaves every other one on flash, with its password,  *)
(* for any list, any state of the store and any contents of RAM: also a    *)
(* list in RAM that a lock has wiped (profile_commit reloads first).       *)
THEOREM EditKeeps == Spec => EditKeepsOthers
<1> DEFINE Step == screen = "profile" => \A n \in Names \ {editing} :
                     ini[n] # Absent => ini'[n] # Absent /\ (Kept(n) => Kept(n)')
<1>1. ASSUME Inv, [Next]_vars
      PROVE  Step
  <2>1. CASE UNCHANGED flash
    BY <2>1 DEF Kept
  <2>2. CASE WorkerRun \/ ImportEdit \/ MenuDelete \/ MenuDrop \/ FactoryReset
    BY <1>1, <2>2 DEF WorkerRun, ImportEdit, MenuDelete, MenuDrop, FactoryReset, InMenu,
                      Inv, Busy, Working
  <2>3. CASE EditorSave
    <3> SUFFICES ASSUME NEW m \in Names \ {editing}, ini[m] # Absent
                 PROVE  ini'[m] # Absent /\ (Kept(m) => Kept(m)')
      OBVIOUS
    <3> DEFINE old == LoadOf(store, ini, bundle)
    <3>1. PICK n \in Names, pw \in {draft, Plain} :
            /\ n # editing => old[n] = Absent
            /\ Save([x \in Names |-> IF x = n THEN pw ELSE IF x = editing THEN Absent ELSE old[x]])
      BY <2>3 DEF EditorSave, Commit
    <3> DEFINE new == [x \in Names |-> IF x = n THEN pw ELSE IF x = editing THEN Absent ELSE old[x]]
    <3>2. /\ ini \in Files /\ bundle \in SUBSET Names /\ draft \in Copies
      BY <1>1 DEF Inv, TypeOK
    <3>3. old[m] = Absent <=> ini[m] = Absent
      BY <3>2, LoadList
    <3>4. old \in Lists
      BY <3>2, LoadList
    <3>5. new \in Lists /\ new[m] = old[m]
      BY <3>1, <3>2, <3>3, <3>4 DEF Lists, Copies
    <3>6. ini' = SavedIni(store, new) /\ bundle' = SavedBundle(store, new, bundle)
      BY <3>1 DEF Save
    <3> HIDE DEF new
    <3>7. ini'[m] # Absent
      BY <3>2, <3>3, <3>5, <3>6, SaveList
    <3>8. ASSUME Kept(m)
          PROVE  Kept(m)'
      <4>1. CASE store = "open"
        <5>1. old[m] \in Readable
          BY <3>2, <3>8, <4>1, LoadReads DEF Kept
        <5>2. ini'[m] = Mark /\ m \in bundle'
          BY <3>5, <3>6, <4>1, <5>1 DEF SavedIni, SavedBundle
        <5>3. QED
          BY <5>2 DEF Kept
      <4>2. CASE store # "open"
        <5>1. old[m] = ini[m]
          BY <3>2, <4>2, LoadList
        <5>2. ini'[m] = ini[m] /\ bundle' = bundle
          BY <3>2, <3>5, <3>6, <4>2, <5>1
             DEF SavedIni, SavedBundle, Raw, Files, Plain, Opened, Mark, Blank, Absent
        <5>3. QED
          BY <3>8, <5>2 DEF Kept
      <4>3. QED
        BY <4>1, <4>2
    <3>9. QED
      BY <3>7, <3>8
  <2>4. QED
    BY <1>1, <2>1, <2>2, <2>3, FlashSteps
<1>2. Inv /\ [Next]_vars => [Step]_vars
  BY <1>1
<1>3. QED
  BY <1>2, Invariant, PTL DEF Spec, EditKeepsOthers

(* The gate is left through an open store, with a fault, or not at all:    *)
(* for any profiles and any interleaving of the worker with the pad        *)
(* (unlock_tick, saver_on_input).                                          *)
THEOREM GateIsHeld == Spec => GateHolds
<1> DEFINE Step == LeavesGate => store = "open" \/ task.result = "error" \/ task' = Refused
<1>1. ASSUME Inv, [Next]_vars
      PROVE  Step
  <2> SUFFICES ASSUME screen = "unlock", pad.gate, screen' \notin {"unlock", "boot"}
               PROVE  store = "open" \/ task.result = "error" \/ task' = Refused
    BY DEF LeavesGate
  <2> USE DEF Go, EnterHome, Awake, InMenu
  <2>1. CASE UNCHANGED vars
    BY <2>1
  <2>2. CASE Submit
    <3>1. \E op \in {"unlock", "remove", "create", "change"} : StartWorker(op)
      BY <2>2 DEF Submit
    <3>2. QED
      BY <3>1 DEF StartWorker
  <2>3. CASE PadResult
    <3>1. task.at = "done" /\ task.op = "unlock" /\ (task.result = "ok" => store = "open")
      BY <1>1, <2>3 DEF PadResult, Inv, GateFits, Working
    <3>2. ~PadStays
      BY DEF PadStays
    <3>3. QED
      BY <2>3, <3>1, <3>2 DEF PadResult, Unlocked, PadOver, PadBroken
  <2>4. CASE \/ BootDone \/ RainHome \/ RainGate \/ RainSettles \/ WakeEarly \/ Wake \/ LockDeck
             \/ PadCancel \/ PadIdle \/ WorkerRun \/ LinkDrops \/ ImportEdit \/ PowerCycle
    BY <2>4 DEF BootDone, RainHome, RainGate, RainSettles, WakeEarly, Wake, LockDeck, OpenGate,
       OpenPad, PadCancel, PadIdle, WorkerRun, LinkDrops, ImportEdit, PowerCycle
  <2>5. CASE \/ HomeConnect \/ ConnectStart \/ ConnectCancel \/ ConnectFinish \/ HostKeyAnswer
             \/ SessionTick \/ SessionMenu \/ PowerOffDone \/ HomeReload \/ HomeConfig
             \/ PairingEnter \/ PairingExit \/ ServiceEnter \/ WifiprovExit \/ ImportExit
    BY <2>5 DEF HomeConnect, ConnectStart, ConnectCancel, ConnectFinish, HostKeyAnswer,
       SessionTick, SessionMenu, PowerOffDone, HomeReload, HomeConfig, PairingEnter, PairingExit,
       ServiceEnter, WifiprovExit, ImportExit
  <2>6. CASE \/ EditorOpen \/ EditorCancel \/ EditorSave \/ MenuTick \/ MenuLeave
             \/ MenuDisconnect \/ MenuCode \/ MenuDelete \/ MenuGrab \/ MenuMove \/ MenuDrop
             \/ MenuLetGo \/ FactoryReset
    BY <2>6 DEF EditorOpen, EditorCancel, EditorSave, MenuTick, MenuLeave, MenuDisconnect,
       MenuCode, MenuDelete, MenuGrab, MenuMove, MenuDrop, MenuLetGo, FactoryReset
  <2>7. QED
    BY <1>1, <2>1, <2>2, <2>3, <2>4, <2>5, <2>6 DEF Next, Shell, Others
<1>2. Inv /\ [Next]_vars => [Step]_vars
  BY <1>1
<1>3. QED
  BY <1>2, Invariant, PTL DEF Spec, GateHolds

(* A connect that starts with the store open has its profile's password,   *)
(* whatever became of the snapshot it was armed with (resolve_secret).     *)
THEOREM SecretIsResolved == Spec => SecretResolved
<1> DEFINE Step == cred = None /\ cred' # None /\ store = "open" /\ ini[active] = Mark
                     /\ active \in bundle => cred' \in Readable
<1>1. ASSUME [Next]_vars
      PROVE  cred' = cred \/ cred' = None \/ cred' = Secret
  <2>1. CASE ConnectStart \/ ConnectFinish \/ PowerCycle
    BY <2>1 DEF ConnectStart, ConnectFinish, PowerCycle
  <2>2. CASE UNCHANGED vars
    BY <2>2
  <2>3. CASE \/ BootDone \/ RainHome \/ RainGate \/ RainSettles \/ WakeEarly \/ Wake \/ LockDeck
             \/ Submit \/ PadResult \/ PadCancel \/ PadIdle \/ HomeConnect
             \/ ConnectCancel \/ HostKeyAnswer \/ SessionTick \/ SessionMenu \/ PowerOffDone
    BY <2>3 DEF BootDone, RainHome, RainGate, RainSettles, WakeEarly, Wake, LockDeck, Submit,
       PadResult, PadCancel, PadIdle, HomeConnect, ConnectCancel, HostKeyAnswer, SessionTick,
       SessionMenu, PowerOffDone
  <2>4. CASE \/ HomeReload \/ HomeConfig \/ PairingEnter \/ PairingExit
             \/ ServiceEnter \/ WifiprovExit \/ ImportExit \/ EditorOpen \/ EditorCancel
             \/ EditorSave \/ MenuTick \/ MenuLeave \/ MenuDisconnect \/ MenuCode \/ MenuDelete
             \/ MenuGrab \/ MenuMove \/ MenuDrop \/ MenuLetGo \/ FactoryReset
             \/ WorkerRun \/ LinkDrops \/ ImportEdit
    BY <2>4 DEF HomeReload, HomeConfig, PairingEnter, PairingExit, ServiceEnter, WifiprovExit,
       ImportExit, EditorOpen, EditorCancel, EditorSave, MenuTick, MenuLeave, MenuDisconnect,
       MenuCode, MenuDelete, MenuGrab, MenuMove, MenuDrop, MenuLetGo, FactoryReset, WorkerRun,
       LinkDrops, ImportEdit
  <2>5. QED
    BY <1>1, <2>1, <2>2, <2>3, <2>4 DEF Next, Shell, Others
<1>2. [Next]_vars => [Step]_vars
  <2>1. \/ Secret = snap /\ snap \in Readable
        \/ Secret = Opened
        \/ ~(store = "open" /\ active \in bundle)
    BY DEF Secret
  <2>2. Opened \in Readable
    BY DEF Readable
  <2>3. QED
    BY <1>1, <2>1, <2>2
<1>3. QED
  BY <1>2, PTL DEF Spec, SecretResolved
=============================================================================
