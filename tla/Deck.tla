-------------------------------- MODULE Deck --------------------------------
(***************************************************************************)
(* The shell of cyberdeck_app: its screens, the lock, and the copies of    *)
(* passwords it keeps in RAM beside the ones the vault keeps on flash.     *)
(*                                                                         *)
(* One task runs every screen (tick, then input), so a handler is one      *)
(* action. The unlock worker is a second task: it runs the keystore call   *)
(* while the pad goes on ticking. An SSH session is a link that comes up,  *)
(* drops and is closed (modules SshSession, SshClient); the vault's files  *)
(* are replaced in one step here (module Vault cuts them apart).           *)
(*                                                                         *)
(* A password is "plain" where it was read from plaintext or just typed,   *)
(* "opened" where it came out of, or went into, the wrapped bundle,        *)
(* "@bundle" where the marker stands for it and "" where it is gone. Every *)
(* profile is created with one; limits of the list's length are left out.  *)
(***************************************************************************)
EXTENDS Naturals, FiniteSets

CONSTANTS
  PwNames,   \* profiles that log in with a password
  KeyNames,  \* profiles that log in with a key
  Faults     \* tasks may not be created, keystore calls may fail

ASSUME ConstAssumption ==
  /\ PwNames \cap KeyNames = {} /\ "none" \notin PwNames \union KeyNames
  /\ Faults \in BOOLEAN

Names == PwNames \union KeyNames
None  == "none"
Plain  == "plain"
Opened == "opened"
Mark   == "@bundle"
Blank  == ""
Absent == "absent"   \* no such profile

Readable == {Plain, Opened}
Copies   == {Plain, Opened, Mark, Blank}

Screens == {"boot", "home", "pairing", "hostkey", "connecting", "session", "poweroff",
            "menu", "wifiprov", "profile", "import", "unlock"}

VARIABLES
  screen,    \* app.state
  store,     \* keystore_state(): "absent", "locked", "open"
  ini,       \* password fields of profiles.ini
  bundle,    \* profiles with an entry in the wrapped secrets bundle
  order,     \* which of two orders profiles.ini is in
  ram,       \* password fields of app.profiles
  moved,     \* app.profiles is in another order than the file
  active,    \* app.conn.active: its profile
  snap,      \* app.conn.active: its password
  cred,      \* the password handed to the connect worker, or None
  draft,     \* app.pf.draft: its password
  editing,   \* app.pf: the profile being edited, "new", or None
  back,      \* app.pf.return_menu
  pad,       \* app.unlock: mode, ret, gate
  deriving,  \* app.unlock.deriving
  task,      \* the unlock worker: at, op, result
  saver,     \* rain: "off", "fresh" (less than a second), "up"
  conn,      \* app.conn: "none", "armed", "running"
  link,      \* the SSH session: "none", "live", "dropped"
  fromHome,  \* app.menu.from_home
  grab       \* app.menu.reorder_grab >= 0

flash == <<ini, bundle, order>>
copies == <<ram, moved, snap, draft>>
editor == <<editing, back>>
unlocking == <<pad, deriving, task>>
dial == <<active, cred, conn, link>>
menu == <<fromHome, grab>>
vars == <<screen, store, flash, copies, editor, unlocking, saver, dial, menu>>

Files == [Names -> {Absent, Plain, Mark, Blank}]
Lists == [Names -> Copies \union {Absent}]
Pads == [mode : {None, "unlock", "old", "new", "confirm", "remove"},
         ret : {"home", "connect", "menu"}, gate : BOOLEAN]
Works == [at : {"none", "run", "done", "refused"},
          op : {None, "unlock", "create", "change", "remove"},
          result : {None, "ok", "wrong", "wait", "error"}]

Closed == [mode |-> None, ret |-> "home", gate |-> FALSE]
NoTask == [at |-> "none", op |-> None, result |-> None]
Refused == [NoTask EXCEPT !.at = "refused"]   \* not created, as a toast says

TypeOK ==
  /\ screen \in Screens /\ store \in {"absent", "locked", "open"}
  /\ ini \in Files /\ bundle \in SUBSET Names /\ ram \in Lists
  /\ order \in BOOLEAN /\ moved \in BOOLEAN
  /\ active \in Names \union {None} /\ snap \in Copies
  /\ cred \in Copies \union {None} /\ draft \in Copies
  /\ editing \in Names \union {"new", None} /\ back \in BOOLEAN
  /\ pad \in Pads /\ deriving \in BOOLEAN /\ task \in Works
  /\ saver \in {"off", "fresh", "up"} /\ conn \in {"none", "armed", "running"}
  /\ link \in {"none", "live", "dropped"} /\ fromHome \in BOOLEAN /\ grab \in BOOLEAN
  \* What belongs to a screen is not left behind when it is left.
  /\ conn # "none" => screen = "connecting"
  /\ grab => screen = "menu"

Init ==
  /\ screen = "boot" /\ store = "absent"
  /\ ini = [n \in Names |-> Absent] /\ bundle = {} /\ order = FALSE
  /\ ram = ini /\ moved = FALSE /\ active = None /\ snap = Blank /\ cred = None
  /\ draft = Blank /\ editing = None /\ back = FALSE
  /\ pad = Closed /\ deriving = FALSE /\ task = NoTask
  /\ saver = "off" /\ conn = "none" /\ link = "none" /\ fromHome = FALSE /\ grab = FALSE

-----------------------------------------------------------------------------
(* storage_load_profiles with the store in state st.                       *)
LoadOf(st, rows, entries) ==
  [n \in Names |-> IF rows[n] # Mark \/ st # "open" THEN rows[n]
                   ELSE IF n \in entries THEN Opened ELSE Blank]

(* storage_profiles_write_raw.                                             *)
Raw(list) == [n \in Names |-> IF list[n] = Opened THEN Plain ELSE list[n]]

(* storage_save_profiles: diverted and pruned with the store open, written *)
(* as it is otherwise.                                                     *)
SavedIni(st, list) ==
  IF st = "open" THEN [n \in Names |-> IF list[n] \in Readable THEN Mark ELSE list[n]]
                 ELSE Raw(list)
SavedBundle(st, list, entries) ==
  IF st # "open" THEN entries
  ELSE {n \in Names : list[n] \in Readable \/ (n \in entries /\ list[n] # Absent)}
Save(list) == ini' = SavedIni(store, list) /\ bundle' = SavedBundle(store, list, bundle)

(* load_profiles.                                                          *)
Reload == ram' = LoadOf(store', ini', bundle') /\ moved' = FALSE

\* Variant: the snapshot of the last connect is forgotten.
LockKeepsSnapshot ==
  /\ store' = IF store = "open" THEN "locked" ELSE store
  /\ ram' = [n \in Names |-> IF ram[n] = Absent THEN Absent ELSE Blank]
  /\ draft' = Blank
  /\ UNCHANGED <<moved, snap>>

(* keystore_lock with its companion app_creds_wipe.                        *)
LockAndWipe ==
  /\ store' = IF store = "open" THEN "locked" ELSE store
  /\ ram' = [n \in Names |-> IF ram[n] = Absent THEN Absent ELSE Blank]
  /\ snap' = Blank /\ draft' = Blank
  /\ UNCHANGED moved

Go(s) == screen' = s
EnterHome == Go("home") /\ saver' = "off"
OpenPad(mode, ret, gate) ==
  /\ Go("unlock")
  /\ pad' = [mode |-> mode, ret |-> ret, gate |-> gate]
  /\ deriving' = FALSE
OpenGate == OpenPad("unlock", "home", TRUE)
Arm == Go("connecting") /\ conn' = "armed"

\* HOME and the gate react to input only once the rain is off.
Awake(s) == screen = s /\ saver = "off"

-----------------------------------------------------------------------------
(* Boot, rain and lock.                                                    *)
BootDone ==
  /\ screen = "boot"
  /\ IF store = "locked" THEN OpenGate /\ UNCHANGED saver
                         ELSE EnterHome /\ UNCHANGED <<pad, deriving>>
  /\ UNCHANGED <<store, flash, copies, editor, task, dial, menu>>

(* saver_tick_home: the deck goes cold as the rain goes up.                *)
RainHome ==
  /\ Awake("home")
  /\ saver' = "fresh"
  /\ LockAndWipe
  /\ UNCHANGED <<screen, flash, editor, unlocking, dial, menu>>

\* Variant: the rain also falls while the worker derives.
RainGateAlways ==
  /\ Awake("unlock") /\ pad.gate
  /\ saver' = "fresh"
  /\ UNCHANGED <<screen, store, flash, copies, editor, unlocking, dial, menu>>

RainGate ==
  /\ Awake("unlock") /\ pad.gate /\ ~deriving
  /\ saver' = "fresh"
  /\ UNCHANGED <<screen, store, flash, copies, editor, unlocking, dial, menu>>

RainSettles ==
  /\ saver = "fresh"
  /\ saver' = "up"
  /\ UNCHANGED <<screen, store, flash, copies, editor, unlocking, dial, menu>>

(* saver_on_input: a key in the first second acts on the screen beneath, a *)
(* later one wakes the deck, behind the gate if the store is locked.       *)
WakeEarly ==
  /\ saver = "fresh"
  /\ saver' = "off"
  /\ UNCHANGED <<screen, store, flash, copies, editor, unlocking, dial, menu>>

Wake ==
  /\ saver = "up"
  /\ saver' = "off"
  /\ IF store = "locked" THEN OpenGate ELSE UNCHANGED <<screen, pad, deriving>>
  /\ UNCHANGED <<store, flash, copies, editor, task, dial, menu>>

(* The panic tile, the L key, the menu's Lock deck, the walk-away lock.    *)
LockDeck ==
  /\ Awake("home") \/ (screen = "menu" /\ ~grab)
  /\ store # "absent"
  /\ LockAndWipe
  /\ OpenGate
  /\ UNCHANGED <<flash, editor, task, saver, dial, menu>>

-----------------------------------------------------------------------------
(* The pad.                                                                *)
(* start_worker; without a task the deck is on HOME, whichever pad it was. *)
StartWorker(op) ==
  \/ /\ deriving' = TRUE
     /\ task' = [at |-> "run", op |-> op, result |-> None]
     /\ UNCHANGED <<screen, pad, saver>>
  \/ /\ Faults
     /\ EnterHome /\ pad' = Closed
     /\ task' = Refused
     /\ UNCHANGED deriving

(* submit, one disjunct for each phase; a refused or mistyped code that    *)
(* starts no worker leaves the phase or falls back to "new".               *)
Submit ==
  /\ Awake("unlock") /\ ~deriving
  /\ \/ pad.mode = "unlock" /\ StartWorker("unlock")
     \/ pad.mode = "remove" /\ StartWorker("remove")
     \/ pad.mode = "confirm" /\ StartWorker(IF store = "absent" THEN "create" ELSE "change")
     \/ /\ \E next \in {<<"old", "new">>, <<"new", "confirm">>, <<"confirm", "new">>} :
             pad.mode = next[1] /\ pad' = [pad EXCEPT !.mode = next[2]]
        /\ UNCHANGED <<screen, deriving, task, saver>>
  /\ UNCHANGED <<store, flash, copies, editor, dial, menu>>

(* What an unlock or a new store finds in plaintext it takes into the      *)
(* bundle, by loading and saving the list.                                 *)
Adopt ==
  LET list == LoadOf("open", ini, bundle)
  IN  IF \E n \in Names : ini[n] = Plain
        THEN ini' = SavedIni("open", list) /\ bundle' = SavedBundle("open", list, bundle)
        ELSE UNCHANGED <<ini, bundle>>

(* secrets_restore_plaintext: what the bundle holds goes back to the ini.  *)
Restore ==
  /\ ini' = IF bundle = {} THEN ini ELSE Raw(LoadOf("open", ini, bundle))
  /\ bundle' = {}

(* unlock_worker: the keystore call. A new store tries no code.            *)
WorkerRun ==
  /\ task.at = "run"
  /\ \E r \in {"ok", "wrong", "wait", "error"} :
       /\ r = "error" => Faults
       /\ r \in {"wrong", "wait"} => task.op # "create"
       /\ task' = [task EXCEPT !.at = "done", !.result = r]
       /\ \/ r = "ok" /\ task.op \in {"unlock", "create"} /\ store' = "open" /\ Adopt
          \/ r = "ok" /\ task.op = "remove" /\ store' = "absent" /\ Restore
          \/ r = "error" /\ task.op = "remove" /\ Restore /\ UNCHANGED store
          \/ /\ r # "ok" \/ task.op = "change"
             /\ UNCHANGED <<store, ini, bundle>>
  /\ UNCHANGED <<screen, order, copies, editor, pad, deriving, saver, dial, menu>>

(* unlock_finish: wherever the pad was opened from.                        *)
PadDone ==
  /\ pad' = Closed
  /\ \/ pad.ret = "home" /\ EnterHome /\ UNCHANGED conn
     \/ pad.ret = "connect" /\ Arm /\ UNCHANGED saver
     \/ pad.ret = "menu" /\ Go("menu") /\ UNCHANGED <<saver, conn>>

Unlocked ==
  /\ task.op = "unlock" /\ task.result = "ok"
  /\ Reload
  /\ PadDone

PadStays ==
  /\ \/ task.result = "wrong"
     \/ task.result = "wait"
  /\ pad' = [pad EXCEPT !.mode = IF task.op = "change" THEN "old" ELSE @]
  /\ UNCHANGED <<screen, saver, conn, ram, moved>>

PadOver ==
  /\ \/ task.op # "unlock" /\ task.result = "ok"
     \/ task.op # "unlock" /\ task.result = "error"
  /\ PadDone
  /\ UNCHANGED <<ram, moved>>

PadBroken ==
  /\ task.op = "unlock" /\ task.result = "error"
  /\ EnterHome /\ pad' = Closed
  /\ UNCHANGED <<conn, ram, moved>>

(* unlock_tick with a finished worker, worker_result.                      *)
PadResult ==
  /\ screen = "unlock" /\ deriving /\ task.at = "done"
  /\ deriving' = FALSE /\ task' = NoTask
  /\ UNCHANGED <<store, flash, snap, draft, editor, active, cred, link, menu>>
  /\ Unlocked \/ PadStays \/ PadOver \/ PadBroken

\* Variant: Escape works on the gate.
PadCancelAny ==
  /\ Awake("unlock") /\ ~deriving
  /\ pad' = Closed
  /\ IF pad.ret = "menu" THEN Go("menu") /\ UNCHANGED saver ELSE EnterHome
  /\ UNCHANGED <<store, flash, copies, editor, deriving, task, dial, menu>>

(* Escape: back to the menu, or HOME; a connect is not resumed.            *)
PadCancel ==
  /\ Awake("unlock") /\ ~pad.gate /\ ~deriving
  /\ pad' = Closed
  /\ IF pad.ret = "menu" THEN Go("menu") /\ UNCHANGED saver ELSE EnterHome
  /\ UNCHANGED <<store, flash, copies, editor, deriving, task, dial, menu>>

(* A minute without input: HOME in every case.                             *)
PadIdle ==
  /\ screen = "unlock" /\ ~pad.gate /\ ~deriving
  /\ pad' = Closed
  /\ EnterHome
  /\ UNCHANGED <<store, flash, copies, editor, deriving, task, dial, menu>>

-----------------------------------------------------------------------------
(* Connecting and the session.                                             *)
(* start_connect: the profile is copied; a key needs an open store.        *)
HomeConnect ==
  /\ Awake("home")
  /\ \E n \in Names :
       /\ ram[n] # Absent
       /\ active' = n /\ snap' = ram[n]
       /\ IF n \in KeyNames /\ store = "locked"
            THEN OpenPad("unlock", "connect", FALSE) /\ UNCHANGED conn
            ELSE Arm /\ UNCHANGED <<pad, deriving>>
  /\ UNCHANGED <<store, flash, ram, moved, draft, editor, task, saver, cred, link, menu>>

\* Variant: a snapshot's field is used as it is.
SecretAsCopied == snap

(* resolve_secret: a real value in the snapshot wins, else the bundle.     *)
Secret ==
  IF snap \in Readable THEN snap
  ELSE IF store = "open" /\ active \in bundle THEN Opened ELSE Blank

(* do_connect_start. The connect worker closes whatever link was left.     *)
ConnectStart ==
  /\ screen = "connecting" /\ conn = "armed"
  /\ \/ /\ active \in KeyNames /\ store = "locked"
        /\ OpenPad("unlock", "connect", FALSE)
        /\ conn' = "none"
        /\ UNCHANGED <<cred, link, saver>>
     \/ /\ ~(active \in KeyNames /\ store = "locked")
        /\ cred' = Secret
        /\ conn' = "running" /\ link' = "none"
        /\ UNCHANGED <<screen, pad, deriving, saver>>
     \/ /\ Faults
        /\ conn' = "none"
        /\ EnterHome
        /\ UNCHANGED <<cred, link, pad, deriving>>
  /\ UNCHANGED <<store, flash, copies, editor, task, active, menu>>

ConnectCancel ==
  /\ screen = "connecting" /\ conn = "armed"
  /\ conn' = "none"
  /\ EnterHome
  /\ UNCHANGED <<store, flash, copies, editor, unlocking, active, cred, link, menu>>

(* do_connect_finish: a session, a prompt for the host key, another try,   *)
(* or HOME; the credential handed to the worker is wiped in every case.    *)
ConnectFinish ==
  /\ screen = "connecting" /\ conn = "running"
  /\ cred' = None
  /\ \/ Go("session") /\ link' = "live" /\ conn' = "none" /\ UNCHANGED saver
     \/ Go("hostkey") /\ conn' = "none" /\ UNCHANGED <<link, saver>>
     \/ Arm /\ UNCHANGED <<link, saver>>
     \/ EnterHome /\ conn' = "none" /\ UNCHANGED link
  /\ UNCHANGED <<store, flash, copies, editor, unlocking, active, menu>>

HostKeyAnswer ==
  /\ screen = "hostkey"
  /\ \/ Arm /\ UNCHANGED saver
     \/ EnterHome /\ UNCHANGED conn
  /\ UNCHANGED <<store, flash, copies, editor, unlocking, active, cred, link, menu>>

LinkDrops ==
  /\ link = "live"
  /\ link' = "dropped"
  /\ UNCHANGED <<screen, store, flash, copies, editor, unlocking, saver, active, cred, conn,
                 menu>>

(* enter_home_after_collapse: the animation is a setting.                  *)
Collapse == EnterHome \/ (Go("poweroff") /\ UNCHANGED saver)

\* Variant: a drag in progress survives the session's end.
SessionDroppedKeepsDrag ==
  /\ Collapse
  /\ grab' = FALSE
  /\ UNCHANGED <<ram, moved>>

(* session_dropped: a drag in progress is undone (menu_abort_reorder).     *)
SessionDropped ==
  /\ Collapse
  /\ grab' = FALSE
  /\ IF grab THEN ram' = LoadOf(store, ini, bundle) /\ moved' = FALSE
             ELSE UNCHANGED <<ram, moved>>

(* session_tick: another try, or the end, after a logout with a proper     *)
(* disconnect.                                                             *)
SessionTick ==
  /\ screen = "session" /\ link # "live"
  /\ \/ Arm /\ UNCHANGED <<ram, moved, grab, link, saver>>
     \/ link' \in {link, "none"} /\ SessionDropped /\ UNCHANGED conn
  /\ UNCHANGED <<store, flash, snap, draft, editor, unlocking, active, cred, fromHome>>

SessionMenu ==
  /\ screen = "session"
  /\ Go("menu") /\ fromHome' = FALSE
  /\ UNCHANGED <<store, flash, copies, editor, unlocking, saver, dial, grab>>

PowerOffDone ==
  /\ screen = "poweroff"
  /\ EnterHome
  /\ UNCHANGED <<store, flash, copies, editor, unlocking, dial, menu>>

-----------------------------------------------------------------------------
(* HOME's other tiles and keys, and the screens they lead to.              *)
HomeReload ==
  /\ Awake("home")
  /\ UNCHANGED <<screen, store, flash, snap, draft, editor, unlocking, saver, dial, menu>>
  /\ Reload

HomeConfig ==
  /\ Awake("home")
  /\ Go("menu") /\ fromHome' = TRUE
  /\ UNCHANGED <<store, flash, copies, editor, unlocking, saver, dial, grab>>

\* A screen of the configuration can be entered from HOME or from the menu.
InMenu == screen = "menu" /\ ~grab

PairingEnter ==
  /\ Awake("home") \/ InMenu
  /\ Go("pairing")
  /\ UNCHANGED <<store, flash, copies, editor, unlocking, saver, dial, menu>>

(* exit_pairing: back to a live session, whatever the way in was.          *)
PairingExit ==
  /\ screen = "pairing"
  /\ IF link = "live" THEN Go("session") /\ UNCHANGED saver ELSE EnterHome
  /\ UNCHANGED <<store, flash, copies, editor, unlocking, dial, menu>>

(* enter_wifiprov, enter_sshimport: HOME when the server does not start.   *)
ServiceEnter ==
  /\ InMenu
  /\ \/ screen' \in {"wifiprov", "import"} /\ UNCHANGED saver
     \/ EnterHome
  /\ UNCHANGED <<store, flash, copies, editor, unlocking, dial, menu>>

WifiprovExit ==
  /\ screen = "wifiprov"
  /\ EnterHome
  /\ UNCHANGED <<store, flash, copies, editor, unlocking, dial, menu>>

(* The import server's task edits the list on flash, one form at a time.   *)
ImportEdit ==
  /\ screen = "import"
  /\ \E n \in Names, what \in {Plain, Absent} :
       /\ what = Absent => ini[n] # Absent
       /\ Save([LoadOf(store, ini, bundle) EXCEPT ![n] = what])
  /\ UNCHANGED <<screen, store, order, copies, editor, unlocking, saver, dial, menu>>

\* Variant: the list in RAM is left as it was.
ImportExitStale ==
  /\ screen = "import"
  /\ EnterHome
  /\ UNCHANGED <<store, flash, copies, editor, unlocking, dial, menu>>

ImportExit ==
  /\ screen = "import"
  /\ EnterHome
  /\ UNCHANGED <<store, flash, snap, draft, editor, unlocking, dial, menu>>
  /\ Reload

-----------------------------------------------------------------------------
(* The profile editor.                                                     *)
EditorOpen ==
  /\ Awake("home") \/ InMenu
  /\ Go("profile") /\ back' = (screen = "menu")
  /\ \/ editing' = "new" /\ draft' = Blank
     \/ /\ screen = "menu"
        /\ \E n \in Names : ram[n] # Absent /\ editing' = n /\ draft' = ram[n]
  /\ UNCHANGED <<store, flash, ram, moved, snap, unlocking, saver, dial, menu>>

\* enter_profile sets editing and back anew; the draft stays behind.
ExitEditor ==
  /\ IF back THEN Go("menu") /\ UNCHANGED saver ELSE EnterHome
  /\ editing' = None /\ back' = FALSE

EditorCancel ==
  /\ screen = "profile"
  /\ ExitEditor
  /\ draft' \in {draft, Plain}
  /\ UNCHANGED <<store, flash, ram, moved, snap, unlocking, dial, menu>>

(* profile_commit puts the draft, or the password typed over it, into the  *)
(* list that is on flash, under a name no other profile has.               *)
Commit(list) ==
  \E n \in Names, pw \in {draft, Plain} :
    /\ editing \in Names => list[editing] # Absent
    /\ n # editing => list[n] = Absent
    /\ editing = "new" => pw = Plain
    /\ draft' = IF store = "open" /\ pw = Plain THEN Opened ELSE pw
    /\ Save([m \in Names |-> IF m = n THEN pw
                             ELSE IF m = editing THEN Absent ELSE list[m]])

\* Variant: the list in RAM stands for the one on flash.
EditorSaveFromRam ==
  /\ screen = "profile"
  /\ Commit(ram)
  /\ ExitEditor
  /\ UNCHANGED <<store, order, snap, unlocking, dial, menu>>
  /\ Reload

EditorSave ==
  /\ screen = "profile"
  /\ Commit(LoadOf(store, ini, bundle))
  /\ ExitEditor
  /\ UNCHANGED <<store, order, snap, unlocking, dial, menu>>
  /\ Reload

-----------------------------------------------------------------------------
(* The menu.                                                               *)
(* menu_tick: the end of the session ends its menu, with no other try.     *)
MenuTick ==
  /\ screen = "menu" /\ ~fromHome /\ link # "live"
  /\ SessionDropped
  /\ UNCHANGED <<store, flash, snap, draft, editor, unlocking, dial, fromHome>>

MenuLeave ==
  /\ InMenu
  /\ IF fromHome THEN EnterHome ELSE Go("session") /\ UNCHANGED saver
  /\ UNCHANGED <<store, flash, copies, editor, unlocking, dial, menu>>

MenuDisconnect ==
  /\ InMenu /\ ~fromHome
  /\ link' = "none"
  /\ Collapse
  /\ UNCHANGED <<store, flash, copies, editor, unlocking, active, cred, conn, menu>>

MenuCode ==
  /\ InMenu
  /\ \/ OpenPad(IF store = "absent" THEN "new" ELSE "old", "menu", FALSE)
     \/ store # "absent" /\ OpenPad("remove", "menu", FALSE)
  /\ UNCHANGED <<store, flash, copies, editor, task, saver, dial, menu>>

(* delete_profile_at saves the list in RAM, less one.                      *)
MenuDelete ==
  /\ InMenu
  /\ \E n \in Names : ram[n] # Absent /\ Save([ram EXCEPT ![n] = Absent])
  /\ order' = (order # moved)
  /\ UNCHANGED <<screen, store, snap, draft, editor, unlocking, saver, dial, menu>>
  /\ Reload

(* A tile is grabbed, carried about in RAM, and dropped or let go.         *)
MenuGrab ==
  /\ InMenu
  /\ \A n \in Names : ram[n] # Absent
  /\ grab' = TRUE
  /\ UNCHANGED <<screen, store, flash, copies, editor, unlocking, saver, dial, fromHome>>

MenuMove ==
  /\ screen = "menu" /\ grab
  /\ moved' = ~moved
  /\ UNCHANGED <<screen, store, flash, ram, snap, draft, editor, unlocking, saver, dial, menu>>

MenuDrop ==
  /\ screen = "menu" /\ grab
  /\ grab' = FALSE
  /\ Save(ram) /\ order' = (order # moved)
  /\ UNCHANGED <<screen, store, snap, draft, editor, unlocking, saver, dial, fromHome>>
  /\ Reload

MenuLetGo ==
  /\ screen = "menu" /\ grab
  /\ grab' = FALSE
  /\ UNCHANGED <<screen, store, flash, snap, draft, editor, unlocking, saver, dial, fromHome>>
  /\ Reload

FactoryReset ==
  /\ InMenu
  /\ store' = "absent" /\ ini' = [n \in Names |-> Absent] /\ bundle' = {} /\ order' = FALSE
  /\ UNCHANGED <<screen, snap, draft, editor, unlocking, saver, dial, menu>>
  /\ Reload

(* The power goes: RAM is lost and the flash is read again.                *)
PowerCycle ==
  /\ screen' = "boot"
  /\ store' = IF store = "absent" THEN "absent" ELSE "locked"
  /\ active' = None /\ snap' = Blank /\ cred' = None /\ draft' = Blank
  /\ editing' = None /\ back' = FALSE /\ pad' = Closed /\ deriving' = FALSE /\ task' = NoTask
  /\ saver' = "off" /\ conn' = "none" /\ link' = "none" /\ fromHome' = FALSE /\ grab' = FALSE
  /\ UNCHANGED flash
  /\ Reload

-----------------------------------------------------------------------------
Shell ==
  \/ BootDone \/ RainHome \/ RainGate \/ RainSettles \/ WakeEarly \/ Wake \/ LockDeck
  \/ Submit \/ PadResult \/ PadCancel \/ PadIdle
  \/ HomeConnect \/ ConnectStart \/ ConnectCancel \/ ConnectFinish \/ HostKeyAnswer
  \/ SessionTick \/ SessionMenu \/ PowerOffDone
  \/ HomeReload \/ HomeConfig \/ PairingEnter \/ PairingExit
  \/ ServiceEnter \/ WifiprovExit \/ ImportExit
  \/ EditorOpen \/ EditorCancel \/ EditorSave
  \/ MenuTick \/ MenuLeave \/ MenuDisconnect \/ MenuCode \/ MenuDelete
  \/ MenuGrab \/ MenuMove \/ MenuDrop \/ MenuLetGo \/ FactoryReset
Others == WorkerRun \/ LinkDrops \/ ImportEdit \/ PowerCycle

Next == Shell \/ Others
Spec == Init /\ [][Next]_vars

-----------------------------------------------------------------------------
(* Properties.                                                             *)

(* Locking takes back everything the vault ever gave out: while the store  *)
(* is locked no password from its bundle is left in the profile list, the  *)
(* snapshot of the last connect, the editor's draft or the buffer the      *)
(* connect worker reads (keystore_lock and app_creds_wipe, on every path). *)
LockedIsCold ==
  store = "locked" =>
    /\ \A n \in Names : ram[n] # Opened
    /\ snap # Opened /\ draft # Opened /\ cred # Opened

(* While the unlock worker runs the pad waits for it, so that no second    *)
(* worker is started on the same static buffers (s_try, s_old, s_result).  *)
OneWorker == task.at = "run" => screen = "unlock" /\ deriving

(* The list HOME and the menu offer names the profiles that are on flash,  *)
(* after edits on flash by the editor, by the import server's task, by a   *)
(* removal or a reset.                                                     *)
ListFresh ==
  screen \in {"home", "menu"} => \A n \in Names : (ram[n] = Absent) = (ini[n] = Absent)

(* The password of profile n can be read from flash, with the store open.  *)
Kept(n) == ini[n] = Plain \/ (ini[n] = Mark /\ n \in bundle)

(* A connect that starts with the store open has the password its profile  *)
(* was saved with, even if the snapshot it was armed with was taken while  *)
(* the store was locked and the list was wiped or held markers.            *)
SecretResolved ==
  [][cred = None /\ cred' # None /\ store = "open" /\ ini[active] = Mark /\ active \in bundle
       => cred' \in Readable]_vars

(* Saving one profile in the editor leaves every other profile where it is *)
(* and its password readable, whatever the list in RAM looks like.         *)
EditKeepsOthers ==
  [][screen = "profile" => \A n \in Names \ {editing} :
       ini[n] # Absent => ini'[n] # Absent /\ (Kept(n) => Kept(n)')]_vars

(* The order of the profiles on flash changes only when a grabbed tile is  *)
(* dropped (or with a reset): a session that drops in the middle of a drag *)
(* leaves no move behind for a later save to persist.                      *)
OrderKept == [][order' # order => grab \/ store' = "absent"]_vars

(* The gate is not left but through an open store (or a power cycle): no   *)
(* Escape, no idle minute and no rain gets past it. The exception is a     *)
(* fault, a worker that cannot be created or a keystore that fails.        *)
LeavesGate == screen = "unlock" /\ pad.gate /\ screen' \notin {"unlock", "boot"}
GateHolds == [][LeavesGate => store = "open" \/ task.result = "error" \/ task' = Refused]_vars

(* docs/storage_auth.md: the deck is unlocked exactly when the store is;   *)
(* while it is locked the pad or the rain is up (app_saver.c).             *)
DeckGated ==
  store = "locked" => screen \in {"boot", "unlock"} \/ saver # "off"

(* app_saver.c: the wipe as the rain goes up does nothing without a store; *)
(* so no password that is in plaintext on flash is blanked in RAM, or by a *)
(* save of that list on flash.                                             *)
NoStoreNoWipe ==
  [][store = "absent" /\ store' = "absent" =>
       \A n \in Names : Kept(n) /\ ini'[n] # Absent /\ ram[n] \in Readable =>
                          ram'[n] \in Readable /\ Kept(n)']_vars

(* app_internal.h: a menu opened from HOME has no session behind it.       *)
FromHomeHasNoSession == screen = "menu" /\ fromHome => link # "live"
=============================================================================
