------------------------------ MODULE Keyboard ------------------------------
(***************************************************************************)
(* The BLE keyboard: looking for a known one, pairing a new one, opening   *)
(* it, and the supervisor that starts again whatever has stopped.          *)
(*                                                                         *)
(* Five tasks share the unlocked statics of ble_keyboard.c: the shell, the *)
(* NimBLE host task, the HID event task, the opener task that lives for    *)
(* one open, and the esp_timer task with the two keepers. The open itself  *)
(* (nimble_hidh.c) waits on one binary semaphore for callbacks of the host *)
(* task, each wait with a time limit. Phone presence (ble_presence.c)      *)
(* shares the radio: it scans while a keyboard is connected.               *)
(*                                                                         *)
(* The radio is external: one scan or one connect at a time, a second is   *)
(* refused; cancelling a scan is silent, its end is reported; a link that  *)
(* is terminated ends. The GATT traffic of an open, tens of requests each  *)
(* waited for in the same way, is one request here. Two tasks on one       *)
(* static control block are undefined: that state is the last one.         *)
(***************************************************************************)
EXTENDS Naturals, Sequences, FiniteSets

CONSTANTS
  Kbds,      \* keyboards, by address
  MaxLinks,  \* CONFIG_BT_NIMBLE_MAX_CONNECTIONS
  QueueMax   \* queue_size of the HID event loop (esp_hidh.c:85)

ASSUME KeyboardAssumption ==
  /\ "none" \notin Kbds
  /\ MaxLinks \in Nat \ {0} /\ QueueMax \in Nat \ {0}

None == "none"

VARIABLES
  \* ble_keyboard.c
  st,       \* s_state
  synced,   \* s_nimble_synced
  reg,      \* s_registry
  conn,     \* s_connected_dev
  live,     \* s_hid_open_live
  claim,    \* open_device_async: what the host task and the shell are about to open
  twice,    \* s_hid_open_tcb was given to a second task
  strikes,  \* s_no_scan_ticks
  found,    \* s_scan_results
  \* nimble_hidh.c and esp_hidh.c
  dev,      \* the devices of the list, and how far each has come
  sem,      \* s_ble_hidh_cb_semaphore is given
  due,      \* a GATT callback is still to come
  hidq,     \* events for the HID event task
  \* ble_presence.c
  have,     \* s_have_phone
  enroll,   \* s_enroll is ADVERTISING
  own,      \* s_own_scan
  \* the radio
  scan,     \* the scan that runs: "off", the keyboard's, presence's "own"
  ended,    \* the keyboard's scan has ended and the callback not yet run
  dial,     \* the keyboard being connected to
  up,       \* links: "down", "up", "ending"
  \* the tasks
  opener,   \* hid_open_task: where it is, and for which keyboard
  hid,      \* the HID event task: between the parts of a handler
  shell,    \* the shell: between the parts of a call
  screen    \* "home", "pairing"

kbd == <<st, synced, reg, conn, strikes, found>>
hidh == <<dev, sem, due>>
phone == <<have, enroll, own>>
radio == <<scan, ended, dial, up>>
ui == <<shell, screen>>
asked == <<live, claim, twice>>
open == <<asked, opener>>
vars == <<kbd, hidh, hidq, phone, radio, open, hid, ui>>

Callers == {"host", "shell"}
NoOpen == [pc |-> "none", k |-> None]
NoWork == [pc |-> "rest", k |-> None]

TypeOK ==
  /\ st \in {"IDLE", "RECONNECT", "PAIRING", "CONNECTING", "CONNECTED"}
  /\ synced \in BOOLEAN /\ live \in BOOLEAN /\ strikes \in 0 .. 1
  /\ reg \subseteq Kbds /\ found \subseteq Kbds /\ conn \in Kbds \union {None}
  /\ dev \in [Kbds -> {"none", "new", "linked", "gone", "open", "closed"}]
  /\ sem \in BOOLEAN /\ due \in BOOLEAN
  /\ hidq \in Seq([type : {"OPEN", "CLOSE"}, k : Kbds])
  /\ have \in BOOLEAN /\ enroll \in BOOLEAN /\ own \in BOOLEAN
  /\ scan \in {"off", "kbd", "own"} /\ ended \in BOOLEAN
  /\ dial \in Kbds \union {None} /\ up \in [Kbds -> {"down", "up", "ending"}]
  /\ opener \in [pc : {"none", "start", "dial", "gatt", "await", "checked", "post",
                       "backoff"}, k : Kbds \union {None}]
  /\ claim \in [Callers -> Kbds \union {None}]
  /\ twice \in BOOLEAN
  /\ hid \in [pc : {"rest", "save", "free"}, k : Kbds \union {None}]
  /\ shell \in {"boot", "rest", "wipe", "idle", "again", "leave"}
  /\ screen \in {"home", "pairing"}

Init ==
  /\ st = "IDLE" /\ synced = FALSE /\ reg \in SUBSET Kbds /\ conn = None
  /\ strikes = 0 /\ found = {}
  /\ dev = [k \in Kbds |-> "none"] /\ sem = FALSE /\ due = FALSE /\ hidq = <<>>
  /\ have \in BOOLEAN /\ enroll = FALSE /\ own = FALSE
  /\ scan = "off" /\ ended = FALSE /\ dial = None /\ up = [k \in Kbds |-> "down"]
  /\ live = FALSE /\ opener = NoOpen /\ claim = [t \in Callers |-> None] /\ twice = FALSE
  /\ hid = NoWork
  /\ shell = "boot" /\ screen = "home"

-----------------------------------------------------------------------------
(* The radio's procedures. ble_gap_disc and ble_gap_connect are refused    *)
(* while either runs; a refused start_scan is only logged.                 *)

Links == {k \in Kbds : up[k] # "down"}
Started(s) == IF synced /\ s = "off" /\ dial = None THEN "kbd" ELSE s
StartScan == scan' = Started(scan)
Rescan == scan' = Started("off")     \* ble_gap_disc_cancel, then start_scan
CancelScan == scan' = "off"

(* Where a keyboard that is gone leaves the machine.                       *)
Fallback(r) == IF r # {} THEN "RECONNECT" ELSE "IDLE"
FallBack == /\ st' = Fallback(reg)
            /\ IF reg # {} THEN StartScan ELSE UNCHANGED scan

-----------------------------------------------------------------------------
(* open_device_async, on the host task or the shell t. The guards decline  *)
(* an open while one is under way, but nothing holds them until the state  *)
(* is committed: two allocations, of which either may fail, and the end of *)
(* the scan lie between. What another task does before the scan ends it    *)
(* could have done before the guards, so those two are one step.           *)
MayOpen == st # "CONNECTING" /\ ~live
Ask(t, k) == claim' = [claim EXCEPT ![t] = k] /\ CancelScan
HostFree == claim["host"] = None

(* The one static task is started, whether or not it is still running. Its *)
(* last store and its end are one step below: a start between the two is   *)
(* another that finds it there.                                            *)
OpenCommits(t) ==
  /\ claim[t] # None /\ claim' = [claim EXCEPT ![t] = None]
  /\ st' = "CONNECTING" /\ live' = TRUE
  /\ IF opener.pc = "none"
       THEN opener' = [pc |-> "start", k |-> claim[t]] /\ UNCHANGED twice
       ELSE twice' = TRUE /\ UNCHANGED opener
  /\ UNCHANGED <<synced, reg, conn, strikes, found, hidh, hidq, phone, radio, hid, ui>>

-----------------------------------------------------------------------------
(* The NimBLE host task: discovery events.                                 *)

(* An advertisement of k during the keyboard's scan.                       *)
Advert(k) ==
  /\ scan = "kbd" /\ up[k] = "down"
  /\ \/ st = "RECONNECT" /\ k \in reg /\ MayOpen /\ Ask("host", k) /\ UNCHANGED found
     \/ st = "PAIRING" /\ found' = found \union {k} /\ UNCHANGED <<claim, scan>>
  /\ UNCHANGED <<st, synced, reg, conn, strikes, hidh, hidq, phone, ended, dial, up, live,
                 twice, opener, hid, ui>>

ScanEnds ==
  /\ scan = "kbd" /\ scan' = "off" /\ ended' = TRUE
  /\ UNCHANGED <<kbd, hidh, hidq, phone, dial, up, open, hid, ui>>

DiscComplete ==
  /\ ended /\ ended' = FALSE
  /\ IF st \in {"RECONNECT", "PAIRING"} THEN StartScan ELSE UNCHANGED scan
  /\ UNCHANGED <<kbd, hidh, hidq, phone, dial, up, open, hid, ui>>

(* on_sync, and on_reset when the stack has failed: by then it has         *)
(* reported the end of its scan and of every link.                         *)
OnSync ==
  /\ ~synced /\ synced' = TRUE
  /\ IF reg # {} THEN st' = "RECONNECT" /\ scan' = IF scan = "off" /\ dial = None THEN "kbd" ELSE scan
                 ELSE UNCHANGED <<st, scan>>
  /\ UNCHANGED <<reg, conn, strikes, found, hidh, hidq, phone, ended, dial, up, open, hid, ui>>

OnReset ==
  /\ synced /\ dial = None /\ Links = {} /\ synced' = FALSE
  /\ st' = "IDLE" /\ scan' = "off" /\ ended' = FALSE
  /\ own' = (own /\ scan # "own")
  /\ UNCHANGED <<reg, conn, strikes, found, hidh, hidq, have, enroll, dial, up, open, hid, ui>>

-----------------------------------------------------------------------------
(* The host task: connection events of esp_hidh_gattc_event_handler. The   *)
(* device being opened is the opener's until it is announced.              *)

Opening(k) == opener.k = k /\ opener.pc \in {"dial", "gatt", "await", "checked"}

(* A link nobody is opening any more is left without a device.             *)
LinkUp(k) ==
  /\ dial = k /\ dial' = None /\ up' = [up EXCEPT ![k] = "up"]
  /\ IF dev[k] = "none" THEN UNCHANGED <<dev, sem>>
                        ELSE dev' = [dev EXCEPT ![k] = "linked"] /\ sem' = TRUE
  /\ UNCHANGED <<kbd, due, hidq, phone, scan, ended, open, hid, ui>>

LinkFails(k) ==
  /\ dial = k /\ dial' = None /\ sem' = TRUE
  /\ dev' = IF Opening(k) THEN [dev EXCEPT ![k] = "gone"] ELSE dev
  /\ UNCHANGED <<kbd, due, hidq, phone, scan, ended, up, open, hid, ui>>

\* Variant: the CLOSE of a device that is still being opened.
LinkDownCloses(k) ==
  /\ up[k] # "down" /\ up' = [up EXCEPT ![k] = "down"]
  /\ \/ /\ dev[k] \in {"linked", "open"} /\ Len(hidq) < QueueMax
        /\ dev' = [dev EXCEPT ![k] = "closed"]
        /\ hidq' = Append(hidq, [type |-> "CLOSE", k |-> k])
     \/ dev[k] \notin {"linked", "open"} /\ UNCHANGED <<dev, hidq>>
  /\ sem' = (sem \/ due) /\ due' = FALSE
  /\ UNCHANGED <<kbd, phone, scan, ended, dial, open, hid, ui>>

(* The link is gone: mid-open the opener is released and unwinds; else the *)
(* app is told, unless the device never existed. Requests under way fail.  *)
LinkDown(k) ==
  /\ up[k] # "down" /\ up' = [up EXCEPT ![k] = "down"]
  /\ \/ /\ Opening(k) /\ dev' = [dev EXCEPT ![k] = "gone"] /\ UNCHANGED hidq
     \/ /\ ~Opening(k) /\ dev[k] = "open" /\ Len(hidq) < QueueMax
        /\ dev' = [dev EXCEPT ![k] = "closed"]
        /\ hidq' = Append(hidq, [type |-> "CLOSE", k |-> k])
     \/ ~Opening(k) /\ dev[k] # "open" /\ UNCHANGED <<dev, hidq>>
  /\ sem' = (sem \/ due \/ Opening(k)) /\ due' = FALSE
  /\ UNCHANGED <<kbd, phone, scan, ended, dial, open, hid, ui>>

(* A callback, perhaps of a request whose wait has timed out.              *)
GattAnswers ==
  /\ due /\ due' = FALSE /\ sem' = TRUE
  /\ UNCHANGED <<kbd, dev, hidq, phone, radio, open, hid, ui>>

-----------------------------------------------------------------------------
(* The opener task.                                                        *)

OpenerAt(place) == opener.pc = place
OpenerGoes(place) == opener' = [opener EXCEPT !.pc = place]
(* The device is freed before the link is dropped (abort_open).            *)
Unwind(k) ==
  /\ dev' = [dev EXCEPT ![k] = "none"] /\ OpenerGoes("backoff")

(* An address already in the list is refused. The semaphore is drained.    *)
OpenBegin ==
  /\ OpenerAt("start")
  /\ LET k == opener.k
         idle == synced /\ scan = "off" /\ dial = None /\ Cardinality(Links) < MaxLinks IN
     \/ dev[k] # "none" /\ OpenerGoes("backoff") /\ UNCHANGED <<dev, sem, dial>>
     \/ dev[k] = "none" /\ ~idle /\ OpenerGoes("backoff") /\ sem' = FALSE /\ UNCHANGED <<dev, dial>>
     \/ /\ dev[k] = "none" /\ idle /\ OpenerGoes("dial")
        /\ dev' = [dev EXCEPT ![k] = "new"] /\ dial' = k /\ sem' = FALSE
  /\ UNCHANGED <<kbd, due, hidq, phone, scan, ended, up, asked, hid, ui>>

(* The connection id is zero until the callback sets it, so a stray signal *)
(* passes for a connection.                                                *)
Dialled ==
  /\ OpenerAt("dial") /\ sem /\ sem' = FALSE
  /\ IF dev[opener.k] = "gone" THEN Unwind(opener.k) ELSE OpenerGoes("gatt") /\ UNCHANGED dev
  /\ UNCHANGED <<kbd, due, hidq, phone, radio, asked, hid, ui>>

DialTimeout ==
  /\ OpenerAt("dial") /\ ~sem /\ Unwind(opener.k)
  /\ UNCHANGED <<kbd, sem, due, hidq, phone, radio, asked, hid, ui>>

Terminate(k) == up' = IF up[k] = "up" THEN [up EXCEPT ![k] = "ending"] ELSE up

(* A request on a dead link is refused at once.                            *)
GattAsk ==
  /\ OpenerAt("gatt")
  /\ IF up[opener.k] = "up"
       THEN OpenerGoes("await") /\ due' = TRUE /\ UNCHANGED dev
       ELSE Unwind(opener.k) /\ UNCHANGED due
  /\ UNCHANGED <<kbd, sem, hidq, phone, radio, asked, hid, ui>>

(* The answer: the device is no use, or it is complete and its link is     *)
(* there as it is looked at for the last time.                             *)
GattDone ==
  /\ OpenerAt("await") /\ sem /\ sem' = FALSE
  /\ LET k == opener.k IN
     \/ dev[k] = "linked" /\ OpenerGoes("checked") /\ UNCHANGED <<dev, up>>
     \/ Unwind(k) /\ Terminate(k)
  /\ UNCHANGED <<kbd, due, hidq, phone, scan, ended, dial, asked, hid, ui>>

(* The device leaves the opener's hands, also one that has just died.      *)
GattRelease ==
  /\ OpenerAt("checked") /\ OpenerGoes("post")
  /\ LET k == opener.k IN
     dev' = IF dev[k] = "linked" THEN [dev EXCEPT ![k] = "open"] ELSE dev
  /\ UNCHANGED <<kbd, sem, due, hidq, phone, radio, asked, hid, ui>>

\* Variant: the wait has no limit.
GattNoTimeout == FALSE /\ UNCHANGED vars

GattTimeout ==
  /\ OpenerAt("await") /\ ~sem
  /\ Unwind(opener.k) /\ Terminate(opener.k)
  /\ UNCHANGED <<kbd, sem, due, hidq, phone, scan, ended, dial, asked, hid, ui>>

(* OPEN is posted after the device has left the opener's hands: a CLOSE    *)
(* may already be before it, or never come.                                *)
Announce ==
  /\ OpenerAt("post") /\ Len(hidq) < QueueMax
  /\ hidq' = Append(hidq, [type |-> "OPEN", k |-> opener.k])
  /\ opener' = NoOpen /\ live' = FALSE
  /\ UNCHANGED <<kbd, hidh, phone, radio, claim, twice, hid, ui>>

\* Variant: the opener does not look for the keyboard again.
BackoffForgets ==
  /\ OpenerAt("backoff") /\ opener' = NoOpen /\ live' = FALSE
  /\ UNCHANGED <<kbd, scan, claim, twice, hidh, hidq, phone, ended, dial, up, hid, ui>>

(* After the back-off the state is written whatever it has become.         *)
BackoffEnds ==
  /\ OpenerAt("backoff") /\ FallBack
  /\ opener' = NoOpen /\ live' = FALSE
  /\ UNCHANGED <<synced, reg, conn, strikes, found, hidh, hidq, phone, ended, dial, up,
                 claim, twice, hid, ui>>

-----------------------------------------------------------------------------
(* The HID event task: hidh_callback, and what follows it.                 *)

Event(type) == hid.pc = "rest" /\ hidq # <<>> /\ Head(hidq).type = type /\ hidq' = Tail(hidq)

(* Whether the device still exists is asked of its pointer, which a later  *)
(* open may have been given again.                                         *)
OnOpen ==
  /\ Event("OPEN")
  /\ LET k == Head(hidq).k IN
     IF dev[k] = "none"
       THEN st' = "RECONNECT" /\ StartScan /\ UNCHANGED <<conn, hid>>
       ELSE /\ conn' = k /\ st' = "CONNECTED" /\ hid' = [pc |-> "save", k |-> k]
            /\ UNCHANGED scan
  /\ UNCHANGED <<synced, reg, strikes, found, hidh, phone, ended, dial, up, open, ui>>

OnOpenSave ==
  /\ hid.pc = "save" /\ reg' = reg \union {hid.k} /\ hid' = NoWork
  /\ UNCHANGED <<st, synced, conn, strikes, found, hidh, hidq, phone, radio, open, ui>>

(* Whichever device closed, and whatever the shell has begun meanwhile.    *)
OnClose ==
  /\ Event("CLOSE") /\ conn' = None
  /\ st' = Fallback(reg)
  /\ IF reg # {} THEN Rescan ELSE CancelScan
  /\ hid' = [pc |-> "free", k |-> Head(hidq).k]
  /\ UNCHANGED <<synced, reg, strikes, found, hidh, phone, ended, dial, up, open, ui>>

OnCloseFree ==
  /\ hid.pc = "free" /\ dev' = [dev EXCEPT ![hid.k] = "none"] /\ hid' = NoWork
  /\ UNCHANGED <<kbd, sem, due, hidq, phone, radio, open, ui>>

-----------------------------------------------------------------------------
(* The esp_timer task: keeper_cb and ble_presence's keeper_tick. Cancelling*)
(* a connect that is stuck only hastens LinkFails and is left out.         *)

KeeperVanished ==
  /\ synced /\ st = "CONNECTED" /\ conn # None /\ dev[conn] = "none"
  /\ conn' = None /\ FallBack
  /\ UNCHANGED <<synced, reg, strikes, found, hidh, hidq, phone, ended, dial, up, open, hid, ui>>

(* One sample without a scan says nothing, two in a row do.                *)
KeeperNoScan ==
  /\ synced /\ st \in {"RECONNECT", "PAIRING"}
  /\ IF ~live /\ scan = "off" /\ dial = None
       THEN IF strikes = 1 THEN strikes' = 0 /\ StartScan
                           ELSE strikes' = 1 /\ UNCHANGED scan
       ELSE strikes = 1 /\ strikes' = 0 /\ UNCHANGED scan
  /\ UNCHANGED <<st, synced, reg, conn, found, hidh, hidq, phone, ended, dial, up, open, hid, ui>>

KeeperIdle ==
  /\ synced /\ st = "IDLE" /\ reg # {} /\ ~live
  /\ st' = "RECONNECT" /\ StartScan
  /\ UNCHANGED <<synced, reg, conn, strikes, found, hidh, hidq, phone, ended, dial, up, open, hid, ui>>

PresenceScan ==
  /\ have /\ ~enroll /\ st = "CONNECTED" /\ ~own
  /\ synced /\ scan = "off" /\ dial = None
  /\ scan' = "own" /\ own' = TRUE
  /\ UNCHANGED <<kbd, hidh, hidq, have, enroll, ended, dial, up, open, hid, ui>>

PresenceYield ==
  /\ have /\ ~enroll /\ st # "CONNECTED" /\ own
  /\ CancelScan /\ own' = FALSE
  /\ UNCHANGED <<kbd, hidh, hidq, have, enroll, ended, dial, up, open, hid, ui>>

-----------------------------------------------------------------------------
(* The shell. P on HOME: enroll, cancel, or forget and enroll again; and   *)
(* the phone's side of it.                                                 *)
PhoneKey ==
  /\ screen = "home" /\ shell = "rest"
  /\ enroll' = ~enroll /\ have' = FALSE
  /\ UNCHANGED <<kbd, hidh, hidq, own, radio, open, hid, ui>>

PhoneEnrols ==
  /\ enroll /\ synced /\ Links = {}
  /\ enroll' = FALSE /\ have' = TRUE
  /\ UNCHANGED <<kbd, hidh, hidq, own, radio, open, hid, ui>>

(* main: ble_keyboard_reconnect_start, once.                               *)
BootReconnect ==
  /\ shell = "boot" /\ shell' = "rest"
  /\ IF st # "CONNECTED" /\ reg # {} /\ synced
       THEN st' = "RECONNECT" /\ StartScan ELSE UNCHANGED <<st, scan>>
  /\ UNCHANGED <<synced, reg, conn, strikes, found, hidh, hidq, phone, ended, dial, up, open, hid, screen>>

(* The pairing screen comes up whether the scan was refused or not.        *)
EnterPairing ==
  /\ \/ shell = "rest" /\ screen = "home"
     \/ shell = "again"
  /\ shell' = "rest" /\ screen' = "pairing"
  /\ IF synced /\ st # "CONNECTING"
       THEN st' = "PAIRING" /\ Rescan /\ found' = {}
       ELSE UNCHANGED <<st, scan, found>>
  /\ UNCHANGED <<synced, reg, conn, strikes, hidh, hidq, phone, ended, dial, up, open, hid>>

(* Cancel, the screen's time limit, and what follows a selection.          *)
ExitPairing ==
  /\ screen = "pairing" /\ shell \in {"rest", "leave"} /\ claim["shell"] = None
  /\ shell' = "rest" /\ screen' = "home"
  /\ IF st = "PAIRING"
       THEN st' = Fallback(reg) /\ IF reg # {} THEN Rescan ELSE CancelScan
       ELSE UNCHANGED <<st, scan>>
  /\ UNCHANGED <<synced, reg, conn, strikes, found, hidh, hidq, phone, ended, dial, up, open, hid>>

Select(k) ==
  /\ screen = "pairing" /\ shell = "rest" /\ k \in found
  /\ shell' = "leave"
  /\ (MayOpen /\ Ask("shell", k)) \/ UNCHANGED <<claim, scan>>
  /\ UNCHANGED <<kbd, hidh, hidq, phone, ended, dial, up, live, twice, opener, hid, screen>>

(* ble_keyboard_forget_all, from the pairing screen or the menu: the scan  *)
(* and the device, then the stored bonds, then the state.                  *)
ForgetAll ==
  /\ shell = "rest" /\ shell' = "wipe" /\ CancelScan
  /\ IF conn # None /\ dev[conn] # "none" THEN Terminate(conn) ELSE UNCHANGED up
  /\ conn' = None
  /\ UNCHANGED <<st, synced, reg, strikes, found, hidh, hidq, phone, ended, dial, open, hid, screen>>

ForgetBonds ==
  /\ shell = "wipe" /\ shell' = "idle" /\ reg' = {}
  /\ UNCHANGED <<st, synced, conn, strikes, found, hidh, hidq, phone, radio, open, hid, screen>>

ForgetIdle ==
  /\ shell = "idle" /\ st' = "IDLE"
  /\ shell' = IF screen = "pairing" THEN "again" ELSE "rest"
  /\ UNCHANGED <<synced, reg, conn, strikes, found, hidh, hidq, phone, radio, open, hid, screen>>

-----------------------------------------------------------------------------
Discovery == DiscComplete \/ GattAnswers \/ OnSync \/ OnReset \/ (\E k \in Kbds : Advert(k))
LinkEvents == \E k \in Kbds : LinkUp(k) \/ LinkFails(k) \/ LinkDown(k)
HostTask == HostFree /\ (Discovery \/ LinkEvents)
Opener == \/ OpenBegin \/ Dialled \/ DialTimeout \/ GattAsk \/ GattDone \/ GattRelease
          \/ GattTimeout \/ Announce \/ BackoffEnds
HidEvents == OnOpen \/ OnOpenSave \/ OnClose \/ OnCloseFree
Keeper == KeeperVanished \/ KeeperNoScan \/ KeeperIdle
Presence == PresenceScan \/ PresenceYield
ShellRuns == \/ BootReconnect \/ ForgetBonds \/ ForgetIdle
             \/ (shell = "again" /\ EnterPairing) \/ (shell = "leave" /\ ExitPairing)
User == \/ PhoneKey \/ PhoneEnrols \/ EnterPairing \/ ExitPairing \/ ForgetAll
        \/ (\E k \in Kbds : Select(k))

Runs == \/ HostTask \/ ScanEnds \/ (\E t \in Callers : OpenCommits(t))
        \/ Opener \/ HidEvents \/ Keeper \/ Presence \/ ShellRuns \/ User

Next == (~twice /\ Runs) \/ (twice /\ UNCHANGED vars)

(* The host task, once it is at it, the opener, the HID event task and the *)
(* keepers run, and a connect ends (30 s). No scan need find anything, no  *)
(* callback need come, and nothing is asked of the shell, of the reports   *)
(* of scans or of links.                                                   *)
HostWorks ==
  OpenCommits("host") \/ (HostFree /\ \E k \in Kbds : LinkUp(k) \/ LinkFails(k))
Fairness ==
  /\ WF_vars(~twice /\ HostWorks) /\ WF_vars(~twice /\ Opener)
  /\ WF_vars(~twice /\ HidEvents)
  /\ WF_vars(~twice /\ Keeper) /\ WF_vars(~twice /\ Presence)

Spec == Init /\ [][Next]_vars /\ Fairness

-----------------------------------------------------------------------------
(* Properties.                                                             *)

(* The opener owns its device until it is announced: no disconnect, late   *)
(* callback or event frees it while the opener is still discovering        *)
(* services on it (nimble_hidh.c:808-821, 1138-1150).                      *)
OpenerOwnsDevice ==
  \A k \in Kbds : Opening(k) => dev[k] \in {"new", "linked", "gone"}

(* An open ends, whatever callback is lost: the guard that declines every  *)
(* other connect is not held for ever (nimble_hidh.c:55-77,                *)
(* ble_keyboard.c:324-347), unless two tasks were started at once.         *)
OpenEnds == []<>(~live \/ twice)

(* As long as a known keyboard stays away and nobody pairs another, the    *)
(* deck listens for it again and again, whatever failed opens, lost links, *)
(* scans cut short and late events came before: no state needs a reboot    *)
(* (ble_keyboard.c:122-126, 857-864). Two states do need the user: a       *)
(* presence scan that outlives the forgotten phone, and a keyboard that    *)
(* died between the opener's last look and its announcement.               *)
Dead == st = "CONNECTED" /\ conn # None /\ dev[conn] = "gone"
Away == /\ synced /\ reg # {} /\ screen = "home" /\ shell = "rest" /\ Links = {}
        /\ scan = "own" => have /\ ~enroll
        /\ ~Dead /\ ~twice
Listening == scan = "kbd" /\ st = "RECONNECT"
KeepsLooking == <>[]Away => []<>Listening

(* app_pairing.c:138-139: "bonds cleared - re-scanning", the scan is       *)
(* restarted fresh. It is, and then the CLOSE of the keyboard just         *)
(* forgotten, or the end of a back-off, writes IDLE: while the screen says *)
(* it is scanning nothing is looked for, and the supervisor has no known   *)
(* keyboard to start again for.                                            *)
PairingScans ==
  [][screen = "pairing" /\ st = "PAIRING" /\ synced' /\ UNCHANGED ui => st' # "IDLE"]_vars
=============================================================================
