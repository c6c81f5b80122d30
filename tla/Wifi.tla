-------------------------------- MODULE Wifi --------------------------------
(***************************************************************************)
(* The WiFi manager: a list of stored networks tried in order, with a      *)
(* pause after each full round of failures, and an automatic return after  *)
(* a lost link.                                                            *)
(*                                                                         *)
(* Three tasks run its functions over the same unlocked statics: the shell *)
(* (connect, adopt, disconnect), the default event loop (the handlers of   *)
(* STA_START, STA_DISCONNECTED and GOT_IP) and the esp_timer task (the     *)
(* retry). A function is cut where another task may come between: between  *)
(* the copy of the list and the reset of the indices, after the test of    *)
(* s_intentional, inside the increment of s_profile_idx, between           *)
(* esp_wifi_set_config and esp_wifi_connect. Whatever else takes over the  *)
(* radio is here too: phone provisioning (wifi_provision.c) and the        *)
(* importer's access point.                                                *)
(*                                                                         *)
(* The radio is external, modelled as this code meets it: a configuration  *)
(* is refused while an attempt is in flight, a connect does nothing unless *)
(* the link is down (app_wifiprov.c:140-142), an attempt always ends, and  *)
(* starting a driver that runs posts STA_START again. The last is the      *)
(* kinder reading: otherwise a deck set up by phone and then parked would  *)
(* never connect, for s_started is still false.                            *)
(***************************************************************************)
EXTENDS Naturals, Sequences

CONSTANTS
  Nets,      \* networks
  Good,      \* those whose access point is there and whose password is right
  Vaulted,   \* those whose password the secrets bundle takes, in an open store
  Max,       \* STORAGE_WIFI_MAX
  QueueMax   \* bound: events the radio has posted and the loop not handled

ASSUME WifiAssumption ==
  /\ Good \subseteq Nets /\ Vaulted \subseteq Nets /\ {"none", "@bundle"} \cap Nets = {}
  /\ Max \in Nat \ {0} /\ QueueMax \in Nat \ {0}

None == "none"
Marked == "@bundle"     \* a stored network with the marker in place of its password
Tasks == {"shell", "loop", "timer"}
Places == {"rest", "try", "join", "drop", "next", "store", "reset", "leave", "cancel"}
Rows == 0 .. Max - 1
Elems(s) == {s[i] : i \in DOMAIN s}
Lists == {s \in UNION {[1 .. n -> Nets] : n \in 0 .. Max} :
            \A i, j \in DOMAIN s : i # j => s[i] # s[j]}

VARIABLES
  \* wifi_manager.c
  state,    \* s_state
  parked,   \* s_intentional
  started,  \* s_started
  rows,     \* s_profiles
  count,    \* s_profile_count
  idx,      \* s_profile_idx
  fails,    \* s_cycle_fails
  timer,    \* s_retry_timer is armed
  \* the radio
  running,  \* esp_wifi_start has taken effect
  config,   \* the network set by esp_wifi_set_config
  link,     \* the station interface: "down", "joining", "up"
  queue,    \* events not yet handled by the loop
  \* the tasks
  at,       \* where each of them is
  adopt,    \* the shell is in adopt, not in connect
  next,     \* the loop's new index, computed and not yet stored
  \* the rest of the deck
  saved,    \* the stored networks, in order
  gated,    \* those whose row shows the marker until the next unlock
  screen,   \* "home", "wifiprov", "import"
  prov      \* wifi_provision.c: s_state, s_got_ssid

table == <<rows, count, idx, fails>>
radio == <<running, config, link>>
tasks == <<at, adopt, next>>
deck == <<saved, gated, screen, prov>>
vars == <<state, parked, started, table, timer, radio, queue, tasks, deck>>

NoProv == [st |-> "idle", ssid |-> None]

TypeOK ==
  /\ state \in {"IDLE", "CONNECTING", "CONNECTED", "LOST", "FAILED"}
  /\ parked \in BOOLEAN /\ started \in BOOLEAN /\ timer \in BOOLEAN
  /\ rows \in [Rows -> Nets \union {Marked, None}]
  /\ count \in 0 .. Max /\ idx \in Rows /\ fails \in 0 .. Max
  /\ running \in BOOLEAN /\ config \in Nets \union {Marked, None}
  /\ link \in {"down", "joining", "up"}
  /\ queue \in Seq({"start", "gone", "ip", "cred_ok", "cred_fail"})
  /\ at \in [Tasks -> Places] /\ adopt \in BOOLEAN /\ next \in Rows
  /\ saved \in Lists /\ gated \subseteq Elems(saved) /\ screen \in {"home", "wifiprov", "import"}
  /\ prov \in [st : {"idle", "active", "received", "failed", "success"}, ssid : Nets \union {None}]

Init ==
  /\ state = "IDLE" /\ parked = FALSE /\ started = FALSE
  /\ rows = [r \in Rows |-> None] /\ count = 0 /\ idx = 0 /\ fails = 0 /\ timer = FALSE
  /\ running = FALSE /\ config = None /\ link = "down" /\ queue = <<>>
  /\ at = [t \in Tasks |-> "rest"] /\ adopt = FALSE /\ next = 0
  /\ saved \in Lists /\ gated = {} /\ screen = "home" /\ prov = NoProv

Post(e) == queue' = Append(queue, e)

-----------------------------------------------------------------------------
(* The radio.                                                              *)
AttemptEnds == link = "joining" /\ Len(queue) < QueueMax

JoinOk ==
  /\ AttemptEnds /\ config \in Good
  /\ link' = "up" /\ Post("ip")
  /\ UNCHANGED <<state, parked, started, table, timer, running, config, tasks, deck>>

(* A wrong password, a missing access point, no address.                   *)
JoinFail ==
  /\ AttemptEnds /\ config \notin Good
  /\ link' = "down" /\ Post("gone")
  /\ UNCHANGED <<state, parked, started, table, timer, running, config, tasks, deck>>

LinkDrops ==
  /\ link = "up" /\ Len(queue) < QueueMax
  /\ link' = "down" /\ Post("gone")
  /\ UNCHANGED <<state, parked, started, table, timer, running, config, tasks, deck>>

-----------------------------------------------------------------------------
(* try_current_profile, in whichever task: Choose reads the row and sets   *)
(* the configuration, Connect starts the attempt.                          *)

Resting(t) == at[t] = "rest"
Goto(t, place) == at' = [at EXCEPT ![t] = place] /\ UNCHANGED <<adopt, next>>

Choose(t) ==
  /\ at[t] = "try"
  /\ IF link = "joining"
       THEN UNCHANGED config /\ Goto(t, "rest")       \* set_config failed
       ELSE config' = rows[idx] /\ Goto(t, "join")
  /\ UNCHANGED <<state, parked, started, table, timer, running, link, queue, deck>>

Connect(t) ==
  /\ at[t] = "join" /\ Goto(t, "rest")
  /\ link' = IF running /\ link = "down" THEN "joining" ELSE link
  /\ UNCHANGED <<state, parked, started, table, timer, running, config, queue, deck>>

-----------------------------------------------------------------------------
(* The event loop: wifi_event_handler, and prov_event_handler beside it.   *)

Handle(e) ==
  /\ Resting("loop") /\ queue # <<>> /\ Head(queue) = e
  /\ UNCHANGED <<started, rows, count, idx, timer, radio, screen>>

StaStart ==
  /\ Handle("start") /\ queue' = Tail(queue)
  /\ Goto("loop", IF ~parked /\ count > 0 THEN "try" ELSE "rest")
  /\ UNCHANGED <<state, parked, fails, saved, gated, prov>>

(* The provisioning manager hears of the attempt it made itself.           *)
Echo(e) == queue' = IF prov.st = "received" THEN Append(Tail(queue), e) ELSE Tail(queue)

\* Variant: an intended disconnect leaves the state as it is.
StaDisconnectedKeeps ==
  /\ Handle("gone") /\ Echo("cred_fail")
  /\ Goto("loop", IF parked THEN "rest" ELSE "drop")
  /\ UNCHANGED <<state, parked, fails, saved, gated, prov>>

StaDisconnected ==
  /\ Handle("gone") /\ Echo("cred_fail")
  /\ Goto("loop", IF parked THEN "rest" ELSE "drop")
  /\ state' = IF parked THEN "IDLE" ELSE state
  /\ UNCHANGED <<parked, fails, saved, gated, prov>>

GotIp ==
  /\ Handle("ip") /\ Echo("cred_ok")
  /\ fails' = 0 /\ state' = "CONNECTED"
  /\ UNCHANGED <<parked, tasks, saved, gated, prov>>

(* save_creds puts the new network first, with the password the phone sent,*)
(* and drops what no longer fits.                                          *)
SaveFirst(net) ==
  LET known == net \in Elems(saved)
      old == IF known THEN CHOOSE i \in DOMAIN saved : saved[i] = net ELSE Len(saved) + 1
      size == IF known THEN Len(saved) ELSE IF Len(saved) < Max THEN Len(saved) + 1 ELSE Max
  IN [i \in 1 .. size |-> IF i = 1 THEN net ELSE IF i <= old THEN saved[i - 1] ELSE saved[i]]

(* Without a session the handler is not registered. A save that fails is   *)
(* only logged.                                                            *)
ProvSuccess ==
  /\ Handle("cred_ok") /\ queue' = Tail(queue)
  /\ \/ prov.st = "idle" /\ UNCHANGED <<prov, saved, gated>>
     \/ /\ prov.st # "idle" /\ prov' = [prov EXCEPT !.st = "success"]
        /\ \/ UNCHANGED <<saved, gated>>
           \/ /\ saved' = SaveFirst(prov.ssid)
              /\ gated' = (gated \ {prov.ssid}) \cap Elems(saved')
  /\ UNCHANGED <<state, parked, fails, tasks>>

ProvFail ==
  /\ Handle("cred_fail") /\ queue' = Tail(queue)
  /\ prov' = IF prov.st = "idle" THEN prov ELSE [prov EXCEPT !.st = "failed"]
  /\ UNCHANGED <<state, parked, fails, tasks, saved, gated>>

(* Past the test of s_intentional: the same access point first when a link *)
(* was lost, the next profile when an attempt failed.                      *)
LinkLost ==
  /\ at["loop"] = "drop"
  /\ \/ /\ state = "CONNECTED" /\ state' = "LOST" /\ fails' = 0
        /\ Goto("loop", "try")
     \/ /\ state # "CONNECTED" /\ Goto("loop", IF count > 0 THEN "next" ELSE "rest")
        /\ UNCHANGED <<state, fails>>
  /\ UNCHANGED <<parked, started, rows, count, idx, timer, radio, queue, deck>>

\* Variant: the index is left where it was.
AdvanceStays ==
  /\ at["loop"] = "next" /\ at' = [at EXCEPT !["loop"] = "store"]
  /\ next' = idx
  /\ UNCHANGED <<state, parked, started, table, timer, radio, queue, adopt, deck>>

(* advance_profile: the new index is computed, then stored; after a full   *)
(* round the timer is armed (esp_timer_start_once refuses one that is).    *)
Advance ==
  /\ at["loop"] = "next" /\ at' = [at EXCEPT !["loop"] = "store"]
  /\ next' = (idx + 1) % count
  /\ UNCHANGED <<state, parked, started, table, timer, radio, queue, adopt, deck>>

\* Variant: a round that began with a lost link arms no timer.
AdvanceStoreForgets ==
  /\ at["loop"] = "store" /\ idx' = next /\ next' = 0
  /\ LET over == fails + 1 >= count IN
     /\ fails' = IF over THEN 0 ELSE fails + 1
     /\ timer' = (timer \/ (over /\ state # "LOST"))
     /\ state' = IF over /\ state # "LOST" THEN "FAILED" ELSE state
     /\ at' = [at EXCEPT !["loop"] = IF over THEN "rest" ELSE "try"]
  /\ UNCHANGED <<parked, started, rows, count, radio, queue, adopt, deck>>

AdvanceStore ==
  /\ at["loop"] = "store" /\ idx' = next /\ next' = 0
  /\ LET over == fails + 1 >= count IN
     /\ fails' = IF over THEN 0 ELSE fails + 1
     /\ timer' = (timer \/ over)
     /\ state' = IF over /\ state # "LOST" THEN "FAILED" ELSE state
     /\ at' = [at EXCEPT !["loop"] = IF over THEN "rest" ELSE "try"]
  /\ UNCHANGED <<parked, started, rows, count, radio, queue, adopt, deck>>

\* Variant: the callback does not look at s_intentional.
RetryAlways ==
  /\ timer /\ Resting("timer") /\ timer' = FALSE /\ Goto("timer", "try")
  /\ UNCHANGED <<state, parked, started, table, radio, queue, deck>>

(* retry_timer_cb, in the esp_timer task.                                  *)
Retry ==
  /\ timer /\ Resting("timer") /\ timer' = FALSE
  /\ Goto("timer", IF parked \/ count = 0 THEN "rest" ELSE "try")
  /\ UNCHANGED <<state, parked, started, table, radio, queue, deck>>

-----------------------------------------------------------------------------
(* The shell: wifi_manager_connect and wifi_manager_adopt, cut between the *)
(* copy, which is the first they share with the other tasks, the reset and *)
(* the attempt. The copy writes the rows of the new list and no other:     *)
(* behind a shorter one the rows of the last stay.                         *)

ShellAt(place) == at["shell"] = place

\* Variant: the copy clears the rows behind a shorter list.
CopyClears(list, adopted) ==
  /\ count' = Len(list)
  /\ rows' = [r \in Rows |-> IF r < Len(list) THEN list[r + 1] ELSE None]
  /\ at' = [at EXCEPT !["shell"] = "reset"] /\ adopt' = adopted /\ UNCHANGED next

Copy(list, adopted) ==
  /\ count' = Len(list)
  /\ rows' = [r \in Rows |-> IF r < Len(list) THEN list[r + 1] ELSE rows[r]]
  /\ at' = [at EXCEPT !["shell"] = "reset"] /\ adopt' = adopted /\ UNCHANGED next

(* kick_wifi leaves out the rows that show the marker and keeps the order  *)
(* of the others: one list. No row left, no connect, and the manager keeps *)
(* the table it has.                                                       *)
Readable(all, hidden) ==
  {l \in Lists : /\ Elems(l) = Elems(all) \ hidden
                 /\ \A i, j \in DOMAIN l : i < j =>
                      \E m, n \in DOMAIN all : m < n /\ all[m] = l[i] /\ all[n] = l[j]}
NoKick == Goto("shell", "rest") /\ UNCHANGED <<rows, count>>
Kick(all, hidden) ==
  \E list \in Readable(all, hidden) : IF list = <<>> THEN NoKick ELSE Copy(list, FALSE)

(* An adopted link is kept. The first connect only starts the driver: the  *)
(* attempt is made by the handler of STA_START.                            *)
Reset ==
  /\ ShellAt("reset") /\ adopt' = FALSE /\ idx' = 0 /\ fails' = 0 /\ parked' = FALSE
  /\ UNCHANGED <<next, rows, count, timer, config, link, deck>>
  /\ LET keep == adopt /\ state = "CONNECTED"
         start == ~keep /\ ~started IN
     /\ start => Len(queue) < QueueMax
     /\ state' = IF keep THEN state ELSE "CONNECTING"
     /\ started' = (started \/ start) /\ running' = (running \/ start)
     /\ queue' = IF start THEN Append(queue, "start") ELSE queue
     /\ at' = [at EXCEPT !["shell"] = IF keep \/ start THEN "rest" ELSE "try"]

Idle == screen = "home" /\ ShellAt("rest")
Quiet == UNCHANGED <<state, parked, started, idx, fails, timer, radio, queue>>

(* W on HOME, and Reconnect in the menu.                                   *)
Reconnect == Idle /\ Kick(saved, gated) /\ Quiet /\ UNCHANGED deck

(* The store is locked: at boot, by hand, by an absent phone, by the rain. *)
(* A row whose password is in the bundle shows the marker from now on; a   *)
(* key that stops the rain in its first second still acts on HOME.         *)
Lock ==
  /\ Idle /\ gated = {} /\ gated' = Elems(saved) \cap Vaulted
  /\ Quiet /\ UNCHANGED <<rows, count, tasks, saved, screen, prov>>

(* An unlock makes every row readable, may append a credential found in    *)
(* the driver, and kicks the manager unless it is connected: kick_wifi     *)
(* reads the list from flash before it connects.                           *)
Unlock ==
  /\ Idle /\ gated' = {}
  /\ saved' \in {l \in Lists : Elems(saved) \subseteq Elems(l)}
  /\ IF state = "CONNECTED" THEN NoKick ELSE Kick(saved', {})
  /\ Quiet /\ UNCHANGED <<screen, prov>>

(* wifi_manager_disconnect, called by the two setup flows that take the    *)
(* radio; Leave is its esp_wifi_disconnect. What the provisioning manager  *)
(* said of an earlier session has been handled by then.                    *)
Park(s) ==
  /\ Idle /\ screen' = s /\ Elems(queue) \cap {"cred_ok", "cred_fail"} = {}
  /\ parked' = TRUE /\ timer' = FALSE /\ state' = "IDLE"
  /\ Goto("shell", "leave")
  /\ UNCHANGED <<started, table, radio, queue, saved, gated, prov>>

(* What follows: the provisioning manager starts the driver with an access *)
(* point beside the station, the importer's SoftAP in place of it. Either  *)
(* may fail; the screen is then HOME and the manager still parked.         *)
Leave ==
  /\ ShellAt("leave") /\ Goto("shell", "rest")
  /\ \E ok \in BOOLEAN :
       /\ screen' = IF ok THEN screen ELSE "home"
       /\ running' = IF ok THEN screen = "wifiprov" ELSE running
       /\ prov' = IF ok /\ screen = "wifiprov" THEN [st |-> "active", ssid |-> None] ELSE prov
       /\ queue' = queue \o (IF link = "down" THEN <<>> ELSE <<"gone">>)
                         \o (IF ok /\ screen = "wifiprov" /\ ~running THEN <<"start">> ELSE <<>>)
  /\ Len(queue') <= QueueMax /\ link' = "down"
  /\ UNCHANGED <<state, parked, started, table, timer, config, saved, gated>>

(* The phone, which first has to join the access point, sends a network:   *)
(* the provisioning manager tries it.                                      *)
PhoneSends(net) ==
  /\ prov.st \in {"active", "failed"} /\ link = "down" /\ queue = <<>>
  /\ prov' = [st |-> "received", ssid |-> net]
  /\ config' = net /\ link' = "joining"
  /\ UNCHANGED <<state, parked, started, table, timer, running, queue, tasks, saved, gated, screen>>

(* wifiprov_tick, once the acknowledgement has been shown: the rows as     *)
(* they are stored, also those that show the marker.                       *)
ProvDone ==
  /\ screen = "wifiprov" /\ ShellAt("rest") /\ prov.st = "success"
  /\ prov' = NoProv /\ screen' = "home"
  /\ IF saved = <<>> THEN Kick(saved, gated)
     ELSE Copy([i \in DOMAIN saved |-> IF saved[i] \in gated THEN Marked ELSE saved[i]], TRUE)
  /\ Quiet /\ UNCHANGED <<saved, gated>>

(* wifiprov_input reads the state, and cancels what may meanwhile have     *)
(* succeeded.                                                              *)
ProvCancel ==
  /\ screen = "wifiprov" /\ ShellAt("rest") /\ prov.st # "success"
  /\ Goto("shell", "cancel") /\ Quiet /\ UNCHANGED <<rows, count, deck>>

ProvCancelled ==
  /\ ShellAt("cancel")
  /\ prov' = NoProv /\ screen' = "home" /\ Kick(saved, gated)
  /\ Quiet /\ UNCHANGED <<saved, gated>>

(* exit_sshimport of the SoftAP mode: back to station mode, then the kick. *)
ImportExit ==
  /\ screen = "import" /\ ShellAt("rest") /\ Len(queue) < QueueMax
  /\ screen' = "home" /\ running' = TRUE /\ Post("start") /\ Kick(saved, gated)
  /\ UNCHANGED <<state, parked, started, idx, fails, timer, config, link, saved, gated, prov>>

-----------------------------------------------------------------------------
Radio == JoinOk \/ JoinFail \/ LinkDrops
Handlers == \/ StaStart \/ StaDisconnected \/ GotIp \/ ProvSuccess \/ ProvFail
            \/ LinkLost \/ Advance \/ AdvanceStore
Trying(t) == Choose(t) \/ Connect(t)
ShellRuns == Reset \/ Leave \/ ProvCancelled \/ Trying("shell")
User == \/ Reconnect \/ Lock \/ Unlock \/ Park("wifiprov") \/ Park("import")
        \/ (\E n \in Nets : PhoneSends(n))
        \/ ProvDone \/ ProvCancel \/ ImportExit

Next == \/ Radio \/ Handlers \/ Retry \/ ShellRuns \/ User
        \/ Trying("loop") \/ Trying("timer")

(* The tasks are scheduled, a timer that is armed fires, and the radio     *)
(* ends every attempt. Nobody need touch the deck, and a link need never   *)
(* drop.                                                                   *)
Fairness ==
  /\ WF_vars(Handlers \/ Trying("loop")) /\ WF_vars(Retry \/ Trying("timer"))
  /\ WF_vars(ShellRuns) /\ WF_vars(JoinOk \/ JoinFail)

Spec == Init /\ [][Next]_vars /\ Fairness

-----------------------------------------------------------------------------
(* Properties.                                                             *)

(* Every attempt is for a row the deck was given, although connect() may   *)
(* shorten the list under the loop's increment of s_profile_idx, once a    *)
(* lock has hidden some rows: the row read may be one of an older list     *)
(* behind the count, it is never one that was not written                  *)
(* (cyberdeck_app.c:207-218, wifi_manager.c:116, 148, 266).                *)
NeverBlank ==
  \A t \in Tasks : /\ at[t] = "try" => rows[idx] # None
                   /\ at[t] = "join" => config # None

(* What lets an SSH connect start is not stale: while the manager says     *)
(* CONNECTED the link is up, or the event that will say otherwise is on    *)
(* its way, through parking, adoption and strays (wifi_manager.c:173-191). *)
ConnectedIsUp ==
  state = "CONNECTED" => \/ link = "up"
                         \/ "gone" \in Elems(queue)
                         \/ at["loop"] = "drop"

(* Once parked, a task may finish an attempt it had decided on, and none   *)
(* decides on another: the setup screens have the radio to themselves      *)
(* (wifi_provision.c:141-144, wifi_manager.c:141, 168).                    *)
ParkedDecidesNothing ==
  [][\A t \in Tasks : parked /\ parked' /\ at[t] = "rest" => at'[t] \notin {"try", "join", "drop"}]_vars

(* While the manager has networks and is not parked, a link that is down   *)
(* does not stay down untried, whatever the shell did between the event    *)
(* and its handler (wifi_manager.h:5-6, 32-33).                            *)
KeepsTrying == []<>(link # "down" \/ parked \/ count = 0)

(* Left alone, the manager gets to a network that works wherever it is in  *)
(* the list: no overlap of a shell's connect, a late event and the retry   *)
(* leaves an index or a count of failures that skips it for ever. The      *)
(* overlap itself has to end: a retry that falls due, in every round, in   *)
(* the moment another attempt fails takes its turn (wifi_manager.c:141-162,*)
(* 258-279).                                                               *)
Alone == /\ ShellAt("rest") /\ ~parked
         /\ \E r \in Rows : r < count /\ rows[r] \in Good
Overlap == /\ timer \/ ~Resting("timer")
           /\ link = "joining" \/ queue # <<>> \/ ~Resting("loop")
GetsThere == <>[](Alone /\ ~Overlap) => []<>(link = "up")

(* wifi_manager.h:22 and 32-33: the state CONNECTING is that of a cycle    *)
(* through the profiles, which ends in a link or in the slow retry. W on   *)
(* HOME connects again over a link that is up (app_home.c:410), where a    *)
(* connect starts nothing and no event will come: the deck says it is      *)
(* connecting, and refuses to open a session, until the link drops.        *)
ConnectingEnds ==
  (state = "CONNECTING" /\ ShellAt("rest")) ~> (state # "CONNECTING" \/ ~ShellAt("rest"))
=============================================================================
