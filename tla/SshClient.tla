------------------------------ MODULE SshClient ------------------------------
(***************************************************************************)
(* ssh_client.c: three FreeRTOS tasks over one libssh2 session.            *)
(*                                                                         *)
(*   "shell"   core 1: starts and cancels connects, takes their result,    *)
(*             sends keystrokes, disconnects (app_connect.c, app_menu.c);  *)
(*   "worker"  core 0, priority 5: runs ssh_client_connect once;           *)
(*   "read"    core 0, priority 6: drains the channel into the terminal.   *)
(*                                                                         *)
(* Each action is what one task does between two points where another task *)
(* can observe or disturb it: an access to the volatile flags, a take or   *)
(* give of s_session_lock, a blocking call. Terminal bytes are counted in  *)
(* chunks, DNS and TCP are reduced to "succeeds or fails".                 *)
(***************************************************************************)
EXTENDS Naturals

CONSTANTS
  Keys,      \* host-key fingerprints a server may present
  NoKey,     \* no fingerprint (expected_fp = NULL, or s_fingerprint = "")
  MaxQueue,  \* bound: chunks of remote output in flight
  Budget,    \* chunks drained per wake (SSH_DRAIN_BUDGET / SSH_READ_CHUNK)
  RespMax,   \* bound: terminal replies buffered (SSH_RESP_BUF)
  MayStall   \* TRUE: the read task may outlast disconnect's two-second poll

ASSUME ConstAssumption ==
  /\ NoKey \notin Keys
  /\ MaxQueue \in Nat
  /\ Budget \in Nat \ {0}
  /\ RespMax \in Nat
  /\ MayStall \in BOOLEAN

Tasks    == {"shell", "worker", "read"}
Failures == {"FAIL", "AUTH", "UNKNOWN", "MISMATCH"}
Results  == Failures \union {"OK"}

ShellLabels  == {"home", "connecting", "undo", "session", "sendcheck",
                 "sendtake", "sendhold"}
CloseLabels  == {"poll", "kill", "cleanup", "deleted"}
WorkerLabels == {"none", "begin", "resolve", "tcp", "handshake", "auth", "open",
                 "spawn", "assign", "store", "publish"}
HeldLabels   == {"reading", "fed", "dropping", "settling"}
ReadLabels   == {"none", "check", "take", "flush", "delay", "exit", "unlink"}
                  \union HeldLabels

Labels == ShellLabels \union CloseLabels \union WorkerLabels \union ReadLabels

VARIABLES
  pc,         \* where each task is
  phase,      \* s_connect_phase
  result,     \* s_connect_result
  outcome,    \* the worker's return value of ssh_client_connect
  pin,        \* s_pending_cfg.expected_fp
  fp,         \* s_fingerprint
  cancelled,  \* app.conn.cancelled
  connected,  \* s_connected
  cleanEof,   \* s_clean_eof
  readDone,   \* s_read_task_done
  readTask,   \* s_read_task # NULL
  sock,       \* s_sock: "none", "open", or "shut" by connect_cancel
  channel,    \* s_channel # NULL (and with it the authenticated s_session)
  lock,       \* owner of s_session_lock, or "free"
  resp,       \* s_resp_len
  drained,    \* chunks read in this wake of the read task
  unshown,    \* output of this session fed to the terminal and not yet presented
  sync,       \* a synchronized update (?2026) is open in the terminal
  hostKey,    \* the key of the server behind the current session
  remote,     \* the far end: "open", "eof" (it closed the channel) or "lost"
  queue,      \* chunks the far end sent and nobody has read
  window      \* the far end accepts data

flags == <<connected, cleanEof, readDone, readTask>>
reader == <<drained, unshown, sync>>
attempt == <<phase, result, outcome, pin, fp, cancelled>>
line == <<hostKey, remote, queue, window>>
others == <<attempt, flags, sock, channel, lock, resp, reader, line>>
vars == <<pc, attempt, flags, sock, channel, lock, resp, reader, line>>

PcOK ==
  /\ pc \in [Tasks -> Labels]
  /\ pc["shell"] \in ShellLabels \union CloseLabels
  /\ pc["worker"] \in WorkerLabels \union CloseLabels
  /\ pc["read"] \in ReadLabels

RangeOK ==
  /\ phase \in {"idle", "pending", "done"}
  /\ result \in Results /\ outcome \in Results
  /\ pin \in Keys \union {NoKey} /\ fp \in Keys \union {NoKey}
  /\ hostKey \in Keys \union {NoKey}
  /\ sock \in {"none", "open", "shut"}
  /\ lock \in {"free", "shell", "read"}
  /\ resp \in 0..RespMax /\ drained \in 0..Budget /\ queue \in 0..MaxQueue
  /\ remote \in {"open", "eof", "lost"}

FlagOK ==
  /\ cancelled \in BOOLEAN /\ connected \in BOOLEAN /\ cleanEof \in BOOLEAN
  /\ readDone \in BOOLEAN /\ readTask \in BOOLEAN /\ channel \in BOOLEAN
  /\ unshown \in BOOLEAN /\ sync \in BOOLEAN /\ window \in BOOLEAN

(* Every task is at a point of its own program, every variable in range.   *)
TypeOK == PcOK /\ RangeOK /\ FlagOK

Init ==
  /\ pc = [t \in Tasks |-> IF t = "shell" THEN "home" ELSE "none"]
  /\ phase = "idle" /\ result = "FAIL" /\ outcome = "FAIL"
  /\ pin = NoKey /\ fp = NoKey /\ hostKey = NoKey
  /\ cancelled = FALSE /\ connected = FALSE /\ cleanEof = FALSE
  /\ readDone = TRUE /\ readTask = FALSE
  /\ sock = "none" /\ channel = FALSE /\ lock = "free"
  /\ resp = 0 /\ drained = 0 /\ unshown = FALSE /\ sync = FALSE
  /\ remote = "open" /\ queue = 0 /\ window = TRUE

Goto(t, label) == pc' = [pc EXCEPT ![t] = label]

-----------------------------------------------------------------------------
(* ssh_cleanup: everything libssh2 and the socket own is released. It does *)
(* not take s_session_lock.                                                *)
Cleanup ==
  /\ channel' = FALSE
  /\ sock' = "none"
  /\ connected' = FALSE
  /\ resp' = 0
  /\ hostKey' = NoKey

(* ssh_client_disconnect, from the shell or from the connect worker: first *)
(* s_connected falls, then up to 100 polls of s_read_task_done.            *)
BeginClose(t) ==
  /\ connected' = FALSE
  /\ Goto(t, "poll")

\* Variant: disconnect does not wait for the read task.
PollNotAtAll(t) ==
  /\ pc[t] = "poll"
  /\ Goto(t, "cleanup")
  /\ UNCHANGED others

PollDone(t) ==
  /\ pc[t] = "poll"
  /\ readDone
  /\ Goto(t, "cleanup")
  /\ UNCHANGED others

\* Variant: the poll gives up without deleting the read task.
PollTimeoutNoKill(t) ==
  /\ pc[t] = "poll"
  /\ MayStall
  /\ Goto(t, "cleanup")
  /\ UNCHANGED others

PollTimeout(t) ==
  /\ pc[t] = "poll"
  /\ MayStall
  /\ ~readDone
  /\ Goto(t, IF readTask THEN "kill" ELSE "cleanup")
  /\ UNCHANGED others

(* vTaskDelete(s_read_task) reads the handle again, after the log call: a  *)
(* handle the read task has just cleared is NULL, and vTaskDelete(NULL)    *)
(* deletes its caller. The mutex is replaced, whoever owned it.            *)
ForceDelete(t) ==
  /\ pc[t] = "kill"
  /\ IF readTask
       THEN /\ pc' = [pc EXCEPT ![t] = "cleanup", !["read"] = "none"]
            /\ readTask' = FALSE
            /\ readDone' = TRUE
            /\ lock' = "free"
       ELSE /\ Goto(t, "deleted")
            /\ UNCHANGED <<readTask, readDone, lock>>
  /\ UNCHANGED <<attempt, connected, cleanEof, sock, channel, resp, reader, line>>

FinishClose(t, label) ==
  /\ pc[t] = "cleanup"
  /\ Cleanup
  /\ Goto(t, label)
  /\ UNCHANGED <<attempt, cleanEof, readDone, readTask, lock, reader,
                 remote, queue, window>>

Close(t, label) ==
  \/ PollDone(t)
  \/ PollTimeout(t)
  \/ ForceDelete(t)
  \/ FinishClose(t, label)

-----------------------------------------------------------------------------
\* Variant: no priority between the two tasks of core 0.
NeverReady == FALSE

(* The connect worker. Core 0 schedules by strict priority: it runs only   *)
(* while the read task sleeps, waits for the mutex, or does not exist.     *)
ReadReady ==
  /\ pc["read"] \notin {"none", "delay"}
  /\ ~(pc["read"] = "take" /\ lock # "free")

WorkerBegin ==
  /\ pc["worker"] = "begin"
  /\ fp' = NoKey
  /\ BeginClose("worker")
  /\ UNCHANGED <<phase, result, outcome, pin, cancelled, cleanEof, readDone, readTask,
                 sock, channel, lock, resp, reader, line>>

(* A failing step of ssh_client_connect: cleanup, then return r.           *)
GiveUp(r) ==
  /\ Cleanup
  /\ outcome' = r
  /\ Goto("worker", "store")
  /\ UNCHANGED <<phase, result, pin, cancelled, cleanEof, readDone, readTask, lock,
                 reader, remote, queue, window>>

\* Variant: s_clean_eof is not reset by a new attempt.
ResolveKeepsEof ==
  /\ pc["worker"] = "resolve"
  /\ \/ outcome' = "FAIL" /\ Goto("worker", "store") /\ UNCHANGED sock
     \/ sock' = "open" /\ Goto("worker", "tcp") /\ UNCHANGED outcome
  /\ UNCHANGED <<phase, result, pin, fp, cancelled, flags, channel, lock, resp, reader,
                 line>>

(* getaddrinfo and socket(): no cleanup on failure, nothing is held yet.   *)
Resolve ==
  /\ pc["worker"] = "resolve"
  /\ cleanEof' = FALSE
  /\ \/ /\ outcome' = "FAIL"
        /\ Goto("worker", "store")
        /\ UNCHANGED sock
     \/ /\ sock' = "open"
        /\ Goto("worker", "tcp")
        /\ UNCHANGED outcome
  /\ UNCHANGED <<phase, result, pin, fp, cancelled, connected, readDone, readTask,
                 channel, lock, resp, reader, line>>

(* connect() and session_init. A shutdown() before the connection is up    *)
(* may or may not be felt, so "shut" does not force a failure here.        *)
TcpConnect ==
  /\ pc["worker"] = "tcp"
  /\ \/ GiveUp("FAIL") /\ UNCHANGED fp
     \/ /\ Goto("worker", "handshake")
        /\ UNCHANGED others

\* Variant: the presented key is not compared with the pinned one.
HandshakeTrusting ==
  /\ pc["worker"] = "handshake"
  /\ \/ GiveUp("FAIL") /\ UNCHANGED fp
     \/ /\ sock = "open"
        /\ \E k \in Keys :
             /\ fp' = k
             /\ \/ pin = NoKey /\ GiveUp("UNKNOWN")
                \/ /\ pin # NoKey
                   /\ hostKey' = k
                   /\ Goto("worker", "auth")
                   /\ UNCHANGED <<phase, result, outcome, pin, cancelled, flags, sock,
                                  channel, lock, resp, reader, remote, queue, window>>

(* Handshake and host-key check: no credential has left the device when an *)
(* unknown or a mismatching key sends the attempt home.                    *)
Handshake ==
  /\ pc["worker"] = "handshake"
  /\ \/ GiveUp("FAIL") /\ UNCHANGED fp
     \/ /\ sock = "open"
        /\ \E k \in Keys :
             /\ fp' = k
             /\ \/ pin = NoKey /\ GiveUp("UNKNOWN")
                \/ pin # NoKey /\ pin # k /\ GiveUp("MISMATCH")
                \/ /\ pin = k
                   /\ hostKey' = k
                   /\ Goto("worker", "auth")
                   /\ UNCHANGED <<phase, result, outcome, pin, cancelled, flags, sock,
                                  channel, lock, resp, reader, remote, queue, window>>

Authenticate ==
  /\ pc["worker"] = "auth"
  /\ \/ \E r \in {"AUTH", "FAIL"} : GiveUp(r) /\ UNCHANGED fp
     \/ /\ sock = "open"
        /\ Goto("worker", "open")
        /\ UNCHANGED others

(* Channel, PTY, shell, then the session goes live. The far end starts     *)
(* afresh.                                                                 *)
OpenShell ==
  /\ pc["worker"] = "open"
  /\ \/ GiveUp("FAIL") /\ UNCHANGED fp
     \/ /\ sock = "open"
        /\ channel' = TRUE
        /\ connected' = TRUE
        /\ readDone' = FALSE
        /\ remote' = "open" /\ queue' = 0 /\ window' = TRUE
        /\ Goto("worker", "spawn")
        /\ UNCHANGED <<attempt, cleanEof, readTask, sock, lock, resp, reader, hostKey>>

(* xTaskCreateStaticPinnedToCore: the new task preempts the worker before  *)
(* its handle is stored (Assign). Without memory for it the session ends.  *)
(* Nothing resets the terminal: an update the last session left open stays *)
(* open.                                                                   *)
Spawn ==
  /\ pc["worker"] = "spawn"
  /\ \/ /\ Cleanup
        /\ readDone' = TRUE
        /\ outcome' = "FAIL"
        /\ Goto("worker", "store")
        /\ UNCHANGED <<phase, result, pin, fp, cancelled, cleanEof, readTask, lock,
                       reader, remote, queue, window>>
     \/ /\ pc' = [pc EXCEPT !["worker"] = "assign", !["read"] = "check"]
        /\ drained' = 0
        /\ unshown' = FALSE
        /\ UNCHANGED <<attempt, flags, sock, channel, lock, resp, sync, line>>

Assign ==
  /\ pc["worker"] = "assign"
  /\ readTask' = TRUE
  /\ outcome' = "OK"
  /\ Goto("worker", "store")
  /\ UNCHANGED <<phase, result, pin, fp, cancelled, connected, cleanEof, readDone,
                 sock, channel, lock, resp, reader, line>>

(* ssh_connect_worker: the result first, the phase last, then it deletes   *)
(* itself.                                                                 *)
StoreResult ==
  /\ pc["worker"] = "store"
  /\ result' = outcome
  /\ Goto("worker", "publish")
  /\ UNCHANGED <<phase, outcome, pin, fp, cancelled, flags, sock, channel, lock, resp,
                 reader, line>>

Publish ==
  /\ pc["worker"] = "publish"
  /\ phase' = "done"
  /\ Goto("worker", "none")
  /\ UNCHANGED <<result, outcome, pin, fp, cancelled, flags, sock, channel, lock, resp,
                 reader, line>>

WorkerStep ==
  /\ ~ReadReady
  /\ \/ WorkerBegin \/ Close("worker", "resolve") \/ Resolve \/ TcpConnect
     \/ Handshake \/ Authenticate \/ OpenShell \/ Spawn \/ Assign
     \/ StoreResult \/ Publish

-----------------------------------------------------------------------------
(* The read task.                                                          *)
ReadCheck ==
  /\ pc["read"] = "check"
  /\ Goto("read", IF connected THEN "take" ELSE "exit")
  /\ drained' = 0
  /\ UNCHANGED <<attempt, flags, sock, channel, lock, resp, unshown, sync, line>>

ReadTake ==
  /\ pc["read"] = "take"
  /\ lock = "free"
  /\ lock' = "read"
  /\ Goto("read", "reading")
  /\ UNCHANGED <<attempt, flags, sock, channel, resp, reader, line>>

\* Variant: replies are appended without looking at the room left.
ReadDataUnclipped ==
  /\ pc["read"] = "reading"
  /\ queue > 0
  /\ queue' = queue - 1
  /\ drained' = drained + 1
  /\ unshown' = TRUE
  /\ sync' \in BOOLEAN
  /\ resp' \in resp..(resp + RespMax)
  /\ Goto("read", "fed")
  /\ UNCHANGED <<attempt, flags, sock, channel, lock, hostKey, remote, window>>

(* A chunk: parsed at once, its replies buffered as far as there is room   *)
(* and dropped beyond. It may open or close a synchronized update.         *)
ReadData ==
  /\ pc["read"] = "reading"
  /\ queue > 0
  /\ queue' = queue - 1
  /\ drained' = drained + 1
  /\ unshown' = TRUE
  /\ sync' \in BOOLEAN
  /\ resp' \in (IF connected THEN resp..RespMax ELSE {resp})
  /\ Goto("read", "fed")
  /\ UNCHANGED <<attempt, flags, sock, channel, lock, hostKey, remote, window>>

ReadAgain ==
  /\ pc["read"] = "reading"
  /\ sock = "open"
  /\ queue = 0
  /\ remote = "open"
  /\ Goto("read", "settling")
  /\ UNCHANGED others

(* Orderly EOF: s_clean_eof is raised before s_connected falls.            *)
ReadEof ==
  /\ pc["read"] = "reading"
  /\ queue = 0
  /\ remote = "eof"
  /\ cleanEof' = TRUE
  /\ Goto("read", "dropping")
  /\ UNCHANGED <<attempt, connected, readDone, readTask, sock, channel, lock, resp,
                 reader, line>>

\* Variant: a read error does not end the session.
ReadErrorIgnored ==
  /\ pc["read"] = "reading"
  /\ remote = "lost" \/ sock = "shut"
  /\ Goto("read", "settling")
  /\ UNCHANGED others

ReadError ==
  /\ pc["read"] = "reading"
  /\ remote = "lost" \/ sock = "shut"
  /\ Goto("read", "dropping")
  /\ UNCHANGED others

ReadDrop ==
  /\ pc["read"] = "dropping"
  /\ connected' = FALSE
  /\ Goto("read", "settling")
  /\ UNCHANGED <<attempt, cleanEof, readDone, readTask, sock, channel, lock, resp,
                 reader, line>>

\* Variant: a session that has dropped skips the flush.
ReadSettleNoTail ==
  /\ pc["read"] \in {"fed", "settling"}
  /\ lock' = "free"
  /\ \/ Goto("read", IF connected THEN "flush" ELSE "exit")
     \/ /\ connected /\ pc["read"] = "fed" /\ drained < Budget
        /\ Goto("read", "take")
  /\ UNCHANGED <<attempt, flags, sock, channel, resp, reader, line>>

(* While still connected: replies go out without blocking, then the        *)
(* channel is asked for EOF. Otherwise the lock is given back, and after a *)
(* chunk the drain goes on within its budget (or less: the time limit).    *)
ReadSettle ==
  /\ pc["read"] \in {"fed", "settling"}
  /\ resp' = IF connected /\ window THEN 0 ELSE resp
  /\ \/ /\ connected
        /\ remote = "eof" /\ queue = 0
        /\ cleanEof' = TRUE
        /\ Goto("read", "dropping")
        /\ UNCHANGED lock
     \/ /\ ~(connected /\ remote = "eof" /\ queue = 0)
        /\ lock' = "free"
        /\ \/ Goto("read", "flush")
           \/ /\ connected /\ pc["read"] = "fed" /\ drained < Budget
              /\ Goto("read", "take")
        /\ UNCHANGED cleanEof
  /\ UNCHANGED <<attempt, connected, readDone, readTask, sock, channel, reader, line>>

(* vterm_flush after a wake that drained something, also when the session  *)
(* has just dropped. It presents nothing while a synchronized update is    *)
(* open.                                                                   *)
ReadFlush ==
  /\ pc["read"] = "flush"
  /\ unshown' = (unshown /\ (sync \/ drained = 0))
  /\ Goto("read", IF connected THEN "delay" ELSE "exit")
  /\ UNCHANGED <<attempt, flags, sock, channel, lock, resp, drained, sync, line>>

ReadWake ==
  /\ pc["read"] = "delay"
  /\ Goto("read", "check")
  /\ UNCHANGED others

\* Variant: the read task ends without raising s_read_task_done.
ReadExitSilently ==
  /\ pc["read"] = "exit"
  /\ Goto("read", "unlink")
  /\ UNCHANGED others

(* s_read_task_done, then s_read_task, then vTaskDelete(NULL).             *)
ReadExit ==
  /\ pc["read"] = "exit"
  /\ readDone' = TRUE
  /\ Goto("read", "unlink")
  /\ UNCHANGED <<attempt, connected, cleanEof, readTask, sock, channel, lock, resp,
                 reader, line>>

ReadUnlink ==
  /\ pc["read"] = "unlink"
  /\ readTask' = FALSE
  /\ Goto("read", "none")
  /\ UNCHANGED <<attempt, connected, cleanEof, readDone, sock, channel, lock, resp,
                 reader, line>>

ReadRun ==
  \/ ReadCheck \/ ReadData \/ ReadAgain \/ ReadEof \/ ReadError \/ ReadDrop
  \/ ReadSettle \/ ReadFlush \/ ReadWake \/ ReadExit \/ ReadUnlink

-----------------------------------------------------------------------------
(* The shell. "home" is every screen with no session on it, "connecting"   *)
(* the CONNECTING screen with a worker under way.                          *)
ShellStart ==
  /\ pc["shell"] = "home"
  /\ phase # "pending"
  /\ \E p \in Keys \union {NoKey} : pin' = p
  /\ result' = "FAIL"
  /\ \/ /\ phase' = "pending"
        /\ cancelled' = FALSE
        /\ pc' = [pc EXCEPT !["shell"] = "connecting", !["worker"] = "begin"]
     \/ /\ phase' = "idle"               \* no stack, or no task: "connect busy"
        /\ UNCHANGED <<cancelled, pc>>
  /\ UNCHANGED <<outcome, fp, flags, sock, channel, lock, resp, reader, line>>

ShellCancel ==
  /\ pc["shell"] = "connecting"
  /\ ~cancelled
  /\ cancelled' = TRUE
  /\ sock' = IF sock = "none" THEN "none" ELSE "shut"
  /\ UNCHANGED <<pc, phase, result, outcome, pin, fp, flags, channel, lock, resp, reader,
                 line>>

\* Variant: a cancelled connect that succeeded is not disconnected.
ShellTakeKeepsSession ==
  /\ pc["shell"] = "connecting"
  /\ phase = "done"
  /\ phase' = "idle"
  /\ cancelled' = FALSE
  /\ Goto("shell", IF ~cancelled /\ result = "OK" THEN "session" ELSE "home")
  /\ UNCHANGED <<result, outcome, pin, fp, flags, sock, channel, lock, resp, reader, line>>

(* do_connect_finish: a connect that succeeded as it was cancelled is      *)
(* disconnected at once.                                                   *)
ShellTake ==
  /\ pc["shell"] = "connecting"
  /\ phase = "done"
  /\ phase' = "idle"
  /\ cancelled' = FALSE
  /\ \/ /\ cancelled /\ result = "OK"
        /\ Goto("shell", "undo")
     \/ /\ ~cancelled /\ result = "OK"
        /\ Goto("shell", "session")
     \/ /\ result # "OK"
        /\ Goto("shell", "home")
  /\ UNCHANGED <<result, outcome, pin, fp, flags, sock, channel, lock, resp, reader, line>>

ShellUndo ==
  /\ pc["shell"] = "undo"
  /\ BeginClose("shell")
  /\ UNCHANGED <<attempt, cleanEof, readDone, readTask, sock, channel, lock, resp, reader,
                 line>>

(* session_tick on a dropped session: a logout is disconnected, anything   *)
(* else is left for the next connect to clean up.                          *)
ShellNotice ==
  /\ pc["shell"] = "session"
  /\ ~connected
  /\ IF cleanEof THEN BeginClose("shell") ELSE Goto("shell", "home") /\ UNCHANGED connected
  /\ UNCHANGED <<attempt, cleanEof, readDone, readTask, sock, channel, lock, resp, reader,
                 line>>

(* The menu's Disconnect.                                                  *)
ShellDisconnect ==
  /\ pc["shell"] = "session"
  /\ BeginClose("shell")
  /\ UNCHANGED <<attempt, cleanEof, readDone, readTask, sock, channel, lock, resp, reader,
                 line>>

(* Setup screens opened from the session menu go home and leave the        *)
(* session running; the pairing screen resumes one that is still live.     *)
ShellLeave ==
  /\ pc["shell"] = "session"
  /\ Goto("shell", "home")
  /\ UNCHANGED others

ShellResume ==
  /\ pc["shell"] = "home"
  /\ connected
  /\ Goto("shell", "session")
  /\ UNCHANGED others

(* ssh_client_send: check, take, write without blocking, give; an EAGAIN   *)
(* starts over after 10 ms.                                                *)
ShellSend ==
  /\ pc["shell"] = "session"
  /\ connected /\ channel
  /\ Goto("shell", "sendcheck")
  /\ UNCHANGED others

SendCheck ==
  /\ pc["shell"] = "sendcheck"
  /\ Goto("shell", IF connected THEN "sendtake" ELSE "session")
  /\ UNCHANGED others

SendTake ==
  /\ pc["shell"] = "sendtake"
  /\ lock = "free"
  /\ lock' = "shell"
  /\ Goto("shell", "sendhold")
  /\ UNCHANGED <<attempt, flags, sock, channel, resp, reader, line>>

\* Variant: EAGAIN starts over with the mutex still held.
SendWriteHolding ==
  /\ pc["shell"] = "sendhold"
  /\ LET again == channel /\ sock = "open" /\ remote # "lost" /\ ~window
     IN  /\ Goto("shell", IF again THEN "sendcheck" ELSE "session")
         /\ lock' = IF again THEN lock ELSE "free"
         /\ window' \in (IF again THEN {FALSE} ELSE {FALSE, window})
  /\ UNCHANGED <<attempt, flags, sock, channel, resp, reader, hostKey, remote, queue>>

SendWrite ==
  /\ pc["shell"] = "sendhold"
  /\ lock' = "free"
  /\ LET again == channel /\ sock = "open" /\ remote # "lost" /\ ~window
     IN  /\ Goto("shell", IF again THEN "sendcheck" ELSE "session")
         /\ window' \in (IF again THEN {FALSE} ELSE {FALSE, window})
  /\ UNCHANGED <<attempt, flags, sock, channel, resp, reader, hostKey, remote, queue>>

ShellRun ==
  \/ ShellTake \/ ShellUndo \/ ShellNotice \/ Close("shell", "home")
  \/ SendCheck \/ SendWrite

ShellUser ==
  \/ ShellStart \/ ShellCancel \/ ShellDisconnect \/ ShellLeave \/ ShellResume
  \/ ShellSend

-----------------------------------------------------------------------------
(* The far end of a live connection.                                       *)
RemoteSends ==
  /\ channel /\ remote = "open" /\ queue < MaxQueue
  /\ queue' = queue + 1
  /\ UNCHANGED <<pc, attempt, flags, sock, channel, lock, resp, reader, hostKey, remote,
                 window>>

RemoteCloses ==
  /\ channel /\ remote = "open"
  /\ remote' = "eof"
  /\ UNCHANGED <<pc, attempt, flags, sock, channel, lock, resp, reader, hostKey, queue,
                 window>>

RemoteLost ==
  /\ channel /\ remote = "open"
  /\ remote' = "lost"
  /\ UNCHANGED <<pc, attempt, flags, sock, channel, lock, resp, reader, hostKey, queue,
                 window>>

(* The window is filled by what the shell sends (SendWrite); terminal      *)
(* replies are a handful of bytes.                                         *)
WindowOpens ==
  /\ channel /\ ~window
  /\ window' = TRUE
  /\ UNCHANGED <<pc, attempt, flags, sock, channel, lock, resp, reader, hostKey, remote,
                 queue>>

Next ==
  \/ WorkerStep \/ ReadTake \/ ReadRun
  \/ ShellRun \/ SendTake \/ ShellUser
  \/ RemoteSends \/ RemoteCloses \/ RemoteLost \/ WindowOpens

SafeSpec == Init /\ [][Next]_vars

(***************************************************************************)
(* Fairness. FreeRTOS runs a ready task of each core, so a task that can   *)
(* go on does (WF). The worker yields to the read task and two tasks share *)
(* the mutex, but the read task sleeps in every wake and no holder blocks: *)
(* their turns recur, which is strong fairness. A closed window reopens or *)
(* the connection dies: TCP retransmission gives up, keepalives fail. The  *)
(* user is never obliged to do anything.                                   *)
(***************************************************************************)
Fairness ==
  /\ SF_vars(WorkerStep)
  /\ WF_vars(ReadRun) /\ SF_vars(ReadTake)
  /\ WF_vars(ShellRun) /\ SF_vars(SendTake)
  /\ WF_vars(WindowOpens)

Spec == SafeSpec /\ Fairness

-----------------------------------------------------------------------------
(* The mutex belongs to the task that is between its take and its give,    *)
(* and to nobody else, also after a force-delete replaced it.              *)
LockOwned ==
  /\ lock = "read"  <=> pc["read"] \in HeldLabels
  /\ lock = "shell" <=> pc["shell"] = "sendhold"

(* A logout is told from a dropped link: when the shell finds the session  *)
(* gone, s_clean_eof says whether the far end closed the channel. The flag *)
(* is what stops session_tick from reconnecting after an exit.             *)
SessionVerdict ==
  pc["shell"] = "session" /\ ~connected => (cleanEof <=> remote = "eof")

(* Everything the far end sent before it closed the channel has been read  *)
(* when the read task ends on that close, and is presented, unless it left *)
(* a synchronized update open: nothing but that holds a frame back.        *)
TailShown ==
  pc["read"] \in {"exit", "unlink"} /\ cleanEof => queue = 0 /\ (unshown => sync)

(* ssh_cleanup frees the channel without the mutex: by then the read task  *)
(* is past its last use of it and the shell is in no send.                 *)
CleanupIsAlone ==
  [][channel /\ ~channel' => /\ pc["read"] \in {"none", "unlink"}
                             /\ pc["shell"] \notin {"sendtake", "sendhold"}]_vars

(* The read task's static TCB, stack and handle are reused by every        *)
(* session: a new one is only created once the old one has ended.          *)
OneReadTask ==
  [][pc["worker"] = "spawn" /\ pc'["worker"] = "assign" => pc["read"] = "none"]_vars

(* Nobody waits on the mutex, or holds it, as a force-delete replaces it.  *)
MutexReplacedUnused ==
  [][(\E t \in Tasks : pc[t] = "kill" /\ pc'[t] = "cleanup")
       => pc["shell"] \notin {"sendtake", "sendhold"}]_vars

(* The inductive invariant behind the three properties above. Roles: a     *)
(* worker exists exactly while an attempt is pending, and the shell stays  *)
(* on its CONNECTING screen until it has taken the result. Reader: what    *)
(* s_read_task_done and s_read_task say about the read task. Attempt: what *)
(* the worker has in hand at each stage.                                   *)
Roles ==
  /\ phase = "pending" <=> pc["worker"] # "none"
  /\ phase # "idle" <=> pc["shell"] = "connecting"

Reader ==
  /\ readDone => pc["read"] \in {"none", "unlink"}
  /\ pc["read"] = "unlink" => readDone
  /\ pc["read"] \in {"take", "reading"} => drained < Budget
  /\ ~readDone => pc["read"] # "none" \/ pc["worker"] = "spawn"
  /\ pc["worker"] = "spawn" => ~readDone
  /\ pc["read"] # "none" => readTask \/ pc["worker"] = "assign"
  /\ pc["shell"] = "cleanup" => pc["read"] \in {"none", "unlink"}
  /\ pc["worker"] \in {"cleanup", "resolve", "tcp", "handshake", "auth", "open", "spawn"}
       => pc["read"] = "none"

Attempt ==
  /\ pc["worker"] \in {"resolve", "tcp", "handshake", "auth", "open"} => ~channel
  /\ pc["worker"] \in {"auth", "open"} => pin # NoKey /\ hostKey = pin
  /\ pc["worker"] \in {"spawn", "assign"} => channel
  /\ pc["worker"] \in {"store", "publish"} =>
       /\ outcome = "OK" <=> channel
       /\ outcome = "UNKNOWN" => pin = NoKey
       /\ outcome = "MISMATCH" => pin # NoKey
  /\ pc["worker"] = "publish" => result = outcome

IInv == TypeOK /\ LockOwned /\ Roles /\ Reader /\ Attempt

(* A cancelled attempt ends at home with no live session, whatever the     *)
(* worker had already achieved.                                            *)
CancelEndsQuietly ==
  cancelled ~> (pc["shell"] = "home" /\ ~connected /\ phase = "idle")

(* The end of a session is noticed: EOF or a lost link clears s_connected, *)
(* however busy the terminal and however wedged the uplink.                *)
DropNoticed == (connected /\ remote # "open") ~> ~connected

(* A keystroke does not park the shell for ever: ssh_client_send returns.  *)
SendReturns == (pc["shell"] = "sendcheck") ~> (pc["shell"] = "session")

(* ssh_client_disconnect returns, with everything released.                *)
DisconnectCompletes == (pc["shell"] = "poll") ~> (pc["shell"] = "home" /\ ~channel)

(* The client keeps the promises of SshSession: an attempt that finds no   *)
(* pinned key, or another one, brings no link up, and a result is out once *)
(* the attempt is over; under fairness, every attempt is over some time.   *)
Session == INSTANCE SshSession WITH
  conn <- phase,
  res  <- IF phase = "done" THEN result ELSE "none",
  link <- IF ~channel THEN "none" ELSE IF connected THEN "live" ELSE "dropped",
  peer <- IF channel THEN hostKey ELSE NoKey
SessionSafe == Session!SafeSpec
ImplementsSession == Session!Spec

(* ssh_client.c:843-850: it is the read task that a force-delete kills.    *)
ForceDeleteKillsReader == \A t \in Tasks : pc[t] # "deleted"
=============================================================================
