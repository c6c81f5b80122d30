------------------------------ MODULE Connect ------------------------------
(***************************************************************************)
(* Whom the deck connects to, and which host key it trusts: the connect    *)
(* flow of app_connect.c, the host-key prompt of app_hostkey.c and the     *)
(* pins storage.c keeps in known_hosts.ini, on top of the client's promise *)
(* (module SshSession, which module SshClient implements).                 *)
(*                                                                         *)
(* The shell runs one handler at a time, the client's worker and its read  *)
(* task beside it. A server may present another key at every handshake.    *)
(* Passwords, the lock and the editor are in module Deck: here a connect   *)
(* may land on the PIN pad, and the menus are a screen that can change the *)
(* pins.                                                                   *)
(*                                                                         *)
(* Four variables are history, kept for one arbitrary host, Watched: the   *)
(* keys the user accepted for it, the hosts accepted since it was pinned,  *)
(* whether its pin was given up, and the last input the prompt saw. The    *)
(* prompt and that input are blank between two prompts: hostkey_open sets  *)
(* every field.                                                            *)
(***************************************************************************)
EXTENDS Naturals, FiniteSets, SequencesExt

CONSTANTS
  Hosts,    \* host:port of the stored profiles
  Keys,     \* host keys
  NoKey,    \* no fingerprint
  NoHost,   \* nothing snapshotted yet
  MaxPins,  \* KNOWN_HOSTS_MAX
  Watched   \* the host the history is kept for

ASSUME ConstAssumption ==
  /\ NoKey \notin Keys /\ NoHost \notin Hosts
  /\ Watched \in Hosts /\ MaxPins \in Nat \ {0}

VARIABLES
  screen,                       \* app.state
  auto,                         \* app.cfg.auto_reconnect
  fromHome,                     \* app.menu.from_home
  active, pinned, dial,         \* app.conn: active, pinned_fp, armed/connecting/cancelled
  prompt,                       \* app.hostkey: mismatch, sel, arm_src (0 is not armed)
  pins,                         \* known_hosts.ini, oldest first
  worker, fp,                   \* the connect worker, s_fingerprint
  conn, res, pin, link, peer,   \* the client, as in SshSession
  linkHost,                     \* the host of that session
  trusted, since, gone, last    \* history

client   == <<conn, res, pin, link, peer>>
attempt  == <<worker, fp, linkHost>>
history  == <<trusted, since, gone>>
settings == <<auto, fromHome>>
flow     == <<active, pinned, dial>>
vars == <<screen, settings, flow, prompt, pins, attempt, client, history, last>>

Client == INSTANCE SshSession

Entries == Hosts \X Keys
NoPrompt == [mismatch |-> FALSE, sel |-> "trust", src |-> "no"]

TypeOK ==
  /\ Client!TypeOK
  /\ screen \in {"home", "connecting", "hostkey", "session", "menu", "pairing", "unlock"}
  /\ auto \in BOOLEAN /\ fromHome \in BOOLEAN
  /\ active \in Hosts \union {NoHost} /\ pinned \in Keys \union {NoKey}
  /\ dial \in {"none", "armed", "running", "cancelling"}
  /\ prompt \in [mismatch : BOOLEAN, sel : {"trust", "cancel"}, src : {"no", "tap", "enter"}]
  /\ pins \in Seq(Entries)
  /\ worker \in {"none", "fresh", "clean", "up"} /\ fp \in Keys \union {NoKey}
  /\ linkHost \in Hosts \union {NoHost}
  /\ trusted \in SUBSET Keys /\ since \in SUBSET Hosts /\ gone \in BOOLEAN
  /\ last \in {"none", "tap", "enter", "y", "back"}

Init ==
  /\ Client!Init
  /\ screen = "home" /\ auto \in BOOLEAN /\ fromHome = FALSE
  /\ active = NoHost /\ pinned = NoKey /\ dial = "none" /\ prompt = NoPrompt
  /\ pins = <<>> /\ worker = "none" /\ fp = NoKey /\ linkHost = NoHost
  /\ trusted = {} /\ since = {} /\ gone = FALSE /\ last = "none"

-----------------------------------------------------------------------------
(* storage.c: known_hosts.ini.                                             *)
HasPin(file, h) == \E i \in DOMAIN file : file[i][1] = h

(* storage_known_host_get, NoKey for ESP_ERR_NOT_FOUND: the first line     *)
(* that names the host.                                                    *)
Line(file, h) ==
  CHOOSE i \in DOMAIN file : file[i][1] = h /\ \A j \in 1..i-1 : file[j][1] # h
Lookup(file, h) == IF HasPin(file, h) THEN file[Line(file, h)][2] ELSE NoKey

(* storage_known_host_set: in place, or at the end with the oldest line    *)
(* dropped from a full file.                                               *)
\* Variant: a host that is pinned already gets a second line.
PinAppends(file, h, k) ==
  IF Len(file) >= MaxPins THEN Append(Tail(file), <<h, k>>) ELSE Append(file, <<h, k>>)
Pin(file, h, k) ==
  IF HasPin(file, h)
  THEN [i \in DOMAIN file |-> IF file[i][1] = h THEN <<h, k>> ELSE file[i]]
  ELSE IF Len(file) >= MaxPins THEN Append(Tail(file), <<h, k>>) ELSE Append(file, <<h, k>>)

(* storage_known_host_delete. It drops every line of the host, and there   *)
(* is at most one: Pin replaces in place (ConnectProofs, OneLinePerHost).  *)
Unpin(file, h) == IF HasPin(file, h) THEN RemoveAt(file, Line(file, h)) ELSE file

-----------------------------------------------------------------------------
(* app_connect.c: arming.                                                  *)
\* Variant: an unknown host keeps the fingerprint of the host before.
LoadPinKeeps(h) == pinned' = IF HasPin(pins, h) THEN Lookup(pins, h) ELSE pinned
LoadPin(h) == pinned' = Lookup(pins, h)

Arm == screen' = "connecting" /\ dial' = "armed"

(* start_connect: from HOME, to the PIN pad when the key needs it.         *)
StartConnect(h) ==
  /\ screen = "home"
  /\ active' = h /\ LoadPin(h)
  /\ \/ Arm
     \/ screen' = "unlock" /\ UNCHANGED dial
  /\ UNCHANGED <<settings, prompt, pins, attempt, client, history, last>>

(* connect_resume_active, unlock_cancel.                                   *)
PadOpens ==
  /\ screen = "unlock" /\ Arm
  /\ UNCHANGED <<settings, active, pinned, prompt, pins, attempt, client, history, last>>
PadCancelled ==
  /\ screen = "unlock" /\ screen' = "home"
  /\ UNCHANGED <<settings, flow, prompt, pins, attempt, client, history, last>>

(* start_reconnect: to whatever the snapshot holds.                        *)
Reconnect == Arm /\ LoadPin(active)

(* do_connect_start: bounced to the pad, without its key, without a        *)
(* worker, or on its way.                                                  *)
ConnectBounced ==
  /\ dial = "armed" /\ dial' = "none" /\ screen' \in {"unlock", "home"} /\ last' = "none"
  /\ UNCHANGED <<settings, active, pinned, prompt, pins, attempt, client, history>>
ConnectNoWorker ==
  /\ dial = "armed" /\ dial' = "none" /\ screen' = "home" /\ last' = "none"
  /\ Client!StartFails /\ pin' = pinned
  /\ UNCHANGED <<settings, active, pinned, prompt, pins, attempt, history>>
ConnectStart ==
  /\ dial = "armed" /\ dial' = "running"
  /\ Client!Start /\ pin' = pinned
  /\ worker' = "fresh" /\ last' = "none"
  /\ UNCHANGED <<screen, settings, active, pinned, prompt, pins, fp, linkHost, history>>

(* connecting_input: Esc, a tap or a long press.                           *)
CancelArmed ==
  /\ dial = "armed" /\ dial' = "none" /\ screen' = "home" /\ last' = "none"
  /\ UNCHANGED <<settings, active, pinned, prompt, pins, attempt, client, history>>
CancelRunning ==
  /\ dial = "running" /\ dial' = "cancelling"
  /\ UNCHANGED <<screen, settings, active, pinned, prompt, pins, attempt, client, history, last>>

-----------------------------------------------------------------------------
(* The client: ssh_client_connect on the worker.                           *)
WorkerDrops ==
  /\ worker = "fresh" /\ worker' = "clean" /\ fp' = NoKey
  /\ \/ link # "none" /\ Client!Release /\ linkHost' = NoHost
     \/ link = "none" /\ UNCHANGED <<client, linkHost>>
  /\ UNCHANGED <<screen, settings, flow, prompt, pins, history, last>>

(* No network, no server, no handshake.                                    *)
WorkerFails ==
  /\ worker = "clean" /\ worker' = "none"
  /\ Client!Finish /\ res' = "FAIL"
  /\ UNCHANGED <<screen, settings, flow, prompt, pins, fp, linkHost, history, last>>

(* The server showed k, and k is not what was expected.                    *)
WorkerRefuses(k) ==
  /\ worker = "clean" /\ worker' = "none" /\ fp' = k
  /\ pin # k
  /\ Client!Finish /\ res' = IF pin = NoKey THEN "UNKNOWN" ELSE "MISMATCH"
  /\ UNCHANGED <<screen, settings, flow, prompt, pins, linkHost, history, last>>

(* The server showed the expected key: login, or none.                     *)
WorkerLogsIn ==
  /\ worker = "clean" /\ worker' = "up" /\ fp' = pin
  /\ Client!Establish /\ linkHost' = active
  /\ UNCHANGED <<screen, settings, flow, prompt, pins, history, last>>
WorkerRejected ==
  /\ worker = "clean" /\ worker' = "none" /\ fp' = pin
  /\ pin # NoKey
  /\ Client!Finish /\ res' \in {"AUTH", "FAIL"}
  /\ UNCHANGED <<screen, settings, flow, prompt, pins, linkHost, history, last>>
WorkerReports ==
  /\ worker = "up" /\ worker' = "none"
  /\ Client!Finish
  /\ UNCHANGED <<screen, settings, flow, prompt, pins, fp, linkHost, history, last>>

Worker ==
  \/ WorkerDrops \/ WorkerFails \/ WorkerLogsIn \/ WorkerRejected \/ WorkerReports
  \/ \E k \in Keys : WorkerRefuses(k)

LinkDrops ==
  /\ Client!Drop
  /\ UNCHANGED <<screen, settings, flow, prompt, pins, attempt, history, last>>

(* ssh_client_disconnect by the shell.                                     *)
Disconnect ==
  \/ link # "none" /\ Client!Release /\ linkHost' = NoHost
  \/ link = "none" /\ UNCHANGED <<client, linkHost>>

-----------------------------------------------------------------------------
(* do_connect_finish, on the tick that finds the result ready. A result    *)
(* that came after a cancel is thrown away, a session with it.             *)
FinishCancelled ==
  /\ dial = "cancelling" /\ conn = "done"
  /\ dial' = "none" /\ screen' = "home"
  /\ conn' = "idle" /\ res' = "none" /\ UNCHANGED pin
  /\ IF res = "OK" THEN link' = "none" /\ peer' = NoKey /\ linkHost' = NoHost
                   ELSE UNCHANGED <<link, peer, linkHost>>
  /\ UNCHANGED <<settings, active, pinned, prompt, pins, worker, fp, history, last>>

Finished(outcome) ==
  /\ dial = "running" /\ Client!Take /\ res = outcome
  /\ UNCHANGED <<settings, active, pins, attempt, history>>

\* Variant: the attempt goes on to the session although it was cancelled.
FinishOkAnyway ==
  /\ dial \in {"running", "cancelling"} /\ Client!Take /\ res = "OK"
  /\ dial' = "none" /\ screen' = "session"
  /\ UNCHANGED <<settings, active, pins, attempt, history, pinned, prompt, last>>
FinishOk ==
  /\ Finished("OK") /\ dial' = "none" /\ screen' = "session"
  /\ UNCHANGED <<pinned, prompt, last>>

(* hostkey_open: Trust is preselected for a new host, Cancel for a changed *)
(* key.                                                                    *)
FinishUnknown ==
  /\ Finished("UNKNOWN") /\ dial' = "none" /\ screen' = "hostkey"
  /\ prompt' = NoPrompt /\ last' = "none"
  /\ UNCHANGED pinned
FinishMismatch ==
  /\ Finished("MISMATCH") /\ dial' = "none" /\ screen' = "hostkey"
  /\ prompt' = [mismatch |-> TRUE, sel |-> "cancel", src |-> "no"] /\ last' = "none"
  /\ UNCHANGED pinned

FinishAuth ==
  /\ Finished("AUTH") /\ dial' = "none" /\ screen' = "home"
  /\ UNCHANGED <<pinned, prompt, last>>
FinishFailed ==
  /\ Finished("FAIL")
  /\ IF auto THEN Reconnect ELSE dial' = "none" /\ screen' = "home" /\ UNCHANGED pinned
  /\ UNCHANGED <<prompt, last>>

Finish ==
  \/ FinishCancelled \/ FinishOk \/ FinishUnknown \/ FinishMismatch
  \/ FinishAuth \/ FinishFailed

-----------------------------------------------------------------------------
(* The host-key prompt.                                                    *)

(* hostkey_trust_and_connect: the key shown is pinned, whether or not the  *)
(* file could be written, and the connect armed with it.                   *)
Trust ==
  /\ pinned' = fp /\ Arm
  /\ \E written \in BOOLEAN :
       /\ pins' = IF written THEN Pin(pins, active, fp) ELSE pins
       /\ IF active = Watched
          THEN /\ trusted' = trusted \union {fp} /\ gone' = ~written
               /\ since' = IF HasPin(pins, Watched) THEN since ELSE {}
          ELSE /\ since' = IF trusted = {} THEN {} ELSE since \union {active}
               /\ UNCHANGED <<trusted, gone>>
  /\ prompt' = NoPrompt
  /\ UNCHANGED <<settings, active, attempt, client>>

(* The arming is dropped: a tap beside the tiles, an arrow, a key that     *)
(* means nothing, an Enter after a tap.                                    *)
BackDown == prompt' = [prompt EXCEPT !.src = "no"]

PromptStays == UNCHANGED <<screen, settings, flow, pins, attempt, client, history>>

(* A tap on Trust or Replace.                                              *)
\* Variant: any armed prompt is fired, whatever armed it.
TapTrustAnyArm ==
  /\ screen = "hostkey" /\ last' = "tap"
  /\ IF ~prompt.mismatch \/ prompt.src # "no" THEN Trust
     ELSE /\ prompt' = [prompt EXCEPT !.sel = "trust", !.src = "tap"] /\ PromptStays
TapTrust ==
  /\ screen = "hostkey" /\ last' = "tap"
  /\ IF ~prompt.mismatch \/ prompt.src = "tap" THEN Trust
     ELSE /\ prompt' = [prompt EXCEPT !.sel = "trust", !.src = "tap"] /\ PromptStays

PromptLeave ==
  /\ screen' = "home" /\ prompt' = NoPrompt /\ last' = "none"
  /\ UNCHANGED <<settings, flow, pins, attempt, client, history>>

(* A tap on Cancel, or Esc.                                                *)
PromptCancel == screen = "hostkey" /\ PromptLeave

PressEnter ==
  /\ screen = "hostkey"
  /\ \/ prompt.sel = "cancel" /\ PromptLeave
     \/ /\ prompt.sel = "trust" /\ last' = "enter"
        /\ IF ~prompt.mismatch \/ prompt.src = "enter" THEN Trust
           ELSE /\ IF prompt.src = "tap" THEN BackDown
                                         ELSE prompt' = [prompt EXCEPT !.src = "enter"]
                /\ PromptStays

PressY ==
  /\ screen = "hostkey" /\ prompt.mismatch /\ last' = "y"
  /\ Trust

PressArrow ==
  /\ screen = "hostkey" /\ last' = "back"
  /\ \E sel \in {"trust", "cancel"} :
       prompt' = [prompt EXCEPT !.sel = sel, !.src = "no"]
  /\ PromptStays

PressOther ==
  /\ screen = "hostkey" /\ last' = "back"
  /\ BackDown /\ PromptStays

HostkeyInput ==
  \/ TapTrust \/ PromptCancel \/ PressEnter \/ PressY \/ PressArrow \/ PressOther

-----------------------------------------------------------------------------
(* session_tick: the far end closed it, or it broke.                       *)
SessionTick ==
  /\ screen = "session" /\ link # "live"
  /\ \/ Disconnect /\ screen' = "home" /\ UNCHANGED <<dial, pinned>>
     \/ auto /\ Reconnect /\ UNCHANGED <<client, linkHost>>
     \/ ~auto /\ screen' = "home" /\ UNCHANGED <<dial, pinned, client, linkHost>>
  /\ UNCHANGED <<settings, active, prompt, pins, worker, fp, history, last>>

(* F12 on a session, the settings on HOME.                                 *)
MenuOpen ==
  /\ screen \in {"session", "home"} /\ screen' = "menu"
  /\ fromHome' = (screen = "home")
  /\ UNCHANGED <<auto, flow, prompt, pins, attempt, client, history, last>>

MenuTick ==
  /\ screen = "menu" /\ ~fromHome /\ link # "live" /\ screen' = "home"
  /\ UNCHANGED <<settings, flow, prompt, pins, attempt, client, history, last>>

(* menu_back, a setup screen that ends on HOME, or Pair keyboard.          *)
MenuLeave ==
  /\ screen = "menu"
  /\ \/ screen' \in {"home", "pairing"}
     \/ ~fromHome /\ screen' = "session"
  /\ UNCHANGED <<settings, flow, prompt, pins, attempt, client, history, last>>

MenuDisconnect ==
  /\ screen = "menu" /\ ~fromHome /\ Disconnect /\ screen' = "home"
  /\ UNCHANGED <<settings, flow, prompt, pins, worker, fp, history, last>>

(* enter_pairing from HOME, exit_pairing.                                  *)
PairingEnter ==
  /\ screen = "home" /\ screen' = "pairing"
  /\ UNCHANGED <<settings, flow, prompt, pins, attempt, client, history, last>>
PairingExit ==
  /\ screen = "pairing"
  /\ screen' = IF link = "live" THEN "session" ELSE "home"
  /\ UNCHANGED <<settings, flow, prompt, pins, attempt, client, history, last>>

(* The last profile of host h is deleted, in the menu or over the web.     *)
ForgetHost(h) ==
  /\ screen = "menu"
  /\ pins' = Unpin(pins, h)
  /\ gone' = (gone \/ (h = Watched /\ trusted # {}))
  /\ UNCHANGED <<screen, settings, flow, prompt, attempt, client, trusted, since, last>>

(* "Clear host keys".                                                      *)
ClearHosts ==
  /\ screen = "menu"
  /\ pins' = <<>> /\ gone' = (trusted # {})
  /\ UNCHANGED <<screen, settings, flow, prompt, attempt, client, trusted, since, last>>

Home ==
  \/ \E h \in Hosts : StartConnect(h) \/ ForgetHost(h)
  \/ PadOpens \/ PadCancelled \/ MenuOpen \/ MenuTick \/ MenuLeave \/ MenuDisconnect
  \/ PairingEnter \/ PairingExit \/ ClearHosts

Fire == ConnectBounced \/ ConnectNoWorker \/ ConnectStart

Next ==
  \/ Fire \/ CancelArmed \/ CancelRunning \/ Worker \/ LinkDrops
  \/ Finish \/ HostkeyInput \/ SessionTick \/ Home

(* The shell ticks, and every blocking call of the worker has a timeout.   *)
Spec ==
  /\ Init /\ [][Next]_vars
  /\ WF_vars(Worker) /\ WF_vars(Finish)

-----------------------------------------------------------------------------
(* A session is only ever held with a host key the user accepted at the    *)
(* prompt for that very host (ARCHITECTURE.md, trust on first use): not    *)
(* with another host's key, nor with one that was refused.                 *)
TrustedPeer ==
  (linkHost = Watched /\ link # "none") => peer \in trusted

(* A changed key is never introduced as a first contact: until its pin is  *)
(* cleared, its write fails, or as many other hosts are accepted as the    *)
(* file holds, an accepted host meets the prompt in red, with Cancel       *)
(* preselected and two steps to replace (known_hosts.ini drops the oldest  *)
(* line when it is full).                                                  *)
ChangeFlagged ==
  (screen = "hostkey" /\ active = Watched /\ trusted # {} /\ ~gone
     /\ Cardinality(since) < MaxPins)
  => prompt.mismatch

(* A pin is replaced by another one only by Y or by two successive inputs  *)
(* of the same kind at one prompt (hostkey_input: an accidental tap and a  *)
(* habitual Enter cannot re-pin).                                          *)
Deliberate == last' = "y" \/ (last' = last /\ last' \in {"tap", "enter"})
RepinDeliberate ==
  [][Lookup(pins, Watched) \notin {NoKey, Lookup(pins', Watched)}
       /\ Lookup(pins', Watched) # NoKey
     => Deliberate]_vars

(* A cancelled connect ends on HOME with no session behind it, whatever    *)
(* the worker was in the middle of (do_connect_finish).                    *)
CancelLands ==
  (dial = "cancelling") ~> (screen = "home" /\ dial = "none" /\ link = "none")

(* cyberdeck_app.h: auto_reconnect reconnects a dropped session, so to the *)
(* host the session was with.                                              *)
ReconnectsToSession ==
  [][screen = "session" /\ dial' = "armed" => active' = linkHost]_vars
=============================================================================
