----------------------------- MODULE SshSession -----------------------------
(***************************************************************************)
(* What ssh_client.c promises the shell: one asynchronous connect at a     *)
(* time, a result that is published once the attempt is over, and a link   *)
(* that only an attempt which met the pinned host key can bring up.        *)
(*                                                                         *)
(* The tasks, the mutex, the socket and the polling of the real client are *)
(* not here; module SshClient has them and implements this module.         *)
(***************************************************************************)
CONSTANTS
  Keys,    \* host-key fingerprints a server may present
  NoKey    \* no fingerprint: an unknown host, or none seen yet

Outcomes == {"OK", "FAIL", "AUTH", "UNKNOWN", "MISMATCH"}
Links    == {"none", "live", "dropped"}

VARIABLES
  conn,    \* s_connect_phase: "idle", "pending" or "done"
  res,     \* the published result, "none" unless conn = "done"
  pin,     \* expected_fp of the latest attempt
  link,    \* the session: absent, live, or dropped but not yet released
  peer     \* the host key the live (or dropped) session is authenticated to

vars == <<conn, res, pin, link, peer>>

TypeOK ==
  /\ conn \in {"idle", "pending", "done"}
  /\ res  \in Outcomes \union {"none"}
  /\ pin  \in Keys \union {NoKey}
  /\ link \in Links
  /\ peer \in Keys \union {NoKey}

Init ==
  /\ conn = "idle"
  /\ res  = "none"
  /\ pin  = NoKey
  /\ link = "none"
  /\ peer = NoKey

-----------------------------------------------------------------------------
(* ssh_client_connect_start: a leftover session may still be live.         *)
Start ==
  /\ conn # "pending"
  /\ conn' = "pending"
  /\ res'  = "none"
  /\ pin' \in Keys \union {NoKey}
  /\ UNCHANGED <<link, peer>>

(* A connect_start whose worker could not be created.                      *)
StartFails ==
  /\ conn # "pending"
  /\ conn' = "idle"
  /\ res'  = "none"
  /\ pin' \in Keys \union {NoKey}
  /\ UNCHANGED <<link, peer>>

(* The handshake met the pinned key and the server opened a shell.         *)
Establish ==
  /\ conn = "pending"
  /\ link = "none"
  /\ pin # NoKey
  /\ link' = "live"
  /\ peer' = pin
  /\ UNCHANGED <<conn, res, pin>>

(* The attempt is over. A failed one holds no session, a successful one    *)
(* does, even when it dropped before the shell looked.                     *)
Finish ==
  /\ conn = "pending"
  /\ conn' = "done"
  /\ res' \in Outcomes
  /\ (res' = "OK") <=> (link # "none")
  /\ (res' = "UNKNOWN") => (pin = NoKey)
  /\ (res' = "MISMATCH") => (pin # NoKey)
  /\ UNCHANGED <<pin, link, peer>>

(* ssh_client_connect_take_result.                                         *)
Take ==
  /\ conn = "done"
  /\ conn' = "idle"
  /\ res'  = "none"
  /\ UNCHANGED <<pin, link, peer>>

(* EOF, transport error, or the first half of a local disconnect.          *)
Drop ==
  /\ link = "live"
  /\ link' = "dropped"
  /\ UNCHANGED <<conn, res, pin, peer>>

(* ssh_cleanup: channel, session and socket are gone.                      *)
Release ==
  /\ link # "none"
  /\ conn # "done"
  /\ link' = "none"
  /\ peer' = NoKey
  /\ UNCHANGED <<conn, res, pin>>

Next ==
  \/ Start \/ StartFails \/ Establish \/ Finish \/ Take \/ Drop \/ Release

SafeSpec == Init /\ [][Next]_vars

(* Every pending attempt ends: each blocking call in it has a timeout.     *)
Spec == SafeSpec /\ WF_vars(Finish)
=============================================================================
