---------------------------- MODULE ConnectProofs ----------------------------
(***************************************************************************)
(* What holds of Connect for every set of hosts and keys and every size of *)
(* known_hosts.ini: whom a session is with, what may replace a pin, and    *)
(* that a changed key is not passed off as a new one.                      *)
(***************************************************************************)
EXTENDS Connect, SequenceTheorems, FiniteSetTheorems, TLAPS

(* The file: lines well formed, and one per host.                          *)
OneLine(file) ==
  \A i, j \in DOMAIN file : file[i][1] = file[j][1] => i = j

(* Where the flow is: the screen, what was dialled and what the client is  *)
(* doing go together.                                                      *)
Flow ==
  /\ screen = "connecting" <=> dial # "none"
  /\ conn = "idle" <=> dial \in {"none", "armed"}
  /\ conn = "pending" <=> worker # "none"
  /\ worker = "clean" => link = "none"
  /\ worker = "up" => link # "none"
  /\ conn # "idle" => pin = pinned
  /\ conn = "done" /\ res \in {"UNKNOWN", "MISMATCH"} => fp \in Keys
  /\ conn = "done" /\ res = "UNKNOWN" => pin = NoKey

(* No profile was ever picked.                                             *)
Unused ==
  active = NoHost =>
    /\ screen \in {"home", "menu", "pairing"} /\ link = "none"
    /\ screen = "menu" => fromHome

(* The prompt is about a key that was shown, a first contact is one, and   *)
(* what armed it was the last input.                                       *)
Prompt ==
  screen = "hostkey" =>
    /\ fp \in Keys
    /\ ~prompt.mismatch => pinned = NoKey
    /\ prompt.src # "no" => last = prompt.src

(* What the attempt goes by is what the file said.                         *)
Pinned ==
  screen \in {"connecting", "hostkey", "unlock"} /\ pinned = NoKey => ~HasPin(pins, active)

(* Nothing but accepted keys is pinned, dialled with, or connected to.     *)
Accepted ==
  /\ \A i \in DOMAIN pins : pins[i][1] = Watched => pins[i][2] \in trusted
  /\ active = Watched /\ pinned # NoKey => pinned \in trusted
  /\ TrustedPeer

Inv == TypeOK /\ OneLine(pins) /\ Flow /\ Unused /\ Prompt /\ Pinned /\ Accepted

USE ConstAssumption DEF ConstAssumption

-----------------------------------------------------------------------------
(* The file.                                                               *)
LEMMA LookupLine ==
  ASSUME NEW file \in Seq(Entries), OneLine(file), NEW i \in DOMAIN file
  PROVE  Line(file, file[i][1]) = i /\ Lookup(file, file[i][1]) = file[i][2]
<1> DEFINE h == file[i][1]
           First(m) == file[m][1] = h /\ \A j \in 1 .. m - 1 : file[j][1] # h
<1>1. First(i)
  BY DEF OneLine
<1>2. \A m \in DOMAIN file : First(m) => m = i
  BY DEF OneLine
<1>3. Line(file, h) = i
  BY <1>1, <1>2 DEF Line
<1>4. HasPin(file, h)
  BY DEF HasPin
<1>5. QED
  BY <1>3, <1>4 DEF Lookup

LEMMA LookupNone ==
  ASSUME NEW file \in Seq(Entries), OneLine(file), NEW h
  PROVE  /\ Lookup(file, h) = NoKey <=> ~HasPin(file, h)
         /\ Lookup(file, h) \in Keys \union {NoKey}
<1>1. CASE HasPin(file, h)
  <2>1. PICK i \in DOMAIN file : file[i][1] = h
    BY <1>1 DEF HasPin
  <2>2. Lookup(file, h) = file[i][2]
    BY <2>1, LookupLine
  <2>3. file[i] \in Entries
    OBVIOUS
  <2>4. QED
    BY <1>1, <2>2, <2>3 DEF Entries
<1>2. CASE ~HasPin(file, h)
  BY <1>2 DEF Lookup
<1>3. QED
  BY <1>1, <1>2

(* A host without a line gets the last one; a full file loses its first.   *)
LEMMA PinAtEnd ==
  ASSUME NEW file \in Seq(Entries), NEW h \in Hosts, NEW k \in Keys, ~HasPin(file, h)
  PROVE  /\ Pin(file, h, k) \in Seq(Entries)
         /\ \E n \in Nat, d \in {0, 1} :
              /\ Len(Pin(file, h, k)) = n + 1 /\ DOMAIN Pin(file, h, k) = 1 .. n + 1
              /\ Pin(file, h, k)[n + 1] = <<h, k>>
              /\ n = Len(file) - d /\ (d = 1 => Len(file) >= MaxPins)
              /\ \A i \in 1 .. n : /\ i + d \in DOMAIN file /\ file[i + d][1] # h
                                   /\ Pin(file, h, k)[i] = file[i + d]
<1> DEFINE old == IF Len(file) >= MaxPins THEN Tail(file) ELSE file
           new == Append(old, <<h, k>>)
<1>1. Pin(file, h, k) = new /\ <<h, k>> \in Entries
  BY DEF Pin, Entries
<1>2. PICK d \in {0, 1} : /\ old \in Seq(Entries) /\ Len(old) = Len(file) - d
                          /\ (d = 1 => Len(file) >= MaxPins)
                          /\ \A i \in 1 .. Len(old) : old[i] = file[i + d] /\ i + d \in DOMAIN file
  <2>1. CASE Len(file) >= MaxPins
    <3>1. file # <<>> /\ Len(file) \in Nat
      BY <2>1
    <3>2. QED
      BY <2>1, <3>1
  <2>2. CASE ~(Len(file) >= MaxPins)
    BY <2>2
  <2>3. QED
    BY <2>1, <2>2
<1>3. /\ new \in Seq(Entries) /\ Len(new) = Len(old) + 1 /\ new[Len(old) + 1] = <<h, k>>
      /\ DOMAIN new = 1 .. Len(old) + 1 /\ Len(old) \in Nat
      /\ \A i \in 1 .. Len(old) : new[i] = old[i]
  BY <1>1, <1>2
<1> HIDE DEF new, old
<1>4. \A i \in 1 .. Len(old) : /\ i + d \in DOMAIN file /\ file[i + d][1] # h
                               /\ new[i] = file[i + d]
  BY <1>2, <1>3 DEF HasPin
<1>5. QED
  BY <1>1, <1>2, <1>3, <1>4

(* A pin lands in its own line, or behind the others.                      *)
LEMMA PinFile ==
  ASSUME NEW file \in Seq(Entries), OneLine(file), NEW h \in Hosts, NEW k \in Keys
  PROVE  /\ Pin(file, h, k) \in Seq(Entries) /\ OneLine(Pin(file, h, k))
         /\ \A i \in DOMAIN Pin(file, h, k) :
              \/ Pin(file, h, k)[i] = <<h, k>>
              \/ /\ Pin(file, h, k)[i][1] # h
                 /\ \E j \in DOMAIN file : Pin(file, h, k)[i] = file[j]
<1> DEFINE new == Pin(file, h, k)
<1>0. <<h, k>> \in Entries /\ \A i \in DOMAIN file : file[i] \in Entries
  BY DEF Entries
<1>1. CASE HasPin(file, h)
  <2>1. new = [i \in DOMAIN file |-> IF file[i][1] = h THEN <<h, k>> ELSE file[i]]
    BY <1>1 DEF Pin
  <2>2. DOMAIN new = 1 .. Len(file) /\ Len(file) \in Nat
    BY <2>1
  <2>3. \A i \in DOMAIN new : new[i] \in Entries /\ new[i][1] = file[i][1]
    BY <1>0, <2>1 DEF Entries
  <2>4. new \in Seq(Entries)
    <3>1. new \in [1 .. Len(file) -> Entries]
      BY <1>0, <2>1, <2>2
    <3>2. QED
      BY <2>2, <3>1, SeqDef
  <2>5. OneLine(new)
    BY <2>1, <2>3 DEF OneLine
  <2>6. QED
    BY <2>1, <2>4, <2>5
<1>2. CASE ~HasPin(file, h)
  <2>1. new \in Seq(Entries)
    BY <1>2, PinAtEnd
  <2>2. PICK n \in Nat, d \in {0, 1} :
          /\ Len(new) = n + 1 /\ DOMAIN new = 1 .. n + 1
          /\ new[n + 1] = <<h, k>>
          /\ n = Len(file) - d /\ (d = 1 => Len(file) >= MaxPins)
          /\ \A i \in 1 .. n : /\ i + d \in DOMAIN file /\ file[i + d][1] # h
                               /\ new[i] = file[i + d]
    BY <1>2, PinAtEnd, Zenon
  <2> HIDE DEF new
  <2>3. /\ DOMAIN new = 1 .. n + 1 /\ new[n + 1] = <<h, k>>
        /\ \A i \in 1 .. n : /\ i + d \in DOMAIN file /\ file[i + d][1] # h
                             /\ new[i] = file[i + d]
    BY <2>2, Zenon
  <2>4. OneLine(new)
    <3> SUFFICES ASSUME NEW i \in DOMAIN new, NEW j \in DOMAIN new, new[i][1] = new[j][1]
                 PROVE  i = j
      BY DEF OneLine
    <3>1. CASE i \in 1 .. n /\ j \in 1 .. n
      <4>1. i + d = j + d
        BY <2>3, <3>1 DEF OneLine
      <4>2. QED
        BY <3>1, <4>1
    <3>2. CASE ~(i \in 1 .. n /\ j \in 1 .. n)
      BY <2>3, <3>2
    <3>3. QED
      BY <3>1, <3>2
  <2>5. \A i \in DOMAIN new : new[i] = <<h, k>> \/ (new[i][1] # h /\ \E j \in DOMAIN file : new[i] = file[j])
    BY <2>3
  <2>6. QED
    BY <2>1, <2>4, <2>5 DEF new
<1>3. QED
  BY <1>1, <1>2

(* Taking out a line moves up those behind it.                             *)
LEMMA UnpinAt ==
  ASSUME NEW file \in Seq(Entries), OneLine(file), NEW p \in DOMAIN file
  PROVE  /\ Unpin(file, file[p][1]) \in Seq(Entries)
         /\ DOMAIN Unpin(file, file[p][1]) = 1 .. Len(file) - 1
         /\ \A i \in 1 .. Len(file) - 1 :
              Unpin(file, file[p][1])[i] = IF i < p THEN file[i] ELSE file[i + 1]
<1> DEFINE front == SubSeq(file, 1, p - 1)
           back  == SubSeq(file, p + 1, Len(file))
           new   == front \o back
<1>0. p \in 1 .. Len(file) /\ Len(file) \in Nat /\ \A i \in 1 .. Len(file) : file[i] \in Entries
  OBVIOUS
<1>2. Unpin(file, file[p][1]) = new
  BY LookupLine DEF Unpin, RemoveAt, HasPin
<1>3. /\ front \in Seq(Entries) /\ Len(front) = p - 1
      /\ \A i \in 1 .. p - 1 : front[i] = file[i]
  BY <1>0, SubSeqProperties
<1>4. /\ back \in Seq(Entries) /\ Len(back) = Len(file) - p
      /\ \A i \in 1 .. Len(file) - p : back[i] = file[p + i]
  BY <1>0, SubSeqProperties
<1>5. /\ new \in Seq(Entries) /\ Len(new) = Len(file) - 1
      /\ \A i \in 1 .. Len(file) - 1 : new[i] = IF i < p THEN file[i] ELSE file[i + 1]
  <2> HIDE DEF front, back
  <2>1. /\ new \in Seq(Entries) /\ Len(new) = Len(front) + Len(back)
        /\ \A i \in 1 .. Len(front) + Len(back) :
             new[i] = IF i <= Len(front) THEN front[i] ELSE back[i - Len(front)]
    BY <1>3, <1>4, ConcatProperties
  <2> HIDE DEF new
  <2>2. \A i \in 1 .. Len(file) - 1 : i <= p - 1 \/ i - (p - 1) \in 1 .. Len(file) - p
    BY <1>0
  <2>3. \A i \in 1 .. Len(file) - 1 : p + (i - (p - 1)) = i + 1 /\ (i <= p - 1 <=> i < p)
    BY <1>0
  <2>4. Len(front) + Len(back) = Len(file) - 1
    BY <1>0, <1>3, <1>4
  <2>5. ASSUME NEW i \in 1 .. Len(file) - 1
        PROVE  new[i] = IF i < p THEN file[i] ELSE file[i + 1]
    <3>1. CASE i <= p - 1
      <4>1. new[i] = front[i]
        BY <1>3, <2>1, <2>4, <3>1
      <4>2. i \in 1 .. p - 1 /\ i < p
        BY <1>0, <3>1
      <4>3. QED
        BY <1>3, <4>1, <4>2
    <3>2. CASE ~(i <= p - 1)
      <4>1. new[i] = back[i - (p - 1)]
        BY <1>3, <2>1, <2>4, <3>2
      <4>2. back[i - (p - 1)] = file[i + 1]
        BY <1>4, <2>2, <2>3, <3>2
      <4>3. QED
        BY <2>3, <3>2, <4>1, <4>2
    <3>3. QED
      BY <3>1, <3>2
  <2>6. QED
    BY <2>1, <2>4, <2>5
<1> HIDE DEF new
<1>6. QED
  BY <1>2, <1>5

(* Taking a host's line out leaves the other lines.                        *)
LEMMA UnpinFile ==
  ASSUME NEW file \in Seq(Entries), OneLine(file), NEW h \in Hosts
  PROVE  /\ Unpin(file, h) \in Seq(Entries) /\ OneLine(Unpin(file, h))
         /\ \A i \in DOMAIN Unpin(file, h) :
              \E j \in DOMAIN file : Unpin(file, h)[i] = file[j]
<1>1. CASE ~HasPin(file, h)
  BY <1>1 DEF Unpin
<1>2. CASE HasPin(file, h)
  <2>1. PICK p \in DOMAIN file : file[p][1] = h
    BY <1>2 DEF HasPin
  <2> DEFINE new == Unpin(file, h)
             Old(i) == IF i < p THEN i ELSE i + 1
  <2>2. /\ new \in Seq(Entries) /\ DOMAIN new = 1 .. Len(file) - 1
        /\ \A i \in DOMAIN new : new[i] = file[Old(i)]
    BY <2>1, UnpinAt
  <2> HIDE DEF new
  <2>3. \A i \in DOMAIN new : Old(i) \in DOMAIN file
    BY <2>2
  <2>4. \A i, j \in DOMAIN new : Old(i) = Old(j) => i = j
    BY <2>2
  <2> HIDE DEF Old
  <2>5. OneLine(new)
    BY <2>2, <2>3, <2>4 DEF OneLine
  <2>6. QED
    BY <2>2, <2>3, <2>5 DEF new
<1>3. QED
  BY <1>1, <1>2

-----------------------------------------------------------------------------
(* The invariant.                                                          *)
Rest == Flow /\ Unused /\ Prompt /\ Pinned /\ Accepted

LEMMA InitInv == Init => Inv
<1> SUFFICES ASSUME Init PROVE Inv
  OBVIOUS
<1>1. TypeOK
  BY EmptySeq DEF Init, TypeOK, Client!Init, Client!TypeOK, Client!Links, NoPrompt
<1>2. OneLine(pins)
  BY DEF Init, OneLine
<1>3. Flow /\ Unused /\ Prompt /\ Pinned
  BY DEF Init, Client!Init, Flow, Unused, Prompt, Pinned
<1>4. Accepted
  BY DEF Init, Client!Init, Accepted, TrustedPeer
<1>5. QED
  BY <1>1, <1>2, <1>3, <1>4 DEF Inv

(* Steps of the client and of its worker touch neither the file nor what   *)
(* is dialled.                                                             *)
LEMMA WorkerInv ==
  ASSUME Inv, Worker \/ LinkDrops
  PROVE  Inv'
<1> USE DEF Inv
<1> DEFINE Frame == UNCHANGED <<screen, settings, flow, prompt, pins, history, last>>
<1>1. Frame
  <2>1. CASE Worker
    BY <2>1 DEF Worker, WorkerDrops, WorkerFails, WorkerLogsIn, WorkerRejected, WorkerReports, WorkerRefuses
  <2>2. CASE LinkDrops
    BY <2>2 DEF LinkDrops
  <2>3. QED
    BY <2>1, <2>2
<1>2. TypeOK' /\ OneLine(pins)'
  <2> USE <1>1 DEF TypeOK, Client!TypeOK, Client!Links, Client!Outcomes, settings, flow, history, client
  <2>1. CASE WorkerDrops
    BY <2>1 DEF WorkerDrops, Client!Release
  <2>2. CASE WorkerFails \/ WorkerRejected \/ WorkerReports \/ \E k \in Keys : WorkerRefuses(k)
    BY <2>2 DEF WorkerFails, WorkerRejected, WorkerReports, WorkerRefuses, Client!Finish
  <2>3. CASE WorkerLogsIn
    BY <2>3 DEF WorkerLogsIn, Client!Establish
  <2>4. CASE LinkDrops
    BY <2>4 DEF LinkDrops, attempt, Client!Drop
  <2>5. QED
    BY <2>1, <2>2, <2>3, <2>4 DEF Worker
<1>3. Rest'
  <2> USE <1>1 DEF Rest, Flow, Unused, Prompt, Pinned, Accepted, TrustedPeer, settings, flow, history, client
  <2>1. CASE WorkerDrops
    BY <2>1 DEF WorkerDrops, Client!Release, TypeOK
  <2>2. CASE WorkerFails
    BY <2>2 DEF WorkerFails, Client!Finish
  <2>3. CASE WorkerRejected
    BY <2>3 DEF WorkerRejected, Client!Finish
  <2>4. CASE WorkerReports
    BY <2>4 DEF WorkerReports, Client!Finish
  <2>5. ASSUME NEW k \in Keys, WorkerRefuses(k) PROVE Rest'
    BY <2>5 DEF WorkerRefuses, Client!Finish
  <2>6. CASE WorkerLogsIn
    BY <2>6 DEF WorkerLogsIn, Client!Establish
  <2>7. CASE LinkDrops
    BY <2>7 DEF LinkDrops, attempt, Client!Drop
  <2>8. QED
    BY <2>1, <2>2, <2>3, <2>4, <2>5, <2>6, <2>7 DEF Worker
<1>4. QED
  BY <1>2, <1>3 DEF Rest

(* Steps that only change the screen, what was dialled, or how the attempt *)
(* is told.                                                                *)
LEMMA FlowInv ==
  ASSUME Inv,
         \/ Fire \/ CancelArmed \/ CancelRunning
         \/ FinishCancelled \/ FinishOk \/ FinishUnknown \/ FinishMismatch \/ FinishAuth
         \/ PadOpens \/ PadCancelled
         \/ MenuOpen \/ MenuTick \/ MenuLeave \/ MenuDisconnect \/ PairingEnter \/ PairingExit
  PROVE  Inv'
<1> USE DEF Inv, Rest, settings, flow, history, client, attempt
<1> USE DEF TypeOK, Client!TypeOK, Client!Links, Client!Outcomes,
            Flow, Unused, Prompt, Pinned, Accepted, TrustedPeer, Arm, Disconnect
<1>1. CASE ConnectBounced
  BY <1>1 DEF ConnectBounced
<1>2. CASE ConnectNoWorker
  BY <1>2 DEF ConnectNoWorker, Client!StartFails
<1>3. CASE ConnectStart
  BY <1>3 DEF ConnectStart, Client!Start
<1>4. CASE CancelArmed \/ CancelRunning
  BY <1>4 DEF CancelArmed, CancelRunning
<1>5. CASE FinishCancelled
  BY <1>5 DEF FinishCancelled
<1>6. CASE FinishOk
  BY <1>6 DEF FinishOk, Finished, Client!Take
<1>7. CASE FinishUnknown
  <2>1. prompt' = NoPrompt /\ prompt'.mismatch = FALSE /\ prompt'.src = "no"
    BY <1>7 DEF FinishUnknown, NoPrompt
  <2>2. NoPrompt \in [mismatch : BOOLEAN, sel : {"trust", "cancel"}, src : {"no", "tap", "enter"}]
    BY DEF NoPrompt
  <2>3. QED
    BY <1>7, <2>1, <2>2 DEF FinishUnknown, Finished, Client!Take
<1>14. CASE FinishMismatch
  <2>1. /\ prompt'.mismatch = TRUE /\ prompt'.src = "no"
        /\ prompt' \in [mismatch : BOOLEAN, sel : {"trust", "cancel"}, src : {"no", "tap", "enter"}]
    BY <1>14 DEF FinishMismatch
  <2>2. QED
    BY <1>14, <2>1 DEF FinishMismatch, Finished, Client!Take
<1>8. CASE FinishAuth
  BY <1>8 DEF FinishAuth, Finished, Client!Take
<1>9. CASE PadOpens \/ PadCancelled
  BY <1>9 DEF PadOpens, PadCancelled
<1>10. CASE MenuOpen
  <2>1. CASE screen = "home"
    <3>1. fromHome' = TRUE
      BY <1>10, <2>1, Zenon DEF MenuOpen
    <3>2. QED
      BY <1>10, <2>1, <3>1 DEF MenuOpen
  <2>2. CASE screen = "session"
    <3>1. fromHome' = FALSE
      BY <1>10, <2>2, Zenon DEF MenuOpen
    <3>2. QED
      BY <1>10, <2>2, <3>1 DEF MenuOpen
  <2>3. QED
    BY <1>10, <2>1, <2>2 DEF MenuOpen
<1>16. CASE MenuTick
  BY <1>16 DEF MenuTick
<1>15. CASE MenuLeave
  BY <1>15 DEF MenuLeave
<1>11. CASE MenuDisconnect
  BY <1>11 DEF MenuDisconnect, Client!Release
<1>12. CASE PairingEnter \/ PairingExit
  BY <1>12 DEF PairingEnter, PairingExit
<1>13. QED
  BY <1>1, <1>2, <1>3, <1>4, <1>5, <1>6, <1>7, <1>8, <1>9, <1>10, <1>11, <1>12, <1>14, <1>15, <1>16 DEF Fire

(* What is loaded from the file is a key that was accepted, or nothing.    *)
LEMMA Loaded ==
  ASSUME TypeOK, OneLine(pins), Accepted, NEW h
  PROVE  /\ Lookup(pins, h) \in Keys \union {NoKey}
         /\ Lookup(pins, h) = NoKey => ~HasPin(pins, h)
         /\ h = Watched /\ Lookup(pins, h) # NoKey => Lookup(pins, h) \in trusted
<1>1. pins \in Seq(Entries)
  BY DEF TypeOK
<1>2. Lookup(pins, h) \in Keys \union {NoKey} /\ (Lookup(pins, h) = NoKey <=> ~HasPin(pins, h))
  BY <1>1, LookupNone
<1>3. ASSUME h = Watched, HasPin(pins, h) PROVE Lookup(pins, h) \in trusted
  <2>1. PICK i \in DOMAIN pins : pins[i][1] = h
    BY <1>3 DEF HasPin
  <2>2. Lookup(pins, h) = pins[i][2]
    BY <1>1, <2>1, LookupLine
  <2>3. QED
    BY <1>3, <2>1, <2>2 DEF Accepted
<1>4. QED
  BY <1>2, <1>3

(* Arming loads the pin of the host it arms.                               *)
LEMMA ArmInv ==
  ASSUME Inv, FinishFailed \/ SessionTick \/ \E h \in Hosts : StartConnect(h)
  PROVE  Inv'
<1> USE DEF Inv, Rest, settings, flow, history, client, attempt
<1> USE DEF TypeOK, Client!TypeOK, Client!Links, Client!Outcomes,
            Flow, Unused, Prompt, Pinned, Accepted, TrustedPeer, Arm, Disconnect
<1>1. CASE FinishFailed
  <2>1. CASE auto
    <3>1. active \in Hosts
      BY <1>1 DEF FinishFailed, Finished, Client!Take
    <3>2. QED
      BY <1>1, <2>1, <3>1, Loaded DEF FinishFailed, Finished, Client!Take, Reconnect, LoadPin
  <2>2. CASE ~auto
    BY <1>1, <2>2 DEF FinishFailed, Finished, Client!Take
  <2>3. QED
    BY <2>1, <2>2
<1>2. CASE SessionTick
  <2>1. active \in Hosts
    BY <1>2 DEF SessionTick
  <2>2. CASE Reconnect
    BY <1>2, <2>1, <2>2, Loaded DEF SessionTick, Reconnect, LoadPin, Client!Release
  <2>3. CASE ~Reconnect
    BY <1>2, <2>3 DEF SessionTick, Client!Release
  <2>4. QED
    BY <2>2, <2>3
<1>3. ASSUME NEW h \in Hosts, StartConnect(h) PROVE Inv'
  BY <1>3, Loaded DEF StartConnect, LoadPin
<1>4. QED
  BY <1>1, <1>2, <1>3

(* Accepting the key shown, with or without the file being written.        *)
LEMMA TrustInv ==
  ASSUME Inv, screen = "hostkey", Trust, last' \in {"tap", "enter", "y"}
  PROVE  Inv'
<1> USE DEF Inv, Rest
<1>0. /\ fp \in Keys /\ active \in Hosts /\ dial = "none" /\ conn = "idle" /\ worker = "none"
      /\ pins \in Seq(Entries) /\ pinned' = fp /\ screen' = "connecting" /\ dial' = "armed"
      /\ UNCHANGED <<auto, fromHome, active, worker, fp, linkHost, conn, res, pin, link, peer>>
  BY DEF Rest, Flow, Unused, Prompt, Trust, Arm, TypeOK, settings, attempt, client
<1>1. PICK written \in BOOLEAN : pins' = IF written THEN Pin(pins, active, fp) ELSE pins
  BY DEF Trust
<1>2. /\ pins' \in Seq(Entries) /\ OneLine(pins')
      /\ \A i \in DOMAIN pins' : \/ pins'[i] = <<active, fp>>
                               \/ \E j \in DOMAIN pins : pins'[i] = pins[j]
  BY <1>0, <1>1, PinFile
<1>3. /\ trusted' = IF active = Watched THEN trusted \union {fp} ELSE trusted
      /\ since' \in SUBSET Hosts /\ gone' \in BOOLEAN
  BY <1>0 DEF Trust, TypeOK
<1>4. prompt' \in [mismatch : BOOLEAN, sel : {"trust", "cancel"}, src : {"no", "tap", "enter"}]
  BY DEF Trust, NoPrompt
<1>5. TypeOK'
  BY <1>0, <1>2, <1>3, <1>4 DEF TypeOK, Client!TypeOK
<1>6. (Flow /\ Unused /\ Prompt /\ Pinned)'
  BY <1>0 DEF Flow, Unused, Prompt, Pinned
<1>7. Accepted'
  <2>1. \A i \in DOMAIN pins' : pins'[i][1] = Watched => pins'[i][2] \in trusted'
    BY <1>2, <1>3 DEF Accepted
  <2>2. (active = Watched /\ pinned # NoKey => pinned \in trusted)'
    BY <1>0, <1>3
  <2>3. TrustedPeer'
    BY <1>0, <1>3 DEF TrustedPeer, Accepted
  <2>4. QED
    BY <2>1, <2>2, <2>3 DEF Accepted
<1>8. QED
  BY <1>2, <1>5, <1>6, <1>7

(* An input that leaves the prompt standing, or leaves for HOME.           *)
LEMMA PromptInv ==
  ASSUME Inv, screen = "hostkey",
         \/ PromptLeave
         \/ /\ PromptStays
            /\ prompt'.mismatch = prompt.mismatch
            /\ prompt' \in [mismatch : BOOLEAN, sel : {"trust", "cancel"}, src : {"no", "tap", "enter"}]
            /\ last' \in {"tap", "enter", "y", "back"}
            /\ prompt'.src # "no" => last' = prompt'.src
  PROVE  Inv'
<1> USE DEF Inv, Rest, settings, flow, history, client, attempt,
            TypeOK, Client!TypeOK, Flow, Unused, Prompt, Pinned, Accepted, TrustedPeer
<1>1. CASE PromptLeave
  BY <1>1 DEF PromptLeave, NoPrompt
<1>2. CASE ~PromptLeave
  BY <1>2 DEF PromptStays
<1>3. QED
  BY <1>1, <1>2

LEMMA InputInv ==
  ASSUME Inv, HostkeyInput
  PROVE  Inv'
<1> DEFINE P == [mismatch : BOOLEAN, sel : {"trust", "cancel"}, src : {"no", "tap", "enter"}]
<1>1. prompt \in P
  BY DEF Inv, TypeOK
<1>2. CASE TapTrust
  <2>1. CASE Trust
    BY <1>2, <2>1, TrustInv DEF TapTrust
  <2>2. CASE ~Trust
    BY <1>1, <1>2, <2>2, PromptInv DEF TapTrust
  <2>3. QED
    BY <2>1, <2>2
<1>3. CASE PromptCancel
  BY <1>3, PromptInv DEF PromptCancel
<1>4. CASE PressEnter
  <2>1. CASE Trust
    <3>1. CASE last' = "enter"
      BY <1>4, <2>1, <3>1, TrustInv DEF PressEnter
    <3>2. CASE last' # "enter"
      BY <1>4, <3>2, PromptInv DEF PressEnter
    <3>3. QED
      BY <3>1, <3>2
  <2>2. CASE PromptLeave
    BY <1>4, <2>2, PromptInv DEF PressEnter
  <2>3. CASE ~Trust /\ ~PromptLeave
    <3>1. prompt' = [prompt EXCEPT !.src = "no"] \/ prompt' = [prompt EXCEPT !.src = "enter"]
      BY <1>4, <2>3 DEF PressEnter, BackDown
    <3>2. last' = "enter" /\ PromptStays /\ screen = "hostkey"
      BY <1>4, <2>3 DEF PressEnter
    <3>3. prompt' \in P /\ prompt'.mismatch = prompt.mismatch /\ prompt'.src \in {"no", "enter"}
      BY <1>1, <3>1
    <3>4. QED
      BY <3>2, <3>3, PromptInv
  <2>4. QED
    BY <2>1, <2>2, <2>3
<1>5. CASE PressY
  BY <1>5, TrustInv DEF PressY
<1>6. CASE PressArrow \/ PressOther
  <2>1. \/ \E sel \in {"trust", "cancel"} : prompt' = [prompt EXCEPT !.sel = sel, !.src = "no"]
        \/ prompt' = [prompt EXCEPT !.src = "no"]
    BY <1>6 DEF PressArrow, PressOther, BackDown
  <2>2. prompt' \in P /\ prompt'.mismatch = prompt.mismatch /\ prompt'.src = "no"
    BY <1>1, <2>1
  <2>3. screen = "hostkey" /\ last' = "back" /\ PromptStays
    BY <1>6 DEF PressArrow, PressOther
  <2>4. QED
    BY <2>2, <2>3, PromptInv
<1>7. QED
  BY <1>2, <1>3, <1>4, <1>5, <1>6 DEF HostkeyInput

(* Lines taken out of the file.                                            *)
LEMMA UnpinInv ==
  ASSUME Inv, ClearHosts \/ \E h \in Hosts : ForgetHost(h)
  PROVE  Inv'
<1> USE DEF Inv, Rest, settings, flow, client, attempt
<1>1. /\ pins' \in Seq(Entries) /\ OneLine(pins')
      /\ \A i \in DOMAIN pins' : \E j \in DOMAIN pins : pins'[i] = pins[j]
  <2>1. CASE ClearHosts
    BY <2>1, EmptySeq DEF ClearHosts, OneLine
  <2>2. ASSUME NEW h \in Hosts, ForgetHost(h)
        PROVE  /\ pins' \in Seq(Entries) /\ OneLine(pins')
               /\ \A i \in DOMAIN pins' : \E j \in DOMAIN pins : pins'[i] = pins[j]
    BY <2>2, UnpinFile DEF ForgetHost, TypeOK
  <2>3. QED
    BY <2>1, <2>2
<1>2. screen = "menu" /\ gone' \in BOOLEAN
      /\ UNCHANGED <<screen, settings, flow, prompt, attempt, client, trusted, since, last>>
  BY DEF ClearHosts, ForgetHost, TypeOK
<1>3. TypeOK'
  BY <1>1, <1>2 DEF TypeOK, Client!TypeOK
<1>4. (Flow /\ Unused /\ Prompt /\ Pinned)'
  BY <1>2 DEF Flow, Unused, Prompt, Pinned
<1>5. Accepted'
  BY <1>1, <1>2 DEF Accepted, TrustedPeer
<1>6. QED
  BY <1>1, <1>3, <1>4, <1>5

LEMMA NextInv == Inv /\ [Next]_vars => Inv'
<1> SUFFICES ASSUME Inv, [Next]_vars PROVE Inv'
  OBVIOUS
<1>1. CASE Next
  BY <1>1, WorkerInv, FlowInv, ArmInv, InputInv, UnpinInv DEF Next, Fire, Finish, Home
<1>2. CASE UNCHANGED vars
  BY <1>2 DEF vars, settings, flow, history, client, attempt, Inv, TypeOK, Client!TypeOK, OneLine,
     Flow, Unused, Prompt, Pinned, Accepted, TrustedPeer
<1>3. QED
  BY <1>1, <1>2

-----------------------------------------------------------------------------
(* known_hosts.ini holds at most one line per host, whatever is accepted,  *)
(* forgotten or pushed out, so that the first line found is the only one;  *)
(* and the flow, the prompt and the client keep their types and fit        *)
(* together (storage_known_host_set, storage_known_host_delete).           *)
THEOREM OneLinePerHost == Spec => [](TypeOK /\ OneLine(pins))
<1>1. Inv => TypeOK /\ OneLine(pins)
  BY DEF Inv
<1>2. QED
  BY <1>1, InitInv, NextInv, PTL DEF Spec

(* A session is only ever held with a host key the user accepted for that  *)
(* host, for every set of hosts and keys and every size of the file        *)
(* (load_pinned_fp, hostkey_trust_and_connect, ssh_client_connect).        *)
THEOREM PeerIsTrusted == Spec => []TrustedPeer
<1>1. Inv => TrustedPeer
  BY DEF Inv, Accepted
<1>2. QED
  BY <1>1, InitInv, NextInv, PTL DEF Spec
-----------------------------------------------------------------------------
(* What a file whose lines all come from another, but for the lines of     *)
(* one host, says of a host.                                               *)
LEMMA LookupKept ==
  ASSUME NEW file \in Seq(Entries), OneLine(file),
         NEW new \in Seq(Entries), OneLine(new), NEW h,
         \A i \in DOMAIN new : new[i][1] = h => \E j \in DOMAIN file : new[i] = file[j]
  PROVE  Lookup(new, h) \in {NoKey, Lookup(file, h)}
<1>1. CASE HasPin(new, h)
  <2>1. PICK i \in DOMAIN new : new[i][1] = h
    BY <1>1 DEF HasPin
  <2>2. PICK j \in DOMAIN file : new[i] = file[j]
    BY <2>1
  <2>3. Lookup(new, h) = new[i][2] /\ Lookup(file, h) = file[j][2]
    BY <2>1, <2>2, LookupLine
  <2>4. QED
    BY <2>2, <2>3
<1>2. CASE ~HasPin(new, h)
  BY <1>2 DEF Lookup
<1>3. QED
  BY <1>1, <1>2

(* Only an acceptance replaces a pin, and one that was asked for twice.    *)
Repins ==
  Lookup(pins, Watched) \notin {NoKey, Lookup(pins', Watched)} /\ Lookup(pins', Watched) # NoKey

LEMMA TrustRepins ==
  ASSUME Inv, screen = "hostkey", Trust, Repins
  PROVE  prompt.mismatch
<1> USE DEF Inv
<1>1. active = Watched
  <2> SUFFICES ASSUME active # Watched PROVE Lookup(pins', Watched) \in {NoKey, Lookup(pins, Watched)}
    BY DEF Repins
  <2>0. /\ fp \in Keys /\ active \in Hosts /\ pins \in Seq(Entries) /\ OneLine(pins)
        /\ \E written \in BOOLEAN : pins' = IF written THEN Pin(pins, active, fp) ELSE pins
    BY DEF Prompt, Unused, TypeOK, Trust
  <2>1. CASE pins' = pins
    BY <2>1
  <2>2. CASE pins' = Pin(pins, active, fp)
    <3>1. /\ pins' \in Seq(Entries) /\ OneLine(pins')
          /\ \A i \in DOMAIN pins' : \/ pins'[i] = <<active, fp>>
                                     \/ \E j \in DOMAIN pins : pins'[i] = pins[j]
      BY <2>0, <2>2, PinFile
    <3>2. \A i \in DOMAIN pins' : pins'[i][1] = Watched => \E j \in DOMAIN pins : pins'[i] = pins[j]
      BY <3>1
    <3>3. QED
      BY <2>0, <3>1, <3>2, LookupKept
  <2>3. QED
    BY <2>0, <2>1, <2>2
<1>2. HasPin(pins, Watched)
  BY LookupNone DEF Repins, TypeOK
<1>3. QED
  BY <1>1, <1>2 DEF Pinned, Prompt

(* Nothing but an acceptance and the two deletions touches the file or the *)
(* history.                                                                *)
LEMMA WhoPins ==
  ASSUME [Next]_vars
  PROVE  \/ UNCHANGED <<pins, trusted, since, gone>>
         \/ ClearHosts \/ (\E h \in Hosts : ForgetHost(h))
         \/ screen = "hostkey" /\ Trust /\ HostkeyInput
BY DEF Next, Fire, ConnectBounced, ConnectNoWorker, ConnectStart, CancelArmed, CancelRunning,
       Worker, WorkerDrops, WorkerFails, WorkerLogsIn, WorkerRejected, WorkerReports, WorkerRefuses,
       LinkDrops, Finish, FinishCancelled, FinishOk, FinishUnknown, FinishMismatch, FinishAuth,
       FinishFailed, Finished, HostkeyInput, TapTrust, PromptCancel, PromptLeave, PressEnter,
       PressY, PressArrow, PressOther, PromptStays, SessionTick, Home, StartConnect, PadOpens,
       PadCancelled, MenuOpen, MenuTick, MenuLeave, MenuDisconnect, PairingEnter, PairingExit,
       history, vars

LEMMA RepinStep == Inv /\ [Next]_vars => (Repins => Deliberate)
<1> SUFFICES ASSUME Inv, [Next]_vars, Repins PROVE Deliberate
  OBVIOUS
<1>0. pins' # pins
  BY DEF Repins
<1>1. ClearHosts \/ (\E h \in Hosts : ForgetHost(h)) \/ (screen = "hostkey" /\ Trust /\ HostkeyInput)
  BY <1>0, WhoPins
<1>2. CASE ClearHosts \/ \E h \in Hosts : ForgetHost(h)
  <2>1. Inv'
    BY NextInv
  <2>2. \A i \in DOMAIN pins' : \E j \in DOMAIN pins : pins'[i] = pins[j]
    BY <1>2, UnpinFile DEF ClearHosts, ForgetHost, Inv, TypeOK
  <2>3. QED
    BY <2>1, <2>2, LookupKept DEF Repins, Inv, TypeOK
<1>3. CASE screen = "hostkey" /\ Trust /\ HostkeyInput
  <2>1. prompt.mismatch
    BY <1>3, TrustRepins
  <2>2. screen' = "connecting"
    BY <1>3 DEF Trust, Arm
  <2>3. CASE PressY
    BY <2>3 DEF PressY, Deliberate
  <2>4. CASE TapTrust
    BY <1>3, <2>1, <2>2, <2>4 DEF TapTrust, PromptStays, Deliberate, Inv, Prompt
  <2>5. CASE PressEnter
    BY <1>3, <2>1, <2>2, <2>5 DEF PressEnter, PromptLeave, PromptStays, Deliberate, Inv, Prompt
  <2>6. CASE PromptCancel \/ PressArrow \/ PressOther
    BY <1>3, <2>2, <2>6 DEF PromptCancel, PromptLeave, PressArrow, PressOther, PromptStays
  <2>7. QED
    BY <1>3, <2>3, <2>4, <2>5, <2>6 DEF HostkeyInput
<1>4. QED
  BY <1>1, <1>2, <1>3

(* A pin is replaced by another key only by Y, or by two successive inputs *)
(* of the same kind at one prompt, for every host and every order of       *)
(* inputs, failures and evictions in between (hostkey_input).              *)
THEOREM RepinIsDeliberate == Spec => RepinDeliberate
<1>1. Inv /\ [Next]_vars =>
        [Lookup(pins, Watched) \notin {NoKey, Lookup(pins', Watched)}
           /\ Lookup(pins', Watched) # NoKey
         => Deliberate]_vars
  BY RepinStep DEF Repins
<1>2. QED
  BY <1>1, InitInv, NextInv, PTL DEF Spec, RepinDeliberate
-----------------------------------------------------------------------------
(* Behind the watched host's line stand hosts accepted since.              *)
After(file, s) ==
  \A p, i \in DOMAIN file : file[p][1] = Watched /\ p < i => file[i][1] \in s

(* The line of an accepted host is there until it was given up, or the     *)
(* hosts accepted since fill the file.                                     *)
Kept ==
  /\ IsFiniteSet(since) /\ After(pins, since)
  /\ trusted # {} /\ ~gone => HasPin(pins, Watched) \/ Cardinality(since) >= MaxPins

LEMMA PinWatched ==
  ASSUME NEW file \in Seq(Entries), OneLine(file), NEW s, After(file, s), NEW k \in Keys
  PROVE  /\ HasPin(Pin(file, Watched, k), Watched)
         /\ After(Pin(file, Watched, k), IF HasPin(file, Watched) THEN s ELSE {})
<1> DEFINE new == Pin(file, Watched, k)
<1>1. CASE HasPin(file, Watched)
  <2>1. new = [i \in DOMAIN file |-> IF file[i][1] = Watched THEN <<Watched, k>> ELSE file[i]]
    BY <1>1 DEF Pin
  <2> HIDE DEF new
  <2>2. DOMAIN new = DOMAIN file /\ \A i \in DOMAIN file : new[i][1] = file[i][1]
    BY <2>1
  <2>3. HasPin(new, Watched) /\ After(new, s)
    BY <1>1, <2>2 DEF HasPin, After
  <2>4. QED
    BY <1>1, <2>3 DEF new
<1>2. CASE ~HasPin(file, Watched)
  <2>1. PICK n \in Nat : /\ DOMAIN new = 1 .. n + 1 /\ new[n + 1] = <<Watched, k>>
                         /\ \A i \in 1 .. n : new[i][1] # Watched
    <3>1. PICK n \in Nat, d \in {0, 1} :
            /\ Len(new) = n + 1 /\ DOMAIN new = 1 .. n + 1
            /\ new[n + 1] = <<Watched, k>>
            /\ n = Len(file) - d /\ (d = 1 => Len(file) >= MaxPins)
            /\ \A i \in 1 .. n : /\ i + d \in DOMAIN file /\ file[i + d][1] # Watched
                                 /\ new[i] = file[i + d]
      BY <1>2, PinAtEnd, Zenon
    <3> HIDE DEF new
    <3>2. QED
      BY <3>1
  <2> HIDE DEF new
  <2>2. HasPin(new, Watched) /\ After(new, {})
    BY <2>1 DEF HasPin, After
  <2>3. QED
    BY <1>2, <2>2 DEF new
<1>3. QED
  BY <1>1, <1>2

(* Distinct hosts, all of them in a set, are no more than the set has.     *)
LEMMA FitsIn ==
  ASSUME NEW file \in Seq(Entries), OneLine(file), NEW s, IsFiniteSet(s),
         \A i \in DOMAIN file : file[i][1] \in s
  PROVE  Len(file) <= Cardinality(s)
<1> DEFINE f == [i \in 1 .. Len(file) |-> file[i][1]]
<1>1. f \in Injection(1 .. Len(file), s)
  BY DEF OneLine, Injection, IsInjective
<1>2. Cardinality(1 .. Len(file)) <= Cardinality(s)
  BY <1>1, FS_Injection
<1>3. Len(file) \in Nat
  OBVIOUS
<1>4. Cardinality(1 .. Len(file)) = Len(file)
  <2>1. 1 \in Int /\ Len(file) \in Int
    BY <1>3
  <2>2. Cardinality(1 .. Len(file)) = IF 1 > Len(file) THEN 0 ELSE Len(file) - 1 + 1
    BY <2>1, FS_Interval
  <2>3. QED
    BY <1>3, <2>2
<1>5. QED
  BY <1>2, <1>4

LEMMA PinOther ==
  ASSUME NEW file \in Seq(Entries), OneLine(file), NEW s, IsFiniteSet(s), After(file, s),
         NEW h \in Hosts, h # Watched, NEW k \in Keys
  PROVE  /\ After(Pin(file, h, k), s \union {h})
         /\ HasPin(file, Watched) =>
              HasPin(Pin(file, h, k), Watched) \/ Cardinality(s \union {h}) >= MaxPins
<1> DEFINE new == Pin(file, h, k)
<1>1. CASE HasPin(file, h)
  <2>1. new = [i \in DOMAIN file |-> IF file[i][1] = h THEN <<h, k>> ELSE file[i]]
    BY <1>1 DEF Pin
  <2> HIDE DEF new
  <2>2. DOMAIN new = DOMAIN file /\ \A i \in DOMAIN file : new[i][1] = file[i][1]
    BY <2>1
  <2>3. After(new, s \union {h}) /\ (HasPin(file, Watched) => HasPin(new, Watched))
    BY <1>1, <2>2 DEF HasPin, After
  <2>4. QED
    BY <2>3 DEF new
<1>2. CASE ~HasPin(file, h)
  <2>0. new \in Seq(Entries) /\ OneLine(new)
    BY <1>2, PinFile
  <2>1. PICK n \in Nat, d \in {0, 1} :
          /\ Len(new) = n + 1 /\ DOMAIN new = 1 .. n + 1
          /\ new[n + 1] = <<h, k>>
          /\ n = Len(file) - d /\ (d = 1 => Len(file) >= MaxPins)
          /\ \A i \in 1 .. n : /\ i + d \in DOMAIN file /\ file[i + d][1] # h
                               /\ new[i] = file[i + d]
    BY <1>2, PinAtEnd, Zenon
  <2> HIDE DEF new
  <2>2. /\ DOMAIN new = 1 .. n + 1 /\ new[n + 1] = <<h, k>>
        /\ \A i \in 1 .. n : i + d \in DOMAIN file /\ new[i] = file[i + d]
    BY <2>1, Zenon
  <2>3. /\ Len(new) = n + 1 /\ n = Len(file) - d /\ (d = 1 => Len(file) >= MaxPins)
    BY <2>1, Zenon
  <2>4. After(new, s \union {h})
    <3> SUFFICES ASSUME NEW p \in DOMAIN new, NEW i \in DOMAIN new, new[p][1] = Watched, p < i
                 PROVE  new[i][1] \in s \union {h}
      BY DEF After
    <3>1. p \in 1 .. n
      BY <2>2
    <3>2. CASE i = n + 1
      BY <2>2, <3>2
    <3>3. CASE i \in 1 .. n
      <4>1. new[i] = file[i + d] /\ new[p] = file[p + d] /\ p + d < i + d
        BY <2>2, <3>1, <3>3
      <4>2. QED
        BY <2>2, <3>1, <3>3, <4>1 DEF After
    <3>4. QED
      BY <2>2, <3>2, <3>3
  <2>5. ASSUME HasPin(file, Watched), ~HasPin(new, Watched)
        PROVE  Cardinality(s \union {h}) >= MaxPins
    <3>1. PICK p \in DOMAIN file : file[p][1] = Watched
      BY <2>5 DEF HasPin
    <3>2. \A i \in 1 .. n : new[i][1] # Watched
      <4>1. \A i \in DOMAIN new : new[i][1] # Watched
        BY <2>5 DEF HasPin
      <4>2. DOMAIN new = 1 .. n + 1
        BY <2>2, Zenon
      <4>3. \A i \in 1 .. n : i \in 1 .. n + 1
        OBVIOUS
      <4>4. QED
        BY <4>1, <4>2, <4>3
    <3>3. d = 1 /\ p = 1
      <4>1. ASSUME p - d \in 1 .. n PROVE FALSE
        <5>1. (p - d) + d = p
          BY <3>1
        <5>2. new[p - d] = file[p]
          BY <2>2, <4>1, <5>1
        <5>3. QED
          BY <3>1, <3>2, <4>1, <5>2
      <4>2. p \in 1 .. Len(file) /\ Len(file) \in Nat
        BY <3>1
      <4>3. QED
        BY <2>3, <4>1, <4>2
    <3>4. \A i \in DOMAIN new : new[i][1] \in s \union {h}
      <4> SUFFICES ASSUME NEW i \in DOMAIN new PROVE new[i][1] \in s \union {h}
        OBVIOUS
      <4>1. CASE i = n + 1
        BY <2>2, <4>1
      <4>2. CASE i \in 1 .. n
        <5>1. new[i] = file[i + d] /\ p < i + d /\ i + d \in DOMAIN file
          BY <2>2, <3>3, <4>2
        <5>2. file[i + d][1] \in s
          BY <3>1, <5>1 DEF After
        <5>3. QED
          BY <5>1, <5>2
      <4>3. i \in 1 .. n + 1
        BY <2>2, Zenon
      <4>4. i = n + 1 \/ i \in 1 .. n
        BY <4>3
      <4>5. QED
        BY <4>1, <4>2, <4>4
    <3>5. IsFiniteSet(s \union {h}) /\ Cardinality(s \union {h}) \in Nat
      BY FS_AddElement, FS_CardinalityType
    <3>6. Len(new) <= Cardinality(s \union {h})
      BY <2>0, <3>4, <3>5, FitsIn
    <3>7. Len(new) >= MaxPins
      BY <2>3, <3>3
    <3>8. QED
      BY <2>3, <3>5, <3>6, <3>7
  <2>6. QED
    BY <2>4, <2>5 DEF new
<1>3. QED
  BY <1>1, <1>2

LEMMA UnpinKept ==
  ASSUME NEW file \in Seq(Entries), OneLine(file), NEW s, After(file, s), NEW h \in Hosts
  PROVE  /\ After(Unpin(file, h), s)
         /\ h # Watched /\ HasPin(file, Watched) => HasPin(Unpin(file, h), Watched)
<1> DEFINE new == Unpin(file, h)
<1>1. CASE ~HasPin(file, h)
  BY <1>1 DEF Unpin
<1>2. CASE HasPin(file, h)
  <2>1. PICK p \in DOMAIN file : file[p][1] = h
    BY <1>2 DEF HasPin
  <2> DEFINE Old(i) == IF i < p THEN i ELSE i + 1
  <2>2. /\ DOMAIN new = 1 .. Len(file) - 1
        /\ \A i \in DOMAIN new : new[i] = file[Old(i)]
    BY <2>1, UnpinAt
  <2> HIDE DEF new
  <2>3. /\ \A i \in DOMAIN new : Old(i) \in DOMAIN file
        /\ \A i, j \in DOMAIN new : i < j => Old(i) < Old(j)
        /\ \A j \in DOMAIN file : j # p => \E i \in DOMAIN new : Old(i) = j
    <3>1. \A i \in DOMAIN new : Old(i) \in DOMAIN file
      BY <2>2
    <3>2. \A i, j \in DOMAIN new : i < j => Old(i) < Old(j)
      BY <2>2
    <3>3. ASSUME NEW j \in DOMAIN file, j # p PROVE \E i \in DOMAIN new : Old(i) = j
      <4>1. CASE j < p
        BY <2>2, <4>1
      <4>2. CASE p < j
        <5>1. j - 1 \in DOMAIN new /\ Old(j - 1) = j
          BY <2>2, <4>2
        <5>2. QED
          BY <5>1
      <4>3. QED
        BY <3>3, <4>1, <4>2
    <3>4. QED
      BY <3>1, <3>2, <3>3
  <2> HIDE DEF Old
  <2>4. After(new, s)
    BY <2>2, <2>3 DEF After
  <2>5. h # Watched /\ HasPin(file, Watched) => HasPin(new, Watched)
    BY <2>1, <2>2, <2>3 DEF HasPin
  <2>6. QED
    BY <2>4, <2>5 DEF new
<1>3. QED
  BY <1>1, <1>2

LEMMA KeptInit == Init => Kept
<1> SUFFICES ASSUME Init PROVE Kept
  OBVIOUS
<1>1. IsFiniteSet(since)
  BY FS_EmptySet DEF Init
<1>2. QED
  BY <1>1 DEF Init, Kept, After

LEMMA KeptStep == Inv /\ Kept /\ [Next]_vars => Kept'
<1> SUFFICES ASSUME Inv, Kept, [Next]_vars PROVE Kept'
  OBVIOUS
<1>0. pins \in Seq(Entries) /\ OneLine(pins) /\ IsFiniteSet(since) /\ After(pins, since)
  BY DEF Inv, TypeOK, Kept
<1>1. CASE UNCHANGED <<pins, trusted, since, gone>>
  <2>1. pins' = pins /\ trusted' = trusted /\ since' = since /\ gone' = gone
    BY <1>1
  <2>2. After(pins', since') /\ IsFiniteSet(since')
    BY <1>0, <2>1
  <2>3. QED
    BY <2>1, <2>2 DEF Kept, HasPin
<1>2. CASE ClearHosts
  <2>1. pins' = <<>> /\ trusted' = trusted /\ since' = since /\ gone' = (trusted # {})
    BY <1>2 DEF ClearHosts
  <2>2. trusted' # {} => gone'
    BY <2>1, Zenon
  <2>3. After(pins', since') /\ IsFiniteSet(since')
    BY <1>0, <2>1 DEF After
  <2>4. QED
    BY <2>2, <2>3 DEF Kept
<1>3. ASSUME NEW h \in Hosts, ForgetHost(h) PROVE Kept'
  <2>1. /\ pins' = Unpin(pins, h) /\ UNCHANGED <<trusted, since>>
        /\ gone' = (gone \/ (h = Watched /\ trusted # {}))
    BY <1>3 DEF ForgetHost
  <2>2. /\ After(pins', since')
        /\ h # Watched /\ HasPin(pins, Watched) => HasPin(pins', Watched)
    BY <1>0, <2>1, UnpinKept
  <2>3. CASE h = Watched
    BY <1>0, <2>1, <2>2, <2>3 DEF Kept
  <2>4. CASE h # Watched
    BY <1>0, <2>1, <2>2, <2>4 DEF Kept
  <2>5. QED
    BY <2>3, <2>4
<1>4. CASE screen = "hostkey" /\ Trust
  <2>0. fp \in Keys /\ active \in Hosts
    BY <1>4 DEF Inv, Prompt, Unused, TypeOK
  <2>1. CASE active = Watched
    <3> DEFINE s == IF HasPin(pins, Watched) THEN since ELSE {}
    <3>1. since' = s /\ IsFiniteSet(s)
      BY <1>0, <1>4, <2>1, FS_EmptySet DEF Trust
    <3>2. PICK written \in BOOLEAN :
            pins' = (IF written THEN Pin(pins, Watched, fp) ELSE pins) /\ gone' = ~written
      BY <1>4, <2>1 DEF Trust
    <3>3. After(pins, s)
      BY <1>0 DEF After, HasPin
    <3>4. CASE written
      <4>1. pins' = Pin(pins, Watched, fp)
        BY <3>2, <3>4
      <4>2. HasPin(pins', Watched) /\ After(pins', s)
        BY <1>0, <2>0, <4>1, PinWatched
      <4>3. QED
        BY <3>1, <4>2 DEF Kept
    <3>5. CASE ~written
      BY <3>1, <3>2, <3>3, <3>5 DEF Kept
    <3>6. QED
      BY <3>4, <3>5
  <2>2. CASE active # Watched
    <3>1. /\ since' = (IF trusted = {} THEN {} ELSE since \union {active})
          /\ UNCHANGED <<trusted, gone>>
      BY <1>4, <2>2 DEF Trust
    <3>2. pins' = Pin(pins, active, fp) \/ pins' = pins
      BY <1>4 DEF Trust
    <3>3. CASE trusted = {}
      <4>1. \A i \in DOMAIN pins' : pins'[i][1] # Watched
        <5>1. Inv'
          BY NextInv
        <5>2. QED
          BY <3>1, <3>3, <5>1 DEF Inv, Accepted
      <4>2. IsFiniteSet(since')
        BY <3>1, <3>3, FS_EmptySet
      <4>3. QED
        BY <3>1, <3>3, <4>1, <4>2 DEF Kept, After
    <3>4. CASE trusted # {}
      <4> DEFINE s == since \union {active}
      <4>1. /\ since' = s /\ IsFiniteSet(s)
            /\ Cardinality(s) >= Cardinality(since)
            /\ Cardinality(s) \in Nat /\ Cardinality(since) \in Nat
        <5>1. since' = s
          BY <3>1, <3>4
        <5>2. /\ IsFiniteSet(s)
              /\ Cardinality(s) = IF active \in since THEN Cardinality(since)
                                                     ELSE Cardinality(since) + 1
          BY <1>0, FS_AddElement
        <5>3. Cardinality(since) \in Nat /\ Cardinality(s) \in Nat
          BY <1>0, <5>2, FS_CardinalityType
        <5> HIDE DEF s
        <5>4. QED
          BY <5>1, <5>2, <5>3
      <4>2. /\ After(pins', s)
            /\ HasPin(pins, Watched) => HasPin(pins', Watched) \/ Cardinality(s) >= MaxPins
        <5>1. CASE pins' = pins
          BY <1>0, <5>1 DEF After
        <5>2. CASE pins' = Pin(pins, active, fp)
          BY <1>0, <2>0, <2>2, <5>2, PinOther
        <5>3. QED
          BY <3>2, <5>1, <5>2
      <4> HIDE DEF s
      <4>3. QED
        BY <3>1, <4>1, <4>2 DEF Kept
    <3>5. QED
      BY <3>3, <3>4
  <2>3. QED
    BY <2>1, <2>2
<1>5. QED
  BY <1>1, <1>2, <1>3, <1>4, WhoPins

(* A changed key is never introduced as a first contact, for every size of *)
(* the file and every order of acceptances, deletions and evictions, as    *)
(* long as fewer other hosts were accepted since than the file has lines   *)
(* (storage_known_host_set, do_connect_finish, hostkey_open).              *)
THEOREM ChangeIsFlagged == Spec => []ChangeFlagged
<1>1. Inv /\ Kept => ChangeFlagged
  <2> SUFFICES ASSUME Inv, Kept, screen = "hostkey", active = Watched, trusted # {}, ~gone,
                      Cardinality(since) < MaxPins
               PROVE  prompt.mismatch
    BY DEF ChangeFlagged
  <2>1. Cardinality(since) \in Nat
    BY FS_CardinalityType DEF Kept
  <2>2. HasPin(pins, Watched)
    BY <2>1 DEF Kept
  <2>3. QED
    BY <2>2 DEF Inv, Pinned, Prompt
<1>2. QED
  BY <1>1, InitInv, NextInv, KeptInit, KeptStep, PTL DEF Spec
=============================================================================
