--------------------------- MODULE KeyboardProofs ---------------------------
(***************************************************************************)
(* What holds of the BLE keyboard for every set of keyboards, every number *)
(* of links and every size of the event queue.                             *)
(***************************************************************************)
EXTENDS Keyboard, SequenceTheorems, TLAPS

(* The guard is up as long as an opener runs, and it knows its keyboard.   *)
OneOpener ==
  /\ live <=> opener.pc # "none"
  /\ opener.pc # "none" => opener.k \in Kbds
  /\ hid.pc # "rest" => hid.k \in Kbds

(* A device is incomplete only in the hands of its opener, which may let   *)
(* go of one that is dead.                                                 *)
Owned == \A k \in Kbds : /\ Opening(k) => dev[k] \in {"new", "linked", "gone"}
                         /\ dev[k] \in {"new", "linked"} => Opening(k)
                         /\ dev[k] = "new" => opener.pc # "checked"

(* A link that comes up late finds no device, or one that waits for it.    *)
Waiting(k) == Opening(k) /\ opener.pc # "checked" /\ dev[k] \in {"new", "gone"}
Dialling == dial # None => dev[dial] = "none" \/ Waiting(dial)

(* The CLOSE of a device is on its way or being handled once, as long as   *)
(* the device is in the list: nothing is freed that was opened since.      *)
Closes(q, i) == q[i].type = "CLOSE"
ClosedOnce(q, d) ==
  /\ \A i \in DOMAIN q : Closes(q, i) => d[q[i].k] = "closed"
  /\ \A i, j \in DOMAIN q : Closes(q, i) /\ Closes(q, j) /\ q[i].k = q[j].k => i = j
Freeing == hid.pc = "free" =>
             /\ dev[hid.k] = "closed"
             /\ \A i \in DOMAIN hidq : Closes(hidq, i) => hidq[i].k # hid.k

IInv == /\ TypeOK /\ OneOpener /\ Owned /\ Dialling
        /\ ClosedOnce(hidq, dev) /\ Freeing

USE DEF vars, kbd, hidh, phone, radio, ui, asked, open

(* The types, the Boolean variables apart.                                 *)
Flags == /\ synced \in BOOLEAN /\ live \in BOOLEAN /\ sem \in BOOLEAN /\ due \in BOOLEAN
         /\ have \in BOOLEAN /\ enroll \in BOOLEAN /\ own \in BOOLEAN /\ ended \in BOOLEAN
         /\ twice \in BOOLEAN
Places ==
  /\ st \in {"IDLE", "RECONNECT", "PAIRING", "CONNECTING", "CONNECTED"}
  /\ strikes \in 0 .. 1
  /\ reg \subseteq Kbds /\ found \subseteq Kbds /\ conn \in Kbds \union {None}
  /\ dev \in [Kbds -> {"none", "new", "linked", "gone", "open", "closed"}]
  /\ hidq \in Seq([type : {"OPEN", "CLOSE"}, k : Kbds])
  /\ scan \in {"off", "kbd", "own"}
  /\ dial \in Kbds \union {None} /\ up \in [Kbds -> {"down", "up", "ending"}]
  /\ opener \in [pc : {"none", "start", "dial", "gatt", "await", "checked", "post",
                       "backoff"}, k : Kbds \union {None}]
  /\ claim \in [Callers -> Kbds \union {None}]
  /\ hid \in [pc : {"rest", "save", "free"}, k : Kbds \union {None}]
  /\ shell \in {"boot", "rest", "wipe", "idle", "again", "leave"}
  /\ screen \in {"home", "pairing"}

-----------------------------------------------------------------------------
(* The queue of the HID event task.                                        *)
Events == [type : {"OPEN", "CLOSE"}, k : Kbds]
NoClose(q, k) == \A i \in DOMAIN q : Closes(q, i) => q[i].k # k

LEMMA PostedEvent ==
  ASSUME NEW q \in Seq(Events), NEW d, ClosedOnce(q, d), NEW type \in {"OPEN", "CLOSE"},
         NEW k \in Kbds
  PROVE  LET r == Append(q, [type |-> type, k |-> k])
         IN /\ r \in Seq(Events)
            /\ type = "OPEN" \/ (NoClose(q, k) /\ d[k] = "closed") => ClosedOnce(r, d)
            /\ \A n : NoClose(q, n) /\ (type = "OPEN" \/ k # n) => NoClose(r, n)
<1> DEFINE e == [type |-> type, k |-> k]
           r == Append(q, e)
<1>0. e \in Events /\ e.type = type /\ e.k = k
  BY DEF Events
<1> HIDE DEF e
<1>1. /\ r \in Seq(Events) /\ Len(q) \in Nat
      /\ DOMAIN q = 1 .. Len(q) /\ DOMAIN r = 1 .. Len(q) + 1
      /\ \A i \in 1 .. Len(q) : r[i] = q[i]
      /\ r[Len(q) + 1] = e
  BY <1>0, AppendProperties, LenProperties
<1> HIDE DEF r
<1>2. ASSUME NEW n, NoClose(q, n), type = "OPEN" \/ k # n PROVE NoClose(r, n)
  BY <1>0, <1>1, <1>2 DEF NoClose, Closes
<1>3. ASSUME type = "OPEN" PROVE ClosedOnce(r, d)
  BY <1>0, <1>1, <1>3 DEF ClosedOnce, Closes
<1>4. ASSUME NoClose(q, k), d[k] = "closed" PROVE ClosedOnce(r, d)
  BY <1>0, <1>1, <1>4 DEF ClosedOnce, NoClose, Closes
<1>5. QED
  BY <1>1, <1>2, <1>3, <1>4 DEF r, e

LEMMA TakenEvent ==
  ASSUME NEW q \in Seq(Events), q # <<>>, NEW d, ClosedOnce(q, d)
  PROVE  /\ Tail(q) \in Seq(Events) /\ Head(q) \in Events /\ ClosedOnce(Tail(q), d)
         /\ Head(q).type = "CLOSE" => d[Head(q).k] = "closed" /\ NoClose(Tail(q), Head(q).k)
         /\ \A n : NoClose(q, n) => NoClose(Tail(q), n)
<1> DEFINE r == Tail(q)
<1>1. /\ r \in Seq(Events) /\ Len(q) \in Nat \ {0} /\ Head(q) = q[1] /\ Head(q) \in Events
      /\ DOMAIN q = 1 .. Len(q) /\ DOMAIN r = 1 .. Len(q) - 1
      /\ \A i \in 1 .. Len(q) - 1 : r[i] = q[i + 1] /\ i + 1 \in DOMAIN q /\ i + 1 # 1
  BY HeadTailProperties, LenProperties, EmptySeq
<1> HIDE DEF r
<1>2. ClosedOnce(r, d)
  <2>1. \A i \in DOMAIN r : Closes(r, i) => d[r[i].k] = "closed"
    BY <1>1 DEF ClosedOnce, Closes
  <2>2. ASSUME NEW i \in DOMAIN r, NEW j \in DOMAIN r, Closes(r, i), Closes(r, j), r[i].k = r[j].k
        PROVE  i = j
    <3>1. i + 1 = j + 1
      BY <1>1, <2>2 DEF ClosedOnce, Closes
    <3>2. QED
      BY <1>1, <3>1
  <2>3. QED
    BY <2>1, <2>2 DEF ClosedOnce
<1>3. ASSUME Head(q).type = "CLOSE" PROVE d[Head(q).k] = "closed" /\ NoClose(r, Head(q).k)
  <2>1. d[q[1].k] = "closed"
    BY <1>1, <1>3 DEF ClosedOnce, Closes
  <2>2. ASSUME NEW i \in DOMAIN r, r[i].type = "CLOSE", r[i].k = q[1].k PROVE FALSE
    <3>1. i + 1 \in DOMAIN q /\ 1 \in DOMAIN q /\ q[i + 1] = r[i] /\ i + 1 # 1
      BY <1>1
    <3>2. i + 1 = 1
      BY <1>1, <1>3, <2>2, <3>1 DEF ClosedOnce, Closes
    <3>3. QED
      BY <3>1, <3>2
  <2>3. QED
    BY <1>1, <2>1, <2>2 DEF NoClose, Closes
<1>4. \A n : NoClose(q, n) => NoClose(r, n)
  BY <1>1 DEF NoClose, Closes
<1>5. QED
  BY <1>1, <1>2, <1>3, <1>4 DEF r

LEMMA InitIInv == Init => IInv
<1> SUFFICES ASSUME Init PROVE IInv
  OBVIOUS
<1>1. TypeOK
  <2>1. Flags
    BY DEF Init, Flags
  <2>2. Places
    BY DEF Init, Places, NoOpen, NoWork, None
  <2>3. QED
    BY <2>1, <2>2 DEF TypeOK, Flags, Places
<1>2. OneOpener /\ Owned /\ Dialling
  BY KeyboardAssumption DEF Init, OneOpener, Owned, Dialling, Opening, NoOpen, NoWork, None
<1>3. ClosedOnce(hidq, dev) /\ Freeing
  BY DEF Init, ClosedOnce, Freeing, NoWork
<1>4. QED
  BY <1>1, <1>2, <1>3 DEF IInv

-----------------------------------------------------------------------------
(* Types.                                                                  *)
LEMMA Scans ==
  ASSUME TypeOK
  PROVE  /\ \A s \in {"off", "kbd", "own"} : Started(s) \in {"off", "kbd", "own"}
         /\ StartScan \/ Rescan \/ CancelScan => scan' \in {"off", "kbd", "own"}
         /\ FallBack => scan' \in {"off", "kbd", "own"}
         /\ \A r : Fallback(r) \in {"RECONNECT", "IDLE"}
BY DEF TypeOK, Started, StartScan, Rescan, CancelScan, FallBack, Fallback

LEMMA DiscoveryType ==
  ASSUME TypeOK, Discovery \/ ScanEnds \/ (\E t \in Callers : OpenCommits(t))
  PROVE  TypeOK'
<1>1. ASSUME NEW k \in Kbds, Advert(k) PROVE TypeOK'
  <2>1. Flags'
    BY <1>1 DEF Advert, Ask, CancelScan, TypeOK, Flags
  <2>2. Places'
    BY <1>1 DEF Advert, Ask, CancelScan, TypeOK, Places
  <2>3. QED
    BY <2>1, <2>2 DEF TypeOK, Flags, Places
<1>2. CASE ScanEnds
  <2>1. Flags'
    BY <1>2 DEF ScanEnds, TypeOK, Flags
  <2>2. Places'
    BY <1>2 DEF ScanEnds, TypeOK, Places
  <2>3. QED
    BY <2>1, <2>2 DEF TypeOK, Flags, Places
<1>3. CASE DiscComplete
  <2>1. Flags'
    BY <1>3, Scans DEF DiscComplete, TypeOK, Flags
  <2>2. Places'
    BY <1>3, Scans DEF DiscComplete, TypeOK, Places
  <2>3. QED
    BY <2>1, <2>2 DEF TypeOK, Flags, Places
<1>4. CASE GattAnswers
  <2>1. Flags'
    BY <1>4 DEF GattAnswers, TypeOK, Flags
  <2>2. Places'
    BY <1>4 DEF GattAnswers, TypeOK, Places
  <2>3. QED
    BY <2>1, <2>2 DEF TypeOK, Flags, Places
<1>5. CASE OnSync
  <2>1. Flags'
    BY <1>5 DEF OnSync, TypeOK, Flags
  <2>2. Places'
    BY <1>5 DEF OnSync, TypeOK, Places
  <2>3. QED
    BY <2>1, <2>2 DEF TypeOK, Flags, Places
<1>6. CASE OnReset
  <2>1. Flags'
    BY <1>6 DEF OnReset, TypeOK, Flags
  <2>2. Places'
    BY <1>6 DEF OnReset, TypeOK, Places
  <2>3. QED
    BY <2>1, <2>2 DEF TypeOK, Flags, Places
<1>7. ASSUME NEW t \in Callers, OpenCommits(t) PROVE TypeOK'
  <2>1. Flags'
    BY <1>7 DEF OpenCommits, TypeOK, Flags
  <2>2. Places'
    BY <1>7 DEF OpenCommits, TypeOK, Places
  <2>3. QED
    BY <2>1, <2>2 DEF TypeOK, Flags, Places
<1>8. QED
  BY <1>1, <1>2, <1>3, <1>4, <1>5, <1>6, <1>7 DEF Discovery

LEMMA LinkType ==
  ASSUME TypeOK, ClosedOnce(hidq, dev), LinkEvents
  PROVE  TypeOK'
<1> PICK k \in Kbds : LinkUp(k) \/ LinkFails(k) \/ LinkDown(k)
  BY DEF LinkEvents
<1>1. CASE LinkUp(k)
  <2>1. Flags'
    BY <1>1 DEF LinkUp, TypeOK, Flags
  <2>2. Places'
    BY <1>1 DEF LinkUp, TypeOK, Places
  <2>3. QED
    BY <2>1, <2>2 DEF TypeOK, Flags, Places
<1>2. CASE LinkFails(k)
  <2>1. Flags'
    BY <1>2 DEF LinkFails, TypeOK, Flags
  <2>2. Places'
    BY <1>2 DEF LinkFails, TypeOK, Places
  <2>3. QED
    BY <2>1, <2>2 DEF TypeOK, Flags, Places
<1>3. CASE LinkDown(k)
  <2>1. hidq' \in Seq(Events)
    <3>1. hidq \in Seq(Events)
      BY DEF TypeOK, Events
    <3>2. hidq' \in {hidq, Append(hidq, [type |-> "CLOSE", k |-> k])}
      BY <1>3 DEF LinkDown
    <3>3. QED
      BY <3>1, <3>2, PostedEvent
  <2>2. Flags'
    BY <1>3 DEF LinkDown, TypeOK, Flags
  <2>3. Places'
    BY <1>3, <2>1 DEF LinkDown, TypeOK, Places, Events
  <2>4. QED
    BY <2>2, <2>3 DEF TypeOK, Flags, Places
<1>4. QED
  BY <1>1, <1>2, <1>3

LEMMA OpenerType ==
  ASSUME TypeOK, OneOpener, ClosedOnce(hidq, dev), Opener
  PROVE  TypeOK'
<1> USE DEF OpenerGoes, OpenerAt
<1>0. opener.pc # "none" => opener.k \in Kbds
  BY DEF OneOpener
<1>1. CASE OpenBegin
  <2>1. Flags'
    BY <1>0, <1>1 DEF OpenBegin, TypeOK, Flags
  <2>2. Places'
    BY <1>0, <1>1 DEF OpenBegin, TypeOK, Places
  <2>3. QED
    BY <2>1, <2>2 DEF TypeOK, Flags, Places
<1>2. CASE Dialled
  <2>1. Flags'
    BY <1>0, <1>2 DEF Dialled, Unwind, TypeOK, Flags
  <2>2. Places'
    BY <1>0, <1>2 DEF Dialled, Unwind, TypeOK, Places
  <2>3. QED
    BY <2>1, <2>2 DEF TypeOK, Flags, Places
<1>3. CASE DialTimeout
  <2>1. Flags'
    BY <1>0, <1>3 DEF DialTimeout, Unwind, TypeOK, Flags
  <2>2. Places'
    BY <1>0, <1>3 DEF DialTimeout, Unwind, TypeOK, Places
  <2>3. QED
    BY <2>1, <2>2 DEF TypeOK, Flags, Places
<1>4. CASE GattAsk
  <2>1. Flags'
    BY <1>0, <1>4 DEF GattAsk, Unwind, TypeOK, Flags
  <2>2. Places'
    BY <1>0, <1>4 DEF GattAsk, Unwind, TypeOK, Places
  <2>3. QED
    BY <2>1, <2>2 DEF TypeOK, Flags, Places
<1>5. CASE GattDone
  <2>1. Flags'
    BY <1>0, <1>5 DEF GattDone, Unwind, Terminate, TypeOK, Flags
  <2>2. Places'
    BY <1>0, <1>5 DEF GattDone, Unwind, Terminate, TypeOK, Places
  <2>3. QED
    BY <2>1, <2>2 DEF TypeOK, Flags, Places
<1>6. CASE GattTimeout
  <2>1. Flags'
    BY <1>0, <1>6 DEF GattTimeout, Unwind, Terminate, TypeOK, Flags
  <2>2. Places'
    BY <1>0, <1>6 DEF GattTimeout, Unwind, Terminate, TypeOK, Places
  <2>3. QED
    BY <2>1, <2>2 DEF TypeOK, Flags, Places
<1>7. CASE Announce
  <2>1. hidq' \in Seq(Events)
    BY <1>0, <1>7, PostedEvent DEF Announce, TypeOK, Events
  <2>2. Flags'
    BY <1>7 DEF Announce, TypeOK, Flags
  <2>3. Places'
    BY <1>7, <2>1 DEF Announce, TypeOK, NoOpen, Places, Events
  <2>4. QED
    BY <2>2, <2>3 DEF TypeOK, Flags, Places
<1>8. CASE BackoffEnds
  <2>1. Flags'
    BY <1>8, Scans DEF BackoffEnds, FallBack, TypeOK, NoOpen, Flags
  <2>2. Places'
    BY <1>8, Scans DEF BackoffEnds, FallBack, TypeOK, NoOpen, Places
  <2>3. QED
    BY <2>1, <2>2 DEF TypeOK, Flags, Places
<1>9. CASE GattRelease
  <2>1. Flags'
    BY <1>9 DEF GattRelease, TypeOK, Flags
  <2>2. Places'
    BY <1>0, <1>9 DEF GattRelease, TypeOK, Places
  <2>3. QED
    BY <2>1, <2>2 DEF TypeOK, Flags, Places
<1>10. QED
  BY <1>1, <1>2, <1>3, <1>4, <1>5, <1>6, <1>7, <1>8, <1>9 DEF Opener

LEMMA HidType ==
  ASSUME TypeOK, OneOpener, ClosedOnce(hidq, dev), HidEvents
  PROVE  TypeOK'
<1> USE DEF Event
<1>1. CASE OnOpen
  <2>1. hidq' \in Seq(Events) /\ Head(hidq).k \in Kbds
    BY <1>1, TakenEvent DEF OnOpen, TypeOK, Events
  <2>2. QED
    BY <1>1, <2>1, Scans DEF OnOpen, TypeOK, Events
<1>2. CASE OnOpenSave
  <2>1. Flags'
    BY <1>2 DEF OnOpenSave, OneOpener, TypeOK, NoWork, Flags
  <2>2. Places'
    BY <1>2 DEF OnOpenSave, OneOpener, TypeOK, NoWork, Places
  <2>3. QED
    BY <2>1, <2>2 DEF TypeOK, Flags, Places
<1>3. CASE OnClose
  <2>1. hidq' \in Seq(Events) /\ Head(hidq).k \in Kbds
    BY <1>3, TakenEvent DEF OnClose, TypeOK, Events
  <2>2. QED
    BY <1>3, <2>1, Scans DEF OnClose, TypeOK, Events
<1>4. CASE OnCloseFree
  <2>1. Flags'
    BY <1>4 DEF OnCloseFree, OneOpener, TypeOK, NoWork, Flags
  <2>2. Places'
    BY <1>4 DEF OnCloseFree, OneOpener, TypeOK, NoWork, Places
  <2>3. QED
    BY <2>1, <2>2 DEF TypeOK, Flags, Places
<1>5. QED
  BY <1>1, <1>2, <1>3, <1>4 DEF HidEvents

LEMMA KeeperType ==
  ASSUME TypeOK, Keeper \/ Presence
  PROVE  TypeOK'
<1>1. CASE KeeperVanished
  <2>1. Flags'
    BY <1>1, Scans DEF KeeperVanished, FallBack, TypeOK, Flags
  <2>2. Places'
    BY <1>1, Scans DEF KeeperVanished, FallBack, TypeOK, Places
  <2>3. QED
    BY <2>1, <2>2 DEF TypeOK, Flags, Places
<1>2. CASE KeeperNoScan
  <2>1. Flags'
    BY <1>2, Scans DEF KeeperNoScan, TypeOK, Flags
  <2>2. Places'
    BY <1>2, Scans DEF KeeperNoScan, TypeOK, Places
  <2>3. QED
    BY <2>1, <2>2 DEF TypeOK, Flags, Places
<1>3. CASE KeeperIdle
  <2>1. Flags'
    BY <1>3, Scans DEF KeeperIdle, TypeOK, Flags
  <2>2. Places'
    BY <1>3, Scans DEF KeeperIdle, TypeOK, Places
  <2>3. QED
    BY <2>1, <2>2 DEF TypeOK, Flags, Places
<1>4. CASE PresenceScan
  <2>1. Flags'
    BY <1>4 DEF PresenceScan, TypeOK, Flags
  <2>2. Places'
    BY <1>4 DEF PresenceScan, TypeOK, Places
  <2>3. QED
    BY <2>1, <2>2 DEF TypeOK, Flags, Places
<1>5. CASE PresenceYield
  <2>1. Flags'
    BY <1>5 DEF PresenceYield, CancelScan, TypeOK, Flags
  <2>2. Places'
    BY <1>5 DEF PresenceYield, CancelScan, TypeOK, Places
  <2>3. QED
    BY <2>1, <2>2 DEF TypeOK, Flags, Places
<1>6. QED
  BY <1>1, <1>2, <1>3, <1>4, <1>5 DEF Keeper, Presence

LEMMA ShellType ==
  ASSUME TypeOK, ShellRuns \/ User
  PROVE  TypeOK'
<1>1. CASE PhoneKey \/ PhoneEnrols
  <2>1. Flags'
    BY <1>1 DEF PhoneKey, PhoneEnrols, TypeOK, Flags
  <2>2. Places'
    BY <1>1 DEF PhoneKey, PhoneEnrols, TypeOK, Places
  <2>3. QED
    BY <2>1, <2>2 DEF TypeOK, Flags, Places
<1>2. CASE BootReconnect
  <2>1. Flags'
    BY <1>2, Scans DEF BootReconnect, TypeOK, Flags
  <2>2. Places'
    BY <1>2, Scans DEF BootReconnect, TypeOK, Places
  <2>3. QED
    BY <2>1, <2>2 DEF TypeOK, Flags, Places
<1>3. CASE EnterPairing
  <2>1. Flags'
    BY <1>3, Scans DEF EnterPairing, TypeOK, Flags
  <2>2. Places'
    BY <1>3, Scans DEF EnterPairing, TypeOK, Places
  <2>3. QED
    BY <2>1, <2>2 DEF TypeOK, Flags, Places
<1>4. CASE ExitPairing
  <2>1. Flags'
    BY <1>4, Scans DEF ExitPairing, TypeOK, Flags
  <2>2. Places'
    BY <1>4, Scans DEF ExitPairing, TypeOK, Places
  <2>3. QED
    BY <2>1, <2>2 DEF TypeOK, Flags, Places
<1>5. ASSUME NEW k \in Kbds, Select(k) PROVE TypeOK'
  <2>1. Flags'
    BY <1>5 DEF Select, Ask, CancelScan, TypeOK, Flags
  <2>2. Places'
    BY <1>5 DEF Select, Ask, CancelScan, TypeOK, Places
  <2>3. QED
    BY <2>1, <2>2 DEF TypeOK, Flags, Places
<1>6. CASE ForgetAll
  <2>1. Flags'
    BY <1>6 DEF ForgetAll, CancelScan, Terminate, TypeOK, Flags
  <2>2. Places'
    BY <1>6 DEF ForgetAll, CancelScan, Terminate, TypeOK, Places
  <2>3. QED
    BY <2>1, <2>2 DEF TypeOK, Flags, Places
<1>7. CASE ForgetBonds \/ ForgetIdle
  <2>1. Flags'
    BY <1>7 DEF ForgetBonds, ForgetIdle, TypeOK, Flags
  <2>2. Places'
    BY <1>7 DEF ForgetBonds, ForgetIdle, TypeOK, Places
  <2>3. QED
    BY <2>1, <2>2 DEF TypeOK, Flags, Places
<1>8. QED
  BY <1>1, <1>2, <1>3, <1>4, <1>5, <1>6, <1>7 DEF ShellRuns, User

-----------------------------------------------------------------------------
(* Who owns the device.                                                    *)
Others == OneOpener /\ Owned /\ Dialling /\ ClosedOnce(hidq, dev) /\ Freeing

(* Most steps touch neither the devices nor the queue nor the tasks that   *)
(* work on them.                                                           *)
LEMMA Untouched ==
  ASSUME Others, UNCHANGED <<dev, hidq, dial, live, opener, hid>>
  PROVE  Others'
BY DEF Others, OneOpener, Owned, Opening, Dialling, Waiting, ClosedOnce, Closes, Freeing

(* An open that is committed starts an opener only where there is none.    *)
LEMMA OpenTaken ==
  ASSUME TypeOK, Others, NEW t \in Callers, OpenCommits(t)
  PROVE  Others'
<1>1. UNCHANGED <<dev, hidq, dial, hid>> /\ live' = TRUE
  BY DEF OpenCommits
<1>2. CASE opener.pc = "none"
  <2>1. opener'.pc = "start" /\ opener'.k \in Kbds
    BY <1>2 DEF OpenCommits, TypeOK, None
  <2>2. OneOpener'
    BY <1>1, <2>1 DEF Others, OneOpener
  <2>3. Owned' /\ Dialling'
    BY <1>1, <1>2, <2>1 DEF Others, Owned, Dialling, Waiting, Opening
  <2>4. ClosedOnce(hidq, dev)' /\ Freeing'
    BY <1>1 DEF Others, ClosedOnce, Closes, Freeing
  <2>5. QED
    BY <2>2, <2>3, <2>4 DEF Others
<1>3. CASE opener.pc # "none"
  BY <1>1, <1>3 DEF OpenCommits, Others, OneOpener, Owned, Dialling, Waiting, Opening,
     ClosedOnce, Closes, Freeing
<1>4. QED
  BY <1>2, <1>3

LEMMA EventKeyboards == TypeOK => \A i \in DOMAIN hidq : hidq[i].k \in Kbds
<1> SUFFICES ASSUME TypeOK PROVE \A i \in DOMAIN hidq : hidq[i].k \in Kbds
  OBVIOUS
<1>1. hidq \in Seq(Events) /\ DOMAIN hidq = 1 .. Len(hidq)
  BY LenProperties DEF TypeOK, Events
<1>2. \A i \in DOMAIN hidq : hidq[i] \in Events
  BY <1>1, ElementOfSeq
<1>3. QED
  BY <1>2 DEF Events

(* The devices change, the queue does not, and no device that is closed    *)
(* is among those that do.                                                 *)
LEMMA DevicesChange ==
  ASSUME TypeOK, Others, UNCHANGED <<hidq, hid>>,
         \A k \in Kbds : dev[k] = "closed" => dev'[k] = "closed"
  PROVE  ClosedOnce(hidq, dev)' /\ Freeing'
<1>1. \A i \in DOMAIN hidq : hidq[i].k \in Kbds
  BY EventKeyboards
<1>2. ClosedOnce(hidq, dev)'
  BY <1>1 DEF Others, ClosedOnce, Closes
<1>3. Freeing'
  BY DEF Others, Freeing, Closes, OneOpener
<1>4. QED
  BY <1>2, <1>3

LEMMA LinkOthers ==
  ASSUME TypeOK, Others, LinkEvents
  PROVE  Others'
<1> PICK k \in Kbds : LinkUp(k) \/ LinkFails(k) \/ LinkDown(k)
  BY DEF LinkEvents
<1> USE DEF Others
<1>1. CASE LinkUp(k)
  <2>1. /\ dial = k /\ dial' = None /\ UNCHANGED <<hidq, open, hid>>
        /\ dev' = IF dev[k] = "none" THEN dev ELSE [dev EXCEPT ![k] = "linked"]
        /\ k # None /\ (dev[k] = "none" \/ Waiting(k))
    BY <1>1, KeyboardAssumption DEF LinkUp, Dialling, None
  <2>2. Owned' /\ \A n \in Kbds : dev[n] = "closed" => dev'[n] = "closed"
    BY <2>1 DEF Owned, Waiting, Opening, TypeOK
  <2>3. OneOpener' /\ Dialling'
    BY <2>1 DEF OneOpener, Dialling
  <2>4. ClosedOnce(hidq, dev)' /\ Freeing'
    BY <2>1, <2>2, DevicesChange
  <2>5. QED
    BY <2>2, <2>3, <2>4
<1>2. CASE LinkFails(k)
  <2>1. /\ dial' = None /\ UNCHANGED <<hidq, open, hid>>
        /\ dev' = IF Opening(k) THEN [dev EXCEPT ![k] = "gone"] ELSE dev
    BY <1>2 DEF LinkFails
  <2>2. Owned' /\ \A n \in Kbds : dev[n] = "closed" => dev'[n] = "closed"
    BY <2>1 DEF Owned, Opening, TypeOK
  <2>3. OneOpener' /\ Dialling'
    BY <2>1 DEF OneOpener, Dialling
  <2>4. ClosedOnce(hidq, dev)' /\ Freeing'
    BY <2>1, <2>2, DevicesChange
  <2>5. QED
    BY <2>2, <2>3, <2>4
<1>3. CASE LinkDown(k) /\ UNCHANGED hidq
  <2>1. /\ UNCHANGED <<dial, hidq, open, hid>>
        /\ dev' = IF Opening(k) THEN [dev EXCEPT ![k] = "gone"] ELSE dev
    <3>1. \A e : Append(hidq, e) # hidq
      BY AppendProperties DEF TypeOK
    <3>2. QED
      BY <1>3, <3>1 DEF LinkDown
  <2>2. Owned' /\ \A n \in Kbds : dev[n] = "closed" => dev'[n] = "closed"
    BY <2>1 DEF Owned, Opening, TypeOK
  <2>3. OneOpener'
    BY <2>1 DEF OneOpener
  <2>4. Dialling'
    <3>1. UNCHANGED <<dial, opener>> /\ \A n \in Kbds : Opening(n)' <=> Opening(n)
      BY <2>1 DEF Opening
    <3>2. \A n \in Kbds : dev'[n] = dev[n] \/ (dev'[n] = "gone" /\ Opening(n))
      BY <2>1 DEF TypeOK
    <3>3. dial # None => dial \in Kbds
      BY DEF TypeOK
    <3>4. dial # None /\ dev'[dial] = "gone" /\ Opening(dial) => Waiting(dial)'
      BY <3>1, <3>3 DEF Dialling, Waiting, Owned
    <3>5. QED
      BY <3>1, <3>2, <3>3, <3>4 DEF Dialling, Waiting
  <2>5. ClosedOnce(hidq, dev)' /\ Freeing'
    BY <2>1, <2>2, DevicesChange
  <2>6. QED
    BY <2>2, <2>3, <2>4, <2>5
<1>4. CASE LinkDown(k) /\ hidq' # hidq
  <2>1. /\ UNCHANGED <<dial, open, hid>> /\ ~Opening(k) /\ dev[k] = "open"
        /\ dev' = [dev EXCEPT ![k] = "closed"]
        /\ hidq' = Append(hidq, [type |-> "CLOSE", k |-> k])
    BY <1>4 DEF LinkDown
  <2>2. dev'[k] = "closed" /\ \A n \in Kbds : n # k => dev'[n] = dev[n]
    BY <2>1 DEF TypeOK
  <2>3. Owned' /\ OneOpener'
    BY <2>1, <2>2 DEF Owned, OneOpener, Opening
  <2>4. Dialling'
    BY <2>1, <2>2 DEF Dialling, Waiting, Opening, TypeOK
  <2>5. hidq \in Seq(Events) /\ NoClose(hidq, k) /\ (hid.pc = "free" => hid.k \in Kbds /\ hid.k # k)
    <3>1. hidq \in Seq(Events)
      BY DEF TypeOK, Events
    <3>2. NoClose(hidq, k)
      BY <2>1 DEF ClosedOnce, NoClose
    <3>3. hid.pc = "free" => hid.k \in Kbds /\ hid.k # k
      BY <2>1 DEF Freeing, OneOpener
    <3>4. QED
      BY <3>1, <3>2, <3>3
  <2>6. ClosedOnce(hidq, dev')
    BY <2>2, <2>5, EventKeyboards DEF ClosedOnce, NoClose
  <2>7. /\ ClosedOnce(hidq', dev')
        /\ \A n : NoClose(hidq, n) /\ k # n => NoClose(hidq', n)
    BY <2>1, <2>2, <2>5, <2>6, PostedEvent
  <2>8. Freeing'
    BY <2>1, <2>2, <2>5, <2>7 DEF Freeing, NoClose
  <2>9. QED
    BY <2>3, <2>4, <2>7, <2>8
<1>5. QED
  BY <1>1, <1>2, <1>3, <1>4

(* The opener: what it does to its own device, and to no other.            *)
LEMMA OpenerOthers ==
  ASSUME TypeOK, Others, Opener
  PROVE  Others'
<1> DEFINE k == opener.k
<1> USE DEF Others, OpenerGoes, OpenerAt
<1>1. opener.pc # "none" /\ k \in Kbds /\ k # None
  BY KeyboardAssumption DEF Opener, OpenBegin, Dialled, DialTimeout, GattAsk, GattDone,
     GattRelease, GattTimeout, Announce, BackoffEnds, OneOpener, None
<1>2. ASSUME NEW p \in {"start", "dial", "gatt", "await", "checked", "post", "backoff"},
             NEW v \in {"none", "new", "linked", "gone", "open"},
             OpenerGoes(p), UNCHANGED <<live, hidq, hid>>,
             dev' = [dev EXCEPT ![k] = v], dev[k] # "closed",
             p \in {"dial", "gatt", "await", "checked"} => v \in {"new", "linked", "gone"},
             v \in {"new", "linked"} => p \in {"dial", "gatt", "await", "checked"},
             v = "new" => p # "checked",
             \/ /\ dial' = dial
                /\ dial = k => v = "none" \/ (v \in {"new", "gone"} /\ p \in {"dial", "gatt", "await"})
             \/ dial' = k /\ v = "new" /\ p = "dial"
      PROVE  Others'
  <2>1. OneOpener'
    BY <1>1, <1>2 DEF OneOpener, TypeOK
  <2>2. opener'.pc = p /\ opener'.k = k
    BY <1>2 DEF TypeOK
  <2>3. dev'[k] = v /\ \A n \in Kbds : n # k => dev'[n] = dev[n]
    BY <1>1, <1>2 DEF TypeOK
  <2> HIDE DEF k
  <2>4. Owned'
    BY <1>2, <2>2, <2>3 DEF Owned, Opening, k
  <2>5. Dialling'
    BY <1>1, <1>2, <2>2, <2>3 DEF Dialling, Waiting, Opening, TypeOK, k
  <2>6. ClosedOnce(hidq, dev)' /\ Freeing'
    BY <1>2, <2>3, DevicesChange
  <2>7. QED
    BY <2>1, <2>4, <2>5, <2>6
<1>3. ASSUME OpenerGoes("backoff"), UNCHANGED <<dev, live, hidq, hid, dial>>, opener.pc = "start"
      PROVE  Others'
  <2>1. opener'.pc = "backoff" /\ opener'.k = k
    BY <1>3 DEF TypeOK
  <2>2. OneOpener' /\ Owned' /\ Dialling'
    BY <1>1, <1>3, <2>1 DEF OneOpener, Owned, Opening, Dialling, Waiting
  <2>3. ClosedOnce(hidq, dev)' /\ Freeing'
    BY <1>3, DevicesChange
  <2>4. QED
    BY <2>2, <2>3
<1>4. CASE OpenBegin
  <2>1. CASE UNCHANGED dev /\ OpenerGoes("backoff") /\ UNCHANGED dial
    BY <1>3, <1>4, <2>1 DEF OpenBegin
  <2>2. CASE dev[k] = "none" /\ OpenerGoes("dial") /\ dev' = [dev EXCEPT ![k] = "new"] /\ dial' = k
    BY <1>2, <1>4, <2>2 DEF OpenBegin
  <2>3. QED
    BY <1>4, <2>1, <2>2 DEF OpenBegin
<1>5. opener.pc \in {"dial", "gatt", "await", "checked"} => dev[k] \in {"new", "linked", "gone"}
  BY <1>1 DEF Owned, Opening
<1>6. ASSUME opener.pc \in {"dial", "gatt", "await"}, Unwind(k),
             UNCHANGED <<live, hidq, hid, dial>>
      PROVE  Others'
  <2>1. OpenerGoes("backoff") /\ dev' = [dev EXCEPT ![k] = "none"] /\ dev[k] # "closed"
    BY <1>5, <1>6 DEF Unwind
  <2>2. QED
    BY <1>2, <1>6, <2>1
<1>7. ASSUME NEW p \in {"gatt", "await"}, opener.pc \in {"dial", "gatt", "await"},
             OpenerGoes(p), UNCHANGED <<dev, live, hidq, hid, dial>>
      PROVE  Others'
  <2>1. dev' = [dev EXCEPT ![k] = dev[k]]
    BY <1>1, <1>7 DEF TypeOK
  <2>2. dial = k => dev[k] \in {"none", "new", "gone"}
    BY <1>1 DEF Dialling, Waiting
  <2>3. QED
    BY <1>2, <1>5, <1>7, <2>1, <2>2
<1>8. CASE Dialled \/ DialTimeout \/ GattAsk \/ GattTimeout
  <2>1. \/ Unwind(k)
        \/ UNCHANGED dev /\ (OpenerGoes("gatt") \/ OpenerGoes("await"))
    BY <1>8 DEF Dialled, DialTimeout, GattAsk, GattTimeout
  <2>2. UNCHANGED <<live, hidq, hid, dial>> /\ opener.pc \in {"dial", "gatt", "await"}
    BY <1>8 DEF Dialled, DialTimeout, GattAsk, GattTimeout
  <2>3. QED
    BY <1>6, <1>7, <2>1, <2>2
<1>9. CASE GattDone
  <2>1. CASE Unwind(k)
    BY <1>6, <1>9, <2>1 DEF GattDone
  <2>2. CASE dev[k] = "linked" /\ OpenerGoes("checked") /\ UNCHANGED dev
    <3>1. dial # k
      BY <1>1, <2>2 DEF Dialling, Waiting
    <3>2. dev' = [dev EXCEPT ![k] = "linked"]
      BY <1>1, <2>2 DEF TypeOK
    <3>3. QED
      BY <1>2, <1>9, <2>2, <3>1, <3>2 DEF GattDone
  <2>3. QED
    BY <1>9, <2>1, <2>2 DEF GattDone
<1>10. CASE GattRelease
  <2>1. opener.pc = "checked" /\ OpenerGoes("post") /\ UNCHANGED <<live, hidq, hid, dial>>
    BY <1>10 DEF GattRelease
  <2>2. dial # k /\ dev[k] \in {"new", "linked", "gone"} /\ dev[k] # "new"
    BY <1>1, <1>5, <2>1 DEF Owned, Dialling, Waiting
  <2>3. \/ dev' = [dev EXCEPT ![k] = "open"]
        \/ dev' = [dev EXCEPT ![k] = "gone"]
    BY <1>1, <1>10, <2>2 DEF GattRelease, TypeOK
  <2>4. QED
    BY <1>2, <2>1, <2>2, <2>3
<1>11. CASE Announce
  <2>1. /\ opener.pc = "post" /\ opener'.pc = "none" /\ opener'.k = None /\ live' = FALSE
        /\ UNCHANGED <<dev, dial, hid>>
        /\ hidq' = Append(hidq, [type |-> "OPEN", k |-> k])
    BY <1>11 DEF Announce, NoOpen
  <2>2. OneOpener' /\ Owned' /\ Dialling'
    BY <2>1 DEF OneOpener, Owned, Opening, Dialling, Waiting
  <2> HIDE DEF k
  <2>3. /\ ClosedOnce(hidq', dev)
        /\ \A n : NoClose(hidq, n) => NoClose(hidq', n)
    <3>1. hidq \in Seq(Events)
      BY DEF TypeOK, Events
    <3>2. QED
      BY <1>1, <2>1, <3>1, PostedEvent
  <2>4. Freeing'
    BY <2>1, <2>3 DEF Freeing, NoClose
  <2>5. QED
    BY <2>1, <2>2, <2>3, <2>4
<1>12. CASE BackoffEnds
  <2>1. /\ opener.pc = "backoff" /\ opener'.pc = "none" /\ opener'.k = None /\ live' = FALSE
        /\ UNCHANGED <<dev, dial, hid, hidq>>
    BY <1>12 DEF BackoffEnds, NoOpen
  <2>2. OneOpener' /\ Owned' /\ Dialling'
    BY <2>1 DEF OneOpener, Owned, Opening, Dialling, Waiting
  <2>3. ClosedOnce(hidq, dev)' /\ Freeing'
    BY <2>1, DevicesChange
  <2>4. QED
    BY <2>2, <2>3
<1>13. QED
  BY <1>4, <1>8, <1>9, <1>10, <1>11, <1>12 DEF Opener

(* The HID event task: it frees what was closed, and nothing else.         *)
LEMMA HidOthers ==
  ASSUME TypeOK, Others, HidEvents
  PROVE  Others'
<1> USE DEF Others, Event
<1>1. hidq \in Seq(Events)
  BY DEF TypeOK, Events
<1>2. CASE OnOpen \/ OnClose
  <2>1. /\ hidq # <<>> /\ hidq' = Tail(hidq) /\ UNCHANGED <<dev, dial, open>>
        /\ hid.pc = "rest"
    BY <1>2 DEF OnOpen, OnClose
  <2>2. /\ Head(hidq).k \in Kbds /\ ClosedOnce(hidq', dev)
        /\ Head(hidq).type = "CLOSE" => dev[Head(hidq).k] = "closed" /\ NoClose(hidq', Head(hidq).k)
    BY <1>1, <2>1, TakenEvent DEF Events
  <2>3. \/ hid'.pc \in {"rest", "save"} /\ (hid'.pc # "rest" => hid'.k = Head(hidq).k)
        \/ hid'.pc = "free" /\ hid'.k = Head(hidq).k /\ Head(hidq).type = "CLOSE"
    BY <1>2, <2>1 DEF OnOpen, OnClose
  <2>4. OneOpener' /\ Owned' /\ Dialling'
    BY <2>1, <2>2, <2>3 DEF OneOpener, Owned, Opening, Dialling, Waiting
  <2>5. Freeing'
    BY <2>1, <2>2, <2>3 DEF Freeing, NoClose
  <2>6. QED
    BY <2>1, <2>2, <2>4, <2>5
<1>3. CASE OnOpenSave
  <2>1. UNCHANGED <<dev, hidq, dial, open>> /\ hid'.pc = "rest"
    BY <1>3 DEF OnOpenSave, NoWork
  <2>2. QED
    BY <2>1 DEF OneOpener, Owned, Opening, Dialling, Waiting, ClosedOnce, Closes, Freeing
<1>4. CASE OnCloseFree
  <2>1. /\ UNCHANGED <<hidq, dial, open>> /\ hid'.pc = "rest" /\ hid.k \in Kbds
        /\ dev[hid.k] = "closed" /\ NoClose(hidq, hid.k)
        /\ dev' = [dev EXCEPT ![hid.k] = "none"]
    BY <1>4 DEF OnCloseFree, NoWork, OneOpener, Freeing, NoClose
  <2>2. dev'[hid.k] = "none" /\ \A n \in Kbds : n # hid.k => dev'[n] = dev[n]
    BY <2>1 DEF TypeOK
  <2>3. OneOpener' /\ Owned' /\ Freeing'
    BY <2>1, <2>2 DEF OneOpener, Owned, Opening, Freeing
  <2>4. Dialling'
    BY <2>1, <2>2 DEF Dialling, Waiting, Opening, TypeOK
  <2>5. ClosedOnce(hidq, dev)'
    <3>1. \A i \in DOMAIN hidq : hidq[i].k \in Kbds
      BY EventKeyboards
    <3>2. QED
      BY <2>1, <2>2, <3>1 DEF ClosedOnce, NoClose, Closes
  <2>6. QED
    BY <2>3, <2>4, <2>5
<1>5. QED
  BY <1>2, <1>3, <1>4 DEF HidEvents

LEMMA RestOthers ==
  ASSUME TypeOK, Others,
         \/ Discovery \/ ScanEnds \/ (\E t \in Callers : OpenCommits(t))
         \/ Keeper \/ Presence \/ ShellRuns \/ User
  PROVE  Others'
<1>1. ASSUME NEW k \in Kbds, Advert(k) \/ Select(k) PROVE Others'
  BY <1>1, Untouched DEF Advert, Select
<1>2. CASE DiscComplete \/ GattAnswers \/ ScanEnds \/ OnSync \/ OnReset
  BY <1>2, Untouched DEF DiscComplete, GattAnswers, ScanEnds, OnSync, OnReset
<1>3. CASE Keeper \/ Presence
  BY <1>3, Untouched DEF Keeper, KeeperVanished, KeeperNoScan, KeeperIdle, Presence,
     PresenceScan, PresenceYield
<1>4. CASE PhoneKey \/ PhoneEnrols \/ BootReconnect \/ EnterPairing \/ ExitPairing
  BY <1>4, Untouched DEF PhoneKey, PhoneEnrols, BootReconnect, EnterPairing, ExitPairing
<1>5. CASE ForgetAll \/ ForgetBonds \/ ForgetIdle
  BY <1>5, Untouched DEF ForgetAll, ForgetBonds, ForgetIdle
<1>6. QED
  BY <1>1, <1>2, <1>3, <1>4, <1>5, OpenTaken DEF Discovery, ShellRuns, User

-----------------------------------------------------------------------------
LEMMA NextIInv == IInv /\ [Next]_vars => IInv'
<1>1. IInv <=> TypeOK /\ Others
  BY DEF IInv, Others
<1>2. IInv' <=> TypeOK' /\ Others'
  BY DEF IInv, Others
<1>3. ASSUME IInv, UNCHANGED vars PROVE IInv'
  <2>1. TypeOK'
    BY <1>3 DEF IInv, TypeOK
  <2>2. Others'
    BY <1>1, <1>3, Untouched
  <2>3. QED
    BY <1>2, <2>1, <2>2
<1>4. ASSUME IInv, Runs PROVE TypeOK'
  BY <1>4, DiscoveryType, LinkType, OpenerType, HidType, KeeperType, ShellType
     DEF Runs, HostTask, IInv
<1>5. ASSUME IInv, Runs PROVE Others'
  BY <1>1, <1>5, LinkOthers, OpenerOthers, HidOthers, RestOthers DEF Runs, HostTask
<1>6. QED
  BY <1>2, <1>3, <1>4, <1>5 DEF Next

(* The invariant holds in every state the keyboard reaches.                *)
THEOREM Invariant == Spec => []IInv
<1>1. QED
  BY InitIInv, NextIInv, PTL DEF Spec

(* Every variable keeps to its type, in every task's order.                *)
THEOREM TypeCorrect == Spec => []TypeOK
<1>1. IInv => TypeOK
  BY DEF IInv
<1>2. QED
  BY <1>1, Invariant, PTL

(* No disconnect, late callback or CLOSE of an earlier device frees the    *)
(* device the opener is still discovering services on                      *)
(* (nimble_hidh.c:808-821, 1138-1150).                                     *)
THEOREM OpenerKeepsItsDevice == Spec => []OpenerOwnsDevice
<1>1. IInv => OpenerOwnsDevice
  BY DEF IInv, Owned, OpenerOwnsDevice
<1>2. QED
  BY <1>1, Invariant, PTL
=============================================================================
