----------------------------- MODULE WifiProofs -----------------------------
(***************************************************************************)
(* What holds of the WiFi manager for every set of networks, every size of *)
(* the table and every number of events waiting.                           *)
(***************************************************************************)
EXTENDS Wifi, SequenceTheorems, TLAPS

(* The table: rows below the count, and those up to the index in use or    *)
(* about to be stored, have been written. An index may lie behind the      *)
(* count, in what is left of an older list.                                *)
Written(r) == \A s \in Rows : s <= r => rows[s] # None
Filled ==
  /\ \A r \in Rows : r < count => rows[r] # None
  /\ count > 0 => Written(idx)
  /\ at["loop"] = "store" => Written(next)
  /\ count = 0 => idx = 0

(* Who works on the table: nobody gets past the test of an empty list, and *)
(* a manager that never had one sees neither a link nor an event.          *)
Listed ==
  /\ at["shell"] = "reset" => count > 0 /\ screen = "home"
  /\ \A t \in Tasks : at[t] \in {"try", "join"} => count > 0
  /\ at["loop"] \in {"drop", "next", "store"} => count > 0
  /\ count = 0 /\ ~parked => link = "down" /\ queue = <<>>

(* The setup screens are reached through a parked manager.                 *)
Parking ==
  /\ screen # "home" => parked
  /\ at["shell"] = "leave" => screen # "home"

Unsettled(q) == \A i \in DOMAIN q : q[i] \notin {"cred_ok", "cred_fail"}

(* A provisioning session: a network is known from the phone's message on, *)
(* and no outcome is on its way before it.                                 *)
Session ==
  /\ prov.st \in {"idle", "active"} <=> prov.ssid = None
  /\ prov.st # "idle" => screen = "wifiprov" /\ at["shell"] # "leave"
  /\ prov.st = "active" \/ at["shell"] = "leave" => Unsettled(queue)

(* An address that is announced is still there, or its loss is announced   *)
(* later.                                                                  *)
Follows(q, l) ==
  \A i \in DOMAIN q : q[i] = "ip" => \/ l = "up"
                                    \/ \E j \in DOMAIN q : j > i /\ q[j] = "gone"
Announced == Follows(queue, link)

IInv == /\ TypeOK /\ Filled /\ Listed /\ Parking /\ Session /\ Announced
        /\ ConnectedIsUp /\ NeverBlank

-----------------------------------------------------------------------------
(* The queue.                                                              *)
Events == {"start", "gone", "ip", "cred_ok", "cred_fail"}
Settled == {"cred_ok", "cred_fail"}

LEMMA PostedQueue ==
  ASSUME NEW q \in Seq(Events), NEW e \in Events
  PROVE  /\ Append(q, e) \in Seq(Events)
         /\ "gone" \in Elems(q) => "gone" \in Elems(Append(q, e))
         /\ e = "gone" => "gone" \in Elems(Append(q, e))
         /\ Unsettled(q) /\ e \notin Settled => Unsettled(Append(q, e))
         /\ \A l : Follows(q, l) /\ e # "ip" => Follows(Append(q, e), l)
         /\ \A l : e = "gone" => Follows(Append(q, e), l)
         /\ Follows(Append(q, e), "up")
<1> DEFINE r == Append(q, e)
<1>1. /\ r \in Seq(Events) /\ Len(q) \in Nat
      /\ DOMAIN q = 1 .. Len(q) /\ DOMAIN r = 1 .. Len(q) + 1
      /\ \A i \in 1 .. Len(q) : r[i] = q[i]
      /\ r[Len(q) + 1] = e
  BY AppendProperties, LenProperties
<1> HIDE DEF r
<1>2. "gone" \in Elems(q) => "gone" \in Elems(r)
  BY <1>1 DEF Elems
<1>3. e = "gone" => "gone" \in Elems(r)
  BY <1>1 DEF Elems
<1>4. Unsettled(q) /\ e \notin Settled => Unsettled(r)
  BY <1>1 DEF Unsettled, Settled
<1>5. ASSUME NEW l, Follows(q, l), e # "ip" PROVE Follows(r, l)
  BY <1>1, <1>5 DEF Follows
<1>6. ASSUME NEW l, e = "gone" PROVE Follows(r, l)
  BY <1>1, <1>6 DEF Follows
<1>7. Follows(r, "up")
  BY DEF Follows
<1>8. QED
  BY <1>1, <1>2, <1>3, <1>4, <1>5, <1>6, <1>7 DEF r

LEMMA TakenQueue ==
  ASSUME NEW q \in Seq(Events), q # <<>>
  PROVE  /\ Tail(q) \in Seq(Events) /\ Head(q) \in Events
         /\ "gone" \in Elems(q) => Head(q) = "gone" \/ "gone" \in Elems(Tail(q))
         /\ Unsettled(q) => Unsettled(Tail(q)) /\ Head(q) \notin Settled
         /\ \A l : Follows(q, l) => Follows(Tail(q), l)
         /\ \A l : Follows(q, l) /\ Head(q) = "ip" => l = "up" \/ "gone" \in Elems(Tail(q))
<1> DEFINE r == Tail(q)
<1>1. /\ r \in Seq(Events) /\ Len(q) \in Nat \ {0} /\ Head(q) = q[1] /\ Head(q) \in Events
      /\ DOMAIN q = 1 .. Len(q) /\ DOMAIN r = 1 .. Len(q) - 1
      /\ \A i \in 1 .. Len(q) - 1 : r[i] = q[i + 1]
  BY HeadTailProperties, LenProperties, EmptySeq
<1> HIDE DEF r
<1>a. \A i \in 2 .. Len(q) : i - 1 \in DOMAIN r /\ r[i - 1] = q[i]
  BY <1>1
<1>2. "gone" \in Elems(q) => Head(q) = "gone" \/ "gone" \in Elems(r)
  BY <1>1, <1>a DEF Elems
<1>3. Unsettled(q) => Unsettled(r) /\ Head(q) \notin Settled
  BY <1>1 DEF Unsettled, Settled
<1>4. ASSUME NEW l, Follows(q, l) PROVE Follows(r, l)
  <2> SUFFICES ASSUME NEW i \in DOMAIN r, r[i] = "ip", l # "up"
               PROVE  \E j \in DOMAIN r : j > i /\ r[j] = "gone"
    BY DEF Follows
  <2>1. i + 1 \in DOMAIN q /\ q[i + 1] = "ip"
    BY <1>1
  <2>2. PICK j \in DOMAIN q : j > i + 1 /\ q[j] = "gone"
    BY <1>4, <2>1 DEF Follows
  <2>3. j - 1 \in DOMAIN r /\ j - 1 > i /\ r[j - 1] = "gone"
    BY <1>1, <1>a, <2>2
  <2>4. QED
    BY <2>3
<1>5. ASSUME NEW l, Follows(q, l), Head(q) = "ip", l # "up" PROVE "gone" \in Elems(r)
  <2>1. PICK j \in DOMAIN q : j > 1 /\ q[j] = "gone"
    BY <1>1, <1>5 DEF Follows
  <2>2. QED
    BY <1>1, <1>a, <2>1 DEF Elems
<1>6. QED
  BY <1>1, <1>2, <1>3, <1>4, <1>5 DEF r

LEMMA EmptyQueue == <<>> \in Seq(Events) /\ Unsettled(<<>>) /\ \A l : Follows(<<>>, l)
BY DEF Unsettled, Follows

(* The event of a link that goes, when there was one, and of a start.      *)
LEMMA ClosedQueue ==
  ASSUME NEW q \in Seq(Events), NEW b \in BOOLEAN, NEW c \in BOOLEAN,
         NEW l, Follows(q, l), ~b => l = "down"
  PROVE  LET r == (q \o (IF b THEN <<"gone">> ELSE <<>>)) \o (IF c THEN <<"start">> ELSE <<>>)
         IN /\ r \in Seq(Events) /\ Follows(r, "down")
            /\ "gone" \in Elems(q) \/ b => "gone" \in Elems(r)
            /\ Unsettled(q) => Unsettled(r)
<1> DEFINE s == q \o (IF b THEN <<"gone">> ELSE <<>>)
           r == s \o (IF c THEN <<"start">> ELSE <<>>)
<1>1. s = IF b THEN Append(q, "gone") ELSE q
  <2>1. q \o <<>> = q
    BY ConcatEmptySeq
  <2>2. Append(q, "gone") = q \o <<"gone">>
    BY AppendIsConcat DEF Events
  <2>3. CASE b
    BY <2>2, <2>3
  <2>4. CASE ~b
    BY <2>1, <2>4
  <2>5. QED
    BY <2>3, <2>4
<1> HIDE DEF s
<1>2. /\ s \in Seq(Events) /\ Follows(s, "down")
      /\ "gone" \in Elems(q) \/ b => "gone" \in Elems(s)
      /\ Unsettled(q) => Unsettled(s)
  <2>1. "gone" \in Events /\ "gone" \notin Settled
    BY DEF Events, Settled
  <2>2. CASE b
    BY <1>1, <2>1, <2>2, PostedQueue
  <2>3. CASE ~b
    BY <1>1, <2>3
  <2>4. QED
    BY <2>2, <2>3
<1>3. r = IF c THEN Append(s, "start") ELSE s
  <2>1. s \o <<>> = s
    BY <1>2, ConcatEmptySeq
  <2>2. Append(s, "start") = s \o <<"start">>
    BY <1>2, AppendIsConcat DEF Events
  <2>3. CASE c
    BY <2>2, <2>3
  <2>4. CASE ~c
    BY <2>1, <2>4
  <2>5. QED
    BY <2>3, <2>4
<1> HIDE DEF r
<1>4. /\ r \in Seq(Events) /\ Follows(r, "down")
      /\ "gone" \in Elems(s) => "gone" \in Elems(r)
      /\ Unsettled(s) => Unsettled(r)
  <2>1. "start" \in Events /\ "start" \notin Settled /\ "start" # "ip"
    BY DEF Events, Settled
  <2>2. CASE c
    BY <1>2, <1>3, <2>1, <2>2, PostedQueue
  <2>3. CASE ~c
    BY <1>2, <1>3, <2>3
  <2>4. QED
    BY <2>2, <2>3
<1>5. QED
  BY <1>2, <1>4 DEF s, r

-----------------------------------------------------------------------------
(* Lists and rows.                                                         *)
LEMMA Indices ==
  /\ 0 \in Rows /\ Rows \subseteq Nat
  /\ \A c \in 1 .. Max, i \in Nat : i % c \in 0 .. c - 1 /\ i % c \in Rows
BY WifiAssumption DEF Rows

LEMMA ListFacts ==
  ASSUME NEW s \in Lists
  PROVE  /\ Len(s) \in 0 .. Max /\ DOMAIN s = 1 .. Len(s)
         /\ s \in [1 .. Len(s) -> Nets] /\ (s = <<>> <=> Len(s) = 0)
BY DEF Lists

LEMMA NewList ==
  ASSUME NEW n \in 0 .. Max, NEW s \in [1 .. n -> Nets],
         \A i, j \in 1 .. n : i < j => s[i] # s[j]
  PROVE  s \in Lists
<1>1. \A i, j \in DOMAIN s : i # j => s[i] # s[j]
  OBVIOUS
<1>2. QED
  BY <1>1 DEF Lists

LEMMA SavedList ==
  ASSUME TypeOK, NEW net \in Nets
  PROVE  SaveFirst(net) \in Lists
<1> DEFINE known == net \in Elems(saved)
           old == IF known THEN CHOOSE i \in DOMAIN saved : saved[i] = net ELSE Len(saved) + 1
           size == IF known THEN Len(saved)
                   ELSE IF Len(saved) < Max THEN Len(saved) + 1 ELSE Max
           s == [i \in 1 .. size |-> IF i = 1 THEN net ELSE IF i <= old THEN saved[i - 1] ELSE saved[i]]
<1>1. /\ Len(saved) \in 0 .. Max /\ DOMAIN saved = 1 .. Len(saved)
      /\ \A i \in 1 .. Len(saved) : saved[i] \in Nets
      /\ \A i, j \in 1 .. Len(saved) : i # j => saved[i] # saved[j]
  BY ListFacts DEF TypeOK, Lists
<1>2. CASE known
  <2>1. old \in 1 .. Len(saved) /\ saved[old] = net /\ size = Len(saved)
    BY <1>1, <1>2 DEF Elems
  <2> HIDE DEF known, old, size
  <2>2. s \in [1 .. size -> Nets] /\ size \in 0 .. Max
    BY <1>1, <2>1
  <2>3. ASSUME NEW i \in 1 .. size, NEW j \in 1 .. size, i < j PROVE s[i] # s[j]
    BY <1>1, <2>1, <2>3
  <2> HIDE DEF s
  <2>4. s \in Lists
    BY <2>2, <2>3, NewList
  <2>5. QED
    BY <2>4 DEF SaveFirst, s, size, old, known
<1>3. CASE ~known
  <2>1. /\ \A i \in 1 .. Len(saved) : saved[i] # net
        /\ old = Len(saved) + 1 /\ size \in 1 .. old /\ size \in 0 .. Max
    BY <1>1, <1>3, WifiAssumption DEF Elems
  <2> HIDE DEF known, old, size
  <2>2. s \in [1 .. size -> Nets]
    BY <1>1, <2>1
  <2>3. ASSUME NEW i \in 1 .. size, NEW j \in 1 .. size, i < j PROVE s[i] # s[j]
    BY <1>1, <2>1, <2>3
  <2> HIDE DEF s
  <2>4. s \in Lists
    BY <2>1, <2>2, <2>3, NewList
  <2>5. QED
    BY <2>4 DEF SaveFirst, s, size, old, known
<1>4. QED
  BY <1>2, <1>3

-----------------------------------------------------------------------------
LEMMA InitIInv == Init => IInv
<1> SUFFICES ASSUME Init PROVE IInv
  OBVIOUS
<1>1. TypeOK
  <2>1. /\ rows \in [Rows -> Nets \union {Marked, None}] /\ idx \in Rows /\ next \in Rows
        /\ count \in 0 .. Max /\ fails \in 0 .. Max
    BY Indices, WifiAssumption DEF Init
  <2>2. queue \in Seq(Events)
    BY EmptyQueue DEF Init
  <2>3. QED
    BY <2>1, <2>2 DEF Init, TypeOK, NoProv, None, Events, Places
<1>2. Filled /\ Listed /\ Parking /\ NeverBlank
  <2>1. /\ \A t \in Tasks : at[t] = "rest"
        /\ at["shell"] = "rest" /\ at["loop"] = "rest"
    BY DEF Init, Tasks
  <2>2. \A r \in Rows : ~(r < 0)
    BY WifiAssumption DEF Rows
  <2>3. Filled
    BY <2>1, <2>2 DEF Init, Filled
  <2>4. Listed
    BY <2>1 DEF Init, Listed
  <2>5. Parking
    BY <2>1 DEF Init, Parking
  <2>6. NeverBlank
    BY <2>1 DEF NeverBlank
  <2>. QED
    BY <2>3, <2>4, <2>5, <2>6
<1>3. Session /\ Announced /\ ConnectedIsUp
  BY EmptyQueue DEF Init, Session, Announced, ConnectedIsUp, NoProv
<1>4. QED
  BY <1>1, <1>2, <1>3 DEF IInv

USE DEF vars, table, radio, tasks, deck, Places

(* The radio.                                                              *)
LEMMA RadioInv ==
  ASSUME IInv, JoinOk \/ JoinFail \/ LinkDrops
  PROVE  IInv'
<1> USE DEF IInv, AttemptEnds, Post
<1>1. queue \in Seq(Events)
  BY DEF TypeOK, Events
<1>2. \/ queue' = Append(queue, "ip") /\ link' = "up"
      \/ queue' = Append(queue, "gone") /\ link' = "down"
  BY DEF JoinOk, JoinFail, LinkDrops
<1>3. /\ UNCHANGED <<state, parked, started, table, timer, running, config, tasks, deck>>
      /\ link # "down"
  <2>1. CASE JoinOk
    BY <2>1 DEF JoinOk
  <2>2. CASE JoinFail
    BY <2>2 DEF JoinFail
  <2>3. CASE LinkDrops
    BY <2>3 DEF LinkDrops
  <2>4. QED
    BY <2>1, <2>2, <2>3
<1>4. queue' \in Seq(Events) /\ Announced' /\ ConnectedIsUp' /\ (Unsettled(queue) => Unsettled(queue'))
  <2>1. CASE queue' = Append(queue, "ip") /\ link' = "up"
    BY <1>1, <1>3, <2>1, PostedQueue DEF Announced, ConnectedIsUp, Events, Settled
  <2>2. CASE queue' = Append(queue, "gone") /\ link' = "down"
    BY <1>1, <1>3, <2>2, PostedQueue DEF Announced, ConnectedIsUp, Events, Settled
  <2>3. QED
    BY <1>2, <2>1, <2>2
<1>5. TypeOK'
  BY <1>2, <1>3, <1>4 DEF TypeOK, Events
<1>6. Filled' /\ Listed' /\ Parking' /\ Session' /\ NeverBlank'
  BY <1>3, <1>4 DEF Filled, Written, Listed, Parking, Session, NeverBlank
<1>7. QED
  BY <1>4, <1>5, <1>6

(* Trying the row in use: what is read has been written.                   *)
LEMMA TryingInv ==
  ASSUME IInv, NEW t \in Tasks, Trying(t)
  PROVE  IInv'
<1> USE DEF IInv, Goto
<1>1. CASE Choose(t)
  <2>1. at[t] = "try" /\ count > 0 /\ rows[idx] # None
    BY <1>1, Indices DEF Choose, Listed, Filled, Written, TypeOK
  <2>2. /\ UNCHANGED <<state, parked, started, table, timer, running, link, queue, deck, adopt, next>>
        /\ \/ at' = [at EXCEPT ![t] = "rest"] /\ config' = config
           \/ at' = [at EXCEPT ![t] = "join"] /\ config' = rows[idx]
    BY <1>1 DEF Choose
  <2>3. TypeOK'
    BY <2>2 DEF TypeOK
  <2>4. Filled' /\ Listed' /\ Parking' /\ Session' /\ NeverBlank'
    BY <2>1, <2>2 DEF Filled, Written, Listed, Parking, Session, NeverBlank, TypeOK, Tasks
  <2>5. Announced' /\ ConnectedIsUp'
    BY <2>1, <2>2 DEF Announced, ConnectedIsUp, TypeOK, Tasks
  <2>6. QED
    BY <2>3, <2>4, <2>5
<1>2. CASE Connect(t)
  <2>1. count > 0
    BY <1>2 DEF Connect, Listed
  <2>2. /\ UNCHANGED <<state, parked, started, table, timer, running, config, queue, deck, adopt, next>>
        /\ at[t] = "join" /\ at' = [at EXCEPT ![t] = "rest"]
        /\ link' \in {link, "joining"} /\ (link = "up" => link' = "up")
    BY <1>2 DEF Connect
  <2>3. TypeOK'
    BY <2>2 DEF TypeOK
  <2>4. Filled' /\ Listed' /\ Parking' /\ Session' /\ NeverBlank'
    BY <2>1, <2>2 DEF Filled, Written, Listed, Parking, Session, NeverBlank, TypeOK, Tasks
  <2>5. Announced' /\ ConnectedIsUp'
    BY <2>2 DEF Announced, Follows, ConnectedIsUp, TypeOK, Tasks
  <2>6. QED
    BY <2>3, <2>4, <2>5
<1>3. QED
  BY <1>1, <1>2 DEF Trying

(* Taking an event, perhaps passing its outcome on.                        *)
LEMMA Taken ==
  ASSUME IInv, NEW e \in Events, Handle(e),
         \/ queue' = Tail(queue)
         \/ \E f \in Settled : Echo(f)
  PROVE  /\ queue' \in Seq(Events) /\ Follows(queue', link)
         /\ prov.st # "received" /\ Unsettled(queue) => Unsettled(queue') /\ e \notin Settled
         /\ "gone" \in Elems(queue) => e = "gone" \/ "gone" \in Elems(queue')
         /\ e = "ip" => link = "up" \/ "gone" \in Elems(queue')
         /\ count > 0 \/ parked
<1>1. queue \in Seq(Events) /\ queue # <<>> /\ Head(queue) = e /\ Follows(queue, link)
  BY DEF IInv, TypeOK, Events, Handle, Announced
<1> DEFINE r == Tail(queue)
<1>2. /\ r \in Seq(Events) /\ Follows(r, link)
      /\ Unsettled(queue) => Unsettled(r) /\ e \notin Settled
      /\ "gone" \in Elems(queue) => e = "gone" \/ "gone" \in Elems(r)
      /\ e = "ip" => link = "up" \/ "gone" \in Elems(r)
  BY <1>1, TakenQueue
<1>3. count > 0 \/ parked
  BY <1>1 DEF IInv, Listed, TypeOK
<1> HIDE DEF r
<1>4. CASE queue' = r
  BY <1>2, <1>3, <1>4
<1>5. ASSUME NEW f \in Settled, queue' = Append(r, f), prov.st = "received"
      PROVE  /\ queue' \in Seq(Events) /\ Follows(queue', link)
             /\ "gone" \in Elems(r) => "gone" \in Elems(queue')
  <2>1. f \in Events /\ f # "ip"
    BY DEF Settled, Events
  <2>2. QED
    BY <1>2, <1>5, <2>1, PostedQueue
<1>6. queue' = r \/ (prov.st = "received" /\ \E f \in Settled : queue' = Append(r, f))
  BY DEF Echo, r
<1>7. QED
  BY <1>2, <1>3, <1>4, <1>5, <1>6

LEMMA Moved ==
  ASSUME TypeOK, NEW t \in Tasks,
         NEW p \in Places, Goto(t, p)
  PROVE  /\ at' \in [Tasks -> Places]
         /\ at'[t] = p /\ \A u \in Tasks \ {t} : at'[u] = at[u]
         /\ adopt' = adopt /\ next' = next
BY DEF Goto, TypeOK

LEMMA StaStartInv ==
  ASSUME IInv, StaStart
  PROVE  IInv'
<1> USE DEF IInv, Handle, Resting
<1>1. /\ queue' \in Seq(Events) /\ Follows(queue', link)
      /\ prov.st # "received" /\ Unsettled(queue) => Unsettled(queue')
      /\ "gone" \in Elems(queue) => "gone" \in Elems(queue')
  BY Taken DEF StaStart, Events
<1>2. at["loop"] = "rest" /\ UNCHANGED <<state, parked, started, table, timer, radio, deck>>
  BY DEF StaStart
<1>3. PICK p \in {"rest", "try"} : Goto("loop", p) /\ (p = "try" => ~parked /\ count > 0)
  BY DEF StaStart
<1>4. /\ at' \in [Tasks -> Places]
      /\ at'["loop"] = p /\ \A u \in Tasks \ {"loop"} : at'[u] = at[u]
      /\ adopt' = adopt /\ next' = next
  BY <1>3, Moved DEF Tasks
<1>5. queue # <<>>
  BY DEF StaStart
<1>6. TypeOK' /\ Filled' /\ Parking'
  BY <1>1, <1>2, <1>3, <1>4 DEF TypeOK, Filled, Written, Parking, Tasks, Events
<1>7. Listed' /\ NeverBlank'
  <2>1. count > 0 => rows[idx] # None
    BY Indices DEF Filled, Written, TypeOK
  <2>2. Listed'
    BY <1>2, <1>3, <1>4, <1>5 DEF Listed, TypeOK, Tasks
  <2>3. NeverBlank'
    BY <1>2, <1>3, <1>4, <2>1 DEF NeverBlank, Tasks
  <2>4. QED
    BY <2>2, <2>3
<1>8. Session' /\ Announced' /\ ConnectedIsUp'
  BY <1>1, <1>2, <1>4 DEF Session, Announced, ConnectedIsUp, Tasks
<1>9. QED
  BY <1>6, <1>7, <1>8

(* A link that is gone: the loop goes on to the next network, unless it    *)
(* was meant.                                                              *)
LEMMA StaDisconnectedInv ==
  ASSUME IInv, StaDisconnected
  PROVE  IInv'
<1> USE DEF IInv, Handle, Resting
<1>1. /\ queue' \in Seq(Events) /\ Follows(queue', link)
      /\ prov.st # "received" /\ Unsettled(queue) => Unsettled(queue')
      /\ count > 0 \/ parked
  <2>1. "gone" \in Events /\ "cred_fail" \in Settled /\ Echo("cred_fail") /\ Handle("gone")
    BY DEF StaDisconnected, Events, Settled
  <2>2. QED
    BY <2>1, Taken
<1>2. /\ at["loop"] = "rest" /\ queue # <<>>
      /\ UNCHANGED <<parked, started, table, timer, radio, deck>>
      /\ state' = IF parked THEN "IDLE" ELSE state
  BY DEF StaDisconnected
<1>3. PICK p \in {"rest", "drop"} : Goto("loop", p) /\ (p = "drop" <=> ~parked)
  BY DEF StaDisconnected, TypeOK
<1>4. /\ at' \in [Tasks -> Places]
      /\ at'["loop"] = p /\ \A u \in Tasks \ {"loop"} : at'[u] = at[u]
      /\ adopt' = adopt /\ next' = next
  BY <1>3, Moved DEF Tasks
<1>5. TypeOK' /\ Filled' /\ Parking'
  BY <1>1, <1>2, <1>3, <1>4 DEF TypeOK, Filled, Written, Parking, Tasks, Events
<1>6. Listed' /\ NeverBlank'
  BY <1>1, <1>2, <1>3, <1>4 DEF Listed, NeverBlank, TypeOK, Tasks
<1>7. Session' /\ Announced'
  BY <1>1, <1>2, <1>4 DEF Session, Announced, Tasks
<1>8. ConnectedIsUp'
  BY <1>2, <1>3, <1>4 DEF ConnectedIsUp
<1>9. QED
  BY <1>5, <1>6, <1>7, <1>8

(* An address: the manager says CONNECTED, and if the link has gone again  *)
(* the event is behind.                                                    *)
LEMMA GotIpInv ==
  ASSUME IInv, GotIp
  PROVE  IInv'
<1> USE DEF IInv, Handle, Resting
<1>1. /\ queue' \in Seq(Events) /\ Follows(queue', link)
      /\ prov.st # "received" /\ Unsettled(queue) => Unsettled(queue')
      /\ link = "up" \/ "gone" \in Elems(queue')
      /\ count > 0 \/ parked
  <2>1. "ip" \in Events /\ "cred_ok" \in Settled /\ Echo("cred_ok") /\ Handle("ip")
    BY DEF GotIp, Events, Settled
  <2>2. QED
    BY <2>1, Taken
<1>2. /\ UNCHANGED <<parked, started, rows, count, idx, timer, radio, tasks, deck>>
      /\ state' = "CONNECTED" /\ fails' = 0
  BY DEF GotIp
<1>3. TypeOK' /\ Filled' /\ Parking'
  BY <1>1, <1>2, WifiAssumption DEF TypeOK, Filled, Written, Parking, Events
<1>4. Listed' /\ NeverBlank'
  BY <1>1, <1>2 DEF Listed, NeverBlank, TypeOK
<1>5. Session' /\ Announced' /\ ConnectedIsUp'
  BY <1>1, <1>2 DEF Session, Announced, ConnectedIsUp
<1>6. QED
  BY <1>3, <1>4, <1>5

(* The outcome of a provisioning session: there is one, since an outcome   *)
(* was on its way, and it knows its network.                               *)
LEMMA OutcomeInv ==
  ASSUME IInv, ProvSuccess \/ ProvFail
  PROVE  IInv'
<1> USE DEF IInv, Handle
<1>1. PICK e \in Settled : Handle(e) /\ queue' = Tail(queue)
  BY DEF ProvSuccess, ProvFail, Settled
<1>2. /\ queue' \in Seq(Events) /\ Follows(queue', link)
      /\ ~Unsettled(queue)
      /\ "gone" \in Elems(queue) => "gone" \in Elems(queue')
      /\ count > 0 \/ parked
  <2>1. e \in Events /\ e # "gone" /\ e \in Settled
    BY DEF Settled, Events
  <2>2. Unsettled(queue) => Head(queue) \notin Settled
    BY <1>1, TakenQueue DEF TypeOK, Events
  <2>3. /\ queue' \in Seq(Events) /\ Follows(queue', link)
        /\ "gone" \in Elems(queue) => e = "gone" \/ "gone" \in Elems(queue')
        /\ count > 0 \/ parked
    BY <1>1, <2>1, Taken
  <2>4. QED
    BY <1>1, <2>1, <2>2, <2>3
<1>3. UNCHANGED <<state, parked, started, table, timer, radio, tasks, screen>>
  BY DEF ProvSuccess, ProvFail
<1>4. prov.st # "active" /\ at["shell"] # "leave"
  BY <1>2 DEF Session
<1>5. /\ prov' \in [st : {"idle", "active", "received", "failed", "success"},
                     ssid : Nets \union {None}]
      /\ prov'.ssid = prov.ssid /\ prov'.st # "active"
      /\ prov'.st = "idle" <=> prov.st = "idle"
  <2>1. CASE ProvSuccess
    BY <1>4, <2>1 DEF ProvSuccess, TypeOK
  <2>2. CASE ProvFail
    BY <1>4, <2>2 DEF ProvFail, TypeOK
  <2>3. QED
    BY <2>1, <2>2
<1>6. saved' \in Lists /\ gated' \subseteq Elems(saved')
  <2>1. CASE ProvSuccess /\ saved' = SaveFirst(prov.ssid) /\ prov.st # "idle"
    <3>1. prov.ssid \in Nets
      BY <1>4, <2>1 DEF Session, TypeOK, None
    <3>2. saved' \in Lists
      BY <2>1, <3>1, SavedList
    <3>3. gated' \subseteq Elems(saved')
      <4>1. CASE UNCHANGED <<saved, gated>>
        BY <4>1 DEF TypeOK
      <4>2. CASE gated' = (gated \ {prov.ssid}) \cap Elems(saved')
        BY <4>2
      <4>3. QED
        BY <2>1, <4>1, <4>2 DEF ProvSuccess
    <3>4. QED
      BY <3>2, <3>3
  <2>2. CASE UNCHANGED <<saved, gated>>
    BY <2>2 DEF TypeOK
  <2>3. QED
    BY <2>1, <2>2 DEF ProvSuccess, ProvFail
<1>7. TypeOK' /\ Filled' /\ Parking'
  BY <1>2, <1>3, <1>5, <1>6 DEF TypeOK, Filled, Written, Parking, Events
<1>8. Listed' /\ NeverBlank'
  BY <1>2, <1>3 DEF Listed, NeverBlank, TypeOK
<1>9. Session' /\ Announced' /\ ConnectedIsUp'
  BY <1>2, <1>3, <1>4, <1>5 DEF Session, Announced, ConnectedIsUp
<1>10. QED
  BY <1>7, <1>8, <1>9

(* The next network. What is in the table below the count is written, and  *)
(* the shell never empties it.                                             *)
LEMMA AdvanceInv ==
  ASSUME IInv, LinkLost \/ Advance \/ AdvanceStore
  PROVE  IInv'
<1> USE DEF IInv
<1>1. CASE LinkLost
  <2>1. /\ at["loop"] = "drop" /\ count > 0
        /\ UNCHANGED <<parked, started, rows, count, idx, timer, radio, queue, deck>>
        /\ state' \in {"IDLE", "CONNECTING", "LOST", "FAILED"} /\ fails' \in 0 .. Max
    <3>1. /\ at["loop"] = "drop" /\ count > 0
          /\ UNCHANGED <<parked, started, rows, count, idx, timer, radio, queue, deck>>
      BY <1>1 DEF LinkLost, Listed
    <3>2. CASE state = "CONNECTED"
      BY <1>1, <3>1, <3>2, WifiAssumption DEF LinkLost
    <3>3. CASE state # "CONNECTED"
      BY <1>1, <3>1, <3>3 DEF LinkLost, TypeOK
    <3>4. QED
      BY <3>2, <3>3
  <2>2. PICK p \in {"try", "next"} : Goto("loop", p)
    BY <1>1, <2>1 DEF LinkLost
  <2>3. /\ at' \in [Tasks -> Places]
        /\ at'["loop"] = p /\ \A u \in Tasks \ {"loop"} : at'[u] = at[u]
        /\ adopt' = adopt /\ next' = next
    BY <2>2, Moved DEF Tasks
  <2>4. rows[idx] # None
    BY <2>1, Indices DEF Filled, Written, TypeOK
  <2>5. TypeOK' /\ Filled' /\ Parking'
    BY <2>1, <2>3 DEF TypeOK, Filled, Written, Parking, Tasks
  <2>6. Listed' /\ NeverBlank'
    BY <2>1, <2>3, <2>4 DEF Listed, NeverBlank, Tasks, TypeOK
  <2>7. Session' /\ Announced' /\ ConnectedIsUp'
    BY <2>1, <2>3 DEF Session, Announced, ConnectedIsUp, Tasks
  <2>8. QED
    BY <2>5, <2>6, <2>7
<1>2. CASE Advance
  <2>1. /\ at["loop"] = "next" /\ count > 0 /\ adopt' = adopt
        /\ at' = [at EXCEPT !["loop"] = "store"] /\ next' = (idx + 1) % count
        /\ UNCHANGED <<state, parked, started, table, timer, radio, queue, deck>>
    BY <1>2 DEF Advance, Listed
  <2>2. next' \in Rows /\ next' < count
    <3>1. count \in 1 .. Max /\ idx + 1 \in Nat
      BY <2>1, Indices DEF TypeOK
    <3>2. (idx + 1) % count \in 0 .. count - 1 /\ (idx + 1) % count \in Rows
      BY <3>1, Indices
    <3>3. QED
      BY <2>1, <3>1, <3>2
  <2>3. TypeOK' /\ Parking'
    BY <2>1, <2>2 DEF TypeOK, Parking, Tasks
  <2>4. Filled'
    <3>1. \A s \in Rows : s <= next' => s < count
      BY <2>2, Indices DEF Rows, TypeOK
    <3>2. Written(next')
      BY <2>1, <3>1 DEF Filled, Written
    <3>3. QED
      BY <2>1, <3>2 DEF Filled, Written
  <2>5. Listed' /\ NeverBlank'
    BY <2>1 DEF Listed, NeverBlank, Tasks, TypeOK
  <2>6. Session' /\ Announced' /\ ConnectedIsUp'
    BY <2>1 DEF Session, Announced, ConnectedIsUp, Tasks, TypeOK
  <2>7. QED
    BY <2>3, <2>4, <2>5, <2>6
<1>3. CASE AdvanceStore
  <2>1. /\ at["loop"] = "store" /\ count > 0 /\ adopt' = adopt /\ idx' = next /\ next' = 0
        /\ UNCHANGED <<parked, started, rows, count, radio, queue, deck>>
        /\ timer' \in BOOLEAN /\ fails' \in 0 .. Max
        /\ state' \in {state, "FAILED"}
    <3>1. /\ at["loop"] = "store" /\ count > 0 /\ adopt' = adopt /\ idx' = next /\ next' = 0
          /\ UNCHANGED <<parked, started, rows, count, radio, queue, deck>>
      BY <1>3 DEF AdvanceStore, Listed
    <3>2. timer' = (timer \/ fails + 1 >= count) /\ state' \in {state, "FAILED"}
      BY <1>3 DEF AdvanceStore
    <3>3. fails' = IF fails + 1 >= count THEN 0 ELSE fails + 1
      BY <1>3 DEF AdvanceStore
    <3>4. fails' \in 0 .. Max
      BY <3>3, WifiAssumption DEF TypeOK
    <3>5. timer' \in BOOLEAN
      BY <3>2 DEF TypeOK
    <3>6. QED
      BY <3>1, <3>2, <3>4, <3>5
  <2>2. PICK p \in {"rest", "try"} : at' = [at EXCEPT !["loop"] = p]
    BY <1>3 DEF AdvanceStore
  <2>3. Written(next) /\ next \in Rows /\ rows[next] # None
    BY <2>1, Indices DEF Filled, Written, TypeOK
  <2>4. TypeOK' /\ Parking'
    <3>1. at' \in [Tasks -> Places]
      BY <2>2 DEF TypeOK, Tasks
    <3>2. TypeOK'
      <4>1. /\ state' \in {"IDLE", "CONNECTING", "CONNECTED", "LOST", "FAILED"}
            /\ idx' \in Rows /\ next' \in Rows
        BY <2>1, <2>3, Indices DEF TypeOK
      <4>2. /\ rows' \in [Rows -> Nets \union {Marked, None}] /\ count' \in 0 .. Max
            /\ parked' \in BOOLEAN /\ started' \in BOOLEAN
            /\ running' \in BOOLEAN /\ config' \in Nets \union {Marked, None}
            /\ link' \in {"down", "joining", "up"}
            /\ queue' \in Seq({"start", "gone", "ip", "cred_ok", "cred_fail"})
            /\ adopt' \in BOOLEAN
            /\ saved' \in Lists /\ gated' \subseteq Elems(saved') /\ screen' \in {"home", "wifiprov", "import"}
            /\ prov' \in [st : {"idle", "active", "received", "failed", "success"},
                          ssid : Nets \union {None}]
        BY <2>1 DEF TypeOK
      <4>3. QED
        BY <2>1, <3>1, <4>1, <4>2 DEF TypeOK
    <3>3. Parking'
      BY <2>1, <2>2 DEF TypeOK, Parking, Tasks
    <3>4. QED
      BY <3>2, <3>3
  <2>5. Filled'
    BY <2>1, <2>2, <2>3 DEF Filled, Written, TypeOK, Tasks
  <2>6. Listed' /\ NeverBlank'
    BY <2>1, <2>2, <2>3 DEF Listed, NeverBlank, Tasks, TypeOK
  <2>7. Session' /\ Announced' /\ ConnectedIsUp'
    BY <2>1, <2>2 DEF Session, Announced, ConnectedIsUp, Tasks, TypeOK
  <2>8. QED
    BY <2>4, <2>5, <2>6, <2>7
<1>4. QED
  BY <1>1, <1>2, <1>3

LEMMA RetryInv ==
  ASSUME IInv, Retry
  PROVE  IInv'
<1> USE DEF IInv
<1>1. /\ at["timer"] = "rest" /\ timer' = FALSE
      /\ UNCHANGED <<state, parked, started, table, radio, queue, deck>>
  BY DEF Retry, Resting
<1>2. PICK p \in {"rest", "try"} : Goto("timer", p) /\ (p = "try" => count > 0)
  BY DEF Retry, TypeOK
<1>3. /\ at' \in [Tasks -> Places]
      /\ at'["timer"] = p /\ \A u \in Tasks \ {"timer"} : at'[u] = at[u]
      /\ adopt' = adopt /\ next' = next
  BY <1>2, Moved DEF Tasks
<1>4. count > 0 => rows[idx] # None
  BY Indices DEF Filled, Written, TypeOK
<1>5. TypeOK' /\ Filled' /\ Parking'
  <2>1. TypeOK'
    <3>1. timer' \in BOOLEAN /\ adopt' \in BOOLEAN /\ next' \in Rows
      BY <1>1, <1>3 DEF TypeOK
    <3>2. QED
      BY <1>1, <1>3, <3>1 DEF TypeOK
  <2>2. Filled' /\ Parking'
    BY <1>1, <1>3 DEF Filled, Written, Parking, Tasks
  <2>3. QED
    BY <2>1, <2>2
<1>6. Listed' /\ NeverBlank'
  BY <1>1, <1>2, <1>3, <1>4 DEF Listed, NeverBlank, Tasks, TypeOK
<1>7. Session' /\ Announced' /\ ConnectedIsUp'
  BY <1>1, <1>3 DEF Session, Announced, ConnectedIsUp, Tasks
<1>8. QED
  BY <1>5, <1>6, <1>7

(* The shell's copy of a list: what was written stays so.                  *)
LEMMA Copied ==
  ASSUME IInv, NEW n \in 1 .. Max, NEW list \in [1 .. n -> Nets \union {Marked}],
         NEW a \in BOOLEAN, Copy(list, a), idx' = idx
  PROVE  /\ rows' \in [Rows -> Nets \union {Marked, None}] /\ count' = n /\ adopt' = a
         /\ next' = next /\ at' = [at EXCEPT !["shell"] = "reset"]
         /\ Filled' /\ rows'[idx'] # None
<1> USE DEF IInv
<1>1. /\ count' = n /\ adopt' = a /\ next' = next
      /\ at' = [at EXCEPT !["shell"] = "reset"]
      /\ rows' = [r \in Rows |-> IF r < n THEN list[r + 1] ELSE rows[r]]
  <2>1. Len(list) = n
    OBVIOUS
  <2>2. QED
    BY <2>1 DEF Copy
<1>2. /\ rows' \in [Rows -> Nets \union {Marked, None}]
      /\ \A r \in Rows : r < count' \/ rows[r] # None => rows'[r] # None
  <2>1. \A r \in Rows : r < n => list[r + 1] \in Nets \union {Marked}
    BY DEF Rows
  <2>2. None \notin Nets /\ None # Marked /\ rows \in [Rows -> Nets \union {Marked, None}]
    BY WifiAssumption DEF TypeOK, None, Marked
  <2>3. QED
    BY <1>1, <2>1, <2>2
<1>3. Written(idx)' /\ (at["loop"] = "store" => Written(next)')
  <2>1. \A m \in Rows : Written(m) => Written(m)'
    BY <1>2 DEF Written
  <2>2. CASE count > 0
    BY <1>1, <1>2, <2>2 DEF Filled, Written, TypeOK
  <2>3. CASE count = 0
    <3>1. idx' = 0 /\ at["loop"] # "store"
      BY <2>3 DEF Filled, Listed
    <3>2. \A r \in Rows : r <= 0 => r < count'
      BY <1>1, Indices
    <3>3. QED
      BY <1>2, <3>1, <3>2 DEF Written
  <2>4. QED
    BY <2>2, <2>3 DEF TypeOK
<1>4. at'["loop"] = at["loop"]
  BY <1>1 DEF TypeOK, Tasks
<1>5. Filled'
  BY <1>1, <1>2, <1>3, <1>4 DEF Filled
<1>6. rows'[idx'] # None
  BY <1>3, Indices DEF Written, TypeOK
<1>7. QED
  BY <1>1, <1>2, <1>5, <1>6

(* The reset, and the connect or the start that follows it.                *)
LEMMA ResetInv ==
  ASSUME IInv, Reset
  PROVE  IInv'
<1> USE DEF IInv
<1>1. /\ at["shell"] = "reset" /\ count > 0 /\ screen = "home"
      /\ adopt' = FALSE /\ idx' = 0 /\ fails' = 0 /\ parked' = FALSE
      /\ UNCHANGED <<next, rows, count, timer, config, link, deck>>
  BY DEF Reset, ShellAt, Listed
<1>2. /\ started' \in BOOLEAN /\ running' \in BOOLEAN
      /\ state' \in {state, "CONNECTING"}
      /\ queue' \in {queue, Append(queue, "start")}
  BY DEF Reset, TypeOK
<1>3. PICK p \in {"rest", "try"} : at' = [at EXCEPT !["shell"] = p]
  BY DEF Reset
<1>4. /\ at' \in [Tasks -> Places]
      /\ at'["shell"] = p /\ \A u \in Tasks \ {"shell"} : at'[u] = at[u]
  BY <1>3 DEF TypeOK, Tasks
<1>5. /\ queue' \in Seq(Events) /\ Follows(queue', link)
      /\ "gone" \in Elems(queue) => "gone" \in Elems(queue')
  <2>1. queue \in Seq(Events) /\ Follows(queue, link) /\ "start" \in Events /\ "start" # "ip"
    BY DEF TypeOK, Events, Announced
  <2>2. CASE queue' = queue
    BY <2>1, <2>2
  <2>3. CASE queue' = Append(queue, "start")
    BY <2>1, <2>3, PostedQueue
  <2>4. QED
    BY <1>2, <2>2, <2>3
<1>6. TypeOK'
  <2>1. /\ adopt' \in BOOLEAN /\ idx' \in Rows /\ fails' \in 0 .. Max
        /\ parked' \in BOOLEAN
    <3>1. adopt' \in BOOLEAN /\ parked' \in BOOLEAN
      BY <1>1
    <3>2. idx' \in Rows /\ fails' \in 0 .. Max
      BY <1>1, Indices, WifiAssumption
    <3>3. QED
      BY <3>1, <3>2
  <2>2. state' \in {"IDLE", "CONNECTING", "CONNECTED", "LOST", "FAILED"}
    BY <1>2 DEF TypeOK
  <2>3. QED
    BY <1>1, <1>2, <1>4, <1>5, <2>1, <2>2 DEF TypeOK, Events
<1>7. rows[0] # None /\ Written(0)
  BY <1>1, Indices DEF Filled, Written, TypeOK, Rows
<1>8. Filled'
  BY <1>1, <1>4, <1>7 DEF Filled, Written, Tasks
<1>9. Listed' /\ NeverBlank'
  BY <1>1, <1>4, <1>7 DEF Listed, NeverBlank, Tasks
<1>10. Parking' /\ Session' /\ Announced' /\ ConnectedIsUp'
  <2>1. prov.st = "idle" /\ prov.ssid = None
    BY <1>1 DEF Session
  <2>2. Parking' /\ Session'
    BY <1>1, <1>4, <2>1 DEF Parking, Session
  <2>3. Announced' /\ ConnectedIsUp'
    BY <1>1, <1>2, <1>4, <1>5 DEF Announced, ConnectedIsUp, Tasks
  <2>4. QED
    BY <2>2, <2>3
<1>11. QED
  BY <1>6, <1>8, <1>9, <1>10

(* The radio is given away: a link that was up is announced gone.          *)
LEMMA LeaveInv ==
  ASSUME IInv, Leave
  PROVE  IInv'
<1> USE DEF IInv
<1>1. /\ at["shell"] = "leave" /\ Goto("shell", "rest") /\ link' = "down"
      /\ UNCHANGED <<state, parked, started, table, timer, config, saved, gated>>
      /\ screen # "home" /\ parked
      /\ prov.st = "idle" /\ prov.ssid = None /\ Unsettled(queue)
  BY DEF Leave, ShellAt, Parking, Session
<1>2. PICK ok \in BOOLEAN :
        /\ screen' = IF ok THEN screen ELSE "home"
        /\ running' = IF ok THEN screen = "wifiprov" ELSE running
        /\ prov' = IF ok /\ screen = "wifiprov" THEN [st |-> "active", ssid |-> None] ELSE prov
        /\ queue' = queue \o (IF link = "down" THEN <<>> ELSE <<"gone">>)
                          \o (IF ok /\ screen = "wifiprov" /\ ~running THEN <<"start">> ELSE <<>>)
  BY DEF Leave
<1>3. /\ at' \in [Tasks -> Places]
      /\ at'["shell"] = "rest" /\ \A u \in Tasks \ {"shell"} : at'[u] = at[u]
      /\ adopt' = adopt /\ next' = next
  BY <1>1, Moved DEF Tasks
<1>4. /\ queue' \in Seq(Events) /\ Follows(queue', "down")
      /\ "gone" \in Elems(queue) \/ link # "down" => "gone" \in Elems(queue')
      /\ Unsettled(queue')
  <2> DEFINE b == link # "down"
             c == ok /\ screen = "wifiprov" /\ ~running
  <2>1. queue' = (queue \o (IF b THEN <<"gone">> ELSE <<>>)) \o (IF c THEN <<"start">> ELSE <<>>)
    BY <1>2
  <2>2. /\ b \in BOOLEAN /\ c \in BOOLEAN /\ (~b => link = "down")
        /\ queue \in Seq(Events) /\ Follows(queue, link)
    BY DEF TypeOK, Events, Announced
  <2>3. b <=> link # "down"
    OBVIOUS
  <2> HIDE DEF b, c
  <2>4. QED
    BY <1>1, <2>1, <2>2, <2>3, ClosedQueue
<1>5. TypeOK'
  <2>1. screen' \in {"home", "wifiprov", "import"} /\ running' \in BOOLEAN
    BY <1>2 DEF TypeOK
  <2>2. prov' \in [st : {"idle", "active", "received", "failed", "success"},
                   ssid : Nets \union {None}]
    BY <1>2 DEF TypeOK
  <2>3. QED
    BY <1>1, <1>3, <1>4, <2>1, <2>2 DEF TypeOK, Events
<1>6. Filled' /\ Listed'
  BY <1>1, <1>3 DEF Filled, Written, Listed, Tasks
<1>7. NeverBlank' /\ Parking'
  BY <1>1, <1>3 DEF NeverBlank, Parking, Tasks
<1>8. Session'
  BY <1>1, <1>2, <1>3, <1>4 DEF Session
<1>9. Announced' /\ ConnectedIsUp'
  BY <1>1, <1>3, <1>4 DEF Announced, ConnectedIsUp, Tasks
<1>10. QED
  BY <1>5, <1>6, <1>7, <1>8, <1>9

(* What the shell's own calls have in common: the table stays, or a list   *)
(* with a row in it is copied; and that from HOME, or on the way there.    *)
Loads ==
  \/ NoKick
  \/ \E n \in 1 .. Max : \E list \in [1 .. n -> Nets \union {Marked}], a \in BOOLEAN : Copy(list, a)

LEMMA KickLoads ==
  ASSUME NEW all, NEW hidden, Kick(all, hidden)
  PROVE  Loads
<1>1. PICK list \in Lists : IF list = <<>> THEN NoKick ELSE Copy(list, FALSE)
  BY DEF Kick, Readable
<1>2. CASE list = <<>>
  BY <1>1, <1>2 DEF Loads
<1>3. CASE list # <<>>
  <2>1. Len(list) \in 1 .. Max /\ list \in [1 .. Len(list) -> Nets \union {Marked}]
    BY <1>3, ListFacts, WifiAssumption
  <2>2. Copy(list, FALSE)
    BY <1>1, <1>3
  <2>3. QED
    BY <2>1, <2>2 DEF Loads
<1>4. QED
  BY <1>2, <1>3

LEMMA HomeInv ==
  ASSUME IInv, at["shell"] # "leave", Loads,
         UNCHANGED <<state, parked, started, idx, fails, timer, config, link>>,
         \/ UNCHANGED queue
         \/ parked /\ queue' = Append(queue, "start"),
         running' \in BOOLEAN, saved' \in Lists, gated' \subseteq Elems(saved'),
         screen' = "home", prov' = NoProv
  PROVE  IInv'
<1> USE DEF IInv
<1>1. /\ queue' \in Seq(Events) /\ Follows(queue', link)
      /\ "gone" \in Elems(queue) => "gone" \in Elems(queue')
      /\ queue' = queue \/ parked
  <2>1. queue \in Seq(Events) /\ Follows(queue, link) /\ "start" \in Events /\ "start" # "ip"
    BY DEF TypeOK, Events, Announced
  <2>2. CASE queue' = queue
    BY <2>1, <2>2
  <2>3. CASE parked /\ queue' = Append(queue, "start")
    BY <2>1, <2>3, PostedQueue
  <2>4. QED
    BY <2>2, <2>3
<1>2. prov'.st = "idle" /\ prov'.ssid = None
  BY DEF NoProv
<1>3. /\ rows' \in [Rows -> Nets \union {Marked, None}] /\ count' \in 0 .. Max
      /\ adopt' \in BOOLEAN /\ next' = next /\ Filled'
      /\ count > 0 => count' > 0
      /\ \/ at' = [at EXCEPT !["shell"] = "rest"] /\ UNCHANGED <<rows, count>>
         \/ at' = [at EXCEPT !["shell"] = "reset"] /\ count' > 0 /\ rows'[idx'] # None
  <2>1. CASE NoKick
    <3>1. at' = [at EXCEPT !["shell"] = "rest"] /\ UNCHANGED <<rows, count, adopt, next>>
      BY <2>1 DEF NoKick, Goto
    <3>2. Filled'
      BY <3>1 DEF Filled, Written, TypeOK, Tasks
    <3>3. QED
      BY <3>1, <3>2 DEF TypeOK
  <2>2. ASSUME NEW n \in 1 .. Max, NEW list \in [1 .. n -> Nets \union {Marked}],
               NEW a \in BOOLEAN, Copy(list, a)
        PROVE  /\ rows' \in [Rows -> Nets \union {Marked, None}] /\ count' \in 1 .. Max
               /\ adopt' \in BOOLEAN /\ next' = next /\ Filled'
               /\ at' = [at EXCEPT !["shell"] = "reset"] /\ rows'[idx'] # None
    BY <2>2, Copied
  <2>3. QED
    BY <2>1, <2>2, WifiAssumption DEF Loads
<1>4. at' \in [Tasks -> Places] /\ \A u \in Tasks \ {"shell"} : at'[u] = at[u]
  BY <1>3 DEF TypeOK, Tasks, Places
<1>5. TypeOK'
  <2>1. prov' \in [st : {"idle", "active", "received", "failed", "success"},
                   ssid : Nets \union {None}]
    BY DEF NoProv
  <2>2. QED
    BY <1>1, <1>3, <1>4, <2>1 DEF TypeOK, Events
<1>6. Listed' /\ Parking'
  <2>1. at'["shell"] \in {"rest", "reset"} /\ (at'["shell"] = "reset" => count' > 0)
    BY <1>3 DEF TypeOK, Tasks
  <2>2. count' = 0 => count = 0
    BY <1>3 DEF TypeOK
  <2>3. QED
    BY <1>1, <1>3, <1>4, <2>1, <2>2 DEF Listed, Parking, Tasks
<1>7. NeverBlank'
  <2>1. at'["shell"] \in {"rest", "reset"}
    BY <1>3 DEF TypeOK, Tasks
  <2>2. CASE UNCHANGED <<rows, count>>
    BY <1>4, <2>1, <2>2 DEF NeverBlank, Tasks
  <2>3. CASE rows'[idx'] # None
    BY <1>4, <2>1, <2>3 DEF NeverBlank, Tasks
  <2>4. QED
    BY <1>3, <2>2, <2>3
<1>8. Announced' /\ ConnectedIsUp'
  BY <1>1, <1>4 DEF Announced, ConnectedIsUp, Tasks
<1>9. Session'
  <2>1. at'["shell"] # "leave"
    BY <1>3 DEF TypeOK, Tasks
  <2>2. QED
    BY <1>2, <2>1 DEF Session
<1>10. QED
  BY <1>3, <1>5, <1>6, <1>7, <1>8, <1>9

LEMMA CallsInv ==
  ASSUME IInv, Reconnect \/ Lock \/ Unlock \/ ProvDone \/ ProvCancelled \/ ImportExit
  PROVE  IInv'
<1>1. screen = "home" => prov = NoProv
  BY DEF IInv, Session, TypeOK, NoProv
<1>2. TypeOK /\ saved \in Lists /\ gated \subseteq Elems(saved)
  BY DEF IInv, TypeOK
<1>3. CASE Reconnect
  <2>1. /\ Kick(saved, gated) /\ at["shell"] # "leave" /\ screen = "home"
        /\ UNCHANGED <<state, parked, started, idx, fails, timer, radio, queue, deck>>
    BY <1>3 DEF Reconnect, Idle, Quiet, ShellAt
  <2>2. QED
    BY <1>1, <1>2, <2>1, KickLoads, HomeInv DEF TypeOK
<1>4. CASE Lock
  <2>1. /\ at["shell"] = "rest" /\ screen = "home" /\ gated' \subseteq Elems(saved)
        /\ UNCHANGED <<state, parked, started, table, timer, radio, queue, tasks, saved, screen, prov>>
    BY <1>4 DEF Lock, Idle, Quiet, ShellAt
  <2>2. Loads
    BY <1>2, <2>1 DEF Loads, NoKick, Goto, TypeOK, Tasks
  <2>3. QED
    BY <1>1, <1>2, <2>1, <2>2, HomeInv DEF TypeOK
<1>5. CASE Unlock
  <2>1. /\ at["shell"] = "rest" /\ screen = "home" /\ saved' \in Lists /\ gated' = {}
        /\ UNCHANGED <<state, parked, started, idx, fails, timer, radio, queue, screen, prov>>
    BY <1>5 DEF Unlock, Idle, Quiet, ShellAt
  <2>2. Loads
    BY <1>5, KickLoads DEF Unlock, Loads
  <2>3. QED
    BY <1>1, <1>2, <2>1, <2>2, HomeInv DEF TypeOK
<1>6. CASE ProvDone
  <2>1. /\ at["shell"] = "rest" /\ screen' = "home" /\ prov' = NoProv
        /\ UNCHANGED <<state, parked, started, idx, fails, timer, radio, queue, saved, gated>>
    BY <1>6 DEF ProvDone, Quiet, ShellAt
  <2>2. Loads
    <3> DEFINE list == [i \in DOMAIN saved |-> IF saved[i] \in gated THEN Marked ELSE saved[i]]
    <3>1. Kick(saved, gated) \/ (saved # <<>> /\ Copy(list, TRUE))
      BY <1>6 DEF ProvDone
    <3>2. CASE saved # <<>> /\ Copy(list, TRUE)
      <4>1. Len(saved) \in 1 .. Max /\ list \in [1 .. Len(saved) -> Nets \union {Marked}]
        BY <1>2, <3>2, ListFacts, WifiAssumption
      <4> HIDE DEF list
      <4>2. QED
        BY <3>2, <4>1 DEF Loads
    <3>3. QED
      BY <3>1, <3>2, KickLoads
  <2>3. QED
    BY <1>2, <2>1, <2>2, HomeInv DEF TypeOK
<1>7. CASE ProvCancelled
  <2>1. /\ at["shell"] = "cancel" /\ screen' = "home" /\ prov' = NoProv /\ Kick(saved, gated)
        /\ UNCHANGED <<state, parked, started, idx, fails, timer, radio, queue, saved, gated>>
    BY <1>7 DEF ProvCancelled, Quiet, ShellAt
  <2>2. QED
    BY <1>2, <2>1, KickLoads, HomeInv DEF TypeOK
<1>8. CASE ImportExit
  <2>1. /\ at["shell"] = "rest" /\ screen = "import" /\ screen' = "home"
        /\ Kick(saved, gated) /\ running' = TRUE /\ queue' = Append(queue, "start")
        /\ UNCHANGED <<state, parked, started, idx, fails, timer, config, link, saved, gated, prov>>
    BY <1>8 DEF ImportExit, ShellAt, Post
  <2>2. parked /\ prov = NoProv
    BY <2>1 DEF IInv, Parking, Session, TypeOK, NoProv
  <2>3. QED
    BY <1>2, <2>1, <2>2, KickLoads, HomeInv
<1>9. QED
  BY <1>3, <1>4, <1>5, <1>6, <1>7, <1>8

(* The setup screens.                                                      *)
LEMMA SetupInv ==
  ASSUME IInv, \/ Park("wifiprov") \/ Park("import") \/ ProvCancel
               \/ \E n \in Nets : PhoneSends(n)
  PROVE  IInv'
<1> USE DEF IInv
<1>1. ASSUME NEW s \in {"wifiprov", "import"}, Park(s) PROVE IInv'
  <2>1. /\ at["shell"] = "rest" /\ screen = "home" /\ screen' = s /\ Goto("shell", "leave")
        /\ parked' = TRUE /\ timer' = FALSE /\ state' = "IDLE"
        /\ UNCHANGED <<started, table, radio, queue, saved, gated, prov>>
    BY <1>1 DEF Park, Idle, ShellAt
  <2>2. Unsettled(queue)
    BY <1>1 DEF Park, Unsettled, Elems
  <2>3. /\ at' \in [Tasks -> Places]
        /\ at'["shell"] = "leave" /\ \A u \in Tasks \ {"shell"} : at'[u] = at[u]
        /\ adopt' = adopt /\ next' = next
    BY <2>1, Moved DEF Tasks
  <2>4. TypeOK'
    <3>1. timer' \in BOOLEAN /\ parked' \in BOOLEAN /\ next' \in Rows
      BY <2>1, <2>3 DEF TypeOK
    <3>2. QED
      BY <2>1, <2>3, <3>1 DEF TypeOK
  <2>5. Filled' /\ Listed' /\ Parking'
    BY <2>1, <2>3 DEF Filled, Written, Listed, Parking, Tasks
  <2>6. Session'
    BY <2>1, <2>2, <2>3 DEF Session
  <2>7. NeverBlank' /\ Announced' /\ ConnectedIsUp'
    BY <2>1, <2>3 DEF NeverBlank, Announced, ConnectedIsUp, Tasks
  <2>8. QED
    BY <2>4, <2>5, <2>6, <2>7
<1>2. CASE ProvCancel
  <2>1. /\ at["shell"] = "rest" /\ Goto("shell", "cancel")
        /\ UNCHANGED <<state, parked, started, table, timer, radio, queue, deck>>
    BY <1>2 DEF ProvCancel, Quiet, ShellAt
  <2>2. /\ at' \in [Tasks -> Places]
        /\ at'["shell"] = "cancel" /\ \A u \in Tasks \ {"shell"} : at'[u] = at[u]
        /\ adopt' = adopt /\ next' = next
    BY <2>1, Moved DEF Tasks
  <2>3. TypeOK'
    BY <2>1, <2>2 DEF TypeOK
  <2>4. Filled' /\ Listed' /\ Parking'
    BY <2>1, <2>2 DEF Filled, Written, Listed, Parking, Tasks
  <2>5. Session' /\ NeverBlank' /\ Announced' /\ ConnectedIsUp'
    BY <2>1, <2>2 DEF Session, NeverBlank, Announced, ConnectedIsUp, Tasks
  <2>6. QED
    BY <2>3, <2>4, <2>5
<1>3. ASSUME NEW n \in Nets, PhoneSends(n) PROVE IInv'
  <2>1. /\ link = "down" /\ queue = <<>> /\ link' = "joining" /\ config' = n
        /\ prov' = [st |-> "received", ssid |-> n] /\ parked /\ screen = "wifiprov"
        /\ at["shell"] # "leave"
        /\ UNCHANGED <<state, parked, started, table, timer, running, queue, tasks, saved, gated, screen>>
    BY <1>3 DEF PhoneSends, Session, Parking
  <2>2. n # None
    BY WifiAssumption DEF None
  <2>3. TypeOK'
    BY <2>1 DEF TypeOK
  <2>4. Filled' /\ Listed' /\ Parking' /\ NeverBlank'
    BY <2>1, <2>2 DEF Filled, Written, Listed, Parking, NeverBlank
  <2>5. Session'
    BY <2>1, <2>2 DEF Session
  <2>6. Announced' /\ ConnectedIsUp'
    BY <2>1, EmptyQueue DEF Announced, ConnectedIsUp, Elems
  <2>7. QED
    BY <2>3, <2>4, <2>5, <2>6
<1>4. QED
  BY <1>1, <1>2, <1>3

-----------------------------------------------------------------------------
LEMMA NextIInv == IInv /\ [Next]_vars => IInv'
<1>1. ASSUME IInv, UNCHANGED vars PROVE IInv'
  BY <1>1 DEF IInv, TypeOK, Filled, Written, Listed, Parking, Session, Announced, Follows,
              Unsettled, ConnectedIsUp, NeverBlank
<1>2. ASSUME IInv, Next PROVE IInv'
  <2>1. CASE Radio
    BY <1>2, <2>1, RadioInv DEF Radio
  <2>2. CASE Handlers
    BY <1>2, <2>2, StaStartInv, StaDisconnectedInv, GotIpInv, OutcomeInv, AdvanceInv DEF Handlers
  <2>3. CASE Retry
    BY <1>2, <2>3, RetryInv
  <2>4. CASE ShellRuns
    BY <1>2, <2>4, ResetInv, LeaveInv, CallsInv, TryingInv DEF ShellRuns, Tasks
  <2>5. CASE User
    BY <1>2, <2>5, CallsInv, SetupInv DEF User
  <2>6. CASE Trying("loop") \/ Trying("timer")
    BY <1>2, <2>6, TryingInv DEF Tasks
  <2>7. QED
    BY <1>2, <2>1, <2>2, <2>3, <2>4, <2>5, <2>6 DEF Next
<1>3. QED
  BY <1>1, <1>2

(* The invariant holds in every state the manager reaches.                 *)
THEOREM Invariant == Spec => []IInv
<1>1. QED
  BY InitIInv, NextIInv, PTL DEF Spec

(* Every variable keeps to its type: the indices stay inside the table and *)
(* the count of failures below its size (wifi_manager.c:141-162).          *)
THEOREM TypeCorrect == Spec => []TypeOK
<1>1. IInv => TypeOK
  BY DEF IInv
<1>2. QED
  BY <1>1, Invariant, PTL

(* No attempt is made for a row that was never written, in whatever order  *)
(* the shell's copy, the loop's advance and the timer's retry interleave   *)
(* (wifi_manager.c:116, 148, 266).                                         *)
THEOREM AttemptsAreForNetworks == Spec => []NeverBlank
<1>1. IInv => NeverBlank
  BY DEF IInv
<1>2. QED
  BY <1>1, Invariant, PTL

(* A manager that says CONNECTED has a link, or is about to hear that it   *)
(* has not (wifi_manager.c:173-191).                                       *)
THEOREM ConnectedIsTrue == Spec => []ConnectedIsUp
<1>1. IInv => ConnectedIsUp
  BY DEF IInv
<1>2. QED
  BY <1>1, Invariant, PTL

(* Who moves, and to where, while the manager is parked.                   *)
Decides(t) == parked /\ parked' /\ at[t] = "rest" => at'[t] \notin {"try", "join", "drop"}

LEMMA DecidesStep == IInv /\ [Next]_vars => \A t \in Tasks : Decides(t)
<1> SUFFICES ASSUME IInv, [Next]_vars, NEW t \in Tasks, parked, parked', at[t] = "rest"
             PROVE  at'[t] \notin {"try", "join", "drop"}
  BY DEF Decides
<1>1. at \in [Tasks -> Places]
  BY DEF IInv, TypeOK
<1>2. CASE UNCHANGED at
  BY <1>2
<1>3. CASE StaStart \/ StaDisconnected \/ Retry
  BY <1>1, <1>3 DEF StaStart, StaDisconnected, Retry, Handle, Goto, Tasks
<1>4. CASE LinkLost \/ Advance \/ AdvanceStore
  <2>1. at["loop"] # "rest" /\ \A u \in Tasks \ {"loop"} : at'[u] = at[u]
    BY <1>1, <1>4 DEF LinkLost, Advance, AdvanceStore, Goto, Tasks
  <2>2. QED
    BY <2>1
<1>5. ASSUME NEW u \in Tasks, Trying(u) PROVE at'[t] = at[t]
  BY <1>1, <1>5 DEF Trying, Choose, Connect, Goto
<1>6. CASE Leave \/ Park("wifiprov") \/ Park("import") \/ ProvCancel
  BY <1>1, <1>6 DEF Leave, Park, ProvCancel, Goto, Tasks
<1>7. CASE Reset
  BY <1>7 DEF Reset
<1>8. CASE Reconnect \/ Lock \/ Unlock \/ ProvDone \/ ProvCancelled \/ ImportExit
  <2>1. \/ UNCHANGED at
        \/ \E p \in {"rest", "reset"} : at' = [at EXCEPT !["shell"] = p]
    BY <1>8 DEF Reconnect, Lock, Unlock, ProvDone, ProvCancelled, ImportExit, Kick, NoKick, Copy, Goto
  <2>2. QED
    BY <1>1, <2>1 DEF Tasks
<1>9. CASE Radio \/ GotIp \/ ProvSuccess \/ ProvFail \/ (\E n \in Nets : PhoneSends(n)) \/ UNCHANGED vars
  <2>1. UNCHANGED at
    BY <1>9 DEF Radio, JoinOk, JoinFail, LinkDrops, GotIp, ProvSuccess, ProvFail, PhoneSends
  <2>2. QED
    BY <2>1
<1>10. QED
  BY <1>3, <1>4, <1>5, <1>6, <1>7, <1>8, <1>9
     DEF Next, Radio, Handlers, ShellRuns, User, Tasks

(* Once the manager is parked no task decides on a new attempt: the setup  *)
(* screens have the radio to themselves (wifi_manager.c:141, 168).         *)
THEOREM ParkedIsQuiet == Spec => ParkedDecidesNothing
<1>1. IInv /\ [Next]_vars => [\A t \in Tasks : parked /\ parked' /\ at[t] = "rest"
                                => at'[t] \notin {"try", "join", "drop"}]_vars
  BY DecidesStep DEF Decides
<1>2. QED
  BY <1>1, Invariant, PTL DEF Spec, ParkedDecidesNothing
=============================================================================
