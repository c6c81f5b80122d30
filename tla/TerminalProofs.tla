---------------------------- MODULE TerminalProofs ----------------------------
(***************************************************************************)
(* Proofs about modules Terminal and TerminalScreen, for any size of the   *)
(* screen and of the history, any lines and any counts: the rings show     *)
(* what a plain grid and a plain list would, a flush misses no row, and    *)
(* output does not move the view. The heart of it is what n pushes to the  *)
(* scrollback ring leave in it, by induction on n.                         *)
(***************************************************************************)
EXTENDS TerminalScreen, SequenceTheorems, WellFoundedInduction, TLAPS

-----------------------------------------------------------------------------
(* Induction, as a fact about sets of naturals.                            *)

LEMMA LeastNat ==
  ASSUME NEW T \in SUBSET Nat, T # {}
  PROVE  \E n \in T : \A m \in T : n <= m
<1>. DEFINE R == OpToRel(<, Nat)
<1>1. \A m, n \in Nat : m < n => <<m, n>> \in R
  BY Zenon DEF OpToRel
<1>2. IsWellFoundedOn(R, Nat)
  BY NatLessThanWellFounded, Zenon
<1>. HIDE DEF R
<1>3. \E n \in T : \A m \in T : ~ (<<m, n>> \in R)
  BY <1>2, WFMin
<1>4. PICK n \in T : \A m \in T : ~ (<<m, n>> \in R)
  BY <1>3
<1>5. ASSUME NEW m \in T PROVE n <= m
  <2>1. m \in Nat /\ n \in Nat
    OBVIOUS
  <2>2. ~ (m < n)
    BY <1>1, <1>4, <2>1, Zenon
  <2>. QED
    BY <2>1, <2>2
<1>. QED
  BY <1>5

LEMMA Stepwise ==
  ASSUME NEW T \in SUBSET Nat, 0 \in T, \A k \in Nat : k \in T => k + 1 \in T
  PROVE  T = Nat
<1>. SUFFICES ASSUME Nat \ T # {} PROVE FALSE
  OBVIOUS
<1>1. PICK n \in Nat \ T : \A m \in Nat \ T : n <= m
  BY LeastNat
<1>2. n # 0 /\ n - 1 \in Nat
  BY <1>1
<1>3. n - 1 \in T
  BY <1>1, <1>2
<1>. QED
  BY <1>1, <1>2, <1>3

USE TerminalAssumption DEF TerminalAssumption
USE DEF Row, Slots, Nothing, grid, back, region

-----------------------------------------------------------------------------
(* Rings of rows.                                                          *)

LEMMA PhysRow == ASSUME NEW b \in Row, NEW r \in Row PROVE Phys(b, r) \in Row
  BY DEF Phys, Wrapped

LEMMA AtType ==
  ASSUME NEW c \in [Row -> Lines], NEW b \in Row, NEW r \in Row PROVE At(c, b, r) \in Lines
  BY PhysRow DEF At

LEMMA LogicalRow ==
  \A c, b : /\ \A r \in Row : Logical(c, b)[r] = At(c, b, r)
            /\ Logical(c, b) = [r \in Row |-> Logical(c, b)[r]]
  BY DEF Logical

\* Writing logical rows changes those rows and no other.
LEMMA WrittenRows ==
  ASSUME NEW c \in [Row -> Lines], NEW b \in Row, NEW new,
         \A r \in Row : r \in DOMAIN new => new[r] \in Lines
  PROVE  /\ Written(c, b, new) \in [Row -> Lines]
         /\ \A r \in Row : At(Written(c, b, new), b, r)
                             = IF r \in DOMAIN new THEN new[r] ELSE At(c, b, r)
<1>1. \A p \in Row : Wrapped(p - b, Rows) \in Row
  BY DEF Wrapped
<1>2. \A r \in Row : Phys(b, r) \in Row /\ Wrapped(Phys(b, r) - b, Rows) = r
  BY DEF Phys, Wrapped
<1>3. Written(c, b, new) \in [Row -> Lines]
  BY <1>1 DEF Written
<1>4. ASSUME NEW r \in Row
      PROVE  At(Written(c, b, new), b, r) = IF r \in DOMAIN new THEN new[r] ELSE At(c, b, r)
  BY <1>2 DEF At, Written
<1>. QED
  BY <1>3, <1>4

-----------------------------------------------------------------------------
(* sb_push_row, n times.                                                   *)

Start == [sb |-> sb, len |-> len, head |-> head, off |-> off]
Longer(s) == IF s.len < Max THEN s.len + 1 ELSE s.len
Pushed(s, k) ==
  [sb |-> [s.sb EXCEPT ![s.head] = At(cells, base, k - 1)],
   head |-> IF s.head + 1 >= Max THEN 0 ELSE s.head + 1,
   len |-> Longer(s),
   off |-> IF s.off > 0 /\ s.off < Longer(s) THEN s.off + 1 ELSE s.off]

Pushing(f, n) == f = [k \in 0 .. n |-> IF k = 0 THEN Start ELSE Pushed(f[k - 1], k)]

LEMMA PushingExists == \A n \in Nat : \E f : Pushing(f, n)
<1>. DEFINE T == {n \in Nat : \E f : Pushing(f, n)}
<1>1. 0 \in T
  <2>1. Pushing([k \in 0 .. 0 |-> Start], 0)
    BY DEF Pushing
  <2>. QED
    BY <2>1
<1>2. ASSUME NEW m \in Nat, m \in T PROVE m + 1 \in T
  <2>1. PICK f : Pushing(f, m)
    BY <1>2
  <2>. DEFINE g == [k \in 0 .. m + 1 |-> IF k = m + 1 THEN Pushed(f[m], k) ELSE f[k]]
  <2>2. Pushing(g, m + 1)
    <3>1. ASSUME NEW k \in 0 .. m + 1
          PROVE  g[k] = IF k = 0 THEN Start ELSE Pushed(g[k - 1], k)
      <4>. HIDE DEF g
      <4>1. CASE k = m + 1
        BY <4>1 DEF g
      <4>2. CASE k # m + 1
        BY <2>1, <4>2 DEF g, Pushing
      <4>. QED
        BY <4>1, <4>2
    <3>2. g = [k \in 0 .. m + 1 |-> g[k]]
      OBVIOUS
    <3>. QED
      BY <3>1, <3>2 DEF Pushing
  <2>3. \E h : Pushing(h, m + 1)
    BY <2>2
  <2>. QED
    BY <2>3
<1>3. T = Nat
  <2>. HIDE DEF T
  <2>1. T \in SUBSET Nat
    BY DEF T
  <2>. QED
    BY <1>1, <1>2, <2>1, Stepwise
<1>. QED
  BY <1>3

LEMMA PushIs == ASSUME NEW n \in Nat PROVE \E f : Pushing(f, n) /\ Push(n) = f[n]
<1>. DEFINE S == CHOOSE f : Pushing(f, n)
<1>1. Pushing(S, n)
  BY PushingExists
<1>2. Push(n) = S[n]
  BY DEF Push, Start, Longer, Pushed, Pushing
<1>. QED
  BY <1>1, <1>2

\* How much is kept after k pushes, and the j-th line ever pushed.
Kept(k) == IF len + k < Max THEN len + k ELSE Max
Nth(j) == IF j <= len THEN Line(j) ELSE At(cells, base, j - len - 1)

(* After k pushes the ring holds the newest lines, in order, and the       *)
(* offset has grown only if it was not zero.                               *)
AfterPushes(s, k) ==
  /\ s.sb \in [Slots -> Lines] /\ s.head \in Slots /\ s.len = Kept(k)
  /\ s.off \in off .. Max /\ (s.off > 0 => off > 0)
  /\ \A i \in 1 .. Kept(k) :
       s.sb[Wrapped(s.head - Kept(k) + i - 1, Max)] = Nth(len + k - Kept(k) + i)

LEMMA OnePush ==
  ASSUME TypeOK, NEW k \in Row, NEW s, AfterPushes(s, k)
  PROVE  AfterPushes(Pushed(s, k + 1), k + 1)
<1>. DEFINE t == Pushed(s, k + 1)
            row == At(cells, base, k)
<1>1. /\ s.sb \in [Slots -> Lines] /\ s.head \in Slots /\ s.len = Kept(k)
      /\ s.off \in off .. Max /\ (s.off > 0 => off > 0)
  BY DEF AfterPushes
<1>2. len \in 0 .. Max /\ off \in 0 .. Max /\ Max \in Nat \ {0} /\ k \in Nat
  BY DEF TypeOK
<1>3. row \in Lines
  BY AtType DEF TypeOK
<1>4. Kept(k) \in 0 .. Max /\ Kept(k + 1) = IF Kept(k) < Max THEN Kept(k) + 1 ELSE Max
  BY <1>2 DEF Kept
<1>5. Longer(s) = Kept(k + 1)
  BY <1>1, <1>2, <1>4 DEF Longer
<1>6. /\ t.sb = [s.sb EXCEPT ![s.head] = row]
      /\ t.head = IF s.head + 1 >= Max THEN 0 ELSE s.head + 1
      /\ t.len = Kept(k + 1)
      /\ t.off = IF s.off > 0 /\ s.off < Kept(k + 1) THEN s.off + 1 ELSE s.off
  BY <1>2, <1>5 DEF Pushed
<1>. HIDE DEF t, row
<1>7. t.sb \in [Slots -> Lines] /\ t.head \in Slots
  BY <1>1, <1>2, <1>3, <1>6
<1>8. t.off \in off .. Max /\ (t.off > 0 => off > 0)
  BY <1>1, <1>2, <1>4, <1>6
<1>9. ASSUME NEW i \in 1 .. Kept(k + 1)
      PROVE  t.sb[Wrapped(t.head - Kept(k + 1) + i - 1, Max)] = Nth(len + (k + 1) - Kept(k + 1) + i)
  <2>0. i \in 1 .. Max
    BY <1>2, <1>4
  <2>1. CASE i = Kept(k + 1)
    <3>1. Wrapped(t.head - Kept(k + 1) + i - 1, Max) = s.head
      <4>1. t.head - Kept(k + 1) + i - 1 = t.head - 1
        BY <1>4, <1>7, <2>0, <2>1
      <4>2. Wrapped(t.head - 1, Max) = s.head
        BY <1>1, <1>6 DEF Wrapped
      <4>. QED
        BY <4>1, <4>2
    <3>2. t.sb[s.head] = row
      BY <1>1, <1>6
    <3>3. Nth(len + (k + 1) - Kept(k + 1) + i) = row
      BY <1>2, <1>4, <2>1 DEF Nth, row
    <3>. QED
      BY <3>1, <3>2, <3>3
  <2>2. CASE i # Kept(k + 1)
    <3>. DEFINE j == IF Kept(k) < Max THEN i ELSE i + 1
    <3>1. j \in 1 .. Kept(k) /\ i < Kept(k + 1)
      BY <1>4, <2>2
    <3>. HIDE DEF AfterPushes
    <3>2. /\ Wrapped(t.head - Kept(k + 1) + i - 1, Max) = Wrapped(s.head - Kept(k) + j - 1, Max)
          /\ Wrapped(s.head - Kept(k) + j - 1, Max) \in Slots \ {s.head}
      <4>. DEFINE kept == Kept(k)  kept1 == Kept(k + 1)  h1 == t.head  h == s.head
      <4>1. /\ h \in Slots /\ kept \in 0 .. Max /\ h1 = IF h + 1 >= Max THEN 0 ELSE h + 1
            /\ kept1 = (IF kept < Max THEN kept + 1 ELSE Max) /\ i < kept1
            /\ j = IF kept < Max THEN i ELSE i + 1
        BY <1>1, <1>4, <1>6, <3>1
      <4>. HIDE DEF kept, kept1, h, h1, j
      <4>2. /\ Wrapped(h1 - kept1 + i - 1, Max) = Wrapped(h - kept + j - 1, Max)
            /\ Wrapped(h - kept + j - 1, Max) \in Slots \ {h}
        BY <2>0, <4>1 DEF Wrapped
      <4>. QED
        BY <4>2 DEF kept, kept1, h, h1
    <3>3. s.sb[Wrapped(s.head - Kept(k) + j - 1, Max)] = Nth(len + k - Kept(k) + j)
      BY <3>1 DEF AfterPushes
    <3>4. len + k - Kept(k) + j = len + (k + 1) - Kept(k + 1) + i
      BY <1>2, <1>4
    <3>. HIDE DEF j
    <3>. QED
      BY <1>1, <1>6, <3>2, <3>3, <3>4
  <2>. QED
    BY <2>1, <2>2
<1>. QED
  BY <1>6, <1>7, <1>8, <1>9 DEF AfterPushes, t

LEMMA StartPushed == ASSUME TypeOK PROVE AfterPushes(Start, 0)
<1>1. len \in 0 .. Max /\ off \in 0 .. Max /\ head \in Slots /\ sb \in [Slots -> Lines]
  BY DEF TypeOK
<1>2. Kept(0) = len
  BY <1>1 DEF Kept
<1>3. ASSUME NEW i \in 1 .. len
      PROVE  sb[Wrapped(head - len + i - 1, Max)] = Nth(len + 0 - len + i)
  BY <1>1 DEF Nth, Line
<1>. QED
  BY <1>1, <1>2, <1>3 DEF AfterPushes, Start

LEMMA PushResult == ASSUME TypeOK, NEW n \in 0 .. Rows PROVE AfterPushes(Push(n), n)
<1>1. PICK f : Pushing(f, n) /\ Push(n) = f[n]
  BY PushIs
<1>2. f[0] = Start /\ \A k \in 1 .. n : f[k] = Pushed(f[k - 1], k)
  BY <1>1 DEF Pushing
<1>. DEFINE T == {k \in Nat : k <= n => AfterPushes(f[k], k)}
<1>3. 0 \in T
  BY <1>2, StartPushed
<1>4. ASSUME NEW k \in Nat, k \in T PROVE k + 1 \in T
  <2>. SUFFICES ASSUME k + 1 <= n PROVE AfterPushes(f[k + 1], k + 1)
    OBVIOUS
  <2>1. k \in Row /\ AfterPushes(f[k], k)
    BY <1>4
  <2>2. f[k + 1] = Pushed(f[k], k + 1)
    BY <1>2
  <2>. QED
    BY <2>1, <2>2, OnePush
<1>5. T = Nat
  <2>. HIDE DEF T
  <2>1. T \in SUBSET Nat
    BY DEF T
  <2>. QED
    BY <1>3, <1>4, <2>1, Stepwise
<1>. QED
  BY <1>1, <1>5

-----------------------------------------------------------------------------
(* What a scroll leaves in the history.                                    *)

\* The history after k pushes is what a list keeps of it and of k rows more.
LEMMA HistoryPushed ==
  ASSUME TypeOK, NEW k \in 0 .. Rows, NEW s, AfterPushes(s, k),
         NEW rows, rows = [i \in 1 .. k |-> At(cells, base, i - 1)]
  PROVE  [i \in 1 .. s.len |-> s.sb[Wrapped(s.head - s.len + i - 1, Max)]]
           = Shown!Newest(History \o rows)
<1>1. len \in 0 .. Max /\ head \in Slots /\ sb \in [Slots -> Lines]
  BY DEF TypeOK
<1>2. \A i \in 1 .. len : Line(i) \in Lines
  BY <1>1 DEF Line, Wrapped
<1>3. History \in Seq(Lines) /\ Len(History) = len /\ \A i \in 1 .. len : History[i] = Line(i)
  BY <1>1, <1>2 DEF History
<1>4. \A i \in 1 .. k : At(cells, base, i - 1) \in Lines
  BY AtType DEF TypeOK
<1>5. rows \in Seq(Lines) /\ Len(rows) = k /\ \A i \in 1 .. k : rows[i] = At(cells, base, i - 1)
  BY <1>4
<1>. DEFINE all == History \o rows
<1>6. /\ all \in Seq(Lines) /\ Len(all) = len + k
      /\ \A j \in 1 .. len + k : all[j] = Nth(j)
  <2>1. /\ all \in Seq(Lines) /\ Len(all) = len + k
        /\ \A j \in 1 .. len + k : all[j] = IF j <= len THEN History[j] ELSE rows[j - len]
    <3>1. History \in Seq(Lines) /\ rows \in Seq(Lines) /\ Len(History) = len /\ Len(rows) = k
      BY <1>3, <1>5
    <3>2. History \o rows \in Seq(Lines)
      BY <3>1, ConcatProperties
    <3>3. Len(History \o rows) = len + k
      BY <3>1, ConcatProperties
    <3>4. \A j \in 1 .. len + k : (History \o rows)[j] = IF j <= len THEN History[j] ELSE rows[j - len]
      BY <3>1, ConcatProperties
    <3>. QED
      BY <3>2, <3>3, <3>4
  <2>. HIDE DEF all
  <2>2. ASSUME NEW j \in 1 .. len + k PROVE all[j] = Nth(j)
    <3>1. CASE j <= len
      <4>1. j \in 1 .. len
        BY <1>1, <3>1
      <4>2. all[j] = History[j]
        BY <2>1, <3>1
      <4>. QED
        BY <1>3, <3>1, <4>1, <4>2, Zenon DEF Nth
    <3>2. CASE ~(j <= len)
      <4>1. j - len \in 1 .. k /\ j - len - 1 = (j - len) - 1
        BY <1>1, <3>2
      <4>. QED
        BY <1>5, <2>1, <3>2, <4>1 DEF Nth
    <3>. QED
      BY <3>1, <3>2
  <2>. QED
    BY <2>1, <2>2
<1>. HIDE DEF all
<1>7. s.len = Kept(k) /\ \A i \in 1 .. Kept(k) :
        s.sb[Wrapped(s.head - Kept(k) + i - 1, Max)] = Nth(len + k - Kept(k) + i)
  BY DEF AfterPushes
<1>8. CASE len + k <= Max
  <2>1. Kept(k) = len + k
    BY <1>1, <1>8 DEF Kept
  <2>2. Shown!Newest(all) = all /\ all = [i \in 1 .. len + k |-> all[i]]
    BY <1>6, <1>8 DEF Shown!Newest
  <2>3. \A i \in 1 .. len + k : len + k - Kept(k) + i = i
    BY <1>1, <2>1
  <2>. QED
    BY <1>6, <1>7, <2>1, <2>2, <2>3 DEF all
<1>9. CASE ~(len + k <= Max)
  <2>1. Kept(k) = Max
    BY <1>1, <1>9 DEF Kept
  <2>. DEFINE m == len + k - Max + 1
  <2>2. Shown!Newest(all) = SubSeq(all, m, len + k)
    <3>1. Len(all) = len + k /\ ~(Len(all) <= Max)
      BY <1>6, <1>9
    <3>2. Shown!Newest(all) = SubSeq(all, Len(all) - Max + 1, Len(all))
      BY <3>1, Zenon DEF Shown!Newest
    <3>3. m = Len(all) - Max + 1
      BY <1>1, <3>1
    <3>. HIDE DEF m
    <3>. QED
      BY <3>1, <3>2, <3>3
  <2>3. m \in 1 .. len + k /\ len + k - m + 1 = Max /\ m \in Int /\ len + k \in Int
    BY <1>1, <1>9
  <2>4. \A j \in m .. len + k : all[j] \in Lines
    BY <1>1, <1>6, <2>3
  <2>5. /\ SubSeq(all, m, len + k) \in Seq(Lines)
        /\ Len(SubSeq(all, m, len + k)) = Max
        /\ \A i \in 1 .. Max : SubSeq(all, m, len + k)[i] = all[m + i - 1]
    <3>. DEFINE e == len + k
    <3>0. m \in Int /\ e \in Int /\ m <= e /\ e - m + 1 = Max
      BY <1>1, <2>3
    <3>1. \A j \in m .. e : all[j] \in Lines
      BY <2>4, Zenon
    <3>. HIDE DEF m, e
    <3>2. /\ SubSeq(all, m, e) \in Seq(Lines)
          /\ Len(SubSeq(all, m, e)) = IF m <= e THEN e - m + 1 ELSE 0
          /\ \A i \in 1 .. e - m + 1 : SubSeq(all, m, e)[i] = all[m + i - 1]
      BY <3>0, <3>1, SubSeqProperties
    <3>. QED
      BY <3>0, <3>2 DEF e
  <2>6. \A i \in 1 .. Max : /\ m + i - 1 = len + k - Max + i
                            /\ len + k - Max + i \in 1 .. len + k
    BY <1>1, <1>9
  <2>. DEFINE last == SubSeq(all, m, len + k)
  <2>. HIDE DEF last, m
  <2>7. last = [i \in 1 .. Max |-> last[i]]
    <3>1. last \in [1 .. Max -> Lines]
      BY <2>5, LenProperties DEF last
    <3>. QED
      BY <3>1
  <2>8. \A i \in 1 .. Max : last[i] = Nth(len + k - Max + i)
    <3>1. ASSUME NEW i \in 1 .. Max PROVE last[i] = Nth(len + k - Max + i)
      <4>1. last[i] = all[m + i - 1]
        BY <2>5 DEF last
      <4>2. m + i - 1 = len + k - Max + i /\ len + k - Max + i \in 1 .. len + k
        BY <2>6
      <4>. QED
        BY <1>6, <4>1, <4>2, Zenon
    <3>. QED
      BY <3>1
  <2>9. \A i \in 1 .. Max : s.sb[Wrapped(s.head - Max + i - 1, Max)] = last[i]
    BY <1>7, <2>1, <2>8
  <2>10. [i \in 1 .. s.len |-> s.sb[Wrapped(s.head - s.len + i - 1, Max)]] = last
    BY <1>7, <2>1, <2>7, <2>9
  <2>. QED
    BY <2>2, <2>10 DEF all, last
<1>. QED
  BY <1>8, <1>9

\* Evict makes of the ring what Screen!Evict makes of the list.
LEMMA EvictHistory ==
  ASSUME TypeOK, NEW t, NEW b, NEW n \in Nat, Evict(t, b, n)
  PROVE  Shown!Evict(t, b, n)
<1>. DEFINE k == IF n < Rows THEN n ELSE Rows
<1>1. k \in 0 .. Rows
  OBVIOUS
<1>2. CASE ~alt /\ t = 0 /\ b = Rows - 1
  <2>1. Shown!Leaving(t, b, n) = [i \in 1 .. k |-> Logical(cells, base)[i - 1]]
    BY <1>2 DEF Shown!Leaving
  <2>2. [i \in 1 .. k |-> Logical(cells, base)[i - 1]] = [i \in 1 .. k |-> At(cells, base, i - 1)]
    <3>1. \A i \in 1 .. k : i - 1 \in Row
      BY <1>1
    <3>. HIDE DEF k
    <3>2. \A i \in 1 .. k : Logical(cells, base)[i - 1] = At(cells, base, i - 1)
      BY <3>1, LogicalRow
    <3>. QED
      BY <3>2
  <2>3. sb' = Push(k).sb /\ len' = Push(k).len /\ head' = Push(k).head
    BY <1>2 DEF Evict
  <2>. HIDE DEF k
  <2>4. AfterPushes(Push(k), k)
    BY <1>1, PushResult
  <2>5. History' = [i \in 1 .. Push(k).len
                      |-> Push(k).sb[Wrapped(Push(k).head - Push(k).len + i - 1, Max)]]
    BY <2>3 DEF History, Line
  <2>. DEFINE s == Push(k)
              rows == [i \in 1 .. k |-> At(cells, base, i - 1)]
  <2>6. Shown!Leaving(t, b, n) = rows /\ AfterPushes(s, k)
        /\ History' = [i \in 1 .. s.len |-> s.sb[Wrapped(s.head - s.len + i - 1, Max)]]
    BY <2>1, <2>2, <2>4, <2>5
  <2>7. rows = [i \in 1 .. k |-> At(cells, base, i - 1)]
    OBVIOUS
  <2>. HIDE DEF s, rows
  <2>8. History' = Shown!Newest(History \o rows)
    BY <1>1, <2>6, <2>7, HistoryPushed
  <2>. QED
    BY <2>6, <2>8 DEF Shown!Evict
<1>3. CASE ~(~alt /\ t = 0 /\ b = Rows - 1)
  <2>1. Shown!Leaving(t, b, n) = << >>
    BY <1>3 DEF Shown!Leaving
  <2>2. History' = History
    BY <1>3 DEF Evict, History, Line
  <2>3. len \in 0 .. Max /\ \A i \in 1 .. len : Line(i) \in Lines
    BY DEF TypeOK, Line, Wrapped
  <2>4. History \in Seq(Lines) /\ Len(History) = len
    BY <2>3 DEF History
  <2>5. History \o << >> = History
    BY <2>4, ConcatEmptySeq
  <2>. QED
    BY <2>1, <2>2, <2>3, <2>4, <2>5 DEF Shown!Newest, Shown!Evict
<1>. QED
  BY <1>2, <1>3

\* What a scroll leaves of the ring, and of the offset.
LEMMA EvictType ==
  ASSUME TypeOK, NEW t, NEW b, NEW n \in Nat, Evict(t, b, n), hold = Nothing
  PROVE  /\ sb' \in [Slots -> Lines] /\ len' \in 0 .. Max /\ head' \in Slots
         /\ hold' = Nothing \/ (off > 0 /\ hold' \in off .. Max)
<1>. DEFINE k == IF n < Rows THEN n ELSE Rows
<1>1. k \in 0 .. Rows
  OBVIOUS
<1>2. CASE ~alt /\ t = 0 /\ b = Rows - 1
  <2>1. /\ sb' = Push(k).sb /\ len' = Push(k).len /\ head' = Push(k).head
        /\ hold' = IF Push(k).off # off THEN Push(k).off ELSE Nothing
    BY <1>2 DEF Evict
  <2>. HIDE DEF k
  <2>2. AfterPushes(Push(k), k)
    BY <1>1, PushResult
  <2>3. Kept(k) \in 0 .. Max
    BY <1>1 DEF Kept, TypeOK
  <2>. QED
    BY <2>1, <2>2, <2>3 DEF AfterPushes, TypeOK
<1>3. CASE ~(~alt /\ t = 0 /\ b = Rows - 1)
  BY <1>3 DEF Evict, TypeOK
<1>. QED
  BY <1>2, <1>3

-----------------------------------------------------------------------------
(* What each function leaves of the rows, seen from the top.               *)

LEMMA IntoRows ==
  ASSUME TypeOK, NEW new, Into(new), base' = base,
         \A r \in Row : r \in DOMAIN new => new[r] \in Lines
  PROVE  /\ cells' \in [Row -> Lines]
         /\ \A r \in Row : At(cells', base', r)
                             = IF r \in DOMAIN new THEN new[r] ELSE At(cells, base, r)
  BY WrittenRows DEF Into, TypeOK

LEMMA ShiftUpRows ==
  ASSUME TypeOK, NEW t \in Row, NEW b \in Row, t <= b, NEW n \in Nat \ {0}, NEW line \in Lines,
         ShiftUp(t, b, n, line)
  PROVE  /\ cells' \in [Row -> Lines] /\ base' \in Row
         /\ \A r \in Row : At(cells', base', r)
              = IF r \notin t .. b THEN At(cells, base, r)
                ELSE IF r = b THEN line
                ELSE IF r + n <= b THEN At(cells, base, r + n)
                ELSE Blank
<1>1. cells \in [Row -> Lines] /\ base \in Row
  BY DEF TypeOK
<1>2. \A r \in Row : At(cells, base, r) \in Lines
  BY <1>1, AtType
<1>3. CASE n > b - t
  <2>. DEFINE new == [r \in t .. b |-> IF r = b THEN line ELSE Blank]
  <2>1. base' = base /\ Into(new)
    BY <1>3 DEF ShiftUp
  <2>2. DOMAIN new = t .. b /\ \A r \in t .. b : new[r] = IF r = b THEN line ELSE Blank
    OBVIOUS
  <2>. HIDE DEF new
  <2>3. \A r \in Row : At(cells', base', r)
                         = IF r \in t .. b THEN new[r] ELSE At(cells, base, r)
    BY <2>1, <2>2, IntoRows
  <2>4. \A r \in t .. b : ~(r + n <= b)
    BY <1>3
  <2>. QED
    BY <1>1, <2>1, <2>2, <2>3, <2>4, IntoRows
<1>4. CASE ~(n > b - t) /\ t = 0 /\ b = Rows - 1
  <2>. DEFINE new == [r \in b - n + 1 .. b |-> IF r = b THEN line ELSE Blank]
  <2>1. base' = Wrapped(base + n, Rows) /\ cells' = Written(cells, base', new)
    BY <1>4 DEF ShiftUp
  <2>2. /\ DOMAIN new = b - n + 1 .. b
        /\ \A r \in b - n + 1 .. b : new[r] = IF r = b THEN line ELSE Blank
    OBVIOUS
  <2>. HIDE DEF new
  <2>3. n \in Row
    BY <1>4
  <2>4. base' \in Row /\ \A r \in Row : r + n \in Row => At(cells, base', r) = At(cells, base, r + n)
    <3>1. /\ Wrapped(base + n, Rows) \in Row
          /\ \A r \in Row : r + n \in Row
               => At(cells, Wrapped(base + n, Rows), r) = At(cells, base, r + n)
      BY <1>1, <2>3 DEF Wrapped, At, Phys
    <3>. QED
      BY <2>1, <3>1
  <2>5. /\ cells' \in [Row -> Lines]
        /\ \A r \in Row : At(cells', base', r)
                            = IF r \in DOMAIN new THEN new[r] ELSE At(cells, base', r)
    <3>1. base' \in Row
      BY <2>4
    <3>2. \A r \in Row : r \in DOMAIN new => new[r] \in Lines
      BY <2>2 DEF TypeOK
    <3>3. /\ Written(cells, base', new) \in [Row -> Lines]
          /\ \A r \in Row : At(Written(cells, base', new), base', r)
                              = IF r \in DOMAIN new THEN new[r] ELSE At(cells, base', r)
      BY <1>1, <3>1, <3>2, WrittenRows
    <3>. QED
      BY <2>1, <3>3
  <2>6. ASSUME NEW r \in Row
        PROVE  At(cells', base', r) = IF r = b THEN line
                                      ELSE IF r + n <= b THEN At(cells, base, r + n)
                                      ELSE Blank
    <3>1. r \in t .. b /\ (r \in DOMAIN new <=> ~(r + n <= b)) /\ (r + n <= b => r + n \in Row)
      BY <1>4, <2>2, <2>3
    <3>. QED
      BY <2>2, <2>3, <2>4, <2>5, <3>1
  <2>. QED
    BY <1>4, <2>4, <2>5, <2>6
<1>5. CASE ~(n > b - t) /\ ~(t = 0 /\ b = Rows - 1)
  <2>. DEFINE new == [r \in t .. b |-> IF r = b THEN line
                                       ELSE IF r + n <= b THEN At(cells, base, r + n) ELSE Blank]
  <2>1. base' = base /\ Into(new)
    BY <1>5 DEF ShiftUp
  <2>2. /\ DOMAIN new = t .. b
        /\ \A r \in t .. b : new[r] = IF r = b THEN line
                                      ELSE IF r + n <= b THEN At(cells, base, r + n) ELSE Blank
    OBVIOUS
  <2>. HIDE DEF new
  <2>3. \A r \in t .. b : new[r] \in Lines
    BY <1>2, <2>2
  <2>. QED
    BY <1>1, <2>1, <2>2, <2>3, IntoRows
<1>. QED
  BY <1>3, <1>4, <1>5

LEMMA ScrollDownRows ==
  ASSUME TypeOK, NEW t \in Row, NEW b \in Row, t <= b, NEW n \in Nat \ {0}, ScrollDown(t, b, n)
  PROVE  /\ cells' \in [Row -> Lines] /\ base' \in Row
         /\ \A r \in Row : At(cells', base', r)
              = IF r \notin t .. b THEN At(cells, base, r)
                ELSE IF r >= t + n THEN At(cells, base, r - n)
                ELSE Blank
<1>1. cells \in [Row -> Lines] /\ base \in Row
  BY DEF TypeOK
<1>2. \A r \in Row : At(cells, base, r) \in Lines
  BY <1>1, AtType
<1>3. CASE n > b - t
  <2>. DEFINE new == Erased(t, b)
  <2>1. base' = base /\ Into(new)
    BY <1>3 DEF ScrollDown
  <2>2. DOMAIN new = t .. b /\ \A r \in t .. b : new[r] = Blank
    BY DEF Erased
  <2>. HIDE DEF new
  <2>3. \A r \in t .. b : ~(r >= t + n)
    BY <1>3
  <2>. QED
    BY <1>1, <2>1, <2>2, <2>3, IntoRows
<1>4. CASE ~(n > b - t) /\ t = 0 /\ b = Rows - 1
  <2>. DEFINE new == Erased(t, t + n - 1)
  <2>1. base' = Wrapped(base - n, Rows) /\ cells' = Written(cells, base', new)
    BY <1>4 DEF ScrollDown
  <2>2. DOMAIN new = t .. t + n - 1 /\ \A r \in t .. t + n - 1 : new[r] = Blank
    BY DEF Erased
  <2>. HIDE DEF new
  <2>3. n \in Row
    BY <1>4
  <2>4. base' \in Row /\ \A r \in Row : r - n \in Row => At(cells, base', r) = At(cells, base, r - n)
    <3>1. /\ Wrapped(base - n, Rows) \in Row
          /\ \A r \in Row : r - n \in Row
               => At(cells, Wrapped(base - n, Rows), r) = At(cells, base, r - n)
      BY <1>1, <2>3 DEF Wrapped, At, Phys
    <3>. QED
      BY <2>1, <3>1
  <2>5. /\ cells' \in [Row -> Lines]
        /\ \A r \in Row : At(cells', base', r)
                            = IF r \in DOMAIN new THEN new[r] ELSE At(cells, base', r)
    <3>1. base' \in Row
      BY <2>4
    <3>2. \A r \in Row : r \in DOMAIN new => new[r] \in Lines
      BY <2>2 DEF TypeOK
    <3>3. /\ Written(cells, base', new) \in [Row -> Lines]
          /\ \A r \in Row : At(Written(cells, base', new), base', r)
                              = IF r \in DOMAIN new THEN new[r] ELSE At(cells, base', r)
      BY <1>1, <3>1, <3>2, WrittenRows
    <3>. QED
      BY <2>1, <3>3
  <2>6. ASSUME NEW r \in Row
        PROVE  At(cells', base', r) = IF r >= t + n THEN At(cells, base, r - n) ELSE Blank
    <3>1. r \in t .. b /\ (r \in DOMAIN new <=> ~(r >= t + n)) /\ (r >= t + n => r - n \in Row)
      BY <1>4, <2>2, <2>3
    <3>. QED
      BY <2>2, <2>3, <2>4, <2>5, <3>1
  <2>. QED
    BY <1>4, <2>4, <2>5, <2>6
<1>5. CASE ~(n > b - t) /\ ~(t = 0 /\ b = Rows - 1)
  <2>. DEFINE new == [r \in t .. b |-> IF r >= t + n THEN At(cells, base, r - n) ELSE Blank]
  <2>1. base' = base /\ Into(new)
    BY <1>5 DEF ScrollDown
  <2>2. /\ DOMAIN new = t .. b
        /\ \A r \in t .. b : new[r] = IF r >= t + n THEN At(cells, base, r - n) ELSE Blank
    OBVIOUS
  <2>. HIDE DEF new
  <2>3. \A r \in t .. b : new[r] \in Lines
    BY <1>2, <2>2
  <2>. QED
    BY <1>1, <2>1, <2>2, <2>3, IntoRows
<1>. QED
  BY <1>3, <1>4, <1>5

-----------------------------------------------------------------------------
(* Type correctness, and what a flush must copy.                           *)

(* What every step does but an overtaken scroll: the types are kept and no *)
(* row is left behind.                                                     *)
Marks == TypeOK' /\ missed' \subseteq missed

\* The scrolls and edits of one function, which the view does not lose.
LEMMA FedRows ==
  ASSUME TypeOK, Feed, NEW rows, Marked(rows),
         cells' \in [Row -> Lines], base' \in Row, UNCHANGED <<alt, under>>,
         sb' \in [Slots -> Lines], len' \in 0 .. Max, head' \in Slots, off' = off,
         hold' = Nothing \/ (off > 0 /\ hold' \in off .. Max),
         top' \in Row, bot' \in Row, top' < bot',
         \A r \in Row \ rows : At(cells', base', r) = At(cells, base, r)
  PROVE  Marks
<1>1. hold = Nothing /\ UNCHANGED <<before, want>>
  BY DEF Feed, scroll
<1>2. hold' \in {Nothing} \union 0 .. Max
  BY DEF TypeOK
<1>3. missed' \subseteq Row
  BY DEF Marked
<1>4. TypeOK'
  BY <1>1, <1>2, <1>3 DEF TypeOK
<1>5. missed' \subseteq missed
  <2>1. CASE Offset' > 0
    BY <2>1 DEF Marked
  <2>2. CASE ~(Offset' > 0)
    <3>1. Offset = 0 /\ Offset' = 0
      BY <1>1, <2>2 DEF Offset, TypeOK
    <3>2. \A r \in Row : Seen[r] = At(cells, base, r) /\ Seen'[r] = At(cells', base', r)
      BY <3>1 DEF Seen, View
    <3>. QED
      BY <1>1, <2>2, <3>2 DEF Marked
  <2>. QED
    BY <2>1, <2>2
<1>. QED
  BY <1>4, <1>5 DEF Marks

\* The same of the functions that mark every row.
LEMMA FedAll ==
  ASSUME TypeOK, Feed, Marked(Row),
         cells' \in [Row -> Lines], base' \in Row, alt' \in BOOLEAN,
         under' \in [cells : [Row -> Lines], base : Row],
         sb' = sb, hold' = hold, len' \in 0 .. Max, head' \in Slots, off' \in 0 .. Max,
         top' \in Row, bot' \in Row, top' < bot'
  PROVE  Marks
<1>1. missed' = {} /\ UNCHANGED <<before, want>>
  BY DEF Marked, Feed, scroll
<1>. QED
  BY <1>1 DEF TypeOK, Marks

LEMMA ScrollUpMarked ==
  ASSUME TypeOK, Feed, UNCHANGED region, NEW t \in Row, NEW b \in Row, t <= b,
         NEW n \in Nat \ {0}, NEW line \in Lines,
         Evict(t, b, n), ShiftUp(t, b, n, line), UNCHANGED <<alt, under, off>>, Marked(t .. b)
  PROVE  Marks
<1>1. hold = Nothing
  BY DEF Feed
<1>2. /\ sb' \in [Slots -> Lines] /\ len' \in 0 .. Max /\ head' \in Slots
      /\ hold' = Nothing \/ (off > 0 /\ hold' \in off .. Max)
  BY <1>1, EvictType
<1>3. /\ cells' \in [Row -> Lines] /\ base' \in Row
      /\ \A r \in Row \ (t .. b) : At(cells', base', r) = At(cells, base, r)
  BY ShiftUpRows
<1>4. top' \in Row /\ bot' \in Row /\ top' < bot'
  BY DEF TypeOK
<1>. QED
  BY <1>2, <1>3, <1>4, FedRows

LEMMA ScrollDownMarked ==
  ASSUME TypeOK, Feed, UNCHANGED region, NEW t \in Row, NEW b \in Row, t <= b,
         NEW n \in Nat \ {0}, ScrollDown(t, b, n)
  PROVE  Marks
<1>1. /\ cells' \in [Row -> Lines] /\ base' \in Row
      /\ \A r \in Row \ (t .. b) : At(cells', base', r) = At(cells, base, r)
  BY ScrollDownRows
<1>2. /\ UNCHANGED <<alt, under, off, sb, len, head, hold>> /\ Marked(t .. b) /\ hold = Nothing
  BY DEF ScrollDown, Feed
<1>3. /\ top' \in Row /\ bot' \in Row /\ top' < bot'
      /\ sb' \in [Slots -> Lines] /\ len' \in 0 .. Max /\ head' \in Slots
  BY <1>2 DEF TypeOK
<1>. QED
  BY <1>1, <1>2, <1>3, FedRows

\* An edit of some rows of the grid, the view and the history kept.
LEMMA IntoMarked ==
  ASSUME TypeOK, Feed, UNCHANGED <<region, base, alt, under>>, KeepView, NEW new, Into(new),
         \A r \in Row : r \in DOMAIN new => new[r] \in Lines,
         NEW rows, rows = DOMAIN new, Marked(rows)
  PROVE  Marks
<1>1. /\ cells' \in [Row -> Lines] /\ base' \in Row
      /\ \A r \in Row \ rows : At(cells', base', r) = At(cells, base, r)
  BY IntoRows DEF TypeOK
<1>2. /\ UNCHANGED <<alt, under, off, sb, len, head, hold>> /\ hold = Nothing
  BY DEF KeepView, Feed
<1>3. /\ top' \in Row /\ bot' \in Row /\ top' < bot'
      /\ sb' \in [Slots -> Lines] /\ len' \in 0 .. Max /\ head' \in Slots
  BY <1>2 DEF TypeOK
<1>. QED
  BY <1>1, <1>2, <1>3, FedRows

LEMMA EditMarked ==
  ASSUME TypeOK, NEW r \in Row, NEW line \in Lines, EditLine(r, line) PROVE Marks
<1>. DEFINE new == [q \in {r} |-> line]
<1>1. Into(new) /\ DOMAIN new = {r} /\ \A q \in DOMAIN new : new[q] \in Lines
  BY DEF EditLine, EditRow
<1>2. Feed /\ UNCHANGED <<region, base, alt, under>> /\ KeepView /\ Marked({r})
  BY DEF EditLine, EditRow
<1>. HIDE DEF new
<1>. QED
  BY <1>1, <1>2, IntoMarked

LEMMA EraseRestMarked ==
  ASSUME TypeOK, NEW r \in Row, NEW line \in Lines, NEW gone \in SUBSET Row,
         EraseRest(r, line, gone)
  PROVE  Marks
<1>. DEFINE new == [q \in gone \union {r} |-> IF q = r THEN line ELSE Blank]
<1>1. Into(new) /\ DOMAIN new = gone \union {r} /\ \A q \in DOMAIN new : new[q] \in Lines
  BY DEF EraseRest
<1>2. Feed /\ UNCHANGED <<region, base, alt, under>> /\ KeepView /\ Marked(gone \union {r})
  BY DEF EraseRest
<1>. HIDE DEF new
<1>. QED
  BY <1>1, <1>2, IntoMarked

LEMMA ErasedAll == Erased(0, Rows - 1) = [r \in Row |-> Blank]
  BY DEF Erased

LEMMA EraseMarked == ASSUME TypeOK, EraseScreen \/ EraseHistory PROVE Marks
<1>1. Into([r \in Row |-> Blank]) /\ base' = base /\ Feed /\ Marked(Row) /\ UNCHANGED region
  BY ErasedAll DEF EraseScreen, EraseHistory
<1>2. cells' \in [Row -> Lines]
  BY <1>1, IntoRows
<1>3. /\ UNCHANGED <<alt, under, sb, hold>>
      /\ len' \in 0 .. Max /\ head' \in Slots /\ off' \in 0 .. Max
  BY DEF EraseScreen, EraseHistory, KeepView, TypeOK
<1>. QED
  BY <1>1, <1>2, <1>3, FedAll DEF TypeOK

LEMMA SwitchMarked ==
  ASSUME TypeOK, SwitchToAlt \/ SwitchToPrimary \/ HardReset PROVE Marks
<1>1. Clean \in [cells : [Row -> Lines], base : Row]
  BY DEF Clean
<1>2. Feed /\ Marked(Row) /\ sb' = sb /\ hold' = hold /\ alt' \in BOOLEAN
  BY DEF SwitchToAlt, SwitchToPrimary, HardReset, KeepView
<1>3. /\ cells' \in [Row -> Lines] /\ base' \in Row
      /\ under' \in [cells : [Row -> Lines], base : Row]
  BY <1>1 DEF SwitchToAlt, SwitchToPrimary, HardReset, TypeOK, Clean
<1>4. len' \in 0 .. Max /\ head' \in Slots /\ off' \in 0 .. Max
  BY DEF SwitchToAlt, SwitchToPrimary, HardReset, KeepView, TypeOK
<1>5. top' \in Row /\ bot' \in Row /\ top' < bot'
  BY DEF SwitchToAlt, SwitchToPrimary, HardReset, TypeOK
<1>. QED
  BY <1>2, <1>3, <1>4, <1>5, FedAll

LEMMA SetRegionMarked == ASSUME TypeOK, SetRegion PROVE Marks
  BY DEF TypeOK, Marks, SetRegion, Feed, scroll, KeepGrid, KeepView, grid, back

LEMMA ShellMarked ==
  ASSUME TypeOK, StoreOff \/ Shell PROVE TypeOK' /\ (missed' \subseteq missed \/ Overtaken)
<1>. USE DEF TypeOK, scroll, grid, back, region
<1>1. CASE StoreOff
  BY <1>1 DEF StoreOff
<1>2. CASE ScrollMoves
  <2>1. missed' \subseteq Row
    BY <1>2 DEF ScrollMoves, Marked
  <2>2. TypeOK'
    BY <1>2, <2>1 DEF ScrollMoves
  <2>3. CASE off = want
    <3>1. UNCHANGED <<cells, base, sb, len, head, off, hold>>
      BY <1>2, <2>3 DEF ScrollMoves
    <3>2. Seen' = Seen
      BY <3>1 DEF Seen, View, Offset, At, Phys, Wrapped
    <3>. QED
      BY <1>2, <2>2, <3>2 DEF ScrollMoves, Marked
  <2>4. CASE want # before
    BY <1>2, <2>2, <2>4 DEF ScrollMoves
  <2>5. CASE off # before
    BY <1>2, <2>2, <2>5 DEF Overtaken
  <2>. QED
    BY <2>3, <2>4, <2>5
<1>3. CASE ScrollReset
  BY <1>3 DEF ScrollReset
<1>4. CASE ScrollBegin
  BY <1>4 DEF ScrollBegin
<1>5. CASE ScrollAlt
  BY <1>5 DEF ScrollAlt
<1>6. ASSUME NEW delta \in {-1, 1}, ScrollView(delta)
      PROVE  TypeOK' /\ missed' \subseteq missed
  <2>1. Clamped(off + delta) \in 0 .. Max
    BY DEF Clamped
  <2>. QED
    BY <1>6, <2>1 DEF ScrollView
<1>. QED
  BY <1>1, <1>2, <1>3, <1>4, <1>5, <1>6 DEF Shell

LEMMA RegionRows == ASSUME TypeOK PROVE top \in Row /\ bot \in Row /\ top <= bot
  BY DEF TypeOK

\* The region's bounds as values, which a step may then change.
LEMMA RegionValues ==
  ASSUME NEW t, NEW b, t = top, b = bot, NEW n, NEW line, NEW r
  PROVE  /\ Evict(top, bot, n) => Evict(t, b, n)
         /\ ShiftUp(top, bot, n, line) => ShiftUp(t, b, n, line)
         /\ ScrollDown(top, bot, n) => ScrollDown(t, b, n)
         /\ Marked(top .. bot) => Marked(t .. b)
         /\ Evict(r, bot, n) => Evict(r, b, n)
         /\ ShiftUp(r, bot, n, line) => ShiftUp(r, b, n, line)
         /\ ScrollDown(r, bot, n) => ScrollDown(r, b, n)
         /\ Marked(r .. bot) => Marked(r .. b)
  BY DEF Evict, ShiftUp, ScrollDown, Marked

LEMMA FunctionMarked == ASSUME TypeOK, Function PROVE Marks
<1>1. PICK t \in Row, b \in Row : t = top /\ b = bot /\ t <= b
  BY RegionRows
<1>2. 1 \in Nat \ {0} /\ Blank \in Lines
  OBVIOUS
<1>3. CASE LineFeed
  <2>1. /\ Feed /\ UNCHANGED region /\ Evict(t, b, 1) /\ ShiftUp(t, b, 1, Blank)
        /\ UNCHANGED <<alt, under, off>> /\ Marked(t .. b)
    BY <1>1, <1>3, RegionValues DEF LineFeed, ScrollUp
  <2>. QED
    BY <1>1, <1>2, <2>1, ScrollUpMarked
<1>4. CASE ReverseIndex
  <2>1. Feed /\ UNCHANGED region /\ ScrollDown(t, b, 1)
    BY <1>1, <1>4, RegionValues DEF ReverseIndex
  <2>. QED
    BY <1>1, <1>2, <2>1, ScrollDownMarked
<1>5. ASSUME NEW line \in Lines, Wrap(line) PROVE Marks
  <2>1. /\ Feed /\ UNCHANGED region /\ Evict(t, b, 1) /\ ShiftUp(t, b, 1, line)
        /\ UNCHANGED <<alt, under, off>> /\ Marked(t .. b)
    BY <1>1, <1>5, RegionValues DEF Wrap
  <2>. QED
    BY <1>1, <1>2, <2>1, ScrollUpMarked
<1>6. ASSUME NEW u \in Row, NEW n \in Counts, DeleteLines(u, n) \/ InsertLines(u, n)
      PROVE  Marks
  <2>1. u <= b /\ n \in Nat \ {0} /\ Feed /\ UNCHANGED region
    BY <1>1, <1>6 DEF DeleteLines, InsertLines
  <2>2. CASE DeleteLines(u, n)
    <3>1. /\ Evict(u, bot, n) /\ ShiftUp(u, bot, n, Blank)
          /\ UNCHANGED <<alt, under, off>> /\ Marked(u .. bot)
      <4>1. ScrollUp(u, bot, n)
        BY <2>2, Zenon DEF DeleteLines
      <4>. QED
        BY <4>1, Zenon DEF ScrollUp
    <3>2. Evict(u, b, n) /\ ShiftUp(u, b, n, Blank) /\ Marked(u .. b)
      BY <1>1, <3>1 DEF Evict, ShiftUp, Marked
    <3>. QED
      BY <1>1, <1>2, <2>1, <3>1, <3>2, ScrollUpMarked
  <2>3. CASE InsertLines(u, n)
    <3>1. ScrollDown(u, b, n)
      BY <1>1, <2>3, RegionValues DEF InsertLines
    <3>. QED
      BY <1>1, <2>1, <3>1, ScrollDownMarked
  <2>. QED
    BY <1>6, <2>2, <2>3
<1>7. ASSUME NEW r \in Row, NEW line \in Lines, NEW gone \in {0 .. r - 1, r + 1 .. Rows - 1},
             EraseRest(r, line, gone)
      PROVE  Marks
  <2>1. gone \in SUBSET Row
    OBVIOUS
  <2>. QED
    BY <1>7, <2>1, EraseRestMarked
<1>. QED
  BY <1>3, <1>4, <1>5, <1>6, <1>7, EditMarked, EraseMarked, SwitchMarked, SetRegionMarked
  DEF Function

LEMMA InitType == ASSUME Init PROVE TypeOK
<1>1. Clean \in [cells : [Row -> Lines], base : Row]
  BY DEF Clean
<1>2. top \in Row /\ bot \in Row /\ top < bot
  BY DEF Init
<1>3. cells \in [Row -> Lines] /\ base \in Row /\ alt \in BOOLEAN
  <2>1. Clean.cells \in [Row -> Lines]
    BY <1>1
  <2>2. cells = Clean.cells /\ base = 0 /\ alt = FALSE
    BY DEF Init
  <2>3. cells \in [Row -> Lines]
    BY <2>1, <2>2, Zenon
  <2>4. base \in Row
    BY <2>2
  <2>5. alt \in BOOLEAN
    BY <2>2, Zenon
  <2>. QED
    BY <2>3, <2>4, <2>5, Zenon
<1>4. sb \in [Slots -> Lines] /\ len \in 0 .. Max /\ head \in Slots /\ off \in 0 .. Max
  BY DEF Init
<1>5. /\ under \in [cells : [Row -> Lines], base : Row]
      /\ hold \in {Nothing} \union 0 .. Max /\ want \in {Nothing} \union 0 .. Max
      /\ before \in {Nothing} \union 0 .. Max /\ missed = {}
  BY <1>1 DEF Init
<1>. QED
  BY <1>2, <1>3, <1>4, <1>5 DEF TypeOK

LEMMA NextMarked ==
  ASSUME TypeOK, [Next]_vars PROVE TypeOK' /\ [missed' \subseteq missed \/ Overtaken]_vars
<1>1. CASE UNCHANGED vars
  BY <1>1 DEF vars, scroll, grid, back, region, TypeOK
<1>. QED
  BY <1>1, FunctionMarked, ShellMarked DEF Next, Marks

(* Every variable keeps to its range: base and head are rows of their      *)
(* rings, no more history is kept than fits and the view's offset stays in *)
(* the ring, however the two tasks interleave (termstate.c:119-165,        *)
(* vterm.c:285-310).                                                       *)
THEOREM TypeCorrect == Spec => []TypeOK
<1>1. Init => TypeOK
  BY InitType
<1>2. TypeOK /\ [Next]_vars => TypeOK'
  BY NextMarked
<1>. QED
  BY <1>1, <1>2, PTL DEF Spec

-----------------------------------------------------------------------------
(* What each function does is what the plain screen's does, with the same  *)
(* arguments.                                                              *)

LEMMA CleanShown ==
  /\ Logical(Clean.cells, Clean.base) = Shown!Empty
  /\ Logical([r \in Row |-> Blank], 0) = Shown!Empty
<1>1. \A r \in Row : Phys(0, r) \in Row
  BY DEF Phys, Wrapped
<1>2. \A r \in Row : At([p \in Row |-> Blank], 0, r) = Blank
  BY <1>1 DEF At
<1>3. Clean.cells = [p \in Row |-> Blank] /\ Clean.base = 0
  BY DEF Clean
<1>. QED
  BY <1>2, <1>3 DEF Logical, Shown!Empty, Shown!Row

\* A step that keeps the ring keeps the history.
LEMMA HistoryKept == ASSUME UNCHANGED back PROVE History' = History
  BY DEF History, Line

\* A step that keeps the inactive grid keeps what it shows.
LEMMA UnderKept ==
  ASSUME UNCHANGED under
  PROVE  Logical(under.cells, under.base)' = Logical(under.cells, under.base)
  BY DEF Logical

LEMMA ShiftUpShown ==
  ASSUME TypeOK, NEW t \in Row, NEW b \in Row, t <= b, NEW n \in Nat \ {0}, NEW line \in Lines,
         ShiftUp(t, b, n, line), NEW g, g = Logical(cells, base)
  PROVE  /\ Logical(cells, base)' = Shown!Edited(Shown!Up(g, t, b, n), b, line)
         /\ line = Blank => Logical(cells, base)' = Shown!Up(g, t, b, n)
<1>1. \A r \in Row : At(cells', base', r)
              = IF r \notin t .. b THEN At(cells, base, r)
                ELSE IF r = b THEN line
                ELSE IF r + n <= b THEN At(cells, base, r + n)
                ELSE Blank
  BY ShiftUpRows
<1>2. \A r \in Row : g[r] = At(cells, base, r)
  BY LogicalRow
<1>3. Logical(cells, base)' = [r \in Row |-> At(cells', base', r)]
  BY DEF Logical
<1>. DEFINE up == Shown!Up(g, t, b, n)
<1>4. up = [r \in Row |-> IF r \notin t .. b THEN g[r]
                          ELSE IF r + n <= b THEN g[r + n] ELSE Blank]
  BY DEF Shown!Up, Shown!Row
<1>5. ASSUME NEW r \in Row
      PROVE  /\ up[r] = IF r \notin t .. b THEN At(cells, base, r)
                        ELSE IF r + n <= b THEN At(cells, base, r + n) ELSE Blank
             /\ r = b => r \in t .. b /\ ~(r + n <= b)
  <2>1. r \in t .. b /\ r + n <= b => r + n \in Row
    OBVIOUS
  <2>. QED
    BY <1>2, <1>4, <2>1
<1>. HIDE DEF up
<1>6. \A r \in Row : At(cells', base', r) = IF r = b THEN line ELSE up[r]
  BY <1>1, <1>5
<1>7. up = [r \in Row |-> up[r]] /\ up[b] = Blank
  BY <1>4, <1>5
<1>8. Shown!Edited(up, b, line) = [r \in Row |-> IF r = b THEN line ELSE up[r]]
  BY <1>7 DEF Shown!Edited
<1>9. line = Blank => \A r \in Row : At(cells', base', r) = up[r]
  BY <1>6, <1>7
<1>. QED
  BY <1>3, <1>6, <1>7, <1>8, <1>9 DEF up

LEMMA ScrollDownShown ==
  ASSUME TypeOK, NEW t \in Row, NEW b \in Row, t <= b, NEW n \in Nat \ {0},
         ScrollDown(t, b, n), NEW g, g = Logical(cells, base)
  PROVE  Logical(cells, base)' = Shown!Down(g, t, b, n)
<1>1. \A r \in Row : At(cells', base', r)
              = IF r \notin t .. b THEN At(cells, base, r)
                ELSE IF r >= t + n THEN At(cells, base, r - n)
                ELSE Blank
  BY ScrollDownRows
<1>2. \A r \in Row : g[r] = At(cells, base, r)
  BY LogicalRow
<1>3. Logical(cells, base)' = [r \in Row |-> At(cells', base', r)]
  BY DEF Logical
<1>4. \A r \in Row : r >= t + n => r - n \in Row
  OBVIOUS
<1>5. \A r \in Row : At(cells', base', r)
              = IF r \notin t .. b THEN g[r]
                ELSE IF r >= t + n THEN g[r - n]
                ELSE Blank
  BY <1>1, <1>2, <1>4
<1>. QED
  BY <1>3, <1>5 DEF Shown!Down, Shown!Row

\* The rows written by an edit.
LEMMA IntoShown ==
  ASSUME TypeOK, NEW new, Into(new), base' = base,
         \A r \in Row : r \in DOMAIN new => new[r] \in Lines,
         NEW g, g = Logical(cells, base)
  PROVE  Logical(cells, base)' = [r \in Row |-> IF r \in DOMAIN new THEN new[r] ELSE g[r]]
<1>1. \A r \in Row : At(cells', base', r)
                       = IF r \in DOMAIN new THEN new[r] ELSE At(cells, base, r)
  BY IntoRows
<1>2. \A r \in Row : g[r] = At(cells, base, r)
  BY LogicalRow
<1>3. Logical(cells, base)' = [r \in Row |-> At(cells', base', r)]
  BY DEF Logical
<1>. QED
  BY <1>1, <1>2, <1>3

LEMMA ScrollUpDoes ==
  ASSUME TypeOK, NEW t \in Row, NEW b \in Row, t <= b, NEW n \in Nat \ {0},
         Evict(t, b, n), ShiftUp(t, b, n, Blank), UNCHANGED <<alt, under>>
  PROVE  Shown!ScrollUp(t, b, n)
<1>1. PICK g : g = Logical(cells, base)
  OBVIOUS
<1>2. Blank \in Lines
  OBVIOUS
<1>3. Logical(cells, base)' = Shown!Up(g, t, b, n)
  BY <1>1, <1>2, ShiftUpShown
<1>4. Logical(cells, base)' = Shown!Up(Logical(cells, base), t, b, n)
  BY <1>1, <1>3
<1>. QED
  BY <1>4, EvictHistory, UnderKept DEF Shown!ScrollUp

LEMMA ScrollDownDoes ==
  ASSUME TypeOK, NEW t \in Row, NEW b \in Row, t <= b, NEW n \in Nat \ {0}, ScrollDown(t, b, n)
  PROVE  Shown!ScrollDown(t, b, n)
<1>1. PICK g : g = Logical(cells, base)
  OBVIOUS
<1>2. Logical(cells, base)' = Shown!Down(g, t, b, n)
  BY <1>1, ScrollDownShown
<1>3. Logical(cells, base)' = Shown!Down(Logical(cells, base), t, b, n)
  BY <1>1, <1>2
<1>4. UNCHANGED <<alt, under, back>>
  BY Zenon DEF ScrollDown
<1>. QED
  BY <1>3, <1>4, HistoryKept, UnderKept DEF Shown!ScrollDown

LEMMA RegionDoes ==
  ASSUME TypeOK
  PROVE  /\ LineFeed => Shown!ScrollUp(top, bot, 1)
         /\ ReverseIndex => Shown!ScrollDown(top, bot, 1)
<1>1. PICK t \in Row, b \in Row : t = top /\ b = bot /\ t <= b
  BY RegionRows
<1>2. 1 \in Nat \ {0}
  OBVIOUS
<1>3. ASSUME LineFeed PROVE Shown!ScrollUp(top, bot, 1)
  <2>1. Evict(top, bot, 1) /\ ShiftUp(top, bot, 1, Blank) /\ UNCHANGED <<alt, under>>
    BY <1>3, Zenon DEF LineFeed, ScrollUp
  <2>2. Evict(t, b, 1) /\ ShiftUp(t, b, 1, Blank)
    BY <1>1, <2>1 DEF Evict, ShiftUp
  <2>3. Shown!ScrollUp(t, b, 1)
    BY <1>1, <1>2, <2>1, <2>2, ScrollUpDoes
  <2>. QED
    BY <1>1, <2>3 DEF Shown!ScrollUp, Shown!Up, Shown!Evict, Shown!Leaving
<1>4. ASSUME ReverseIndex PROVE Shown!ScrollDown(top, bot, 1)
  <2>1. ScrollDown(t, b, 1)
    BY <1>1, <1>4, RegionValues DEF ReverseIndex
  <2>2. Shown!ScrollDown(t, b, 1)
    BY <1>1, <1>2, <2>1, ScrollDownDoes
  <2>. QED
    BY <1>1, <2>2 DEF Shown!ScrollDown, Shown!Down
<1>. QED
  BY <1>3, <1>4

LEMMA LinesDo ==
  ASSUME TypeOK, NEW u \in Row, NEW n \in Counts
  PROVE  /\ DeleteLines(u, n) => u <= bot /\ Shown!ScrollUp(u, bot, n)
         /\ InsertLines(u, n) => u <= bot /\ Shown!ScrollDown(u, bot, n)
<1>1. PICK b \in Row : b = bot
  BY RegionRows
<1>2. n \in Nat \ {0}
  OBVIOUS
<1>3. u \in top .. bot => u <= b
  BY <1>1 DEF TypeOK
<1>4. ASSUME DeleteLines(u, n) PROVE u <= bot /\ Shown!ScrollUp(u, bot, n)
  <2>1. u \in top .. bot /\ ScrollUp(u, bot, n)
    BY <1>4, Zenon DEF DeleteLines
  <2>2. Evict(u, bot, n) /\ ShiftUp(u, bot, n, Blank) /\ UNCHANGED <<alt, under>>
    BY <2>1, Zenon DEF ScrollUp
  <2>3. Evict(u, b, n) /\ ShiftUp(u, b, n, Blank)
    BY <1>1, <2>2 DEF Evict, ShiftUp
  <2>4. Shown!ScrollUp(u, b, n)
    BY <1>2, <1>3, <2>1, <2>2, <2>3, ScrollUpDoes
  <2>. QED
    BY <1>1, <1>3, <2>1, <2>4 DEF Shown!ScrollUp, Shown!Up, Shown!Evict, Shown!Leaving
<1>5. ASSUME InsertLines(u, n) PROVE u <= bot /\ Shown!ScrollDown(u, bot, n)
  <2>1. u \in top .. bot /\ ScrollDown(u, b, n)
    BY <1>1, <1>5, RegionValues DEF InsertLines
  <2>2. Shown!ScrollDown(u, b, n)
    BY <1>2, <1>3, <2>1, ScrollDownDoes
  <2>. QED
    BY <1>1, <1>3, <2>1, <2>2 DEF Shown!ScrollDown, Shown!Down
<1>. QED
  BY <1>4, <1>5

LEMMA WrapDoes ==
  ASSUME TypeOK, NEW line \in Lines, Wrap(line)
  PROVE  Shown!Wrap(top, bot, line)
<1>1. PICK t \in Row, b \in Row : t = top /\ b = bot /\ t <= b
  BY RegionRows
<1>0. PICK g : g = Logical(cells, base)
  OBVIOUS
<1>2. 1 \in Nat \ {0}
  OBVIOUS
<1>3. Evict(top, bot, 1) /\ ShiftUp(top, bot, 1, line) /\ UNCHANGED <<alt, under>>
  BY DEF Wrap
<1>4. Evict(t, b, 1) /\ ShiftUp(t, b, 1, line)
  BY <1>1, <1>3 DEF Evict, ShiftUp
<1>5. Logical(cells, base)' = Shown!Edited(Shown!Up(g, t, b, 1), b, line)
  BY <1>0, <1>1, <1>2, <1>4, ShiftUpShown
<1>6. Logical(cells, base)' = Shown!Edited(Shown!Up(Logical(cells, base), top, bot, 1), bot, line)
  BY <1>0, <1>1, <1>5
<1>7. Shown!Evict(t, b, 1)
  BY <1>2, <1>4, EvictHistory
<1>8. Shown!Evict(top, bot, 1)
  BY <1>1, <1>7 DEF Shown!Evict, Shown!Leaving
<1>. QED
  BY <1>3, <1>6, <1>8, UnderKept DEF Shown!Wrap

LEMMA EditDoes ==
  ASSUME TypeOK, NEW r \in Row, NEW line \in Lines, EditLine(r, line)
  PROVE  Shown!Edit(r, line)
<1>. DEFINE new == [q \in {r} |-> line]
<1>1. PICK g : g = Logical(cells, base)
  OBVIOUS
<1>2. Into(new) /\ UNCHANGED <<base, alt, under, back>>
  BY DEF EditLine, EditRow, KeepView
<1>3. DOMAIN new = {r} /\ new[r] = line
  OBVIOUS
<1>. HIDE DEF new
<1>4. Logical(cells, base)' = [q \in Row |-> IF q \in DOMAIN new THEN new[q] ELSE g[q]]
  BY <1>1, <1>2, <1>3, IntoShown
<1>5. g = [q \in Row |-> g[q]]
  BY <1>1, LogicalRow
<1>6. Logical(cells, base)' = [g EXCEPT ![r] = line]
  BY <1>3, <1>4, <1>5
<1>7. Logical(cells, base)' = Shown!Edited(Logical(cells, base), r, line)
  BY <1>1, <1>6 DEF Shown!Edited
<1>. QED
  BY <1>2, <1>7, HistoryKept, UnderKept DEF Shown!Edit

LEMMA EraseDoes ==
  ASSUME TypeOK, NEW r \in Row, NEW line \in Lines, NEW gone \in SUBSET Row,
         EraseRest(r, line, gone)
  PROVE  Shown!Erase(r, line, gone)
<1>. DEFINE new == [q \in gone \union {r} |-> IF q = r THEN line ELSE Blank]
<1>1. PICK g : g = Logical(cells, base)
  OBVIOUS
<1>2. Into(new) /\ UNCHANGED <<base, alt, under, back>>
  BY DEF EraseRest, KeepView
<1>3. DOMAIN new = gone \union {r}
      /\ \A q \in gone \union {r} : new[q] = IF q = r THEN line ELSE Blank
  OBVIOUS
<1>. HIDE DEF new
<1>4. \A q \in Row : q \in DOMAIN new => new[q] \in Lines
  BY <1>3
<1>5. Logical(cells, base)' = [q \in Row |-> IF q \in DOMAIN new THEN new[q] ELSE g[q]]
  BY <1>1, <1>2, <1>4, IntoShown
<1>6. Logical(cells, base)'
        = [q \in Row |-> IF q = r THEN line ELSE IF q \in gone THEN Blank ELSE g[q]]
  BY <1>3, <1>5
<1>7. Logical(cells, base)'
        = [q \in Row |-> IF q = r THEN line ELSE IF q \in gone THEN Blank
                          ELSE Logical(cells, base)[q]]
  BY <1>1, <1>6
<1>. QED
  BY <1>2, <1>7, HistoryKept, UnderKept DEF Shown!Erase, Shown!Row

LEMMA ErasesDo ==
  ASSUME TypeOK
  PROVE  /\ EraseScreen => Shown!EraseScreen
         /\ EraseHistory => Shown!EraseHistory
<1>. DEFINE new == [r \in Row |-> Blank]
<1>1. PICK g : g = Logical(cells, base)
  OBVIOUS
<1>2. DOMAIN new = Row /\ \A r \in Row : new[r] = Blank
  OBVIOUS
<1>3. EraseScreen \/ EraseHistory => Into(new) /\ UNCHANGED <<base, alt, under>>
  BY ErasedAll DEF EraseScreen, EraseHistory
<1>. HIDE DEF new
<1>4. ASSUME Into(new), base' = base PROVE Logical(cells, base)' = Shown!Empty
  <2>1. Logical(cells, base)' = [r \in Row |-> IF r \in DOMAIN new THEN new[r] ELSE g[r]]
    BY <1>1, <1>2, <1>4, IntoShown
  <2>. QED
    BY <1>2, <2>1 DEF Shown!Empty, Shown!Row
<1>5. ASSUME EraseScreen PROVE Shown!EraseScreen
  <2>1. UNCHANGED back
    BY <1>5 DEF EraseScreen, KeepView
  <2>. QED
    BY <1>3, <1>4, <1>5, <2>1, HistoryKept, UnderKept DEF Shown!EraseScreen
<1>6. ASSUME EraseHistory PROVE Shown!EraseHistory
  <2>1. History' = << >>
    BY <1>6 DEF EraseHistory, History
  <2>. QED
    BY <1>3, <1>4, <1>6, <2>1, UnderKept DEF Shown!EraseHistory
<1>. QED
  BY <1>5, <1>6

LEMMA ScreensDo ==
  /\ SwitchToAlt => Shown!ToAlt
  /\ SwitchToPrimary => Shown!ToPrimary
  /\ HardReset => Shown!Reset
<1>1. ASSUME cells' = Clean.cells, base' = 0 PROVE Logical(cells, base)' = Shown!Empty
  BY <1>1, CleanShown DEF Clean, Logical
<1>2. ASSUME under' = Clean PROVE Logical(under.cells, under.base)' = Shown!Empty
  BY <1>2, CleanShown DEF Logical
<1>3. ASSUME SwitchToAlt PROVE Shown!ToAlt
  <2>1. /\ ~alt /\ alt' = TRUE
        /\ under' = [cells |-> cells, base |-> base]
        /\ cells' = Clean.cells /\ base' = 0 /\ UNCHANGED back
    BY <1>3 DEF SwitchToAlt
  <2>2. Logical(under.cells, under.base)' = Logical(cells, base)
    BY <2>1 DEF Logical
  <2>. QED
    BY <1>1, <2>1, <2>2, HistoryKept DEF Shown!ToAlt
<1>4. ASSUME SwitchToPrimary PROVE Shown!ToPrimary
  <2>1. /\ alt /\ alt' = FALSE
        /\ cells' = under.cells /\ base' = under.base /\ under' = Clean /\ UNCHANGED back
    BY <1>4 DEF SwitchToPrimary, KeepView
  <2>2. Logical(cells, base)' = Logical(under.cells, under.base)
    BY <2>1 DEF Logical
  <2>. QED
    BY <1>2, <2>1, <2>2, HistoryKept DEF Shown!ToPrimary
<1>5. ASSUME HardReset PROVE Shown!Reset
  <2>1. cells' = Clean.cells /\ base' = 0 /\ alt' = FALSE /\ under' = Clean /\ len' = 0
    BY <1>5 DEF HardReset
  <2>2. History' = << >>
    BY <2>1 DEF History
  <2>. QED
    BY <1>1, <1>2, <2>1, <2>2 DEF Shown!Reset
<1>. QED
  BY <1>3, <1>4, <1>5

\* The rest moves the view or the region, or marks rows.
LEMMA NothingSeen ==
  ASSUME SetRegion \/ StoreOff \/ Shell \/ UNCHANGED vars
  PROVE  UNCHANGED Shown!screen
<1>1. UNCHANGED <<cells, base, alt, under, sb, len, head>>
  BY DEF SetRegion, KeepGrid, KeepView, StoreOff, Shell, ScrollBegin, ScrollAlt, ScrollMoves,
     ScrollReset, ScrollView, vars
<1>2. Logical(cells, base)' = Logical(cells, base)
  BY <1>1 DEF Logical
<1>. QED
  BY <1>1, <1>2, HistoryKept, UnderKept DEF Shown!screen

-----------------------------------------------------------------------------
(* The terminal implements the plain screen.                               *)

LEMMA InitDoes == ASSUME Init PROVE Shown!Init
<1>1. cells = Clean.cells /\ base = 0 /\ alt = FALSE /\ under = Clean /\ len = 0
  BY DEF Init
<1>2. Clean.base = 0
  BY DEF Clean
<1>3. Logical(cells, base) = Shown!Empty /\ Logical(under.cells, under.base) = Shown!Empty
  BY <1>1, <1>2, CleanShown
<1>4. History = << >>
  BY <1>1 DEF History
<1>. QED
  BY <1>1, <1>3, <1>4 DEF Shown!Init

LEMMA FunctionDoes == ASSUME TypeOK, Function PROVE [Shown!Next]_Shown!screen
<1>1. PICK t \in Row, b \in Row : t = top /\ b = bot /\ t <= b
  BY RegionRows
<1>2. CASE LineFeed \/ ReverseIndex
  <2>1. Shown!ScrollUp(top, bot, 1) \/ Shown!ScrollDown(top, bot, 1)
    BY <1>2, RegionDoes
  <2>2. Shown!ScrollUp(t, b, 1) \/ Shown!ScrollDown(t, b, 1)
    BY <1>1, <2>1
    DEF Shown!ScrollUp, Shown!Up, Shown!Evict, Shown!Leaving, Shown!ScrollDown, Shown!Down
  <2>. QED
    BY <1>1, <2>2 DEF Shown!Next, Shown!Row
<1>3. CASE EraseScreen \/ EraseHistory \/ SwitchToAlt \/ SwitchToPrimary \/ HardReset
  BY <1>3, ErasesDo, ScreensDo DEF Shown!Next
<1>4. CASE SetRegion
  BY <1>4, NothingSeen
<1>5. ASSUME NEW line \in Lines, Wrap(line) PROVE Shown!Next
  <2>1. Shown!Wrap(top, bot, line)
    BY <1>5, WrapDoes
  <2>2. Shown!Wrap(t, b, line)
    BY <1>1, <2>1 DEF Shown!Wrap, Shown!Up, Shown!Edited, Shown!Evict, Shown!Leaving
  <2>. QED
    BY <1>1, <2>2 DEF Shown!Next, Shown!Row
<1>6. ASSUME NEW r \in Row, NEW line \in Lines, EditLine(r, line) PROVE Shown!Next
  BY <1>6, EditDoes DEF Shown!Next, Shown!Row
<1>7. ASSUME NEW r \in Row, NEW line \in Lines, NEW gone \in {0 .. r - 1, r + 1 .. Rows - 1},
             EraseRest(r, line, gone)
      PROVE  Shown!Next
  <2>1. gone \in SUBSET Row
    OBVIOUS
  <2>2. Shown!Erase(r, line, gone)
    BY <1>7, <2>1, EraseDoes
  <2>3. Shown!Erase(r, line, 0 .. r - 1) \/ Shown!Erase(r, line, r + 1 .. Rows - 1)
    BY <1>7, <2>2
  <2>. QED
    BY <2>3 DEF Shown!Next, Shown!Row
<1>8. ASSUME NEW u \in Row, NEW n \in Counts, DeleteLines(u, n) \/ InsertLines(u, n)
      PROVE  Shown!Next
  <2>1. u <= b /\ (Shown!ScrollUp(u, bot, n) \/ Shown!ScrollDown(u, bot, n))
    BY <1>1, <1>8, LinesDo
  <2>2. Shown!ScrollUp(u, b, n) \/ Shown!ScrollDown(u, b, n)
    BY <1>1, <2>1
    DEF Shown!ScrollUp, Shown!Up, Shown!Evict, Shown!Leaving, Shown!ScrollDown, Shown!Down
  <2>. QED
    BY <2>1, <2>2 DEF Shown!Next, Shown!Row
<1>. QED
  BY <1>2, <1>3, <1>4, <1>5, <1>6, <1>7, <1>8, Zenon DEF Function

LEMMA NextDoes == ASSUME TypeOK, [Next]_vars PROVE [Shown!Next]_Shown!screen
  BY FunctionDoes, NothingSeen DEF Next

-----------------------------------------------------------------------------
(* The terminal in step with the plain screen.                             *)

\* Two plain screens that are alike and do the same are alike afterwards.
LEMMA AlikeScrolls ==
  ASSUME ShowsPlain, NEW t, NEW b, NEW n
  PROVE  /\ Shown!ScrollUp(t, b, n) /\ Plain!ScrollUp(t, b, n) => ShowsPlain'
         /\ Shown!ScrollDown(t, b, n) /\ Plain!ScrollDown(t, b, n) => ShowsPlain'
<1>. USE DEF ShowsPlain
<1>1. Shown!Up(Logical(cells, base), t, b, n) = Plain!Up(pgrid, t, b, n)
  BY DEF Shown!Up, Plain!Up, Shown!Row, Plain!Row
<1>2. Shown!Down(Logical(cells, base), t, b, n) = Plain!Down(pgrid, t, b, n)
  BY DEF Shown!Down, Plain!Down, Shown!Row, Plain!Row
<1>3. Shown!Newest(History \o Shown!Leaving(t, b, n)) = Plain!Newest(phistory \o Plain!Leaving(t, b, n))
  BY DEF Shown!Newest, Plain!Newest, Shown!Leaving, Plain!Leaving
<1>. QED
  BY <1>1, <1>2, <1>3
  DEF Shown!ScrollUp, Plain!ScrollUp, Shown!ScrollDown, Plain!ScrollDown, Shown!Evict, Plain!Evict

LEMMA AlikeWrap ==
  ASSUME ShowsPlain, NEW t, NEW b, NEW line, Shown!Wrap(t, b, line), Plain!Wrap(t, b, line)
  PROVE  ShowsPlain'
<1>. USE DEF ShowsPlain
<1>1. Shown!Edited(Shown!Up(Logical(cells, base), t, b, 1), b, line)
        = Plain!Edited(Plain!Up(pgrid, t, b, 1), b, line)
  BY DEF Shown!Up, Plain!Up, Shown!Row, Plain!Row, Shown!Edited, Plain!Edited
<1>2. Shown!Newest(History \o Shown!Leaving(t, b, 1)) = Plain!Newest(phistory \o Plain!Leaving(t, b, 1))
  BY DEF Shown!Newest, Plain!Newest, Shown!Leaving, Plain!Leaving
<1>. QED
  BY <1>1, <1>2 DEF Shown!Wrap, Plain!Wrap, Shown!Evict, Plain!Evict

LEMMA AlikeEdits ==
  ASSUME ShowsPlain, NEW r, NEW line, NEW gone
  PROVE  /\ Shown!Edit(r, line) /\ Plain!Edit(r, line) => ShowsPlain'
         /\ Shown!Erase(r, line, gone) /\ Plain!Erase(r, line, gone) => ShowsPlain'
<1>. USE DEF ShowsPlain
<1>1. Shown!Edited(Logical(cells, base), r, line) = Plain!Edited(pgrid, r, line)
  BY DEF Shown!Edited, Plain!Edited
<1>. QED
  BY <1>1 DEF Shown!Edit, Plain!Edit, Shown!Erase, Plain!Erase, Shown!Row, Plain!Row

LEMMA AlikeScreens ==
  ASSUME ShowsPlain,
         \/ Shown!EraseScreen /\ Plain!EraseScreen
         \/ Shown!EraseHistory /\ Plain!EraseHistory
         \/ Shown!ToAlt /\ Plain!ToAlt
         \/ Shown!ToPrimary /\ Plain!ToPrimary
         \/ Shown!Reset /\ Plain!Reset
         \/ UNCHANGED Shown!screen /\ UNCHANGED plain
  PROVE  ShowsPlain'
<1>1. Shown!Empty = Plain!Empty
  BY DEF Shown!Empty, Plain!Empty, Shown!Row, Plain!Row
<1>. QED
  BY <1>1
  DEF ShowsPlain, Shown!EraseScreen, Plain!EraseScreen, Shown!EraseHistory, Plain!EraseHistory,
      Shown!ToAlt, Plain!ToAlt, Shown!ToPrimary, Plain!ToPrimary, Shown!Reset, Plain!Reset,
      Shown!screen, plain

LEMMA FunctionShown == ASSUME TypeOK, ShowsPlain, FunctionBoth PROVE ShowsPlain'
<1>1. PICK t, b : t = top /\ b = bot
  OBVIOUS
<1>. DEFINE scrolls(u, n) ==
       \/ Shown!ScrollUp(u, bot, n) /\ Plain!ScrollUp(u, bot, n)
       \/ Shown!ScrollDown(u, bot, n) /\ Plain!ScrollDown(u, bot, n)
<1>2. ASSUME NEW u, NEW n, scrolls(u, n) PROVE ShowsPlain'
  <2>1. \/ Shown!ScrollUp(u, b, n) /\ Plain!ScrollUp(u, b, n)
        \/ Shown!ScrollDown(u, b, n) /\ Plain!ScrollDown(u, b, n)
    BY <1>1, <1>2
    DEF Shown!ScrollUp, Shown!Up, Shown!Evict, Shown!Leaving, Shown!ScrollDown, Shown!Down,
        Plain!ScrollUp, Plain!Up, Plain!Evict, Plain!Leaving, Plain!ScrollDown, Plain!Down
  <2>. QED
    BY <2>1, AlikeScrolls
<1>3. CASE \/ LineFeed /\ Plain!ScrollUp(top, bot, 1)
           \/ ReverseIndex /\ Plain!ScrollDown(top, bot, 1)
  <2>1. \/ Shown!ScrollUp(top, bot, 1) /\ Plain!ScrollUp(top, bot, 1)
        \/ Shown!ScrollDown(top, bot, 1) /\ Plain!ScrollDown(top, bot, 1)
    BY <1>3, RegionDoes
  <2>2. scrolls(t, 1)
    BY <1>1, <2>1
    DEF Shown!ScrollUp, Shown!Up, Shown!Evict, Shown!Leaving, Shown!ScrollDown, Shown!Down,
        Plain!ScrollUp, Plain!Up, Plain!Evict, Plain!Leaving, Plain!ScrollDown, Plain!Down
  <2>. HIDE DEF scrolls
  <2>. QED
    BY <1>2, <2>2
<1>4. ASSUME NEW u \in Row, NEW n \in Counts,
             \/ DeleteLines(u, n) /\ Plain!ScrollUp(u, bot, n)
             \/ InsertLines(u, n) /\ Plain!ScrollDown(u, bot, n)
      PROVE  ShowsPlain'
  <2>1. scrolls(u, n)
    BY <1>4, LinesDo
  <2>. HIDE DEF scrolls
  <2>. QED
    BY <1>2, <2>1
<1>5. ASSUME NEW line \in Lines, Wrap(line), Plain!Wrap(top, bot, line) PROVE ShowsPlain'
  <2>1. Shown!Wrap(top, bot, line)
    BY <1>5, WrapDoes
  <2>2. Shown!Wrap(t, b, line) /\ Plain!Wrap(t, b, line)
    BY <1>1, <1>5, <2>1
    DEF Shown!Wrap, Shown!Up, Shown!Edited, Shown!Evict, Shown!Leaving,
        Plain!Wrap, Plain!Up, Plain!Edited, Plain!Evict, Plain!Leaving
  <2>. QED
    BY <2>2, AlikeWrap
<1>6. ASSUME NEW r \in Row, NEW line \in Lines, EditLine(r, line), Plain!Edit(r, line)
      PROVE  ShowsPlain'
  BY <1>6, EditDoes, AlikeEdits
<1>7. ASSUME NEW r \in Row, NEW line \in Lines, NEW gone \in {0 .. r - 1, r + 1 .. Rows - 1},
             EraseRest(r, line, gone), Plain!Erase(r, line, gone)
      PROVE  ShowsPlain'
  <2>1. gone \in SUBSET Row
    OBVIOUS
  <2>. QED
    BY <1>7, <2>1, EraseDoes, AlikeEdits
<1>8. CASE \/ EraseScreen /\ Plain!EraseScreen
           \/ EraseHistory /\ Plain!EraseHistory
           \/ SwitchToAlt /\ Plain!ToAlt
           \/ SwitchToPrimary /\ Plain!ToPrimary
           \/ HardReset /\ Plain!Reset
           \/ SetRegion /\ UNCHANGED plain
  BY <1>8, ErasesDo, ScreensDo, NothingSeen, AlikeScreens
<1>. QED
  BY <1>3, <1>4, <1>5, <1>6, <1>7, <1>8, Zenon DEF FunctionBoth

LEMMA NextShown == ASSUME TypeOK, ShowsPlain, [NextBoth]_<<vars, plain>> PROVE ShowsPlain'
<1>1. ASSUME StoreOff \/ Shell \/ UNCHANGED vars, UNCHANGED plain PROVE ShowsPlain'
  BY <1>1, NothingSeen, AlikeScreens
<1>. QED
  BY <1>1, FunctionShown DEF NextBoth

LEMMA InitShown == ASSUME InitBoth PROVE ShowsPlain
<1>1. Shown!Init /\ Plain!Init
  BY InitDoes DEF InitBoth
<1>2. Shown!Empty = Plain!Empty
  BY DEF Shown!Empty, Plain!Empty, Shown!Row, Plain!Row
<1>. QED
  BY <1>1, <1>2 DEF Shown!Init, Plain!Init, ShowsPlain

\* A step of the two is a step of the terminal.
LEMMA StepAlone == ASSUME [NextBoth]_<<vars, plain>> PROVE [Next]_vars
<1>1. FunctionBoth => Function
  BY Zenon DEF FunctionBoth, Function
<1>. QED
  BY <1>1 DEF NextBoth, Next

-----------------------------------------------------------------------------
(* A held view.                                                            *)

LEMMA PushOnce == Push(1) = Pushed(Start, 1)
<1>1. PICK f : Pushing(f, 1) /\ Push(1) = f[1]
  BY PushIs
<1>2. f[0] = Start /\ f[1] = Pushed(f[0], 1)
  BY <1>1 DEF Pushing
<1>. QED
  BY <1>1, <1>2

\* One line leaves the screen beneath a view into the history.
LEMMA HeldRows ==
  ASSUME TypeOK, hold = Nothing, off \in 1 .. len, off < Max,
         sb' = [sb EXCEPT ![head] = At(cells, base, 0)],
         head' = IF head + 1 >= Max THEN 0 ELSE head + 1,
         hold' = off + 1,
         \A r \in Row : r + 1 \in Row => At(cells', base', r) = At(cells, base, r + 1)
  PROVE  Seen' = Seen
<1>1. off \in Nat /\ Max \in Nat /\ head \in Slots /\ sb \in [Slots -> Lines]
  BY DEF TypeOK
<1>2. Offset = off /\ Offset' = off + 1
  BY <1>1 DEF Offset
<1>3. ASSUME NEW r \in Row
      PROVE  (IF r < off + 1 THEN sb'[Wrapped(head' - (off + 1) + r, Max)]
              ELSE At(cells', base', r - (off + 1)))
           = (IF r < off THEN sb[Wrapped(head - off + r, Max)] ELSE At(cells, base, r - off))
  <2>1. CASE r < off
    <3>1. /\ Wrapped(head' - (off + 1) + r, Max) = Wrapped(head - off + r, Max)
          /\ Wrapped(head - off + r, Max) \in Slots \ {head}
      BY <1>1, <2>1 DEF Wrapped
    <3>. QED
      BY <1>1, <2>1, <3>1
  <2>2. CASE r = off
    <3>1. Wrapped(head' - (off + 1) + r, Max) = head
      <4>1. head' - (off + 1) + r = head' - 1
        BY <1>1, <2>2
      <4>. QED
        BY <1>1, <4>1 DEF Wrapped
    <3>2. sb'[head] = At(cells, base, 0)
      BY <1>1
    <3>3. r < off + 1 /\ ~(r < off) /\ r - off = 0
      BY <1>1, <2>2
    <3>. QED
      BY <3>1, <3>2, <3>3
  <2>3. CASE r > off
    <3>1. /\ r - (off + 1) \in Row /\ (r - (off + 1)) + 1 = r - off /\ r - off \in Row
          /\ ~(r < off + 1) /\ ~(r < off)
      BY <1>1, <2>3
    <3>. QED
      BY <3>1
  <2>. QED
    BY <1>1, <2>1, <2>2, <2>3
<1>. QED
  BY <1>2, <1>3 DEF Seen, View

LEMMA HeldStep ==
  ASSUME TypeOK, hold = Nothing, head' # head, off \in 1 .. len, off < Max,
         NEW t, NEW b, NEW line \in Lines,
         Evict(t, b, 1), ShiftUp(t, b, 1, line)
  PROVE  Seen' = Seen
<1>1. ~alt /\ t = 0 /\ b = Rows - 1
  BY DEF Evict
<1>. DEFINE s == Push(1)
<1>2. /\ sb' = s.sb /\ head' = s.head
      /\ hold' = IF s.off # off THEN s.off ELSE Nothing
  BY <1>1 DEF Evict
<1>3. s = Pushed(Start, 1)
  BY PushOnce
<1>. HIDE DEF s
<1>4. /\ s.sb = [sb EXCEPT ![head] = At(cells, base, 0)]
      /\ s.head = IF head + 1 >= Max THEN 0 ELSE head + 1
      /\ s.off = IF off > 0 /\ off < Longer(Start) THEN off + 1 ELSE off
  BY <1>3 DEF Pushed, Start
<1>5. off > 0 /\ off < Longer(Start)
  BY DEF Longer, Start, TypeOK
<1>6. hold' = off + 1
  BY <1>2, <1>4, <1>5
<1>7. t \in Row /\ b \in Row /\ t <= b /\ 1 \in Nat \ {0}
  BY <1>1
<1>8. \A r \in Row : At(cells', base', r)
              = IF r \notin t .. b THEN At(cells, base, r)
                ELSE IF r = b THEN line
                ELSE IF r + 1 <= b THEN At(cells, base, r + 1)
                ELSE Blank
  BY <1>7, ShiftUpRows
<1>9. \A r \in Row : r + 1 \in Row => At(cells', base', r) = At(cells, base, r + 1)
  BY <1>1, <1>8
<1>. QED
  BY <1>2, <1>4, <1>6, <1>9, HeldRows

LEMMA HeldNext ==
  ASSUME TypeOK, head' # head, off \in 1 .. len, off < Max,
         LineFeed \/ \E line \in Lines : Wrap(line)
  PROVE  Seen' = Seen
<1>1. PICK t \in Row, b \in Row : t = top /\ b = bot /\ t <= b
  BY RegionRows
<1>2. PICK line \in Lines : Evict(top, bot, 1) /\ ShiftUp(top, bot, 1, line) /\ hold = Nothing
  <2>1. CASE LineFeed
    <3>1. Evict(top, bot, 1) /\ ShiftUp(top, bot, 1, Blank) /\ hold = Nothing
      BY <2>1, Zenon DEF LineFeed, ScrollUp, Feed
    <3>. QED
      BY <3>1
  <2>2. CASE \E line \in Lines : Wrap(line)
    BY <2>2, Zenon DEF Wrap, Feed
  <2>. QED
    BY <2>1, <2>2
<1>3. Evict(t, b, 1) /\ ShiftUp(t, b, 1, line)
  BY <1>1, <1>2 DEF Evict, ShiftUp
<1>. QED
  BY <1>2, <1>3, HeldStep

-----------------------------------------------------------------------------
(* The theorems: of the terminal on its own, and in step with the screen.  *)

(* Whatever is fed, and wherever the view is or moves to, the next flush   *)
(* copies each row that looks different, and no step leaves one behind but *)
(* the shell's scroll that the read task's store of the offset has         *)
(* overtaken (vterm.c:95-136, 247-251).                                    *)
THEOREM FlushMissesNothing == Spec => FlushShows
<1>1. TypeOK /\ [Next]_vars => [missed' \subseteq missed \/ Overtaken]_vars
  BY NextMarked
<1>. QED
  BY <1>1, TypeCorrect, PTL DEF Spec, FlushShows

(* The rows the reader sees stay where they are while lines go on leaving  *)
(* the screen and the ring has room for them (termstate.c:132-144).        *)
THEOREM ViewStays == Spec => ViewHeld
<1>1. TypeOK /\ [Next]_vars =>
        [head' # head /\ len' > 0 /\ off \in 1 .. len /\ off < Max
           /\ (LineFeed \/ \E line \in Lines : Wrap(line))
         => Seen' = Seen]_vars
  BY HeldNext
<1>. QED
  BY <1>1, TypeCorrect, PTL DEF Spec, ViewHeld

(* Rings, a rotating base and copied rows are a plain grid: seen from the  *)
(* top, the terminal starts as a plain screen does and every step of it is *)
(* one of the plain screen's, or none (termstate.c:107-211, 269-303).      *)
THEOREM Implements == Spec => ImplementsScreen
<1>1. Init => Shown!Init
  BY InitDoes
<1>2. TypeOK /\ [Next]_vars => [Shown!Next]_Shown!screen
  BY NextDoes
<1>. QED
  BY <1>1, <1>2, TypeCorrect, PTL DEF Spec, Shown!Spec, ImplementsScreen

(* The terminal beside the plain screen takes no step it would not take    *)
(* alone: what is proved of it alone holds there as well.                  *)
THEOREM InStepAlone == SpecBoth => Spec
<1>1. InitBoth => Init
  BY DEF InitBoth
<1>2. [NextBoth]_<<vars, plain>> => [Next]_vars
  BY StepAlone
<1>. QED
  BY <1>1, <1>2, PTL DEF SpecBoth, Spec

(* In step with it, function by function: the same rows, the last Max      *)
(* lines that left the first screen and no other, and the first screen as  *)
(* it was beneath the second (termstate.c:107-211, 269-303).               *)
THEOREM RowsArePlain == SpecBoth => []ShowsPlain
<1>1. InitBoth => ShowsPlain
  BY InitShown
<1>2. TypeOK /\ ShowsPlain /\ [NextBoth]_<<vars, plain>> => ShowsPlain'
  BY NextShown
<1>3. SpecBoth => []TypeOK
  BY InStepAlone, TypeCorrect
<1>. QED
  BY <1>1, <1>2, <1>3, PTL DEF SpecBoth
=============================================================================
