---------------------------- MODULE EmulatorProofs ----------------------------
(***************************************************************************)
(* Proofs about modules Parser and Emulator, for every size of the screen, *)
(* of the print buffer and of a read, and every set of bytes.              *)
(*                                                                         *)
(* Invariant: the two parsers agree, text waits in the buffer only in      *)
(* GROUND, and printing what waits turns the buffered terminal into the    *)
(* plain one.  A byte keeps it because a fast path does what the table     *)
(* does (FastIsPlain), a byte that is no text finds the buffer flushed     *)
(* (PlainGood), and a segment writes what one character after another      *)
(* would (SpanIsCells).  BufferingIsInvisible follows at once.             *)
(*                                                                         *)
(* Induction over naturals goes through the least element of a set of      *)
(* them (Recursion), since a rule with a formula as its parameter is out   *)
(* of the provers' reach.                                                  *)
(***************************************************************************)
EXTENDS Emulator, SequenceTheorems, WellFoundedInduction, TLAPS

USE EmulatorAssumption DEF EmulatorAssumption
USE ParserAssumption DEF ParserAssumption

-----------------------------------------------------------------------------
(* The parser: its states, and what a byte can lead to.                    *)

States == {"GROUND", "ESC", "ESC_INT", "CSI_ENTRY", "CSI_PARAM", "CSI_INT", "CSI_IGNORE",
           "OSC_STRING", "SOS_PM_APC"} \union DcsStates
Numbers == Seq(Int)
ParserType ==
  [state : States, prev : {"NONE", "OSC", "DCS", "SOS"}, inter : Int, prefix : Int,
   params : Numbers, left : 0 .. 3, cp : Int]
Kinds == {"graphic", "ascii", "wide", Broken}

\* A character is only ever under way in GROUND.
ParserInv(p) == p \in ParserType /\ (p.left > 0 => p.state = "GROUND")

\* The fast paths do what the table does.
LEMMA FastIsPlain ==
  ASSUME NEW p \in ParserType, NEW b \in 0 .. 255, Quick(p, b)
  PROVE  Fast(p, b) = Anywhere(p, b)
<1>1. b # \h18 /\ b # \h1A /\ b # \h1B /\ b # \h9C /\ ~(b >= \h80)
  BY DEF Quick, Printables, Digits, Seps
<1>2. Anywhere(p, b) = Dispatch(p, b)
  BY <1>1 DEF Anywhere
<1>3. CASE p.state = "GROUND"
  <2>1. b \in Printables /\ ~(b < \h20)
    BY <1>3 DEF Quick, Printables
  <2>2. Dispatch(p, b) = Ground(p, b)
    BY <1>3 DEF Dispatch, DcsStates
  <2>. QED
    BY <1>2, <1>3, <2>1, <2>2 DEF Fast, Ground
<1>4. CASE p.state # "GROUND"
  <2>1. p.state = "CSI_PARAM" /\ b \in Digits \union Seps
    BY <1>4 DEF Quick
  <2>2. Dispatch(p, b) = Csi(p, b)
    BY <2>1 DEF Dispatch, DcsStates
  <2>3. Csi(p, b) = To(In(Param(p, b), "CSI_PARAM"))
    BY <2>1 DEF Csi, Finals, Inters, Digits, Seps, Marks
  <2>4. In(Param(p, b), "CSI_PARAM") = Param(p, b)
    BY <2>1 DEF In, Param, ParserType
  <2>. QED
    BY <1>2, <1>4, <2>2, <2>3, <2>4 DEF Fast
<1>. QED
  BY <1>3, <1>4

-----------------------------------------------------------------------------
(* What a byte can lead to.                                                *)

Events ==
  [is : {"c0"}, byte : Int] \union [is : {"esc"}, inter : Int, final : Int]
    \union [is : {"csi"}, prefix : Int, final : Int, params : Numbers] \union {Osc}

(* An event without a flush, or anything but GROUND, comes only when the   *)
(* buffer is empty already.                                                *)
Good(p, o) ==
  /\ ParserInv(o.to) /\ o.put \in Seq(Kinds) /\ o.flush \in BOOLEAN
  /\ o.events = << >> \/ \E e \in Events : o.events = <<e>>
  /\ o.events # << >> \/ o.to.state # "GROUND" => o.flush \/ (p.state # "GROUND" /\ o.put = << >>)

Idle(p) == p \in ParserType /\ p.left = 0

\* The same by name, with what it keeps, for a parser with no character under way.
SetState(p, v) == [p EXCEPT !.state = v]
SetPrev(p, v) == [p EXCEPT !.prev = v]
SetInter(p, v) == [p EXCEPT !.inter = v]
SetPrefix(p, v) == [p EXCEPT !.prefix = v]
SetParams(p, v) == [p EXCEPT !.params = v]

LEMMA SetIdle ==
  ASSUME NEW p, Idle(p)
  PROVE  /\ \A v \in States : Idle(SetState(p, v)) /\ SetState(p, v).state = v
         /\ \A v \in {"NONE", "OSC", "DCS", "SOS"} :
              Idle(SetPrev(p, v)) /\ SetPrev(p, v).state = p.state
         /\ \A v \in Int : Idle(SetInter(p, v)) /\ SetInter(p, v).state = p.state
         /\ \A v \in Int : Idle(SetPrefix(p, v)) /\ SetPrefix(p, v).state = p.state
         /\ \A v \in Numbers : Idle(SetParams(p, v)) /\ SetParams(p, v).state = p.state
<1>1. p \in [state : States, prev : {"NONE", "OSC", "DCS", "SOS"}, inter : Int, prefix : Int,
             params : Numbers, left : 0 .. 3, cp : Int] /\ p.left = 0
  BY DEF Idle, ParserType
<1>2. ASSUME NEW v \in States PROVE Idle(SetState(p, v)) /\ SetState(p, v).state = v
  BY <1>1 DEF Idle, ParserType, SetState
<1>3. ASSUME NEW v \in {"NONE", "OSC", "DCS", "SOS"}
      PROVE  Idle(SetPrev(p, v)) /\ SetPrev(p, v).state = p.state
  BY <1>1 DEF Idle, ParserType, SetPrev
<1>4. ASSUME NEW v \in Int PROVE Idle(SetInter(p, v)) /\ SetInter(p, v).state = p.state
  BY <1>1 DEF Idle, ParserType, SetInter
<1>5. ASSUME NEW v \in Int PROVE Idle(SetPrefix(p, v)) /\ SetPrefix(p, v).state = p.state
  BY <1>1 DEF Idle, ParserType, SetPrefix
<1>6. ASSUME NEW v \in Numbers PROVE Idle(SetParams(p, v)) /\ SetParams(p, v).state = p.state
  BY <1>1 DEF Idle, ParserType, SetParams
<1>. QED
  BY <1>2, <1>3, <1>4, <1>5, <1>6

LEMMA OutcomeGood ==
  ASSUME NEW p, NEW q, Idle(q)
  PROVE  /\ (q.state # "GROUND" => p.state # "GROUND") => Good(p, To(q))
         /\ q.state = "GROUND" => \A k \in Kinds : Good(p, Puts(q, k))
         /\ p.state # "GROUND" => \A e \in Events : Good(p, Emits(q, e))
         /\ Good(p, Flushes(q, << >>))
         /\ \A e \in Events : Good(p, Flushes(q, <<e>>))
<1>0. ParserInv(q)
  BY DEF ParserInv, Idle
<1>. DEFINE Puttable == Seq(Kinds)
<1>9. << >> \in Puttable /\ \A k \in Kinds : <<k>> \in Puttable
  OBVIOUS
<1>. HIDE DEF Puttable
<1>1. /\ To(q).to = q /\ To(q).put = << >> /\ To(q).events = << >> /\ To(q).flush = FALSE
  BY DEF To
<1>2. ASSUME NEW k
      PROVE  /\ Puts(q, k).to = q /\ Puts(q, k).put = <<k>>
             /\ Puts(q, k).events = << >> /\ Puts(q, k).flush = FALSE
  BY DEF To, Puts
<1>3. ASSUME NEW e
      PROVE  /\ Emits(q, e).to = q /\ Emits(q, e).put = << >>
             /\ Emits(q, e).events = <<e>> /\ Emits(q, e).flush = FALSE
  BY DEF To, Emits
<1>4. ASSUME NEW es
      PROVE  /\ Flushes(q, es).to = q /\ Flushes(q, es).put = << >>
             /\ Flushes(q, es).events = es /\ Flushes(q, es).flush = TRUE
  BY DEF To, Flushes
<1>5. (q.state # "GROUND" => p.state # "GROUND") => Good(p, To(q))
  BY <1>9, <1>0, <1>1 DEF Good, Puttable
<1>6. ASSUME q.state = "GROUND", NEW k \in Kinds PROVE Good(p, Puts(q, k))
  BY <1>9, <1>0, <1>2, <1>6 DEF Good, Puttable
<1>7. ASSUME p.state # "GROUND", NEW e \in Events PROVE Good(p, Emits(q, e))
  BY <1>9, <1>0, <1>3, <1>7 DEF Good, Puttable
<1>8. Good(p, Flushes(q, << >>)) /\ \A e \in Events : Good(p, Flushes(q, <<e>>))
  BY <1>9, <1>0, <1>4 DEF Good, Puttable
<1>. QED
  BY <1>5, <1>6, <1>7, <1>8

LEMMA StepIdle ==
  ASSUME NEW p, Idle(p), NEW b \in 0 .. 255
  PROVE  /\ Idle(Clear(p)) /\ Clear(p).state = p.state
         /\ Idle(EnterGround(p)) /\ EnterGround(p).state = "GROUND"
         /\ Idle(EnterEsc(p))
         /\ Idle(Collect(p, b)) /\ Collect(p, b).state = p.state
         /\ Idle(Prefix(p, b)) /\ Prefix(p, b).state = p.state
<1>1. Idle(Clear(p)) /\ Clear(p).state = p.state
  <2>1. PICK q : q = SetInter(p, 0)
    OBVIOUS
  <2>2. PICK r : r = SetPrefix(q, 0)
    OBVIOUS
  <2>3. Idle(q) /\ q.state = p.state
    BY <2>1, SetIdle
  <2>4. Idle(r) /\ r.state = p.state
    BY <2>2, <2>3, SetIdle
  <2>5. << >> \in Numbers
    BY DEF Numbers
  <2>6. Clear(p) = SetParams(r, << >>)
    BY <2>1, <2>2 DEF Clear, SetInter, SetPrefix, SetParams
  <2>. QED
    BY <2>4, <2>5, <2>6, SetIdle
<1>2. ASSUME NEW v \in States, NEW w \in {"NONE", "OSC", "DCS", "SOS"}
      PROVE  /\ Idle(SetPrev(SetState(Clear(p), v), w))
             /\ SetPrev(SetState(Clear(p), v), w).state = v
  <2>1. Idle(SetState(Clear(p), v)) /\ SetState(Clear(p), v).state = v
    BY <1>1, SetIdle
  <2>. QED
    BY <2>1, SetIdle
<1>3. "GROUND" \in States /\ "ESC" \in States
  BY DEF States
<1>4. Idle(EnterGround(p)) /\ EnterGround(p).state = "GROUND"
  <2>1. EnterGround(p) = SetPrev(SetState(Clear(p), "GROUND"), "NONE")
    BY DEF EnterGround, SetPrev, SetState
  <2>. QED
    BY <1>2, <1>3, <2>1
<1>5. Idle(EnterEsc(p))
  <2>. DEFINE w == CASE p.state = "OSC_STRING" -> "OSC"
                     [] p.state \in DcsStates -> "DCS"
                     [] p.state = "SOS_PM_APC" -> "SOS"
                     [] p.state \in {"ESC", "ESC_INT"} -> p.prev
                     [] OTHER -> "NONE"
  <2>1. p.prev \in {"NONE", "OSC", "DCS", "SOS"}
    BY DEF Idle, ParserType
  <2>2. w \in {"NONE", "OSC", "DCS", "SOS"}
    BY <2>1 DEF DcsStates
  <2>3. EnterEsc(p) = [Clear(p) EXCEPT !.state = "ESC", !.prev = w]
    BY DEF EnterEsc
  <2>. HIDE DEF w
  <2>4. EnterEsc(p) = SetPrev(SetState(Clear(p), "ESC"), w)
    BY <2>3 DEF SetPrev, SetState
  <2>. QED
    BY <1>2, <1>3, <2>2, <2>4
<1>6. Idle(Collect(p, b)) /\ Collect(p, b).state = p.state
  <2>1. Collect(p, b) = SetInter(p, b) \/ Collect(p, b) = p
    BY DEF Collect, SetInter
  <2>. QED
    BY <2>1, SetIdle
<1>7. Idle(Prefix(p, b)) /\ Prefix(p, b).state = p.state
  <2>1. Prefix(p, b) = SetPrefix(p, b) \/ Prefix(p, b) = p
    BY DEF Prefix, SetPrefix
  <2>. QED
    BY <2>1, SetIdle
<1>. QED
  BY <1>1, <1>4, <1>5, <1>6, <1>7

LEMMA ParamIdle ==
  ASSUME NEW p, Idle(p), NEW b \in 0 .. 255
  PROVE  Idle(Param(p, b)) /\ Param(p, b).state = p.state
<1>. DEFINE s == p.params
            filled == IF s = << >> THEN <<Missing>> ELSE s
            t == IF b \in Digits THEN [filled EXCEPT ![Len(filled)] = Number(@, b - \h30)]
                 ELSE IF Len(filled) < Params THEN Append(filled, Missing) ELSE filled
<1>1. s \in Seq(Int)
  BY DEF Idle, ParserType, Numbers
<1>2. filled \in Seq(Int) /\ filled # << >>
  BY <1>1 DEF Missing
<1>3. Param(p, b) = [p EXCEPT !.params = t]
  BY DEF Param
<1>. HIDE DEF s, filled
<1>4. t \in Seq(Int)
  <2>1. Len(filled) \in 1 .. Len(filled) /\ filled[Len(filled)] \in Int
    BY <1>2
  <2>2. \A v \in Int : Number(v, b - \h30) \in Int
    BY DEF Number, Many
  <2>3. Append(filled, Missing) \in Seq(Int)
    BY <1>2 DEF Missing
  <2>4. [filled EXCEPT ![Len(filled)] = Number(@, b - \h30)] \in Seq(Int)
    BY <1>2, <2>1, <2>2, ExceptSeq
  <2>. QED
    BY <1>2, <2>3, <2>4
<1>. HIDE DEF t
<1>5. Param(p, b) = SetParams(p, t) /\ t \in Numbers
  BY <1>3, <1>4 DEF SetParams, Numbers
<1>. QED
  BY <1>5, SetIdle

LEMMA EventTypes ==
  ASSUME NEW p \in ParserType, NEW b \in 0 .. 255
  PROVE  C0(b) \in Events /\ EscEvent(p, b) \in Events /\ CsiEvent(p, b) \in Events /\ Osc \in Events
  BY DEF Events, C0, EscEvent, CsiEvent, ParserType

LEMMA KindType == \A cp \in Int : Kind(cp) \in Kinds
  BY DEF Kind, Kinds

LEMMA GroundGood ==
  ASSUME NEW p, Idle(p), p.state = "GROUND", NEW b \in 0 .. 255
  PROVE  Good(p, Ground(p, b))
<1>1. C0(b) \in Events
  BY EventTypes DEF Idle
<1>2. Kind(b) \in Kinds
  BY KindType
<1>. QED
  BY <1>1, <1>2, OutcomeGood DEF Ground

\* What most states do: take note of the byte and go to another state.
LEMMA GoGood ==
  ASSUME NEW p, Idle(p), p.state # "GROUND", NEW b \in 0 .. 255
  PROVE  /\ Good(p, To(p)) /\ Good(p, To(Collect(p, b))) /\ Good(p, To(EnterGround(p)))
         /\ \A s \in States : /\ Good(p, To(In(p, s)))
                              /\ Good(p, To(In(Collect(p, b), s)))
                              /\ Good(p, To(In(Prefix(p, b), s)))
                              /\ Good(p, To(In(Param(p, b), s)))
<1>1. \A q : Idle(q) => Good(p, To(q))
  BY OutcomeGood
<1>2. \A q, s : In(q, s) = SetState(q, s)
  BY DEF In, SetState
<1>3. \A q : Idle(q) => \A s \in States : Idle(In(q, s))
  BY <1>2, SetIdle
<1>4. Idle(Collect(p, b)) /\ Idle(Prefix(p, b)) /\ Idle(EnterGround(p))
  BY StepIdle
<1>5. Idle(Param(p, b))
  BY ParamIdle
<1>6. Good(p, To(p)) /\ Good(p, To(Collect(p, b))) /\ Good(p, To(EnterGround(p)))
  BY <1>1, <1>4
<1>7. ASSUME NEW s \in States
      PROVE  /\ Good(p, To(In(p, s))) /\ Good(p, To(In(Collect(p, b), s)))
             /\ Good(p, To(In(Prefix(p, b), s))) /\ Good(p, To(In(Param(p, b), s)))
  <2>1. /\ Idle(In(p, s)) /\ Idle(In(Collect(p, b), s))
        /\ Idle(In(Prefix(p, b), s)) /\ Idle(In(Param(p, b), s))
    BY <1>3, <1>4, <1>5
  <2>. QED
    BY <1>1, <2>1
<1>. QED
  BY <1>6, <1>7

LEMMA EscGood ==
  ASSUME NEW p, Idle(p), p.state # "GROUND", NEW b \in 0 .. 255
  PROVE  Good(p, Esc(p, b)) /\ Good(p, EscInt(p, b))
<1>1. /\ Good(p, To(p)) /\ Good(p, To(Collect(p, b))) /\ Good(p, To(EnterGround(p)))
      /\ Good(p, To(In(Collect(p, b), "ESC_INT")))
  BY GoGood DEF States
<1>2. Good(p, Emits(EnterGround(p), Osc)) /\ Good(p, Emits(EnterGround(p), EscEvent(p, b)))
  <2>1. Osc \in Events /\ EscEvent(p, b) \in Events
    BY EventTypes DEF Idle
  <2>2. Idle(EnterGround(p))
    BY StepIdle
  <2>. QED
    BY <2>1, <2>2, OutcomeGood
<1>3. ASSUME NEW q \in {p, Clear(p)}, NEW s \in States
      PROVE  Good(p, To([q EXCEPT !.state = s, !.prev = "NONE"]))
  <2>1. Idle(q)
    BY StepIdle
  <2>2. Idle(SetState(q, s))
    BY <2>1, SetIdle
  <2>3. Idle(SetPrev(SetState(q, s), "NONE"))
    BY <2>2, SetIdle
  <2>4. [q EXCEPT !.state = s, !.prev = "NONE"] = SetPrev(SetState(q, s), "NONE")
    BY DEF SetPrev, SetState
  <2>. QED
    BY <2>3, <2>4, OutcomeGood
<1>4. /\ Good(p, To([Clear(p) EXCEPT !.state = "CSI_ENTRY", !.prev = "NONE"]))
      /\ Good(p, To([Clear(p) EXCEPT !.state = "DCS_ENTRY", !.prev = "NONE"]))
      /\ Good(p, To([p EXCEPT !.state = "OSC_STRING", !.prev = "NONE"]))
      /\ Good(p, To([p EXCEPT !.state = "SOS_PM_APC", !.prev = "NONE"]))
  BY <1>3, Zenon DEF States, DcsStates
<1>5. Good(p, Esc(p, b))
  BY <1>1, <1>2, <1>4 DEF Esc, Inters
<1>6. Good(p, EscInt(p, b))
  BY <1>1, <1>2 DEF EscInt, Inters
<1>. QED
  BY <1>5, <1>6

LEMMA CsiGood ==
  ASSUME NEW p, Idle(p), p.state # "GROUND", NEW b \in 0 .. 255
  PROVE  Good(p, Csi(p, b)) /\ Good(p, Dcs(p, b)) /\ Good(p, OscString(p, b))
<1>1. /\ Good(p, To(p)) /\ Good(p, To(EnterGround(p)))
      /\ Good(p, To(In(Collect(p, b), "CSI_INT"))) /\ Good(p, To(In(Collect(p, b), "DCS_INT")))
      /\ Good(p, To(In(Param(p, b), "CSI_PARAM"))) /\ Good(p, To(In(Param(p, b), "DCS_PARAM")))
      /\ Good(p, To(In(Prefix(p, b), "CSI_PARAM"))) /\ Good(p, To(In(p, "CSI_IGNORE")))
      /\ Good(p, To(In(p, "DCS_PASS"))) /\ Good(p, To(In(p, "DCS_IGNORE")))
  BY GoGood DEF States, DcsStates
<1>2. Good(p, Emits(EnterGround(p), Osc)) /\ Good(p, Emits(EnterGround(p), CsiEvent(p, b)))
  <2>1. Osc \in Events /\ CsiEvent(p, b) \in Events
    BY EventTypes DEF Idle
  <2>2. Idle(EnterGround(p))
    BY StepIdle
  <2>. QED
    BY <2>1, <2>2, OutcomeGood
<1>3. Good(p, Csi(p, b))
  BY <1>1, <1>2 DEF Csi, Finals, Inters, Digits, Seps, Marks
<1>4. Good(p, Dcs(p, b))
  BY <1>1 DEF Dcs, Finals, Inters, Digits, Marks
<1>5. Good(p, OscString(p, b))
  BY <1>1, <1>2 DEF OscString
<1>. QED
  BY <1>3, <1>4, <1>5

LEMMA DispatchGood ==
  ASSUME NEW p, Idle(p), NEW b \in 0 .. 255
  PROVE  Good(p, Dispatch(p, b))
<1>1. CASE p.state = "GROUND"
  BY <1>1, GroundGood DEF Dispatch, DcsStates
<1>2. CASE p.state # "GROUND"
  <2>1. /\ Good(p, Esc(p, b)) /\ Good(p, EscInt(p, b)) /\ Good(p, Csi(p, b)) /\ Good(p, Dcs(p, b))
        /\ Good(p, OscString(p, b)) /\ Good(p, To(p))
    BY <1>2, EscGood, CsiGood, GoGood
  <2>. QED
    BY <1>2, <2>1 DEF Dispatch, DcsStates
<1>. QED
  BY <1>1, <1>2

\* A character under way: how much of it is left, and what there is of it.
SetLeft(p, v) == [p EXCEPT !.left = v]
SetCp(p, v) == [p EXCEPT !.cp = v]

LEMMA SetChar ==
  ASSUME NEW p \in ParserType, NEW k \in 0 .. 3, NEW c \in Int
  PROVE  /\ SetCp(SetLeft(p, k), c) \in ParserType
         /\ SetCp(SetLeft(p, k), c).state = p.state
         /\ SetCp(SetLeft(p, k), c).left = k
<1>1. ASSUME NEW r \in ParserType
      PROVE  SetLeft(r, k) \in ParserType /\ SetLeft(r, k).state = r.state /\ SetLeft(r, k).left = k
  BY DEF SetLeft, ParserType
<1>2. ASSUME NEW r \in ParserType
      PROVE  SetCp(r, c) \in ParserType /\ SetCp(r, c).state = r.state /\ SetCp(r, c).left = r.left
  BY DEF SetCp, ParserType
<1>3. SetLeft(p, k) \in ParserType /\ SetLeft(p, k).state = p.state /\ SetLeft(p, k).left = k
  BY <1>1
<1>. QED
  BY <1>2, <1>3

LEMMA AnywhereGood ==
  ASSUME NEW p, Idle(p), NEW b \in 0 .. 255
  PROVE  Good(p, Anywhere(p, b))
<1>1. Idle(EnterGround(p)) /\ Idle(EnterEsc(p))
  BY StepIdle
<1>2. C0(b) \in Events /\ Osc \in Events
  BY EventTypes DEF Idle
<1>3. CASE b \in {\h18, \h1A}
  <2>1. Anywhere(p, b) = Flushes(EnterGround(p), <<C0(b)>>)
    BY <1>3 DEF Anywhere
  <2>. QED
    BY <1>1, <1>2, <2>1, OutcomeGood
<1>4. CASE b = \h1B
  <2>1. Anywhere(p, b) = Flushes(EnterEsc(p), << >>)
    BY <1>4 DEF Anywhere
  <2>. QED
    BY <1>1, <2>1, OutcomeGood
<1>5. CASE b = \h9C
  <2>1. Anywhere(p, b)
          = Flushes(EnterGround(p), IF p.state = "OSC_STRING" THEN <<Osc>> ELSE << >>)
    BY <1>5 DEF Anywhere
  <2>2. Good(p, Flushes(EnterGround(p), << >>)) /\ Good(p, Flushes(EnterGround(p), <<Osc>>))
    BY <1>1, <1>2, OutcomeGood
  <2>. QED
    BY <2>1, <2>2
<1>6. CASE b >= \h80 /\ b # \h9C
  <2>1. Anywhere(p, b) = IF p.state # "GROUND" THEN To(p)
                         ELSE IF b \in \hC2 .. \hF4 THEN To(Utf8Start(p, b))
                         ELSE Puts(p, Broken)
    BY <1>6 DEF Anywhere
  <2>2. p.state # "GROUND" => Good(p, To(p))
    BY OutcomeGood
  <2>3. p.state = "GROUND" => Good(p, Puts(p, Broken))
    BY OutcomeGood DEF Kinds
  <2>4. ASSUME p.state = "GROUND" PROVE Good(p, To(Utf8Start(p, b)))
    <3>. PICK q : q = Utf8Start(p, b)
      OBVIOUS
    <3>1. q \in ParserType /\ q.state = "GROUND"
      <4>1. \/ q = SetCp(SetLeft(p, 3), b % 8)
            \/ q = SetCp(SetLeft(p, 2), b % 16)
            \/ q = SetCp(SetLeft(p, 1), b % 32)
        <5>1. \/ q = [p EXCEPT !.cp = b % 8, !.left = 3]
              \/ q = [p EXCEPT !.cp = b % 16, !.left = 2]
              \/ q = [p EXCEPT !.cp = b % 32, !.left = 1]
          BY DEF Utf8Start
        <5>2. ASSUME NEW c, NEW k
              PROVE  [p EXCEPT !.cp = c, !.left = k] = SetCp(SetLeft(p, k), c)
          BY DEF SetCp, SetLeft
        <5>. QED
          BY <5>1, <5>2, Zenon
      <4>2. b % 8 \in Int /\ b % 16 \in Int /\ b % 32 \in Int
        OBVIOUS
      <4>3. p \in ParserType
        BY DEF Idle
      <4>4. ASSUME NEW k \in 0 .. 3, NEW c \in Int, q = SetCp(SetLeft(p, k), c)
            PROVE  q \in ParserType /\ q.state = "GROUND"
        <5>1. /\ SetCp(SetLeft(p, k), c) \in ParserType
              /\ SetCp(SetLeft(p, k), c).state = p.state
          BY <4>3, SetChar
        <5>. QED
          BY <2>4, <4>4, <5>1
      <4>5. CASE q = SetCp(SetLeft(p, 3), b % 8)
        BY <4>2, <4>4, <4>5
      <4>6. CASE q = SetCp(SetLeft(p, 2), b % 16)
        BY <4>2, <4>4, <4>6
      <4>7. CASE q = SetCp(SetLeft(p, 1), b % 32)
        BY <4>2, <4>4, <4>7
      <4>. QED
        BY <4>1, <4>5, <4>6, <4>7, Zenon
    <3>2. /\ To(q).to = q /\ To(q).put = << >> /\ To(q).events = << >> /\ To(q).flush = FALSE
      BY DEF To
    <3>3. To(q).put \in Seq(Kinds)
      BY <3>2
    <3>4. ParserInv(q)
      BY <3>1 DEF ParserInv
    <3>5. Good(p, To(q))
      BY <3>1, <3>2, <3>3, <3>4, Zenon DEF Good
    <3>. QED
      BY <3>5
  <2>. QED
    BY <2>1, <2>2, <2>3, <2>4
<1>7. CASE ~ (b \in {\h18, \h1A, \h1B} \/ b >= \h80)
  <2>1. Anywhere(p, b) = Dispatch(p, b)
    BY <1>7 DEF Anywhere
  <2>. QED
    BY <2>1, DispatchGood
<1>. QED
  BY <1>3, <1>4, <1>5, <1>6, <1>7

LEMMA WholeIdle ==
  ASSUME NEW p \in ParserType
  PROVE  Idle(Whole(p)) /\ Whole(p).state = p.state
<1>1. Whole(p) = SetCp(SetLeft(p, 0), 0)
  BY DEF Whole, SetCp, SetLeft
<1>2. /\ SetCp(SetLeft(p, 0), 0) \in ParserType
      /\ SetCp(SetLeft(p, 0), 0).state = p.state /\ SetCp(SetLeft(p, 0), 0).left = 0
  BY SetChar
<1>. QED
  BY <1>1, <1>2, Zenon DEF Idle

\* The fast paths cannot be told from the table, whatever the byte.
LEMMA ByteIsPlain ==
  ASSUME NEW p, ParserInv(p), NEW b \in 0 .. 255
  PROVE  Byte(p, b) = PlainByte(p, b)
<1>1. Whole(p) \in ParserType
  BY WholeIdle DEF ParserInv, Idle
<1>2. Alone(Whole(p), b) = Anywhere(Whole(p), b)
  BY <1>1, FastIsPlain DEF Alone
<1>. QED
  BY <1>2 DEF Byte, PlainByte

LEMMA ContinueGood ==
  ASSUME NEW p, ParserInv(p), NEW b \in 0 .. 255, GoesOn(p, b)
  PROVE  Good(p, Continue(p, b))
<1>1. p \in ParserType /\ p.left \in 1 .. 3 /\ p.state = "GROUND"
  BY DEF ParserInv, GoesOn, ParserType
<1>. DEFINE cp == p.cp * 64 + (b % 64)
            q == [p EXCEPT !.left = p.left - 1, !.cp = cp]
<1>2. cp \in Int
  BY <1>1 DEF ParserType
<1>3. CASE p.left = 1
  <2>1. Decoded(cp) \in Kinds
    BY <1>2, KindType DEF Decoded, Kinds
  <2>2. Continue(p, b) = Puts(Whole(p), Decoded(cp))
    BY <1>3 DEF Continue
  <2>3. Idle(Whole(p)) /\ Whole(p).state = "GROUND"
    BY <1>1, WholeIdle
  <2>. HIDE DEF cp
  <2>. QED
    BY <2>1, <2>2, <2>3, OutcomeGood
<1>4. CASE p.left # 1
  <2>1. Continue(p, b) = To(q)
    BY <1>4 DEF Continue
  <2>. HIDE DEF cp
  <2>2. q \in ParserType /\ q.state = "GROUND"
    <3>1. q = SetCp(SetLeft(p, p.left - 1), cp)
      BY DEF SetCp, SetLeft
    <3>2. p.left - 1 \in 0 .. 3
      BY <1>1
    <3>. HIDE DEF q
    <3>. QED
      BY <1>1, <1>2, <3>1, <3>2, SetChar
  <2>. HIDE DEF q
  <2>3. /\ To(q).to = q /\ To(q).put = << >> /\ To(q).events = << >> /\ To(q).flush = FALSE
    BY DEF To
  <2>4. To(q).put \in Seq(Kinds)
    BY <2>3
  <2>5. ParserInv(q)
    BY <2>2 DEF ParserInv
  <2>. QED
    BY <2>1, <2>2, <2>3, <2>4, <2>5, Zenon DEF Good
<1>. QED
  BY <1>3, <1>4

LEMMA PlainGood ==
  ASSUME NEW p, ParserInv(p), NEW b \in 0 .. 255
  PROVE  Good(p, PlainByte(p, b))
<1>1. CASE GoesOn(p, b)
  BY <1>1, ContinueGood DEF PlainByte
<1>2. CASE ~ GoesOn(p, b)
  <2>. DEFINE o == Anywhere(Whole(p), b)
  <2>1. Idle(Whole(p)) /\ Whole(p).state = p.state
    BY WholeIdle DEF ParserInv
  <2>2. Good(Whole(p), o)
    BY <2>1, AnywhereGood
  <2>3. PlainByte(p, b) = AfterBroken(p, o)
    BY <1>2 DEF PlainByte
  <2>. HIDE DEF o
  <2>4. CASE p.left > 0
    <3>. DEFINE q == [o EXCEPT !.put = <<Broken>> \o @]
    <3>1. p.state = "GROUND"
      BY <2>4 DEF ParserInv
    <3>2. o.put \in Seq(Kinds)
      BY <2>2 DEF Good
    <3>3. <<Broken>> \o o.put \in Seq(Kinds)
      BY <3>2 DEF Kinds
    <3>4. AfterBroken(p, o) = q
      BY <2>4 DEF AfterBroken
    <3>. QED
      BY <2>1, <2>2, <2>3, <3>1, <3>3, <3>4 DEF Good
  <2>5. CASE ~ (p.left > 0)
    <3>1. AfterBroken(p, o) = o
      BY <2>5 DEF AfterBroken
    <3>. QED
      BY <2>1, <2>2, <2>3, <3>1 DEF Good
  <2>. QED
    BY <2>4, <2>5
<1>. QED
  BY <1>1, <1>2

-----------------------------------------------------------------------------
(* The terminal: what its state looks like, and that everything keeps it   *)
(* so.                                                                     *)

Looks == {"blank", "before", "drawing"} \union Kinds
Cells == Looks \X Int \X Int
LineType == [Col -> Cells]
Pages == [1 .. 2 -> {"ascii", "gfx"}]
TermType ==
  [cx : Col, cy : Row, pending : BOOLEAN, g : Pages, gl : {1, 2}, irm : BOOLEAN, awm : BOOLEAN,
   lines : [Row -> LineType]]

SetCx(t, v) == [t EXCEPT !.cx = v]
SetCy(t, v) == [t EXCEPT !.cy = v]
SetPending(t, v) == [t EXCEPT !.pending = v]
SetG(t, v) == [t EXCEPT !.g = v]
SetGl(t, v) == [t EXCEPT !.gl = v]
SetIrm(t, v) == [t EXCEPT !.irm = v]
SetAwm(t, v) == [t EXCEPT !.awm = v]
SetLines(t, v) == [t EXCEPT !.lines = v]

LEMMA SetCxTerm ==
  ASSUME NEW t \in TermType, NEW v \in Col
  PROVE  /\ SetCx(t, v) \in TermType /\ SetCx(t, v).cx = v
         /\ SetCx(t, v).cy = t.cy /\ SetCx(t, v).pending = t.pending
         /\ SetCx(t, v).g = t.g /\ SetCx(t, v).gl = t.gl
         /\ SetCx(t, v).irm = t.irm /\ SetCx(t, v).awm = t.awm
         /\ SetCx(t, v).lines = t.lines
  BY DEF TermType, SetCx

LEMMA SetCyTerm ==
  ASSUME NEW t \in TermType, NEW v \in Row
  PROVE  /\ SetCy(t, v) \in TermType /\ SetCy(t, v).cy = v
         /\ SetCy(t, v).cx = t.cx /\ SetCy(t, v).pending = t.pending
         /\ SetCy(t, v).g = t.g /\ SetCy(t, v).gl = t.gl
         /\ SetCy(t, v).irm = t.irm /\ SetCy(t, v).awm = t.awm
         /\ SetCy(t, v).lines = t.lines
  BY DEF TermType, SetCy

LEMMA SetPendingTerm ==
  ASSUME NEW t \in TermType, NEW v \in BOOLEAN
  PROVE  /\ SetPending(t, v) \in TermType /\ SetPending(t, v).pending = v
         /\ SetPending(t, v).cx = t.cx /\ SetPending(t, v).cy = t.cy
         /\ SetPending(t, v).g = t.g /\ SetPending(t, v).gl = t.gl
         /\ SetPending(t, v).irm = t.irm /\ SetPending(t, v).awm = t.awm
         /\ SetPending(t, v).lines = t.lines
  BY DEF TermType, SetPending

LEMMA SetGTerm ==
  ASSUME NEW t \in TermType, NEW v \in Pages
  PROVE  /\ SetG(t, v) \in TermType /\ SetG(t, v).g = v
         /\ SetG(t, v).cx = t.cx /\ SetG(t, v).cy = t.cy
         /\ SetG(t, v).pending = t.pending /\ SetG(t, v).gl = t.gl
         /\ SetG(t, v).irm = t.irm /\ SetG(t, v).awm = t.awm
         /\ SetG(t, v).lines = t.lines
  BY DEF TermType, SetG

LEMMA SetGlTerm ==
  ASSUME NEW t \in TermType, NEW v \in {1, 2}
  PROVE  /\ SetGl(t, v) \in TermType /\ SetGl(t, v).gl = v
         /\ SetGl(t, v).cx = t.cx /\ SetGl(t, v).cy = t.cy
         /\ SetGl(t, v).pending = t.pending /\ SetGl(t, v).g = t.g
         /\ SetGl(t, v).irm = t.irm /\ SetGl(t, v).awm = t.awm
         /\ SetGl(t, v).lines = t.lines
  BY DEF TermType, SetGl

LEMMA SetIrmTerm ==
  ASSUME NEW t \in TermType, NEW v \in BOOLEAN
  PROVE  /\ SetIrm(t, v) \in TermType /\ SetIrm(t, v).irm = v
         /\ SetIrm(t, v).cx = t.cx /\ SetIrm(t, v).cy = t.cy
         /\ SetIrm(t, v).pending = t.pending /\ SetIrm(t, v).g = t.g
         /\ SetIrm(t, v).gl = t.gl /\ SetIrm(t, v).awm = t.awm
         /\ SetIrm(t, v).lines = t.lines
  BY DEF TermType, SetIrm

LEMMA SetAwmTerm ==
  ASSUME NEW t \in TermType, NEW v \in BOOLEAN
  PROVE  /\ SetAwm(t, v) \in TermType /\ SetAwm(t, v).awm = v
         /\ SetAwm(t, v).cx = t.cx /\ SetAwm(t, v).cy = t.cy
         /\ SetAwm(t, v).pending = t.pending /\ SetAwm(t, v).g = t.g
         /\ SetAwm(t, v).gl = t.gl /\ SetAwm(t, v).irm = t.irm
         /\ SetAwm(t, v).lines = t.lines
  BY DEF TermType, SetAwm

LEMMA SetLinesTerm ==
  ASSUME NEW t \in TermType, NEW v \in [Row -> LineType]
  PROVE  /\ SetLines(t, v) \in TermType /\ SetLines(t, v).lines = v
         /\ SetLines(t, v).cx = t.cx /\ SetLines(t, v).cy = t.cy
         /\ SetLines(t, v).pending = t.pending /\ SetLines(t, v).g = t.g
         /\ SetLines(t, v).gl = t.gl /\ SetLines(t, v).irm = t.irm
         /\ SetLines(t, v).awm = t.awm
  BY DEF TermType, SetLines

\* Two terminals that agree in every field are the same.
LEMMA SameTerm ==
  ASSUME NEW t \in TermType, NEW u \in TermType,
         t.cx = u.cx, t.cy = u.cy, t.pending = u.pending, t.g = u.g, t.gl = u.gl,
         t.irm = u.irm, t.awm = u.awm, t.lines = u.lines
  PROVE  t = u
  BY DEF TermType

LEMMA TermFields ==
  ASSUME NEW t \in TermType
  PROVE  /\ t.cx \in Col /\ t.cy \in Row /\ t.pending \in BOOLEAN /\ t.g \in Pages
         /\ t.gl \in {1, 2} /\ t.irm \in BOOLEAN /\ t.awm \in BOOLEAN
         /\ t.lines \in [Row -> LineType]
  BY DEF TermType

LEMMA BlankTypes == BlankLine \in LineType /\ Blank \in Cells
<1>1. Blank \in Cells
  BY DEF Blank, Cells, Looks
<1>. QED
  BY <1>1 DEF BlankLine, LineType

LEMMA LinesTerm ==
  ASSUME NEW t \in TermType, NEW from \in Row, NEW k \in Nat
  PROVE  /\ LineUp(t, from, k) \in TermType /\ LineDown(t, from, k) \in TermType
         /\ LineUp(t, from, k).pending = t.pending /\ LineUp(t, from, k).cx = t.cx
         /\ LineUp(t, from, k).irm = t.irm
<1>1. t.lines \in [Row -> LineType]
  BY TermFields
<1>. DEFINE up == [r \in Row |-> IF r < from THEN t.lines[r]
                                 ELSE IF r + k < Rows THEN t.lines[r + k] ELSE BlankLine]
            down == [r \in Row |-> IF r < from THEN t.lines[r]
                                   ELSE IF r >= from + k THEN t.lines[r - k] ELSE BlankLine]
<1>2. up \in [Row -> LineType]
  <2>1. \A r \in Row : ~ (r < from) /\ r + k < Rows => r + k \in Row
    BY DEF Row
  <2>. QED
    BY <1>1, <2>1, BlankTypes
<1>3. down \in [Row -> LineType]
  <2>1. \A r \in Row : r >= from + k => r - k \in Row
    BY DEF Row
  <2>. QED
    BY <1>1, <2>1, BlankTypes
<1>4. LineUp(t, from, k) = SetLines(t, up) /\ LineDown(t, from, k) = SetLines(t, down)
  BY DEF LineUp, LineDown, SetLines
<1>. HIDE DEF up, down
<1>. QED
  BY <1>2, <1>3, <1>4, SetLinesTerm

LEMMA EraseTerm ==
  ASSUME NEW t \in TermType
  PROVE  /\ \A r \in Row : \A from, to \in Int : Erase(t, r, from, to) \in TermType
         /\ \A rows : EraseRows(t, rows) \in TermType
<1>1. t.lines \in [Row -> LineType]
  BY TermFields
<1>2. ASSUME NEW r \in Row, NEW from \in Int, NEW to \in Int
      PROVE  Erase(t, r, from, to) \in TermType
  <2>. DEFINE line == [c \in Col |-> IF c \in from .. to THEN Blank ELSE t.lines[r][c]]
  <2>1. t.lines[r] \in LineType
    BY <1>1
  <2>2. line \in LineType
    BY <2>1, BlankTypes DEF LineType
  <2>3. Erase(t, r, from, to) = SetLines(t, [t.lines EXCEPT ![r] = line])
    BY <1>1 DEF Erase, SetLines
  <2>. HIDE DEF line
  <2>4. [t.lines EXCEPT ![r] = line] \in [Row -> LineType]
    BY <1>1, <2>2
  <2>. QED
    BY <2>3, <2>4, SetLinesTerm
<1>3. ASSUME NEW rows
      PROVE  EraseRows(t, rows) \in TermType
  <2>1. [r \in Row |-> IF r \in rows THEN BlankLine ELSE t.lines[r]] \in [Row -> LineType]
    BY <1>1, BlankTypes
  <2>2. EraseRows(t, rows)
          = SetLines(t, [r \in Row |-> IF r \in rows THEN BlankLine ELSE t.lines[r]])
    BY DEF EraseRows, SetLines
  <2>. QED
    BY <2>1, <2>2, SetLinesTerm
<1>. QED
  BY <1>2, <1>3

LEMMA InsertTerm ==
  ASSUME NEW t \in TermType, NEW k \in Nat
  PROVE  Insert(t, k) \in TermType /\ Delete(t, k) \in TermType
<1>1. t.lines \in [Row -> LineType] /\ t.cx \in Col /\ t.cy \in Row
  BY TermFields
<1>2. t.lines[t.cy] \in LineType
  BY <1>1
<1>. DEFINE l == t.lines[t.cy]
            wide == [c \in Col |-> IF c < t.cx THEN l[c] ELSE IF c >= t.cx + k THEN l[c - k] ELSE Blank]
            tight == [c \in Col |-> IF c < t.cx THEN l[c] ELSE IF c + k < Cols THEN l[c + k] ELSE Blank]
<1>3. wide \in LineType
  <2>1. \A c \in Col : c >= t.cx + k => c - k \in Col
    BY <1>1 DEF Col
  <2>. QED
    BY <1>2, <2>1, BlankTypes DEF LineType
<1>4. tight \in LineType
  <2>1. \A c \in Col : c + k < Cols => c + k \in Col
    BY <1>1 DEF Col
  <2>. QED
    BY <1>2, <2>1, BlankTypes DEF LineType
<1>5. /\ Insert(t, k) = SetLines(t, [t.lines EXCEPT ![t.cy] = wide])
      /\ Delete(t, k) = SetLines(t, [t.lines EXCEPT ![t.cy] = tight])
  BY <1>1 DEF Insert, Delete, SetLines
<1>. HIDE DEF wide, tight
<1>6. /\ [t.lines EXCEPT ![t.cy] = wide] \in [Row -> LineType]
      /\ [t.lines EXCEPT ![t.cy] = tight] \in [Row -> LineType]
  BY <1>1, <1>3, <1>4
<1>. QED
  BY <1>5, <1>6, SetLinesTerm

LEMMA GotoTerm ==
  ASSUME NEW t \in TermType, NEW col \in Int, NEW row \in Int
  PROVE  Goto(t, col, row) \in TermType
<1>1. Clamp(col, Cols - 1) \in Col /\ Clamp(row, Rows - 1) \in Row
  BY DEF Clamp, Col, Row
<1>2. PICK u : u = SetCx(t, Clamp(col, Cols - 1))
  OBVIOUS
<1>3. PICK v : v = SetCy(u, Clamp(row, Rows - 1))
  OBVIOUS
<1>4. u \in TermType
  BY <1>1, <1>2, SetCxTerm
<1>5. v \in TermType
  BY <1>1, <1>3, <1>4, SetCyTerm
<1>6. Goto(t, col, row) = SetPending(v, FALSE)
  BY <1>2, <1>3 DEF Goto, SetCx, SetCy, SetPending
<1>. QED
  BY <1>5, <1>6, SetPendingTerm

LEMMA IndexTerm ==
  ASSUME NEW t \in TermType
  PROVE  /\ Index(t) \in TermType /\ Index(t).pending = t.pending /\ Index(t).cx = t.cx
         /\ Index(t).irm = t.irm /\ ReverseIndex(t) \in TermType
<1>1. t.cy \in Row /\ 0 \in Row
  BY TermFields DEF Row
<1>2. /\ LineUp(t, 0, 1) \in TermType /\ LineDown(t, 0, 1) \in TermType
      /\ LineUp(t, 0, 1).pending = t.pending /\ LineUp(t, 0, 1).cx = t.cx
      /\ LineUp(t, 0, 1).irm = t.irm
  BY <1>1, LinesTerm
<1>3. ASSUME t.cy # Rows - 1
      PROVE  /\ [t EXCEPT !.cy = @ + 1] \in TermType
             /\ [t EXCEPT !.cy = @ + 1].pending = t.pending /\ [t EXCEPT !.cy = @ + 1].cx = t.cx
             /\ [t EXCEPT !.cy = @ + 1].irm = t.irm
  <2>1. t.cy + 1 \in Row
    BY <1>1, <1>3 DEF Row
  <2>2. [t EXCEPT !.cy = @ + 1] = SetCy(t, t.cy + 1)
    BY DEF SetCy
  <2>. QED
    BY <2>1, <2>2, SetCyTerm
<1>4. ASSUME t.cy # 0
      PROVE  [t EXCEPT !.cy = @ - 1] \in TermType
  <2>1. t.cy - 1 \in Row
    BY <1>1, <1>4 DEF Row
  <2>2. [t EXCEPT !.cy = @ - 1] = SetCy(t, t.cy - 1)
    BY DEF SetCy
  <2>. QED
    BY <2>1, <2>2, SetCyTerm
<1>. QED
  BY <1>2, <1>3, <1>4 DEF Index, ReverseIndex

LEMMA DoWrapTerm ==
  ASSUME NEW t \in TermType
  PROVE  /\ DoWrap(t) \in TermType /\ DoWrap(t).pending = FALSE /\ DoWrap(t).cx = 0
         /\ DoWrap(t).irm = t.irm
<1>1. PICK u : u = SetPending(t, FALSE)
  OBVIOUS
<1>2. u \in TermType /\ u.pending = FALSE /\ u.irm = t.irm
  BY <1>1, SetPendingTerm
<1>3. PICK v : v = SetCx(u, 0)
  OBVIOUS
<1>4. 0 \in Col
  BY DEF Col
<1>5. v \in TermType /\ v.pending = FALSE /\ v.cx = 0 /\ v.irm = t.irm
  BY <1>2, <1>3, <1>4, SetCxTerm
<1>6. DoWrap(t) = Index(v)
  BY <1>1, <1>3 DEF DoWrap, SetPending, SetCx
<1>. QED
  BY <1>5, <1>6, IndexTerm

LEMMA GlyphType ==
  ASSUME NEW t, NEW k \in Kinds
  PROVE  Glyph(t, k) \in Cells
  BY DEF Glyph, Cells, Looks

\* What a character leaves where the cursor is, before the cursor moves.
SetCell(t, k) == SetLines(t, [t.lines EXCEPT ![t.cy] = [t.lines[t.cy] EXCEPT ![t.cx] = Glyph(t, k)]])

LEMMA SetCellTerm ==
  ASSUME NEW t \in TermType, NEW k \in Kinds
  PROVE  /\ SetCell(t, k) \in TermType
         /\ SetCell(t, k) = [t EXCEPT !.lines[t.cy][t.cx] = Glyph(t, k)]
         /\ SetCell(t, k).cx = t.cx /\ SetCell(t, k).cy = t.cy
         /\ SetCell(t, k).pending = t.pending /\ SetCell(t, k).g = t.g
         /\ SetCell(t, k).gl = t.gl /\ SetCell(t, k).irm = t.irm
         /\ SetCell(t, k).awm = t.awm
         /\ SetCell(t, k).lines
              = [t.lines EXCEPT ![t.cy] = [t.lines[t.cy] EXCEPT ![t.cx] = Glyph(t, k)]]
<1>1. t.cx \in Col /\ t.cy \in Row /\ t.lines \in [Row -> LineType]
  BY TermFields
<1>2. t.lines[t.cy] \in LineType
  BY <1>1
<1>3. [t.lines[t.cy] EXCEPT ![t.cx] = Glyph(t, k)] \in LineType
  BY <1>2, GlyphType DEF LineType
<1>4. [t.lines EXCEPT ![t.cy] = [t.lines[t.cy] EXCEPT ![t.cx] = Glyph(t, k)]] \in [Row -> LineType]
  BY <1>1, <1>3
<1>5. SetCell(t, k) = [t EXCEPT !.lines[t.cy][t.cx] = Glyph(t, k)]
  BY <1>1 DEF SetCell, SetLines, TermType
<1>. QED
  BY <1>4, <1>5, SetLinesTerm DEF SetCell

LEMMA AdvanceTerm ==
  ASSUME NEW t \in TermType
  PROVE  Advance(t) \in TermType
<1>1. t.cx \in Col /\ t.awm \in BOOLEAN /\ t.pending \in BOOLEAN
  BY TermFields
<1>2. CASE t.cx + 1 < Cols
  <2>1. t.cx + 1 \in Col
    BY <1>1, <1>2 DEF Col
  <2>2. Advance(t) = SetCx(t, t.cx + 1)
    BY <1>2 DEF Advance, SetCx
  <2>. QED
    BY <2>1, <2>2, SetCxTerm
<1>3. CASE ~ (t.cx + 1 < Cols)
  <2>. DEFINE v == IF t.awm THEN TRUE ELSE t.pending
  <2>1. Advance(t) = SetPending(t, v)
    BY <1>3 DEF Advance, SetPending
  <2>2. v \in BOOLEAN
    BY <1>1
  <2>. HIDE DEF v
  <2>. QED
    BY <2>1, <2>2, SetPendingTerm
<1>. QED
  BY <1>2, <1>3

LEMMA PrintCellTerm ==
  ASSUME NEW t \in TermType, NEW k \in Kinds
  PROVE  PrintCell(t, k) \in TermType
<1>1. PICK w : w = IF t.pending THEN DoWrap(t) ELSE t
  OBVIOUS
<1>2. w \in TermType
  BY <1>1, DoWrapTerm
<1>3. PICK s : s = IF w.irm /\ w.cx + 1 < Cols THEN Insert(w, 1) ELSE w
  OBVIOUS
<1>4. s \in TermType
  BY <1>2, <1>3, InsertTerm
<1>5. PrintCell(t, k) = Advance([s EXCEPT !.lines[s.cy][s.cx] = Glyph(s, k)])
  BY <1>1, <1>3 DEF PrintCell
<1>6. PrintCell(t, k) = Advance(SetCell(s, k)) /\ SetCell(s, k) \in TermType
  BY <1>4, <1>5, SetCellTerm
<1>. QED
  BY <1>6, AdvanceTerm

LEMMA C0Term ==
  ASSUME NEW t \in TermType, NEW b \in Int
  PROVE  C0Done(t, b) \in TermType
<1>1. t.cx \in Col /\ t.cy \in Row /\ 0 \in Col
  BY TermFields DEF Col
<1>2. ASSUME t.cx > 0 PROVE [t EXCEPT !.cx = @ - 1, !.pending = FALSE] \in TermType
  <2>1. t.cx - 1 \in Col
    BY <1>1, <1>2 DEF Col
  <2>2. PICK u : u = SetCx(t, t.cx - 1)
    OBVIOUS
  <2>3. u \in TermType
    BY <2>1, <2>2, SetCxTerm
  <2>4. [t EXCEPT !.cx = @ - 1, !.pending = FALSE] = SetPending(u, FALSE)
    BY <2>2 DEF SetCx, SetPending
  <2>5. SetPending(u, FALSE) \in TermType
    BY <2>3, SetPendingTerm
  <2>. QED
    BY <2>4, <2>5, Zenon
<1>3. Goto(t, (t.cx \div 8 + 1) * 8, t.cy) \in TermType
  <2>1. (t.cx \div 8 + 1) * 8 \in Int /\ t.cy \in Int
    BY <1>1 DEF Col, Row
  <2>. QED
    BY <2>1, GotoTerm
<1>4. [Index(t) EXCEPT !.pending = FALSE] \in TermType
  BY IndexTerm, SetPendingTerm DEF SetPending
<1>5. [t EXCEPT !.cx = 0, !.pending = FALSE] \in TermType
  <2>1. PICK u : u = SetCx(t, 0)
    OBVIOUS
  <2>2. u \in TermType
    BY <1>1, <2>1, SetCxTerm
  <2>3. [t EXCEPT !.cx = 0, !.pending = FALSE] = SetPending(u, FALSE)
    BY <2>1 DEF SetCx, SetPending
  <2>4. SetPending(u, FALSE) \in TermType
    BY <2>2, SetPendingTerm
  <2>. QED
    BY <2>3, <2>4, Zenon
<1>6. [t EXCEPT !.gl = 2] \in TermType /\ [t EXCEPT !.gl = 1] \in TermType
  BY SetGlTerm DEF SetGl
<1>. QED
  BY <1>2, <1>3, <1>4, <1>5, <1>6 DEF C0Done

LEMMA NewTerm == New \in TermType /\ HardReset \in TermType
<1>1. Before \in [Row -> LineType]
  <2>1. Row \subseteq Int /\ Col \subseteq Int
    BY DEF Row, Col
  <2>2. ASSUME NEW r \in Row, NEW c \in Col PROVE <<"before", r, c>> \in Cells
    <3>1. r \in Int /\ c \in Int
      BY <2>1
    <3>. QED
      BY <3>1 DEF Cells, Looks
  <2>. QED
    BY <2>2 DEF Before, LineType
<1>2. <<"ascii", "ascii">> \in Pages
  BY DEF Pages
<1>3. 0 \in Col /\ 0 \in Row
  BY DEF Col, Row
<1>4. New \in TermType
  BY <1>1, <1>2, <1>3 DEF New, TermType
<1>5. [r \in Row |-> BlankLine] \in [Row -> LineType]
  BY BlankTypes
<1>6. HardReset = SetLines(New, [r \in Row |-> BlankLine])
  BY DEF HardReset, SetLines
<1>. QED
  BY <1>4, <1>5, <1>6, SetLinesTerm

LEMMA EscTerm ==
  ASSUME NEW t \in TermType, NEW e
  PROVE  EscDone(t, e) \in TermType
<1>1. ASSUME NEW i \in {1, 2} PROVE [t EXCEPT !.g[i] = Charset(e.final)] \in TermType
  <2>1. t.g \in Pages /\ Charset(e.final) \in {"ascii", "gfx"}
    BY TermFields DEF Charset
  <2>2. [t.g EXCEPT ![i] = Charset(e.final)] \in Pages
    BY <2>1 DEF Pages
  <2>3. [t EXCEPT !.g[i] = Charset(e.final)] = SetG(t, [t.g EXCEPT ![i] = Charset(e.final)])
    BY DEF SetG
  <2>. QED
    BY <2>2, <2>3, SetGTerm
<1>2. [t EXCEPT !.g[1] = Charset(e.final)] \in TermType
  BY <1>1, Zenon
<1>3. [t EXCEPT !.g[2] = Charset(e.final)] \in TermType
  BY <1>1, Zenon
<1>4. Index(t) \in TermType /\ ReverseIndex(t) \in TermType
  BY IndexTerm
<1>5. Index([t EXCEPT !.cx = 0]) \in TermType
  <2>1. [t EXCEPT !.cx = 0] \in TermType
    <3>1. 0 \in Col
      BY DEF Col
    <3>. QED
      BY <3>1, SetCxTerm DEF SetCx
  <2>. QED
    BY <2>1, IndexTerm
<1>. QED
  BY <1>2, <1>3, <1>4, <1>5, NewTerm DEF EscDone

LEMMA CountType ==
  ASSUME NEW e, e.params \in Seq(Int), NEW i \in {1, 2}
  PROVE  Count(e, i) \in Nat /\ Count(e, i) >= 1
<1>1. Given(e, i) \in Int
  <2>1. i <= Len(e.params) => e.params[i] \in Int
    OBVIOUS
  <2>. QED
    BY <2>1 DEF Given, Missing
<1>. QED
  BY <1>1 DEF Count

LEMMA CsiTerm ==
  ASSUME NEW t \in TermType, NEW e, e.params \in Seq(Int)
  PROVE  CsiDone(t, e) \in TermType
<1>. DEFINE k == Count(e, 1)
            f == e.final
            fits == IF k < Cols - t.cx THEN k ELSE Cols - t.cx
<1>1. k \in Nat /\ Count(e, 2) \in Nat
  BY CountType
<1>2. t.cx \in Col /\ t.cy \in Row /\ t.cx \in Int /\ t.cy \in Int /\ 0 \in Row
  BY TermFields DEF Col, Row
<1>3. fits \in Nat
  BY <1>1, <1>2 DEF Col
<1>. HIDE DEF k
<1>4. /\ Goto(t, t.cx, t.cy - k) \in TermType /\ Goto(t, t.cx, t.cy + k) \in TermType
      /\ Goto(t, t.cx + k, t.cy) \in TermType /\ Goto(t, t.cx - k, t.cy) \in TermType
      /\ Goto(t, 0, t.cy + k) \in TermType /\ Goto(t, 0, t.cy - k) \in TermType
      /\ Goto(t, k - 1, t.cy) \in TermType /\ Goto(t, t.cx, k - 1) \in TermType
      /\ Goto(t, Count(e, 2) - 1, k - 1) \in TermType
  <2>1. \A col, row \in Int : Goto(t, col, row) \in TermType
    BY GotoTerm
  <2>2. /\ t.cy - k \in Int /\ t.cy + k \in Int /\ t.cx + k \in Int /\ t.cx - k \in Int
        /\ k - 1 \in Int /\ Count(e, 2) - 1 \in Int
    BY <1>1, <1>2
  <2>. QED
    BY <1>2, <2>1, <2>2
<1>5. /\ Erase(t, t.cy, t.cx, Cols - 1) \in TermType /\ Erase(t, t.cy, 0, t.cx) \in TermType
      /\ Erase(t, t.cy, t.cx, t.cx + k - 1) \in TermType
  <2>1. \A from, to \in Int : Erase(t, t.cy, from, to) \in TermType
    BY <1>2, EraseTerm
  <2>2. Cols - 1 \in Int /\ t.cx + k - 1 \in Int
    BY <1>1, <1>2
  <2>. QED
    BY <1>2, <2>1, <2>2
<1>6. ASSUME NEW u \in TermType, NEW rows PROVE EraseRows(u, rows) \in TermType
  BY EraseTerm
<1>7. /\ LineDown(t, t.cy, k) \in TermType /\ LineUp(t, t.cy, k) \in TermType
      /\ LineDown(t, 0, k) \in TermType /\ LineUp(t, 0, k) \in TermType
  BY <1>1, <1>2, LinesTerm
<1>8. Insert(t, fits) \in TermType /\ Delete(t, fits) \in TermType
  <2>. HIDE DEF fits
  <2>. QED
    BY <1>3, InsertTerm
<1>9. [t EXCEPT !.irm = f = \h68] \in TermType
  <2>1. PICK v \in BOOLEAN : v = (f = \h68)
    OBVIOUS
  <2>2. SetIrm(t, v) \in TermType
    BY SetIrmTerm
  <2>3. [t EXCEPT !.irm = f = \h68] = SetIrm(t, v)
    BY <2>1 DEF SetIrm
  <2>. QED
    BY <2>2, <2>3, Zenon
<1>10. CASE f \in {\h4A, \h4B, \h58}
  <2>1. /\ EraseRows(Erase(t, t.cy, t.cx, Cols - 1), {r \in Row : r > t.cy}) \in TermType
        /\ EraseRows(Erase(t, t.cy, 0, t.cx), {r \in Row : r < t.cy}) \in TermType
        /\ EraseRows(t, Row) \in TermType /\ EraseRows(t, {t.cy}) \in TermType
    BY <1>5, <1>6
  <2>. HIDE DEF fits
  <2>2. CASE f = \h4A
    BY <2>1, <2>2 DEF CsiDone, k
  <2>3. CASE f = \h4B
    BY <1>5, <2>1, <2>3 DEF CsiDone, k
  <2>4. CASE f = \h58
    BY <1>5, <2>4 DEF CsiDone, k
  <2>. QED
    BY <1>10, <2>2, <2>3, <2>4
<1>11. CASE f \in \h41 .. \h48 \union {\h64, \h66}
  <2>. HIDE DEF fits
  <2>1. CASE f = \h41
    BY <1>4, <2>1 DEF CsiDone, k
  <2>2. CASE f = \h42
    BY <1>4, <2>2 DEF CsiDone, k
  <2>3. CASE f = \h43
    BY <1>4, <2>3 DEF CsiDone, k
  <2>4. CASE f = \h44
    BY <1>4, <2>4 DEF CsiDone, k
  <2>5. CASE f = \h45
    BY <1>4, <2>5 DEF CsiDone, k
  <2>6. CASE f = \h46
    BY <1>4, <2>6 DEF CsiDone, k
  <2>7. CASE f = \h47
    BY <1>4, <2>7 DEF CsiDone, k
  <2>8. CASE f = \h48
    BY <1>4, <2>8 DEF CsiDone, k
  <2>9. CASE f = \h64
    BY <1>4, <2>9 DEF CsiDone, k
  <2>10. CASE f = \h66
    BY <1>4, <2>10 DEF CsiDone, k
  <2>. QED
    BY <1>11, <2>1, <2>2, <2>3, <2>4, <2>5, <2>6, <2>7, <2>8, <2>9, <2>10
<1>12. CASE f \in {\h4C, \h4D, \h40, \h50, \h53, \h54}
  <2>1. CASE f = \h4C
    BY <1>7, <2>1 DEF CsiDone, k
  <2>2. CASE f = \h4D
    BY <1>7, <2>2 DEF CsiDone, k
  <2>3. CASE f = \h40
    BY <1>8, <2>3 DEF CsiDone, k
  <2>4. CASE f = \h50
    BY <1>8, <2>4 DEF CsiDone, k
  <2>5. CASE f = \h53
    BY <1>7, <2>5 DEF CsiDone, k
  <2>6. CASE f = \h54
    BY <1>7, <2>6 DEF CsiDone, k
  <2>. QED
    BY <1>12, <2>1, <2>2, <2>3, <2>4, <2>5, <2>6
<1>13. CASE f \in {\h68, \h6C}
  <2>. HIDE DEF fits
  <2>1. PICK u : u = [t EXCEPT !.irm = f = \h68]
    OBVIOUS
  <2>2. u \in TermType
    BY <1>9, <2>1, Zenon
  <2>3. CASE f = \h68
    BY <2>1, <2>2, <2>3 DEF CsiDone
  <2>4. CASE f = \h6C
    BY <2>1, <2>2, <2>4 DEF CsiDone
  <2>. QED
    BY <1>13, <2>3, <2>4
<1>14. CASE f \notin \h40 .. \h48 \union {\h4A, \h4B, \h4C, \h4D, \h50, \h53, \h54, \h58,
                                       \h64, \h66, \h68, \h6C}
  <2>1. CsiDone(t, e) = t
    BY <1>14 DEF CsiDone, k
  <2>. QED
    BY <2>1
<1>. QED
  BY <1>10, <1>11, <1>12, <1>13, <1>14

LEMMA EventTerm ==
  ASSUME NEW t \in TermType, NEW es, es = << >> \/ \E e \in Events : es = <<e>>
  PROVE  EventsDone(t, es) \in TermType
<1>1. CASE es = << >>
  BY <1>1 DEF EventsDone
<1>2. CASE es # << >>
  <2>1. PICK e \in Events : es = <<e>>
    BY <1>2
  <2>2. EventsDone(t, es) = EventDone(t, e)
    BY <2>1 DEF EventsDone
  <2>3. CASE e.is = "c0"
    <3>1. e.byte \in Int
      BY <2>3 DEF Events, Osc
    <3>2. EventDone(t, e) = C0Done(t, e.byte)
      BY <2>3 DEF EventDone
    <3>. QED
      BY <2>2, <3>1, <3>2, C0Term
  <2>4. CASE e.is = "esc"
    <3>1. EventDone(t, e) = EscDone(t, e)
      BY <2>4 DEF EventDone
    <3>. QED
      BY <2>2, <3>1, EscTerm
  <2>5. CASE e.is = "csi"
    <3>1. e.params \in Seq(Int)
      BY <2>5 DEF Events, Osc, Numbers
    <3>2. EventDone(t, e) = IF e.prefix = \h3F THEN PrivateMode(t, e) ELSE CsiDone(t, e)
      BY <2>5 DEF EventDone
    <3>3. PrivateMode(t, e) \in TermType
      <4>1. PICK v \in BOOLEAN : v = (e.final = \h68)
        OBVIOUS
      <4>2. SetAwm(t, v) \in TermType
        BY SetAwmTerm
      <4>3. PrivateMode(t, e) = SetAwm(t, v) \/ PrivateMode(t, e) = t
        BY <4>1 DEF PrivateMode, SetAwm
      <4>. QED
        BY <4>2, <4>3
    <3>. QED
      BY <2>2, <3>1, <3>2, <3>3, CsiTerm
  <2>6. CASE e.is \notin {"c0", "esc", "csi"}
    <3>1. EventDone(t, e) = t
      BY <2>6 DEF EventDone
    <3>. QED
      BY <2>2, <3>1
  <2>. QED
    BY <2>3, <2>4, <2>5, <2>6
<1>. QED
  BY <1>1, <1>2

-----------------------------------------------------------------------------
(* Induction, and recursion, as facts about naturals and functions.        *)

LEMMA LeastNat ==
  ASSUME NEW T \in SUBSET Nat, T # {}
  PROVE  \E z \in T : \A m \in T : z <= m
<1>. DEFINE R == OpToRel(<, Nat)
<1>1. \A m, z \in Nat : m < z => <<m, z>> \in R
  BY Zenon DEF OpToRel
<1>2. IsWellFoundedOn(R, Nat)
  BY NatLessThanWellFounded, Zenon
<1>. HIDE DEF R
<1>3. \E z \in T : \A m \in T : ~ (<<m, z>> \in R)
  BY <1>2, WFMin
<1>4. PICK z \in T : \A m \in T : ~ (<<m, z>> \in R)
  BY <1>3
<1>5. ASSUME NEW m \in T PROVE z <= m
  <2>1. m \in Nat /\ z \in Nat
    OBVIOUS
  <2>2. ~ (m < z)
    BY <1>1, <1>4, <2>1, Zenon
  <2>. QED
    BY <2>1, <2>2
<1>. QED
  BY <1>5

LEMMA Stepwise ==
  ASSUME NEW T \in SUBSET Nat, 0 \in T, \A k \in Nat : k \in T => k + 1 \in T
  PROVE  T = Nat
<1>. SUFFICES ASSUME Nat \ T # {} PROVE FALSE
  OBVIOUS
<1>1. PICK z \in Nat \ T : \A m \in Nat \ T : z <= m
  BY LeastNat
<1>2. z # 0 /\ z - 1 \in Nat
  BY <1>1
<1>3. z - 1 \in T
  BY <1>1, <1>2
<1>. QED
  BY <1>1, <1>2, <1>3

\* f begins at a, and F makes each of its values of the one before.
StepsOf(f, z, D, a, F) ==
  /\ f \in [0 .. z -> D] /\ f[0] = a
  /\ \A i \in 1 .. z : f[i] = F[<<f[i - 1], i>>]

\* What is defined step by step exists.
LEMMA Recursion ==
  ASSUME NEW z \in Nat, NEW D, NEW a \in D, NEW F \in [D \X (1 .. z) -> D]
  PROVE  \E f : StepsOf(f, z, D, a, F)
<1>. DEFINE Def(f, m) == /\ f \in [0 .. m -> D] /\ f[0] = a
                         /\ \A i \in 1 .. m : f[i] = F[<<f[i - 1], i>>]
            T == {m \in Nat : m <= z => \E f : Def(f, m)}
<1>1. 0 \in T
  <2>1. Def([i \in 0 .. 0 |-> a], 0)
    OBVIOUS
  <2>. QED
    BY <2>1
<1>2. ASSUME NEW m \in Nat, m \in T PROVE m + 1 \in T
  <2>. SUFFICES ASSUME m + 1 <= z PROVE \E f : Def(f, m + 1)
    OBVIOUS
  <2>1. PICK f : Def(f, m)
    BY <1>2
  <2>. DEFINE g == [i \in 0 .. m + 1 |-> IF i = m + 1 THEN F[<<f[m], i>>] ELSE f[i]]
  <2>2. F[<<f[m], m + 1>>] \in D
    <3>1. f[m] \in D /\ m + 1 \in 1 .. z
      BY <2>1
    <3>. QED
      BY <3>1
  <2>3. g \in [0 .. m + 1 -> D]
    BY <2>1, <2>2
  <2>4. g[0] = a
    BY <2>1
  <2>5. ASSUME NEW i \in 1 .. m + 1 PROVE g[i] = F[<<g[i - 1], i>>]
    <3>1. i - 1 \in 0 .. m /\ g[i - 1] = f[i - 1]
      OBVIOUS
    <3>2. CASE i = m + 1
      BY <3>1, <3>2
    <3>3. CASE i # m + 1
      <4>1. i \in 1 .. m /\ g[i] = f[i]
        BY <3>3
      <4>. QED
        BY <2>1, <3>1, <4>1
    <3>. QED
      BY <3>2, <3>3
  <2>. HIDE DEF g
  <2>6. Def(g, m + 1)
    BY <2>3, <2>4, <2>5
  <2>. QED
    BY <2>6
<1>3. T \in SUBSET Nat
  OBVIOUS
<1>. HIDE DEF T
<1>4. T = Nat
  BY <1>1, <1>2, <1>3, Stepwise
<1>. QED
  BY <1>4 DEF T, StepsOf

-----------------------------------------------------------------------------
(* Printing character by character.                                        *)

LEMMA CellsSteps ==
  ASSUME NEW t \in TermType, NEW ks \in Seq(Kinds)
  PROVE  \E P : /\ P[0] = t /\ PrintCells(t, ks) = P[Len(ks)]
                /\ \A i \in 1 .. Len(ks) : P[i] = PrintCell(P[i - 1], ks[i])
                /\ \A i \in 0 .. Len(ks) : P[i] \in TermType
<1>. DEFINE z == Len(ks)
            F == [x \in TermType \X (1 .. z) |-> PrintCell(x[1], ks[x[2]])]
            Def(P) == P = [i \in 0 .. z |-> IF i = 0 THEN t ELSE PrintCell(P[i - 1], ks[i])]
<1>1. z \in Nat /\ \A i \in 1 .. z : ks[i] \in Kinds
  OBVIOUS
<1>2. \A u \in TermType, i \in 1 .. z : F[<<u, i>>] = PrintCell(u, ks[i])
  OBVIOUS
<1>3. F \in [TermType \X (1 .. z) -> TermType]
  BY <1>1, PrintCellTerm
<1>. HIDE DEF F, z
<1>4. PICK f : /\ f \in [0 .. z -> TermType] /\ f[0] = t
               /\ \A i \in 1 .. z : f[i] = F[<<f[i - 1], i>>]
  <2>1. \E f : StepsOf(f, z, TermType, t, F)
    BY <1>1, <1>3, Recursion
  <2>. QED
    BY <2>1 DEF StepsOf
<1>5. Def(f)
  <2>1. ASSUME NEW i \in 0 .. z PROVE f[i] = IF i = 0 THEN t ELSE PrintCell(f[i - 1], ks[i])
    <3>1. CASE i # 0
      <4>1. i \in 1 .. z /\ i - 1 \in 0 .. z
        BY <1>1, <3>1
      <4>. QED
        BY <1>2, <1>4, <3>1, <4>1
    <3>. QED
      BY <1>4, <3>1
  <2>2. f = [i \in 0 .. z |-> f[i]]
    BY <1>4
  <2>. QED
    BY <2>1, <2>2
<1>6. PICK P : P = CHOOSE Q : Def(Q)
  OBVIOUS
<1>7. Def(P)
  BY <1>5, <1>6
<1>8. PrintCells(t, ks) = P[z]
  <2>1. PrintCells(t, ks) = (CHOOSE Q : Def(Q))[z]
    BY DEF PrintCells, z
  <2>. HIDE DEF Def
  <2>. QED
    BY <1>6, <2>1
<1>9. P[0] = t /\ \A i \in 1 .. z : P[i] = PrintCell(P[i - 1], ks[i])
  BY <1>1, <1>7
<1>. DEFINE T == {i \in Nat : i <= z => P[i] \in TermType}
<1>10. 0 \in T
  BY <1>9
<1>11. ASSUME NEW i \in Nat, i \in T PROVE i + 1 \in T
  <2>1. i + 1 <= z => i + 1 \in 1 .. z /\ P[i] \in TermType
    BY <1>1, <1>11
  <2>. QED
    BY <1>1, <1>9, <2>1, PrintCellTerm
<1>12. T \in SUBSET Nat
  OBVIOUS
<1>. HIDE DEF T
<1>13. T = Nat
  BY <1>10, <1>11, <1>12, Stepwise
<1>14. \A i \in 0 .. z : P[i] \in TermType
  BY <1>1, <1>13 DEF T
<1>. HIDE DEF Def
<1>. QED
  BY <1>8, <1>9, <1>14 DEF z

LEMMA CellsType ==
  ASSUME NEW t \in TermType, NEW ks \in Seq(Kinds)
  PROVE  PrintCells(t, ks) \in TermType
<1>1. PICK P : PrintCells(t, ks) = P[Len(ks)] /\ \A i \in 0 .. Len(ks) : P[i] \in TermType
  BY CellsSteps
<1>2. Len(ks) \in 0 .. Len(ks)
  OBVIOUS
<1>. QED
  BY <1>1, <1>2

LEMMA CellsNone ==
  ASSUME NEW t \in TermType
  PROVE  PrintCells(t, << >>) = t
<1>0. << >> \in Seq(Kinds)
  OBVIOUS
<1>1. PICK ks \in Seq(Kinds) : ks = << >>
  BY <1>0
<1>2. PICK P : P[0] = t /\ PrintCells(t, ks) = P[Len(ks)]
  BY CellsSteps
<1>. QED
  BY <1>1, <1>2

\* Two runs of steps agree as far as their characters do.
CellByCell(P, ks, z) == \A i \in 1 .. z : P[i] = PrintCell(P[i - 1], ks[i])
Agree(ks, js, z) == \A i \in 1 .. z : ks[i] = js[i]

LEMMA SameSteps ==
  ASSUME NEW P, NEW Q, P[0] = Q[0], NEW ks, NEW js, NEW z \in Nat,
         CellByCell(P, ks, z), CellByCell(Q, js, z), Agree(ks, js, z)
  PROVE  P[z] = Q[z]
<1>. DEFINE T == {i \in Nat : i <= z => P[i] = Q[i]}
<1>1. 0 \in T
  OBVIOUS
<1>2. ASSUME NEW i \in Nat, i \in T PROVE i + 1 \in T
  <2>1. ASSUME i + 1 <= z PROVE P[i + 1] = Q[i + 1]
    <3>1. i + 1 \in 1 .. z /\ (i + 1) - 1 = i /\ P[i] = Q[i]
      BY <1>2, <2>1
    <3>. QED
      BY <3>1 DEF CellByCell, Agree
  <2>. QED
    BY <2>1
<1>3. T \in SUBSET Nat
  OBVIOUS
<1>. HIDE DEF T
<1>4. T = Nat
  BY <1>1, <1>2, <1>3, Stepwise
<1>. QED
  BY <1>4 DEF T

LEMMA CellsAppend ==
  ASSUME NEW t \in TermType, NEW ks \in Seq(Kinds), NEW k \in Kinds
  PROVE  PrintCells(t, Append(ks, k)) = PrintCell(PrintCells(t, ks), k)
<1>1. PICK P : /\ P[0] = t /\ PrintCells(t, ks) = P[Len(ks)]
               /\ \A i \in 1 .. Len(ks) : P[i] = PrintCell(P[i - 1], ks[i])
  BY CellsSteps
<1>. DEFINE js == Append(ks, k)
<1>2. /\ js \in Seq(Kinds) /\ Len(js) = Len(ks) + 1 /\ js[Len(ks) + 1] = k
      /\ \A i \in 1 .. Len(ks) : js[i] = ks[i]
  OBVIOUS
<1>. HIDE DEF js
<1>3. PICK Q : /\ Q[0] = t /\ PrintCells(t, js) = Q[Len(js)]
               /\ \A i \in 1 .. Len(js) : Q[i] = PrintCell(Q[i - 1], js[i])
  BY <1>2, CellsSteps
<1>4. Len(ks) \in Nat /\ \A i \in 1 .. Len(ks) : i \in 1 .. Len(js)
  BY <1>2
<1>5. Q[Len(ks)] = P[Len(ks)]
  <2>1. PICK m \in Nat : m = Len(ks)
    BY <1>4
  <2>2. CellByCell(P, ks, m) /\ CellByCell(Q, js, m) /\ Agree(ks, js, m) /\ P[0] = Q[0]
    BY <1>1, <1>2, <1>3, <1>4, <2>1 DEF CellByCell, Agree
  <2>3. P[m] = Q[m]
    BY <2>2, SameSteps
  <2>. QED
    BY <2>1, <2>3
<1>6. Q[Len(js)] = PrintCell(Q[Len(ks)], k)
  <2>1. Len(ks) + 1 \in 1 .. Len(js) /\ (Len(ks) + 1) - 1 = Len(ks)
    BY <1>2, <1>4
  <2>. QED
    BY <1>2, <1>3, <2>1
<1>. QED
  BY <1>1, <1>3, <1>5, <1>6 DEF js

-----------------------------------------------------------------------------
(* Printing what fits at once. A run of characters that begins at the      *)
(* cursor and stays inside the margin, by what it leaves after j of them.  *)

Wrapped(t) == IF t.pending THEN DoWrap(t) ELSE t

PaintedLine(w, ks, d, j) ==
  [c \in Col |-> IF c \in w.cx .. w.cx + j - 1
                 THEN Glyph(w, ks[d + c - w.cx + 1]) ELSE w.lines[w.cy][c]]
Painted(w, ks, d, j) == [w.lines EXCEPT ![w.cy] = PaintedLine(w, ks, d, j)]
CursorAfter(w, j) == IF w.cx + j < Cols THEN w.cx + j ELSE Cols - 1
PendingAfter(w, j) == w.cx + j >= Cols /\ w.awm
Partial(w, ks, d, j) ==
  SetPending(SetCx(SetLines(w, Painted(w, ks, d, j)), CursorAfter(w, j)), PendingAfter(w, j))

LEMMA WrappedTerm ==
  ASSUME NEW t \in TermType
  PROVE  Wrapped(t) \in TermType /\ Wrapped(t).pending = FALSE /\ Wrapped(t).irm = t.irm
  BY DoWrapTerm, TermFields DEF Wrapped

LEMMA WrapOnce ==
  ASSUME NEW t \in TermType, NEW k
  PROVE  PrintCell(t, k) = PrintCell(Wrapped(t), k)
<1>1. Wrapped(t).pending = FALSE
  BY WrappedTerm
<1>. QED
  BY <1>1 DEF PrintCell, Wrapped

LEMMA PartialTerm ==
  ASSUME NEW w \in TermType, NEW ks \in Seq(Kinds), NEW d \in Nat, NEW j \in Nat,
         d + j <= Len(ks), w.cx + j <= Cols
  PROVE  /\ Partial(w, ks, d, j) \in TermType
         /\ Partial(w, ks, d, j).cx = CursorAfter(w, j)
         /\ Partial(w, ks, d, j).cy = w.cy
         /\ Partial(w, ks, d, j).pending = PendingAfter(w, j)
         /\ Partial(w, ks, d, j).g = w.g /\ Partial(w, ks, d, j).gl = w.gl
         /\ Partial(w, ks, d, j).irm = w.irm /\ Partial(w, ks, d, j).awm = w.awm
         /\ Partial(w, ks, d, j).lines = Painted(w, ks, d, j)
<1>1. w.cx \in Col /\ w.cy \in Row /\ w.lines \in [Row -> LineType] /\ w.awm \in BOOLEAN
  BY TermFields
<1>2. w.cx \in Int /\ Len(ks) \in Nat
  BY <1>1 DEF Col
<1>3. ASSUME NEW c \in Col, c \in w.cx .. w.cx + j - 1
      PROVE  Glyph(w, ks[d + c - w.cx + 1]) \in Cells
  <2>1. c \in Int /\ d + c - w.cx + 1 \in 1 .. Len(ks)
    BY <1>2, <1>3, SMTT(30) DEF Col
  <2>2. ks[d + c - w.cx + 1] \in Kinds
    BY <2>1
  <2>. QED
    BY <2>2, GlyphType
<1>4. Painted(w, ks, d, j) \in [Row -> LineType]
  <2>1. w.lines[w.cy] \in LineType
    BY <1>1
  <2>2. PaintedLine(w, ks, d, j) \in LineType
    BY <1>3, <2>1 DEF PaintedLine, LineType
  <2>. QED
    BY <1>1, <2>2 DEF Painted
<1>5. CursorAfter(w, j) \in Col
  BY <1>1, <1>2 DEF CursorAfter, Col
<1>6. PendingAfter(w, j) \in BOOLEAN
  BY <1>1 DEF PendingAfter
<1>7. PICK u : u = SetLines(w, Painted(w, ks, d, j))
  OBVIOUS
<1>8. /\ u \in TermType /\ u.lines = Painted(w, ks, d, j) /\ u.cy = w.cy /\ u.g = w.g
      /\ u.gl = w.gl /\ u.irm = w.irm /\ u.awm = w.awm
  BY <1>4, <1>7, SetLinesTerm
<1>9. PICK v : v = SetCx(u, CursorAfter(w, j))
  OBVIOUS
<1>10. /\ v \in TermType /\ v.lines = Painted(w, ks, d, j) /\ v.cy = w.cy /\ v.g = w.g
       /\ v.gl = w.gl /\ v.irm = w.irm /\ v.awm = w.awm /\ v.cx = CursorAfter(w, j)
  BY <1>5, <1>8, <1>9, SetCxTerm
<1>11. PICK b \in BOOLEAN : b = PendingAfter(w, j)
  BY <1>6
<1>12. Partial(w, ks, d, j) = SetPending(v, b)
  BY <1>7, <1>9, <1>11 DEF Partial
<1>. QED
  BY <1>10, <1>11, <1>12, SetPendingTerm

LEMMA PartialNone ==
  ASSUME NEW w \in TermType, w.pending = FALSE, NEW ks \in Seq(Kinds), NEW d \in Nat, d <= Len(ks)
  PROVE  Partial(w, ks, d, 0) = w
<1>1. w.cx \in Col /\ w.cy \in Row /\ w.lines \in [Row -> LineType]
  BY TermFields
<1>2. w.cx \in Int /\ w.cx < Cols /\ Len(ks) \in Nat
  BY <1>1 DEF Col
<1>3. PICK v : v = Partial(w, ks, d, 0)
  OBVIOUS
<1>4. /\ v \in TermType /\ v.cx = CursorAfter(w, 0) /\ v.cy = w.cy
      /\ v.pending = PendingAfter(w, 0) /\ v.g = w.g /\ v.gl = w.gl /\ v.irm = w.irm
      /\ v.awm = w.awm /\ v.lines = Painted(w, ks, d, 0)
  BY <1>2, <1>3, PartialTerm
<1>5. CursorAfter(w, 0) = w.cx /\ PendingAfter(w, 0) = FALSE
  BY <1>2 DEF CursorAfter, PendingAfter
<1>6. Painted(w, ks, d, 0) = w.lines
  <2>1. w.lines[w.cy] \in [Col -> Cells]
    BY <1>1 DEF LineType
  <2>2. \A c : ~ (c \in w.cx .. w.cx + 0 - 1)
    BY <1>2
  <2>3. [c \in Col |-> IF c \in w.cx .. w.cx + 0 - 1
                       THEN Glyph(w, ks[d + c - w.cx + 1]) ELSE w.lines[w.cy][c]] = w.lines[w.cy]
    BY <2>1, <2>2
  <2>4. Painted(w, ks, d, 0) = [w.lines EXCEPT ![w.cy] = w.lines[w.cy]]
    BY <2>3 DEF Painted, PaintedLine
  <2>. QED
    BY <1>1, <2>4
<1>7. v.cx = w.cx /\ v.pending = w.pending /\ v.lines = w.lines
  BY <1>4, <1>5, <1>6, Zenon
<1>8. v = w
  BY <1>4, <1>7, SameTerm
<1>. QED
  BY <1>3, <1>8

Paint(lines, r, c, g) == [lines EXCEPT ![r] = [lines[r] EXCEPT ![c] = g]]

LEMMA PaintedStep ==
  ASSUME NEW w \in TermType, NEW ks \in Seq(Kinds), NEW d \in Nat, NEW j \in Nat,
         d + j + 1 <= Len(ks), w.cx + j + 1 <= Cols
  PROVE  Painted(w, ks, d, j + 1)
           = Paint(Painted(w, ks, d, j), w.cy, w.cx + j, Glyph(w, ks[d + j + 1]))
<1>1. w.cx \in Col /\ w.cy \in Row /\ w.lines \in [Row -> LineType]
  BY TermFields
<1>2. w.cx \in Int /\ 0 <= w.cx /\ w.cx < Cols
  BY <1>1 DEF Col
<1>. DEFINE line(i) == PaintedLine(w, ks, d, i)
<1>3. line(j + 1) = [line(j) EXCEPT ![w.cx + j] = Glyph(w, ks[d + j + 1])]
  <2>1. ASSUME NEW c \in Col
        PROVE  line(j + 1)[c] = [line(j) EXCEPT ![w.cx + j] = Glyph(w, ks[d + j + 1])][c]
    <3>1. c \in Int
      BY DEF Col
    <3>2. CASE c = w.cx + j
      <4>1. d + c - w.cx + 1 = d + j + 1 /\ c \in w.cx .. w.cx + (j + 1) - 1
        BY <1>2, <3>2
      <4>. QED
        BY <3>2, <4>1 DEF PaintedLine
    <3>3. CASE c # w.cx + j
      <4>1. c \in w.cx .. w.cx + (j + 1) - 1 <=> c \in w.cx .. w.cx + j - 1
        BY <1>2, <3>1, <3>3
      <4>. QED
        BY <3>3, <4>1 DEF PaintedLine
    <3>. QED
      BY <3>2, <3>3
  <2>2. /\ line(j + 1) = [c \in Col |-> line(j + 1)[c]]
        /\ [line(j) EXCEPT ![w.cx + j] = Glyph(w, ks[d + j + 1])]
             = [c \in Col |-> [line(j) EXCEPT ![w.cx + j] = Glyph(w, ks[d + j + 1])][c]]
    BY DEF PaintedLine
  <2>. HIDE DEF line
  <2>. QED
    BY <2>1, <2>2
<1>4. \A i : Painted(w, ks, d, i) = [w.lines EXCEPT ![w.cy] = line(i)]
  BY DEF Painted
<1>. HIDE DEF line
<1>5. Painted(w, ks, d, j)[w.cy] = line(j)
  BY <1>1, <1>4
<1>6. Painted(w, ks, d, j + 1) = [Painted(w, ks, d, j) EXCEPT ![w.cy] = line(j + 1)]
  BY <1>1, <1>4
<1>. QED
  BY <1>3, <1>5, <1>6 DEF Paint

LEMMA PartialStep ==
  ASSUME NEW w \in TermType, w.irm = FALSE, NEW ks \in Seq(Kinds), NEW d \in Nat, NEW j \in Nat,
         d + j + 1 <= Len(ks), w.cx + j + 1 <= Cols
  PROVE  PrintCell(Partial(w, ks, d, j), ks[d + j + 1]) = Partial(w, ks, d, j + 1)
<1>1. w.cx \in Col /\ w.cy \in Row /\ w.lines \in [Row -> LineType] /\ w.awm \in BOOLEAN
  BY TermFields
<1>2. w.cx \in Int /\ 0 <= w.cx /\ w.cx < Cols /\ Len(ks) \in Nat
  BY <1>1 DEF Col
<1>3. PICK v : v = Partial(w, ks, d, j)
  OBVIOUS
<1>4. PICK x : x = Partial(w, ks, d, j + 1)
  OBVIOUS
<1>5. /\ v \in TermType /\ v.cx = CursorAfter(w, j) /\ v.cy = w.cy
      /\ v.pending = PendingAfter(w, j) /\ v.g = w.g /\ v.gl = w.gl /\ v.irm = w.irm
      /\ v.awm = w.awm /\ v.lines = Painted(w, ks, d, j)
  <2>1. d + j <= Len(ks) /\ w.cx + j <= Cols
    BY <1>2
  <2>. QED
    BY <1>3, <2>1, PartialTerm
<1>6. /\ x \in TermType /\ x.cx = CursorAfter(w, j + 1) /\ x.cy = w.cy
      /\ x.pending = PendingAfter(w, j + 1) /\ x.g = w.g /\ x.gl = w.gl /\ x.irm = w.irm
      /\ x.awm = w.awm /\ x.lines = Painted(w, ks, d, j + 1)
  <2>1. j + 1 \in Nat /\ d + (j + 1) <= Len(ks) /\ w.cx + (j + 1) <= Cols
    BY <1>2
  <2>. QED
    BY <1>4, <2>1, PartialTerm
<1>7. CursorAfter(w, j) = w.cx + j /\ PendingAfter(w, j) = FALSE
  BY <1>2 DEF CursorAfter, PendingAfter
<1>8. PICK k \in Kinds : k = ks[d + j + 1]
  <2>1. d + j + 1 \in 1 .. Len(ks)
    BY <1>2
  <2>. QED
    BY <2>1
<1>9. Glyph(v, k) = Glyph(w, k)
  BY <1>5 DEF Glyph
<1>10. PICK u : u = SetCell(v, k)
  OBVIOUS
<1>11. PrintCell(v, k) = Advance(u)
  <2>1. v.pending = FALSE /\ v.irm = FALSE
    BY <1>5, <1>7, Zenon
  <2>2. PrintCell(v, k) = Advance([v EXCEPT !.lines[v.cy][v.cx] = Glyph(v, k)])
    BY <2>1 DEF PrintCell
  <2>. QED
    BY <1>5, <1>10, <2>2, SetCellTerm
<1>12. /\ u \in TermType /\ u.cx = v.cx /\ u.cy = v.cy /\ u.pending = v.pending /\ u.g = v.g
       /\ u.gl = v.gl /\ u.irm = v.irm /\ u.awm = v.awm
       /\ u.lines = [v.lines EXCEPT ![v.cy] = [v.lines[v.cy] EXCEPT ![v.cx] = Glyph(v, k)]]
  BY <1>5, <1>10, SetCellTerm
<1>13. u.lines = x.lines
  <2>1. Painted(w, ks, d, j + 1)
          = Paint(Painted(w, ks, d, j), w.cy, w.cx + j, Glyph(w, ks[d + j + 1]))
    BY PaintedStep
  <2>2. v.cx = w.cx + j /\ v.cy = w.cy /\ v.lines = Painted(w, ks, d, j)
    BY <1>5, <1>7, Zenon
  <2>3. Glyph(v, k) = Glyph(w, ks[d + j + 1])
    BY <1>8, <1>9, Zenon
  <2>4. u.lines = Paint(v.lines, v.cy, v.cx, Glyph(v, k))
    BY <1>12 DEF Paint
  <2>. QED
    BY <1>6, <2>1, <2>2, <2>3, <2>4, Zenon
<1>14. u.pending = FALSE
  BY <1>5, <1>7, <1>12, Zenon
<1>15. CASE w.cx + j + 1 < Cols
  <2>1. u.cx + 1 \in Col /\ u.cx + 1 < Cols /\ u.cx + 1 = w.cx + (j + 1)
    BY <1>2, <1>5, <1>7, <1>12, <1>15 DEF Col
  <2>2. x.cx = u.cx + 1 /\ x.pending = FALSE
    <3>1. CursorAfter(w, j + 1) = w.cx + (j + 1) /\ PendingAfter(w, j + 1) = FALSE
      BY <1>2, <1>15 DEF CursorAfter, PendingAfter
    <3>. QED
      BY <1>6, <2>1, <3>1, Zenon
  <2>3. PICK y : y = SetCx(u, u.cx + 1)
    OBVIOUS
  <2>4. Advance(u) = y
    BY <2>1, <2>3 DEF Advance, SetCx
  <2>5. /\ y \in TermType /\ y.cx = u.cx + 1 /\ y.cy = u.cy /\ y.pending = u.pending /\ y.g = u.g
        /\ y.gl = u.gl /\ y.irm = u.irm /\ y.awm = u.awm /\ y.lines = u.lines
    BY <1>12, <2>1, <2>3, SetCxTerm
  <2>6. /\ y.cx = x.cx /\ y.cy = x.cy /\ y.pending = x.pending /\ y.g = x.g
        /\ y.gl = x.gl /\ y.irm = x.irm /\ y.awm = x.awm /\ y.lines = x.lines
    BY <1>5, <1>6, <1>12, <1>13, <1>14, <2>2, <2>5, ZenonT(30)
  <2>7. y = x
    BY <1>6, <2>5, <2>6, SameTerm
  <2>. QED
    BY <1>3, <1>4, <1>8, <1>11, <2>4, <2>7
<1>16. CASE ~ (w.cx + j + 1 < Cols)
  <2>1. w.cx + j = Cols - 1 /\ ~ (u.cx + 1 < Cols)
    BY <1>2, <1>5, <1>7, <1>12, <1>16
  <2>2. x.cx = u.cx /\ x.pending = w.awm
    <3>1. CursorAfter(w, j + 1) = w.cx + j /\ PendingAfter(w, j + 1) = w.awm
      BY <1>1, <1>2, <2>1 DEF CursorAfter, PendingAfter
    <3>2. u.cx = w.cx + j
      BY <1>5, <1>7, <1>12, Zenon
    <3>. QED
      BY <1>6, <3>1, <3>2, Zenon
  <2>3. PICK b \in BOOLEAN : b = (IF u.awm THEN TRUE ELSE u.pending)
    BY <1>14
  <2>4. PICK y : y = SetPending(u, b)
    OBVIOUS
  <2>5. Advance(u) = y
    BY <2>1, <2>3, <2>4 DEF Advance, SetPending
  <2>6. /\ y \in TermType /\ y.cx = u.cx /\ y.cy = u.cy /\ y.pending = b /\ y.g = u.g
        /\ y.gl = u.gl /\ y.irm = u.irm /\ y.awm = u.awm /\ y.lines = u.lines
    BY <1>12, <2>4, SetPendingTerm
  <2>7. b = x.pending
    <3>1. x.pending \in BOOLEAN /\ u.awm = w.awm
      BY <1>5, <1>6, <1>12, TermFields
    <3>2. b <=> w.awm
      BY <1>14, <2>3, <3>1
    <3>. QED
      BY <2>2, <3>1, <3>2
  <2>8. /\ y.cx = x.cx /\ y.cy = x.cy /\ y.pending = x.pending
        /\ y.g = x.g /\ y.gl = x.gl /\ y.irm = x.irm /\ y.awm = x.awm /\ y.lines = x.lines
    <3>1. y.cx = x.cx /\ y.lines = x.lines
      BY <1>13, <2>2, <2>6, Zenon
    <3>2. y.pending = x.pending
      BY <2>6, <2>7, Zenon
    <3>3. /\ y.cy = x.cy /\ y.g = x.g /\ y.gl = x.gl /\ y.irm = x.irm /\ y.awm = x.awm
      BY <1>5, <1>6, <1>12, <2>6, ZenonT(30)
    <3>. QED
      BY <3>1, <3>2, <3>3
  <2>9. y = x
    BY <1>6, <2>6, <2>8, SameTerm
  <2>. QED
    BY <1>3, <1>4, <1>8, <1>11, <2>5, <2>9
<1>. QED
  BY <1>15, <1>16

\* What a run of characters leaves, told character by character.
LEMMA RunCells ==
  ASSUME NEW P, NEW ks \in Seq(Kinds), CellByCell(P, ks, Len(ks)),
         NEW d \in Nat, P[d] \in TermType, P[d].irm = FALSE,
         NEW run \in Nat \ {0}, d + run <= Len(ks), Wrapped(P[d]).cx + run <= Cols
  PROVE  P[d + run] = Partial(Wrapped(P[d]), ks, d, run)
<1>1. PICK w : w = Wrapped(P[d])
  OBVIOUS
<1>2. w \in TermType /\ w.pending = FALSE /\ w.irm = FALSE
  <2>1. PICK t : t = P[d]
    OBVIOUS
  <2>2. t \in TermType /\ t.irm = FALSE
    BY <2>1
  <2>3. w = Wrapped(t)
    BY <1>1, <2>1
  <2>. QED
    BY <2>2, <2>3, WrappedTerm
<1>3. w.cx \in Int /\ Len(ks) \in Nat /\ w.cx + run <= Cols
  BY <1>1, <1>2, TermFields DEF Col
<1>4. ASSUME NEW j \in Nat, j < run
      PROVE  PrintCell(Partial(w, ks, d, j), ks[d + j + 1]) = Partial(w, ks, d, j + 1)
  <2>1. d + j + 1 <= Len(ks) /\ w.cx + j + 1 <= Cols
    BY <1>3, <1>4
  <2>. QED
    BY <1>2, <2>1, PartialStep
<1>5. ASSUME NEW j \in Nat, j < run
      PROVE  P[d + j + 1] = PrintCell(P[d + j], ks[d + j + 1])
  <2>1. d + j + 1 \in 1 .. Len(ks) /\ (d + j + 1) - 1 = d + j
    BY <1>3, <1>5
  <2>. QED
    BY <2>1 DEF CellByCell
<1>. DEFINE T == {j \in Nat : j + 1 <= run => P[d + j + 1] = Partial(w, ks, d, j + 1)}
<1>6. 0 \in T
  <2>1. P[d + 0 + 1] = PrintCell(P[d], ks[d + 0 + 1])
    <3>1. 0 < run /\ d + 0 = d
      OBVIOUS
    <3>. QED
      BY <1>5, <3>1
  <2>2. PrintCell(P[d], ks[d + 0 + 1]) = PrintCell(w, ks[d + 0 + 1])
    BY <1>1, WrapOnce
  <2>3. Partial(w, ks, d, 0) = w
    <3>1. d <= Len(ks)
      BY <1>3
    <3>. QED
      BY <1>2, <3>1, PartialNone
  <2>4. PrintCell(w, ks[d + 0 + 1]) = Partial(w, ks, d, 0 + 1)
    <3>1. 0 < run
      OBVIOUS
    <3>. QED
      BY <1>4, <2>3, <3>1
  <2>. QED
    BY <2>1, <2>2, <2>4
<1>7. ASSUME NEW j \in Nat, j \in T PROVE j + 1 \in T
  <2>. SUFFICES ASSUME (j + 1) + 1 <= run
                PROVE  P[d + (j + 1) + 1] = Partial(w, ks, d, (j + 1) + 1)
    OBVIOUS
  <2>1. P[d + j + 1] = Partial(w, ks, d, j + 1)
    BY <1>7
  <2>2. j + 1 \in Nat /\ j + 1 < run /\ d + (j + 1) = d + j + 1
    OBVIOUS
  <2>. QED
    BY <1>4, <1>5, <2>1, <2>2
<1>8. T \in SUBSET Nat
  OBVIOUS
<1>. HIDE DEF T
<1>9. T = Nat
  BY <1>6, <1>7, <1>8, Stepwise
<1>10. run - 1 \in T /\ (run - 1) + 1 = run /\ d + (run - 1) + 1 = d + run
  BY <1>9
<1>. QED
  BY <1>1, <1>10 DEF T

\* How much of it do_print_span takes at once, and what it leaves.
LEMMA SegmentRun ==
  ASSUME NEW ks \in Seq(Kinds), NEW d \in Nat, d < Len(ks), NEW t \in TermType
  PROVE  \E run \in Nat \ {0} :
           /\ d + run <= Len(ks) /\ Wrapped(t).cx + run <= Cols
           /\ Segment([done |-> d, term |-> t], ks)
                = [done |-> d + run, term |-> Partial(Wrapped(t), ks, d, run)]
<1>1. PICK w : w = Wrapped(t)
  OBVIOUS
<1>2. w \in TermType /\ w.cx \in Col
  BY <1>1, WrappedTerm, TermFields
<1>. DEFINE left == Len(ks) - d
            r == IF left < Cols - w.cx THEN left ELSE Cols - w.cx
<1>3. PICK run : run = r
  OBVIOUS
<1>4. run \in Nat \ {0} /\ d + run <= Len(ks) /\ w.cx + run <= Cols
  BY <1>2, <1>3 DEF Col
<1>. DEFINE past == w.cx + run
            line == [c \in Col |-> IF c \in w.cx .. past - 1
                                   THEN Glyph(w, ks[d + c - w.cx + 1]) ELSE w.lines[w.cy][c]]
<1>5. Segment([done |-> d, term |-> t], ks)
        = [done |-> d + run,
           term |-> [w EXCEPT !.lines[w.cy] = line,
                              !.cx = IF past < Cols THEN past ELSE Cols - 1,
                              !.pending = past >= Cols /\ w.awm]]
  BY <1>1, <1>3 DEF Segment, Wrapped
<1>6. Painted(w, ks, d, run) = [w.lines EXCEPT ![w.cy] = line]
  <2>1. ASSUME NEW c \in Col PROVE line[c] = PaintedLine(w, ks, d, run)[c]
    <3>1. CASE c \in w.cx .. w.cx + run - 1
      <4>1. line[c] = Glyph(w, ks[d + c - w.cx + 1])
        BY <1>2, <1>4, <3>1 DEF Col
      <4>2. PaintedLine(w, ks, d, run)[c] = Glyph(w, ks[d + c - w.cx + 1])
        BY <3>1 DEF PaintedLine
      <4>. QED
        BY <4>1, <4>2
    <3>2. CASE ~ (c \in w.cx .. w.cx + run - 1)
      <4>1. line[c] = w.lines[w.cy][c]
        BY <1>2, <1>4, <3>2 DEF Col
      <4>2. PaintedLine(w, ks, d, run)[c] = w.lines[w.cy][c]
        BY <3>2 DEF PaintedLine
      <4>. QED
        BY <4>1, <4>2
    <3>. QED
      BY <3>1, <3>2
  <2>2. line = [c \in Col |-> line[c]]
    OBVIOUS
  <2>3. PaintedLine(w, ks, d, run) = [c \in Col |-> PaintedLine(w, ks, d, run)[c]]
    BY DEF PaintedLine
  <2>. HIDE DEF line
  <2>4. line = PaintedLine(w, ks, d, run)
    BY <2>1, <2>2, <2>3
  <2>. QED
    BY <2>4 DEF Painted
<1>. HIDE DEF line
<1>7. ASSUME NEW a, NEW b
      PROVE  [w EXCEPT !.lines[w.cy] = line, !.cx = a, !.pending = b]
               = SetPending(SetCx(SetLines(w, [w.lines EXCEPT ![w.cy] = line]), a), b)
  BY DEF SetLines, SetCx, SetPending
<1>8. Partial(w, ks, d, run)
        = [w EXCEPT !.lines[w.cy] = line, !.cx = IF past < Cols THEN past ELSE Cols - 1,
                    !.pending = past >= Cols /\ w.awm]
  BY <1>6, <1>7, Zenon DEF Partial, CursorAfter, PendingAfter
<1>. QED
  BY <1>1, <1>4, <1>5, <1>8

SpanType(ks) == [done : 0 .. Len(ks), term : TermType]
SpanStep(s, ks) == IF s.done < Len(ks) THEN Segment(s, ks) ELSE s

LEMMA SpanStepType ==
  ASSUME NEW ks \in Seq(Kinds), NEW s \in SpanType(ks)
  PROVE  SpanStep(s, ks) \in SpanType(ks)
<1>1. CASE ~ (s.done < Len(ks))
  BY <1>1 DEF SpanStep
<1>2. CASE s.done < Len(ks)
  <2>1. PICK d \in Nat, t \in TermType : s = [done |-> d, term |-> t] /\ d < Len(ks)
    BY <1>2 DEF SpanType
  <2>2. PICK run \in Nat \ {0} :
          /\ d + run <= Len(ks) /\ Wrapped(t).cx + run <= Cols
          /\ Segment([done |-> d, term |-> t], ks)
               = [done |-> d + run, term |-> Partial(Wrapped(t), ks, d, run)]
    BY <2>1, SegmentRun
  <2>3. PICK w \in TermType : w = Wrapped(t)
    BY WrappedTerm
  <2>4. Partial(w, ks, d, run) \in TermType
    BY <2>2, <2>3, PartialTerm
  <2>5. d + run \in 0 .. Len(ks)
    BY <2>2
  <2>6. SpanStep(s, ks) = [done |-> d + run, term |-> Partial(w, ks, d, run)]
    BY <1>2, <2>1, <2>2, <2>3 DEF SpanStep
  <2>. QED
    BY <2>4, <2>5, <2>6 DEF SpanType
<1>. QED
  BY <1>1, <1>2

LEMMA SpanSteps ==
  ASSUME NEW t \in TermType, NEW ks \in Seq(Kinds)
  PROVE  \E S : /\ S[0] = [done |-> 0, term |-> t] /\ PrintSegments(t, ks) = S[Len(ks)].term
                /\ \A i \in 1 .. Len(ks) : S[i] = SpanStep(S[i - 1], ks)
                /\ \A i \in 0 .. Len(ks) : S[i] \in SpanType(ks)
<1>. DEFINE z == Len(ks)
            D == SpanType(ks)
            a == [done |-> 0, term |-> t]
            F == [x \in D \X (1 .. z) |-> SpanStep(x[1], ks)]
            Def(S) == S = [i \in 0 .. z |-> IF i = 0 THEN a ELSE SpanStep(S[i - 1], ks)]
<1>1. z \in Nat /\ a \in D
  BY DEF SpanType
<1>2. \A s \in D, i \in 1 .. z : F[<<s, i>>] = SpanStep(s, ks)
  OBVIOUS
<1>3. F \in [D \X (1 .. z) -> D]
  BY SpanStepType
<1>. HIDE DEF F, z, D, a
<1>4. PICK f : /\ f \in [0 .. z -> D] /\ f[0] = a
               /\ \A i \in 1 .. z : f[i] = F[<<f[i - 1], i>>]
  <2>1. \E f : StepsOf(f, z, D, a, F)
    BY <1>1, <1>3, Recursion
  <2>. QED
    BY <2>1 DEF StepsOf
<1>5. Def(f)
  <2>1. ASSUME NEW i \in 0 .. z PROVE f[i] = IF i = 0 THEN a ELSE SpanStep(f[i - 1], ks)
    <3>1. CASE i # 0
      <4>1. i \in 1 .. z /\ i - 1 \in 0 .. z
        BY <1>1, <3>1
      <4>. QED
        BY <1>2, <1>4, <3>1, <4>1
    <3>. QED
      BY <1>4, <3>1
  <2>2. f = [i \in 0 .. z |-> f[i]]
    BY <1>4
  <2>. QED
    BY <2>1, <2>2
<1>6. PICK S : S = CHOOSE Q : Def(Q)
  OBVIOUS
<1>7. Def(S)
  BY <1>5, <1>6
<1>8. PrintSegments(t, ks) = S[z].term
  <2>1. PrintSegments(t, ks) = (CHOOSE Q : Def(Q))[z].term
    BY DEF PrintSegments, SpanStep, z, a
  <2>. HIDE DEF Def
  <2>. QED
    BY <1>6, <2>1
<1>9. S[0] = a /\ \A i \in 1 .. z : S[i] = SpanStep(S[i - 1], ks)
  BY <1>1, <1>7
<1>. DEFINE T == {i \in Nat : i <= z => S[i] \in D}
<1>10. 0 \in T
  BY <1>1, <1>9
<1>11. ASSUME NEW i \in Nat, i \in T PROVE i + 1 \in T
  <2>1. i + 1 <= z => i + 1 \in 1 .. z /\ S[i] \in D
    BY <1>1, <1>11
  <2>2. \A s \in D : SpanStep(s, ks) \in D
    BY SpanStepType DEF D
  <2>. QED
    BY <1>1, <1>9, <2>1, <2>2
<1>12. T \in SUBSET Nat
  OBVIOUS
<1>. HIDE DEF T
<1>13. T = Nat
  BY <1>10, <1>11, <1>12, Stepwise
<1>14. \A i \in 0 .. z : S[i] \in D
  BY <1>1, <1>13 DEF T
<1>. HIDE DEF Def
<1>. QED
  BY <1>8, <1>9, <1>14 DEF z, D, a

\* do_print_span writes what writing the characters one by one would.
LEMMA SegmentsAreCells ==
  ASSUME NEW t \in TermType, t.irm = FALSE, NEW ks \in Seq(Kinds)
  PROVE  PrintSegments(t, ks) = PrintCells(t, ks)
<1>1. PICK P : /\ P[0] = t /\ PrintCells(t, ks) = P[Len(ks)]
               /\ CellByCell(P, ks, Len(ks))
               /\ \A i \in 0 .. Len(ks) : P[i] \in TermType
  BY CellsSteps DEF CellByCell
<1>2. PICK S : /\ S[0] = [done |-> 0, term |-> t] /\ PrintSegments(t, ks) = S[Len(ks)].term
               /\ \A i \in 1 .. Len(ks) : S[i] = SpanStep(S[i - 1], ks)
               /\ \A i \in 0 .. Len(ks) : S[i] \in SpanType(ks)
  BY SpanSteps
<1>. DEFINE z == Len(ks)
            InStep(i) == i <= S[i].done /\ S[i].term = P[S[i].done] /\ S[i].term.irm = FALSE
            T == {i \in Nat : i <= z => InStep(i)}
<1>3. z \in Nat
  OBVIOUS
<1>4. 0 \in T
  BY <1>1, <1>2
<1>5. ASSUME NEW i \in Nat, InStep(i), i + 1 <= z PROVE InStep(i + 1)
  <2>1. S[i] \in SpanType(ks) /\ S[i + 1] = SpanStep(S[i], ks)
    <3>1. i \in 0 .. z /\ i + 1 \in 1 .. z /\ (i + 1) - 1 = i
      BY <1>3, <1>5
    <3>. QED
      BY <1>2, <3>1
  <2>2. PICK d \in 0 .. z, u \in TermType : S[i] = [done |-> d, term |-> u]
    BY <2>1 DEF SpanType
  <2>3. i <= d /\ u = P[d] /\ u.irm = FALSE
    BY <1>5, <2>2
  <2>4. CASE d < z
    <3>1. PICK run \in Nat \ {0} :
            /\ d + run <= Len(ks) /\ Wrapped(u).cx + run <= Cols
            /\ Segment([done |-> d, term |-> u], ks)
                 = [done |-> d + run, term |-> Partial(Wrapped(u), ks, d, run)]
      <4>1. d \in Nat /\ d < Len(ks)
        BY <1>3, <2>4
      <4>. QED
        BY <4>1, SegmentRun
    <3>2. P[d + run] = Partial(Wrapped(u), ks, d, run)
      <4>1. P[d] \in TermType /\ P[d].irm = FALSE /\ Wrapped(P[d]).cx + run <= Cols /\ d \in Nat
        BY <1>3, <2>3, <3>1
      <4>2. P[d + run] = Partial(Wrapped(P[d]), ks, d, run)
        <5>1. CellByCell(P, ks, Len(ks)) /\ d + run <= Len(ks) /\ run \in Nat \ {0}
          BY <1>1, <3>1
        <5>. QED
          BY <4>1, <5>1, RunCells, ZenonT(30)
      <4>. QED
        BY <2>3, <4>2
    <3>3. S[i + 1] = [done |-> d + run, term |-> P[d + run]]
      BY <2>1, <2>2, <2>4, <3>1, <3>2 DEF SpanStep
    <3>4. P[d + run].irm = FALSE
      <4>1. PICK w : w = Wrapped(u)
        OBVIOUS
      <4>2. w \in TermType /\ w.irm = FALSE
        BY <2>3, <4>1, WrappedTerm
      <4>3. Partial(w, ks, d, run).irm = w.irm
        BY <3>1, <4>1, <4>2, PartialTerm
      <4>. QED
        BY <3>2, <4>1, <4>2, <4>3
    <3>5. i + 1 <= d + run
      BY <1>3, <2>3
    <3>. QED
      BY <3>3, <3>4, <3>5
  <2>5. CASE ~ (d < z)
    <3>1. S[i + 1] = S[i] /\ d = z
      BY <1>3, <2>1, <2>2, <2>5 DEF SpanStep
    <3>. QED
      BY <1>5, <2>2, <2>3, <3>1
  <2>. QED
    BY <2>4, <2>5
<1>. HIDE DEF InStep
<1>6. ASSUME NEW i \in Nat, i \in T PROVE i + 1 \in T
  <2>1. i + 1 <= z => i <= z
    BY <1>3
  <2>2. i + 1 <= z => InStep(i)
    BY <1>6, <2>1
  <2>3. i + 1 <= z => InStep(i + 1)
    BY <1>5, <2>2
  <2>. QED
    BY <2>3
<1>7. T \in SUBSET Nat
  OBVIOUS
<1>. HIDE DEF T
<1>8. T = Nat
  BY <1>4, <1>6, <1>7, Stepwise
<1>9. InStep(z)
  BY <1>3, <1>8 DEF T
<1>. USE DEF InStep
<1>10. S[z].done = z
  <2>1. S[z].done \in 0 .. z
    BY <1>2, <1>3 DEF SpanType
  <2>. QED
    BY <1>3, <1>9, <2>1
<1>. QED
  BY <1>1, <1>2, <1>9, <1>10

LEMMA SpanIsCells ==
  ASSUME NEW t \in TermType, NEW ks \in Seq(Kinds)
  PROVE  PrintSpan(t, ks) = PrintCells(t, ks)
<1>1. t.irm \in BOOLEAN
  BY TermFields
<1>2. CASE t.irm = FALSE
  BY <1>2, SegmentsAreCells DEF PrintSpan
<1>. QED
  BY <1>1, <1>2 DEF PrintSpan

-----------------------------------------------------------------------------
(* The print buffer: what has been written and what waits in it.           *)

BufType == [buf : Seq(Kinds), term : TermType]
Written(s) == PrintCells(s.term, s.buf)

LEMMA AddWrites ==
  ASSUME NEW s \in BufType, NEW k \in Kinds
  PROVE  Add(s, k) \in BufType /\ Written(Add(s, k)) = PrintCell(Written(s), k)
<1>1. PICK t \in TermType, ks \in Seq(Kinds) : t = s.term /\ ks = s.buf
  BY DEF BufType
<1>2. PrintSpan(t, ks) = PrintCells(t, ks)
  BY SpanIsCells
<1>3. PICK c \in TermType : c = PrintCells(t, ks)
  BY CellsType
<1>4. CASE Len(s.buf) >= Buffer
  <2>1. Add(s, k) = [buf |-> <<k>>, term |-> c]
    BY <1>1, <1>2, <1>3, <1>4 DEF Add
  <2>2. << >> \in Seq(Kinds) /\ <<k>> \in Seq(Kinds) /\ <<k>> = Append(<< >>, k)
    OBVIOUS
  <2>3. PrintCells(c, <<k>>) = PrintCell(PrintCells(c, << >>), k)
    BY <2>2, CellsAppend
  <2>4. PrintCells(c, << >>) = c
    BY CellsNone
  <2>5. Written(Add(s, k)) = PrintCells(c, <<k>>) /\ Written(s) = c
    BY <1>1, <1>3, <2>1 DEF Written
  <2>6. Add(s, k) \in BufType
    BY <2>1, <2>2 DEF BufType
  <2>. QED
    BY <2>3, <2>4, <2>5, <2>6
<1>5. CASE ~ (Len(s.buf) >= Buffer)
  <2>1. Add(s, k) = [s EXCEPT !.buf = Append(ks, k)]
    BY <1>1, <1>5 DEF Add
  <2>2. Append(ks, k) \in Seq(Kinds)
    OBVIOUS
  <2>3. PrintCells(t, Append(ks, k)) = PrintCell(c, k)
    BY <1>3, CellsAppend
  <2>4. Add(s, k) = [buf |-> Append(ks, k), term |-> t]
    BY <1>1, <2>1 DEF BufType
  <2>5. Written(Add(s, k)) = PrintCells(t, Append(ks, k)) /\ Written(s) = c
    BY <1>1, <1>3, <2>4 DEF Written
  <2>6. Add(s, k) \in BufType
    BY <2>2, <2>4 DEF BufType
  <2>. QED
    BY <2>3, <2>5, <2>6
<1>. QED
  BY <1>4, <1>5

LEMMA PutSteps ==
  ASSUME NEW s \in BufType, NEW ks \in Seq(Kinds)
  PROVE  \E A : /\ A[0] = s /\ Put(s, ks) = A[Len(ks)]
                /\ \A i \in 1 .. Len(ks) : A[i] = Add(A[i - 1], ks[i])
<1>. DEFINE z == Len(ks)
            F == [x \in BufType \X (1 .. z) |-> Add(x[1], ks[x[2]])]
            Def(A) == A = [i \in 0 .. z |-> IF i = 0 THEN s ELSE Add(A[i - 1], ks[i])]
<1>1. z \in Nat /\ \A i \in 1 .. z : ks[i] \in Kinds
  OBVIOUS
<1>2. \A u \in BufType, i \in 1 .. z : F[<<u, i>>] = Add(u, ks[i])
  OBVIOUS
<1>3. F \in [BufType \X (1 .. z) -> BufType]
  BY <1>1, AddWrites
<1>. HIDE DEF F, z
<1>4. PICK f : /\ f \in [0 .. z -> BufType] /\ f[0] = s
               /\ \A i \in 1 .. z : f[i] = F[<<f[i - 1], i>>]
  <2>1. \E f : StepsOf(f, z, BufType, s, F)
    BY <1>1, <1>3, Recursion
  <2>. QED
    BY <2>1 DEF StepsOf
<1>5. Def(f)
  <2>1. ASSUME NEW i \in 0 .. z PROVE f[i] = IF i = 0 THEN s ELSE Add(f[i - 1], ks[i])
    <3>1. CASE i # 0
      <4>1. i \in 1 .. z /\ i - 1 \in 0 .. z
        BY <1>1, <3>1
      <4>. QED
        BY <1>2, <1>4, <3>1, <4>1
    <3>. QED
      BY <1>4, <3>1
  <2>2. f = [i \in 0 .. z |-> f[i]]
    BY <1>4
  <2>. QED
    BY <2>1, <2>2
<1>6. PICK A : A = CHOOSE Q : Def(Q)
  OBVIOUS
<1>7. Def(A)
  BY <1>5, <1>6
<1>8. Put(s, ks) = A[z]
  <2>1. Put(s, ks) = (CHOOSE Q : Def(Q))[z]
    BY DEF Put, z
  <2>. HIDE DEF Def
  <2>. QED
    BY <1>6, <2>1
<1>9. A[0] = s /\ \A i \in 1 .. z : A[i] = Add(A[i - 1], ks[i])
  BY <1>1, <1>7
<1>. HIDE DEF Def
<1>. QED
  BY <1>8, <1>9 DEF z

\* Whatever the buffer does with them, the characters are written in their order.
LEMMA PutWrites ==
  ASSUME NEW s \in BufType, NEW ks \in Seq(Kinds)
  PROVE  Put(s, ks) \in BufType /\ Written(Put(s, ks)) = PrintCells(Written(s), ks)
<1>1. PICK c \in TermType : c = Written(s)
  <2>1. PICK t \in TermType, js \in Seq(Kinds) : t = s.term /\ js = s.buf
    BY DEF BufType
  <2>2. PrintCells(t, js) \in TermType
    BY CellsType
  <2>. QED
    BY <2>1, <2>2 DEF Written
<1>2. PICK P : /\ P[0] = c /\ PrintCells(c, ks) = P[Len(ks)]
               /\ \A i \in 1 .. Len(ks) : P[i] = PrintCell(P[i - 1], ks[i])
  BY CellsSteps
<1>3. PICK A : /\ A[0] = s /\ Put(s, ks) = A[Len(ks)]
               /\ \A i \in 1 .. Len(ks) : A[i] = Add(A[i - 1], ks[i])
  BY PutSteps
<1>. DEFINE z == Len(ks)
            InStep(i) == A[i] \in BufType /\ Written(A[i]) = P[i]
            T == {i \in Nat : i <= z => InStep(i)}
<1>4. z \in Nat /\ \A i \in 1 .. z : ks[i] \in Kinds
  OBVIOUS
<1>5. InStep(0)
  BY <1>1, <1>2, <1>3
<1>6. ASSUME NEW i \in Nat, InStep(i), i + 1 <= z PROVE InStep(i + 1)
  <2>1. i + 1 \in 1 .. z /\ (i + 1) - 1 = i
    BY <1>4, <1>6
  <2>2. PICK k \in Kinds : k = ks[i + 1]
    BY <1>4, <2>1
  <2>3. A[i + 1] = Add(A[i], k) /\ P[i + 1] = PrintCell(P[i], k)
    BY <1>2, <1>3, <2>1, <2>2
  <2>4. PICK a \in BufType : a = A[i]
    BY <1>6
  <2>5. Add(a, k) \in BufType /\ Written(Add(a, k)) = PrintCell(Written(a), k)
    BY AddWrites
  <2>. QED
    BY <1>6, <2>3, <2>4, <2>5
<1>. HIDE DEF InStep
<1>7. ASSUME NEW i \in Nat, i \in T PROVE i + 1 \in T
  <2>1. i + 1 <= z => i <= z
    BY <1>4
  <2>2. i + 1 <= z => InStep(i)
    BY <1>7, <2>1
  <2>3. i + 1 <= z => InStep(i + 1)
    BY <1>6, <2>2
  <2>. QED
    BY <2>3
<1>8. T \in SUBSET Nat /\ 0 \in T
  BY <1>5
<1>. HIDE DEF T
<1>9. T = Nat
  BY <1>7, <1>8, Stepwise
<1>10. InStep(z)
  BY <1>4, <1>9 DEF T
<1>. QED
  BY <1>1, <1>2, <1>3, <1>10 DEF InStep

-----------------------------------------------------------------------------
(* The invariant. The parser is the plain one; characters wait in the      *)
(* buffer only in GROUND, so that the events which come without a flush    *)
(* find it empty; and what has been written with what waits is the paper.  *)

TypeOK == ParserInv(parser) /\ buf \in Seq(Kinds) /\ term \in TermType /\ paper \in TermType
WaitsInGround == parser.state # "GROUND" => buf = << >>
EInv ==
  /\ TypeOK
  /\ plain = parser
  /\ WaitsInGround
  /\ PrintCells(term, buf) = paper

LEMMA InitEInv == Init => EInv
<1>. SUFFICES ASSUME Init PROVE EInv
  OBVIOUS
<1>1. ParserInv(Start)
  <2>1. << >> \in Numbers
    BY DEF Numbers
  <2>. QED
    BY <2>1 DEF ParserInv, ParserType, Start, States
<1>2. parser = Start /\ plain = Start /\ buf = << >> /\ term = New /\ paper = New
  BY DEF Init
<1>3. << >> \in Seq(Kinds)
  OBVIOUS
<1>4. PrintCells(New, << >>) = New /\ New \in TermType
  BY NewTerm, CellsNone
<1>5. TypeOK
  BY <1>1, <1>2, <1>3, <1>4 DEF TypeOK
<1>6. WaitsInGround /\ PrintCells(term, buf) = paper
  BY <1>2, <1>4 DEF WaitsInGround
<1>. QED
  BY <1>2, <1>5, <1>6 DEF EInv

LEMMA EndFeedEInv ==
  ASSUME EInv, EndFeed
  PROVE  EInv'
<1>1. PICK t \in TermType, ks \in Seq(Kinds) : t = term /\ ks = buf
  BY DEF EInv, TypeOK
<1>2. PrintSpan(t, ks) = paper /\ paper \in TermType
  BY <1>1, SpanIsCells DEF EInv, TypeOK
<1>3. PICK u \in TermType : u = paper
  BY <1>2
<1>4. Shown(u) \in TermType
  <2>1. Before \in [Row -> LineType]
    BY NewTerm DEF New, TermType
  <2>2. Shown(u) = SetLines(u, Before)
    BY DEF Shown, SetLines
  <2>. QED
    BY <2>1, <2>2, SetLinesTerm
<1>5. term' = Shown(u) /\ paper' = Shown(u) /\ buf' = << >> /\ parser' = parser /\ plain' = plain
  BY <1>1, <1>2, <1>3 DEF EndFeed
<1>6. PrintCells(Shown(u), << >>) = Shown(u)
  BY <1>4, CellsNone
<1>7. << >> \in Seq(Kinds)
  OBVIOUS
<1>8. TypeOK'
  <2>1. ParserInv(parser)'
    BY <1>5 DEF EInv, TypeOK
  <2>. QED
    BY <1>4, <1>5, <1>7, <2>1 DEF TypeOK
<1>9. WaitsInGround' /\ (PrintCells(term, buf) = paper)'
  BY <1>5, <1>6 DEF WaitsInGround
<1>10. (plain = parser)'
  BY <1>5 DEF EInv
<1>. QED
  BY <1>8, <1>9, <1>10 DEF EInv

LEMMA ReceiveEInv ==
  ASSUME EInv, NEW b \in Bytes, Receive(b)
  PROVE  EInv'
<1>1. b \in 0 .. 255
  OBVIOUS
<1>2. PICK o : o = PlainByte(parser, b)
  OBVIOUS
<1>3. PICK p : p = parser /\ ParserInv(p)
  BY DEF EInv, TypeOK
<1>4. Byte(parser, b) = o /\ PlainByte(plain, b) = o
  BY <1>1, <1>2, <1>3, ByteIsPlain DEF EInv
<1>5. Good(p, o)
  BY <1>1, <1>2, <1>3, PlainGood
<1>6. PICK s \in BufType : s = [buf |-> buf, term |-> term]
  BY DEF EInv, TypeOK, BufType
<1>7. PICK c \in TermType : c = paper /\ Written(s) = c
  BY <1>6 DEF EInv, TypeOK, Written
<1>8. PICK ks \in Seq(Kinds) : ks = o.put
  BY <1>5 DEF Good
<1>9. PICK u \in BufType : u = Put(s, ks) /\ Written(u) = PrintCells(c, ks)
  BY <1>7, PutWrites
<1>10. PICK f : f = IF o.flush THEN Flush(u) ELSE u
  OBVIOUS
<1>11. PICK es : es = o.events
  OBVIOUS
<1>12. /\ parser' = o.to /\ buf' = f.buf /\ term' = EventsDone(f.term, es)
       /\ plain' = o.to /\ paper' = EventsDone(PrintCells(c, ks), es)
  <2>1. /\ parser' = o.to
        /\ LET v == Put([buf |-> buf, term |-> term], o.put)
               g == IF o.flush THEN Flush(v) ELSE v
           IN buf' = g.buf /\ term' = EventsDone(g.term, o.events)
        /\ plain' = o.to
        /\ paper' = EventsDone(PrintCells(paper, o.put), o.events)
    BY <1>4, Zenon DEF Receive
  <2>. QED
    BY <1>6, <1>7, <1>8, <1>9, <1>10, <1>11, <2>1, Zenon
<1>13. PICK ut \in TermType, ub \in Seq(Kinds) : ut = u.term /\ ub = u.buf
  BY DEF BufType
<1>14. /\ f.buf \in Seq(Kinds) /\ f.term \in TermType
       /\ PrintCells(f.term, f.buf) = PrintCells(c, ks)
       /\ o.flush => f.buf = << >>
  <2>1. CASE o.flush
    <3>1. PrintSpan(ut, ub) = PrintCells(c, ks)
      BY <1>9, <1>13, SpanIsCells DEF Written
    <3>2. PICK w \in TermType : w = PrintCells(c, ks)
      BY CellsType
    <3>3. f.buf = << >> /\ f.term = w
      BY <1>10, <1>13, <2>1, <3>1, <3>2 DEF Flush
    <3>4. PrintCells(w, << >>) = w /\ << >> \in Seq(Kinds)
      BY CellsNone
    <3>. QED
      BY <3>2, <3>3, <3>4
  <2>2. CASE ~ o.flush
    <3>1. f.buf = ub /\ f.term = ut
      BY <1>10, <1>13, <2>2
    <3>. QED
      BY <1>9, <1>13, <2>2, <3>1 DEF Written
  <2>. QED
    BY <2>1, <2>2
<1>15. es # << >> \/ o.to.state # "GROUND" => f.buf = << >>
  <2>1. CASE o.flush
    BY <1>14, <2>1
  <2>2. CASE ~ o.flush
    <3>. SUFFICES ASSUME es # << >> \/ o.to.state # "GROUND" PROVE f.buf = << >>
      OBVIOUS
    <3>1. p.state # "GROUND" /\ ks = << >>
      BY <1>5, <1>8, <1>11, <2>2 DEF Good
    <3>2. s.buf = << >>
      BY <1>3, <1>6, <3>1 DEF EInv, WaitsInGround
    <3>3. Put(s, << >>) = s
      <4>1. << >> \in Seq(Kinds) /\ Len(<< >>) = 0
        OBVIOUS
      <4>2. PICK js \in Seq(Kinds) : js = << >>
        BY <4>1
      <4>3. PICK A : A[0] = s /\ Put(s, js) = A[Len(js)]
        BY PutSteps
      <4>. QED
        BY <4>1, <4>2, <4>3
    <3>. QED
      BY <1>9, <1>10, <2>2, <3>1, <3>2, <3>3
  <2>. QED
    BY <2>1, <2>2
<1>16. PICK w \in TermType : w = PrintCells(c, ks)
  BY CellsType
<1>17. PICK ft \in TermType, fb \in Seq(Kinds) : ft = f.term /\ fb = f.buf
  BY <1>14
<1>18. es = << >> \/ \E e \in Events : es = <<e>>
  BY <1>5, <1>11 DEF Good
<1>19. EventsDone(ft, es) \in TermType /\ EventsDone(w, es) \in TermType
  BY <1>18, EventTerm
<1>20. PrintCells(EventsDone(ft, es), fb) = EventsDone(w, es)
  <2>1. CASE es = << >>
    <3>1. EventsDone(ft, es) = ft /\ EventsDone(w, es) = w
      BY <2>1 DEF EventsDone
    <3>. QED
      BY <1>14, <1>16, <1>17, <3>1
  <2>2. CASE es # << >>
    <3>1. fb = << >>
      BY <1>15, <1>17, <2>2
    <3>2. ft = w
      BY <1>14, <1>16, <1>17, <3>1, CellsNone
    <3>. QED
      BY <1>19, <3>1, <3>2, CellsNone
  <2>. QED
    BY <2>1, <2>2
<1>21. TypeOK'
  <2>1. ParserInv(o.to)
    BY <1>5 DEF Good
  <2>. QED
    BY <1>12, <1>16, <1>17, <1>19, <2>1 DEF TypeOK
<1>22. WaitsInGround'
  BY <1>12, <1>15 DEF WaitsInGround
<1>23. (PrintCells(term, buf) = paper)'
  BY <1>12, <1>16, <1>17, <1>20
<1>24. (plain = parser)'
  BY <1>12
<1>. QED
  BY <1>21, <1>22, <1>23, <1>24 DEF EInv

\* The inductive invariant holds of every behaviour.
THEOREM Invariant == Spec => []EInv
<1>1. Init => EInv
  BY InitEInv
<1>2. EInv /\ [Next]_vars => EInv'
  <2>. SUFFICES ASSUME EInv, [Next]_vars PROVE EInv'
    OBVIOUS
  <2>1. CASE EndFeed
    BY <2>1, EndFeedEInv
  <2>2. ASSUME NEW b \in Bytes, Receive(b) PROVE EInv'
    BY <2>2, ReceiveEInv
  <2>3. CASE UNCHANGED vars
    BY <2>3 DEF EInv, TypeOK, WaitsInGround, vars
  <2>. QED
    BY <2>1, <2>2, <2>3 DEF Next
<1>. QED
  BY <1>1, <1>2, PTL DEF Spec

\* Whatever the host sends and however it is cut into feeds, the buffer, the
\* batches and the fast paths cannot be seen (vtparse.c:421-458,
\* termstate.c:742-795): for every size of the screen and of the buffer.
THEOREM BufferingIsInvisible == Spec => []SameAsPlain
<1>1. EInv => SameAsPlain
  <2>. SUFFICES ASSUME EInv PROVE SameAsPlain
    OBVIOUS
  <2>1. PICK t \in TermType, ks \in Seq(Kinds) : t = term /\ ks = buf
    BY DEF EInv, TypeOK
  <2>2. PrintSpan(t, ks) = PrintCells(t, ks)
    BY SpanIsCells
  <2>. QED
    BY <2>1, <2>2 DEF EInv, SameAsPlain
<1>. QED
  BY <1>1, Invariant, PTL

\* Types, and that characters wait for the screen only between sequences, so
\* that no event overtakes them.
THEOREM NothingOvertakes == Spec => [](TypeOK /\ WaitsInGround)
<1>1. EInv => TypeOK /\ WaitsInGround
  BY DEF EInv
<1>. QED
  BY <1>1, Invariant, PTL
=============================================================================
