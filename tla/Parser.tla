------------------------------- MODULE Parser -------------------------------
(***************************************************************************)
(* The escape-sequence parser (vtparse.c): one byte at a time, what it does*)
(* to the parser, which characters it adds to the print buffer, whether it *)
(* empties that buffer first, and which event follows.                     *)
(*                                                                         *)
(* Bytes are their codes. A character is told apart only as far as the     *)
(* terminal tells it apart: in the range a graphics set replaces, another  *)
(* one of ASCII, another one, or the replacement for something broken. A   *)
(* parameter of more than one digit is Many. The text of titles and of     *)
(* device control strings is left out. Parameters and marks of a finished  *)
(* sequence are dropped at once, and not by the next ESC: nothing reads    *)
(* them in between.                                                        *)
(***************************************************************************)
EXTENDS Integers, Sequences

CONSTANT Params   \* VTP_PARAMS_MAX

ASSUME ParserAssumption == Params \in Nat \ {0, 1}

Inters == \h20 .. \h2F
Digits == \h30 .. \h39
Seps == {\h3A, \h3B}
Marks == \h3C .. \h3F
Finals == \h40 .. \h7E
Printables == \h20 .. \h7E
Continuations == \h80 .. \hBF

Missing == -1
Many == 10

DcsStates == {"DCS_ENTRY", "DCS_PARAM", "DCS_INT", "DCS_PASS", "DCS_IGNORE"}

(* vtparse_init.                                                           *)
Start ==
  [state |-> "GROUND", prev |-> "NONE", inter |-> 0, prefix |-> 0, params |-> <<>>,
   left |-> 0, cp |-> 0]

(* What a byte leads to: the characters put, then the flush, the event.    *)
To(p) == [to |-> p, put |-> <<>>, flush |-> FALSE, events |-> <<>>]
Puts(p, k) == [To(p) EXCEPT !.put = <<k>>]
Emits(p, e) == [To(p) EXCEPT !.events = <<e>>]
Flushes(p, es) == [To(p) EXCEPT !.flush = TRUE, !.events = es]

C0(b) == [is |-> "c0", byte |-> b]
EscEvent(p, b) == [is |-> "esc", inter |-> p.inter, final |-> b]
CsiEvent(p, b) == [is |-> "csi", prefix |-> p.prefix, final |-> b, params |-> p.params]
Osc == [is |-> "osc"]

Clear(p) == [p EXCEPT !.inter = 0, !.prefix = 0, !.params = <<>>]
In(p, s) == [p EXCEPT !.state = s]
EnterGround(p) == [Clear(p) EXCEPT !.state = "GROUND", !.prev = "NONE"]

(* enter_esc: a string that is broken off is remembered, so that ESC \ may *)
(* still end it.                                                           *)
EnterEsc(p) ==
  [Clear(p) EXCEPT !.state = "ESC",
     !.prev = CASE p.state = "OSC_STRING" -> "OSC"
                [] p.state \in DcsStates -> "DCS"
                [] p.state = "SOS_PM_APC" -> "SOS"
                [] p.state \in {"ESC", "ESC_INT"} -> p.prev
                [] OTHER -> "NONE"]

Collect(p, b) == IF p.inter = 0 THEN [p EXCEPT !.inter = b] ELSE p
Prefix(p, b) == IF p.prefix = 0 THEN [p EXCEPT !.prefix = b] ELSE p

(* do_param; the slot being filled is the last one, or the first of none.  *)
Number(v, d) == IF v <= 0 THEN d ELSE Many
Param(p, b) ==
  LET s == p.params
      filled == IF s = <<>> THEN <<Missing>> ELSE s
  IN [p EXCEPT !.params =
        IF b \in Digits THEN [filled EXCEPT ![Len(filled)] = Number(@, b - \h30)]
        ELSE IF Len(filled) < Params THEN Append(filled, Missing) ELSE filled]

-----------------------------------------------------------------------------
(* The states: st_ground, st_esc, st_esc_int, st_csi_*, st_dcs_*, st_osc.  *)
Kind(cp) == IF cp \in \h60 .. \h7E THEN "graphic" ELSE IF cp < \h80 THEN "ascii" ELSE "wide"
Broken == "broken"

\* Variant: a control character does not empty the print buffer first.
GroundUnflushed(p, b) ==
  IF b < \h20 THEN Emits(p, C0(b))
  ELSE IF b \in Printables THEN Puts(p, Kind(b))
  ELSE To(p)
Ground(p, b) ==
  IF b < \h20 THEN Flushes(p, <<C0(b)>>)
  ELSE IF b \in Printables THEN Puts(p, Kind(b))
  ELSE To(p)

Esc(p, b) ==
  CASE b \in Inters -> To(In(Collect(p, b), "ESC_INT"))
    [] b = \h5B -> To([Clear(p) EXCEPT !.state = "CSI_ENTRY", !.prev = "NONE"])
    [] b = \h5D -> To([p EXCEPT !.state = "OSC_STRING", !.prev = "NONE"])
    [] b = \h50 -> To([Clear(p) EXCEPT !.state = "DCS_ENTRY", !.prev = "NONE"])
    [] b \in {\h58, \h5E, \h5F} -> To([p EXCEPT !.state = "SOS_PM_APC", !.prev = "NONE"])
    [] b = \h5C /\ p.prev = "OSC" -> Emits(EnterGround(p), Osc)
    [] b = \h5C /\ p.prev \in {"DCS", "SOS"} -> To(EnterGround(p))
    [] b \in \h30 .. \h7E \ {\h5B, \h5D, \h50, \h58, \h5E, \h5F}
         /\ ~(b = \h5C /\ p.prev # "NONE") -> Emits(EnterGround(p), EscEvent(p, b))
    [] OTHER -> To(p)

EscInt(p, b) ==
  CASE b \in Inters -> To(Collect(p, b))
    [] b = \h5C /\ p.prev = "OSC" -> Emits(EnterGround(p), Osc)
    [] b \in \h30 .. \h7E /\ ~(b = \h5C /\ p.prev = "OSC")
         -> Emits(EnterGround(p), EscEvent(p, b))
    [] OTHER -> To(p)

Csi(p, b) ==
  CASE b \in Finals /\ p.state = "CSI_IGNORE" -> To(EnterGround(p))
    [] b \in Finals /\ p.state # "CSI_IGNORE" -> Emits(EnterGround(p), CsiEvent(p, b))
    [] b \in Inters /\ p.state # "CSI_IGNORE" -> To(In(Collect(p, b), "CSI_INT"))
    [] b \in Digits \union Seps /\ p.state \in {"CSI_ENTRY", "CSI_PARAM"}
         -> To(In(Param(p, b), "CSI_PARAM"))
    [] b \in Marks /\ p.state = "CSI_ENTRY" -> To(In(Prefix(p, b), "CSI_PARAM"))
    [] \/ b \in Marks /\ p.state = "CSI_PARAM"
       \/ b \in \h30 .. \h3F /\ p.state = "CSI_INT" -> To(In(p, "CSI_IGNORE"))
    [] OTHER -> To(p)

(* The event of a device control string does nothing (on_dcs).             *)
Dcs(p, b) ==
  CASE p.state \in {"DCS_PASS", "DCS_IGNORE"} -> To(p)
    [] b \in Finals /\ p.state \notin {"DCS_PASS", "DCS_IGNORE"} -> To(In(p, "DCS_PASS"))
    [] b \in Inters /\ p.state \notin {"DCS_PASS", "DCS_IGNORE"} -> To(In(Collect(p, b), "DCS_INT"))
    [] b \in Digits \union {\h3B} /\ p.state \in {"DCS_ENTRY", "DCS_PARAM"}
         -> To(In(Param(p, b), "DCS_PARAM"))
    [] \/ b \in Marks \union {\h3A} /\ p.state \in {"DCS_ENTRY", "DCS_PARAM"}
       \/ b \in \h30 .. \h3F /\ p.state = "DCS_INT" -> To(In(p, "DCS_IGNORE"))
    [] OTHER -> To(p)

OscString(p, b) == IF b = \h07 THEN Emits(EnterGround(p), Osc) ELSE To(p)

Dispatch(p, b) ==
  CASE p.state = "GROUND" -> Ground(p, b)
    [] p.state = "ESC" -> Esc(p, b)
    [] p.state = "ESC_INT" -> EscInt(p, b)
    [] p.state \in {"CSI_ENTRY", "CSI_PARAM", "CSI_INT", "CSI_IGNORE"} -> Csi(p, b)
    [] p.state \in DcsStates -> Dcs(p, b)
    [] p.state = "OSC_STRING" -> OscString(p, b)
    [] OTHER -> To(p)

-----------------------------------------------------------------------------
(* vtparse_feed: a byte with no character under way.                       *)
Utf8Start(p, b) ==
  IF b >= \hF0 THEN [p EXCEPT !.cp = b % 8, !.left = 3]
  ELSE IF b >= \hE0 THEN [p EXCEPT !.cp = b % 16, !.left = 2]
  ELSE [p EXCEPT !.cp = b % 32, !.left = 1]

Anywhere(p, b) ==
  CASE b \in {\h18, \h1A} -> Flushes(EnterGround(p), <<C0(b)>>)
    [] b = \h1B -> Flushes(EnterEsc(p), <<>>)
    [] b = \h9C -> Flushes(EnterGround(p), IF p.state = "OSC_STRING" THEN <<Osc>> ELSE <<>>)
    [] b >= \h80 /\ b # \h9C ->
         IF p.state # "GROUND" THEN To(p)
         ELSE IF b \in \hC2 .. \hF4 THEN To(Utf8Start(p, b))
         ELSE Puts(p, Broken)
    [] OTHER -> Dispatch(p, b)

(* The two fast paths: runs of text, and runs of parameters. Their loops   *)
(* look at nothing but the range of the next byte; what they test before   *)
(* the first one still holds then.                                         *)
Quick(p, b) ==
  \/ p.state = "GROUND" /\ b \in Printables
  \/ p.state = "CSI_PARAM" /\ b \in Digits \union Seps
Fast(p, b) ==
  IF p.state = "GROUND" THEN Puts(p, Kind(b)) ELSE To(Param(p, b))

(* A character under way: the byte goes on with it, or it is broken and    *)
(* the byte counts for itself.                                             *)
Decoded(cp) == IF cp > \hFFFF \/ cp \in \hD800 .. \hDFFF THEN Broken ELSE Kind(cp)
Whole(p) == [p EXCEPT !.left = 0, !.cp = 0]
GoesOn(p, b) == p.left > 0 /\ b \in Continuations
Continue(p, b) ==
  LET cp == p.cp * 64 + (b % 64)
  IN IF p.left = 1 THEN Puts(Whole(p), Decoded(cp))
     ELSE To([p EXCEPT !.left = @ - 1, !.cp = cp])
AfterBroken(p, o) == IF p.left > 0 THEN [o EXCEPT !.put = <<Broken>> \o @] ELSE o

Alone(p, b) == IF Quick(p, b) THEN Fast(p, b) ELSE Anywhere(p, b)
Byte(p, b) ==
  IF GoesOn(p, b) THEN Continue(p, b) ELSE AfterBroken(p, Alone(Whole(p), b))

(* The same without the fast paths.                                        *)
PlainByte(p, b) ==
  IF GoesOn(p, b) THEN Continue(p, b) ELSE AfterBroken(p, Anywhere(Whole(p), b))
=============================================================================
