------------------------------ MODULE Emulator ------------------------------
(***************************************************************************)
(* A host's bytes on their way to the screen: the parser with its fast     *)
(* paths and its print buffer, and the terminal that writes a buffer of    *)
(* characters in one go (vtparse_feed, do_print_span), beside a plain      *)
(* parser and terminal that take every byte through the table of states    *)
(* and write every character as it comes.                                  *)
(*                                                                         *)
(* Bytes come in feeds, of which each ends where the link's reads happen   *)
(* to end: inside a sequence, inside a character. A cell that no byte of   *)
(* the feed has touched holds what was there when it began, by name.       *)
(*                                                                         *)
(* The scroll region is the whole screen, and the second screen, saved     *)
(* cursors, colours, origin and line-feed mode are left out, as are        *)
(* replies; rows over a longer time are Terminal's matter.                 *)
(***************************************************************************)
EXTENDS Parser

CONSTANTS
  Cols, Rows,   \* the screen
  Buffer,       \* VTP_PRINT_BUF
  MaxFeed,      \* bytes in one feed
  Bytes         \* what the host may send

ASSUME EmulatorAssumption ==
  /\ Cols \in Nat \ {0} /\ Rows \in Nat \ {0}
  /\ Buffer \in Nat \ {0} /\ MaxFeed \in Nat \ {0}
  /\ Bytes \subseteq 0 .. 255

(* Many stands for every longer parameter: it moves past any margin.       *)
ASSUME ManyIsFar == Cols < Many /\ Rows < Many

Col == 0 .. Cols - 1
Row == 0 .. Rows - 1

VARIABLES
  parser,     \* vtparse_t
  buf,        \* print_buf
  term,       \* tsm_t
  plain,      \* the plain parser
  paper,      \* and its terminal
  n           \* bytes taken in this feed

vars == <<parser, buf, term, plain, paper, n>>

Blank == <<"blank", 0, 0>>
BlankLine == [c \in Col |-> Blank]
Before == [r \in Row |-> [c \in Col |-> <<"before", r, c>>]]

(* tsm_new; the feed begins.                                               *)
New ==
  [cx |-> 0, cy |-> 0, pending |-> FALSE, g |-> <<"ascii", "ascii">>, gl |-> 1,
   irm |-> FALSE, awm |-> TRUE, lines |-> Before]

Init ==
  /\ parser = Start /\ buf = <<>> /\ term = New
  /\ plain = Start /\ paper = New /\ n = 0

-----------------------------------------------------------------------------
(* Lines and columns.                                                      *)
LineUp(t, from, k) ==
  [t EXCEPT !.lines = [r \in Row |-> IF r < from THEN @[r]
                                     ELSE IF r + k < Rows THEN @[r + k] ELSE BlankLine]]
LineDown(t, from, k) ==
  [t EXCEPT !.lines = [r \in Row |-> IF r < from THEN @[r]
                                     ELSE IF r >= from + k THEN @[r - k] ELSE BlankLine]]
Erase(t, r, from, to) ==
  [t EXCEPT !.lines[r] = [c \in Col |-> IF c \in from .. to THEN Blank ELSE @[c]]]
EraseRows(t, rows) ==
  [t EXCEPT !.lines = [r \in Row |-> IF r \in rows THEN BlankLine ELSE @[r]]]
Insert(t, k) ==
  [t EXCEPT !.lines[t.cy] =
     [c \in Col |-> IF c < t.cx THEN @[c] ELSE IF c >= t.cx + k THEN @[c - k] ELSE Blank]]
Delete(t, k) ==
  [t EXCEPT !.lines[t.cy] =
     [c \in Col |-> IF c < t.cx THEN @[c] ELSE IF c + k < Cols THEN @[c + k] ELSE Blank]]

Clamp(v, hi) == IF v < 0 THEN 0 ELSE IF v > hi THEN hi ELSE v
Goto(t, col, row) ==
  [t EXCEPT !.cx = Clamp(col, Cols - 1), !.cy = Clamp(row, Rows - 1), !.pending = FALSE]

(* LF, IND, NEL and do_wrap; RI.                                           *)
Index(t) == IF t.cy = Rows - 1 THEN LineUp(t, 0, 1) ELSE [t EXCEPT !.cy = @ + 1]
ReverseIndex(t) == IF t.cy = 0 THEN LineDown(t, 0, 1) ELSE [t EXCEPT !.cy = @ - 1]
DoWrap(t) == Index([t EXCEPT !.pending = FALSE, !.cx = 0])

-----------------------------------------------------------------------------
(* charset_xlat, by what it does to each kind of character.                *)
Glyph(t, k) ==
  <<IF k = "graphic" /\ t.g[t.gl] = "gfx" THEN "drawing" ELSE k, 0, 0>>

(* cursor_advance: one cell further, or a wrap pending at the margin.      *)
Advance(t) ==
  IF t.cx + 1 < Cols THEN [t EXCEPT !.cx = @ + 1]
  ELSE [t EXCEPT !.pending = IF t.awm THEN TRUE ELSE @]

(* do_print_span_irm, and the plain terminal: a character by itself.       *)
PrintCell(t, k) ==
  LET w == IF t.pending THEN DoWrap(t) ELSE t
      s == IF w.irm /\ w.cx + 1 < Cols THEN Insert(w, 1) ELSE w
  IN Advance([s EXCEPT !.lines[s.cy][s.cx] = Glyph(s, k)])

PrintCells(t, ks) ==
  LET P[i \in 0 .. Len(ks)] == IF i = 0 THEN t ELSE PrintCell(P[i - 1], ks[i])
  IN P[Len(ks)]

(* do_print_span: what is left of ks, up to the margin, at once.           *)
Segment(s, ks) ==
  LET w == IF s.term.pending THEN DoWrap(s.term) ELSE s.term
      left == Len(ks) - s.done
      run == IF left < Cols - w.cx THEN left ELSE Cols - w.cx
      past == w.cx + run
  IN [done |-> s.done + run,
      term |-> [w EXCEPT
                  !.lines[w.cy] = [c \in Col |-> IF c \in w.cx .. past - 1
                                                 THEN Glyph(w, ks[s.done + c - w.cx + 1]) ELSE @[c]],
                  !.cx = IF past < Cols THEN past ELSE Cols - 1,
                  !.pending = past >= Cols /\ w.awm]]
PrintSegments(t, ks) ==
  LET S[i \in 0 .. Len(ks)] ==
        IF i = 0 THEN [done |-> 0, term |-> t]
        ELSE LET s == S[i - 1] IN IF s.done < Len(ks) THEN Segment(s, ks) ELSE s
  IN S[Len(ks)].term
PrintSpan(t, ks) == IF t.irm THEN PrintCells(t, ks) ELSE PrintSegments(t, ks)

-----------------------------------------------------------------------------
(* do_c0, do_esc, do_csi.                                                  *)
C0Done(t, b) ==
  CASE b = \h08 /\ t.cx > 0 -> [t EXCEPT !.cx = @ - 1, !.pending = FALSE]
    [] b = \h09 -> Goto(t, (t.cx \div 8 + 1) * 8, t.cy)
    [] b \in {\h0A, \h0B, \h0C} -> [Index(t) EXCEPT !.pending = FALSE]
    [] b = \h0D -> [t EXCEPT !.cx = 0, !.pending = FALSE]
    [] b = \h0E -> [t EXCEPT !.gl = 2]
    [] b = \h0F -> [t EXCEPT !.gl = 1]
    [] OTHER -> t

Charset(b) == IF b = \h30 THEN "gfx" ELSE "ascii"
HardReset == [New EXCEPT !.lines = [r \in Row |-> BlankLine]]
EscDone(t, e) ==
  CASE e.inter = \h28 -> [t EXCEPT !.g[1] = Charset(e.final)]
    [] e.inter = \h29 -> [t EXCEPT !.g[2] = Charset(e.final)]
    [] e.inter = 0 /\ e.final = \h44 -> Index(t)
    [] e.inter = 0 /\ e.final = \h45 -> Index([t EXCEPT !.cx = 0])
    [] e.inter = 0 /\ e.final = \h4D -> ReverseIndex(t)
    [] e.inter = 0 /\ e.final = \h63 -> HardReset
    [] OTHER -> t

Given(e, i) == IF i <= Len(e.params) THEN e.params[i] ELSE Missing
Count(e, i) == IF Given(e, i) < 1 THEN 1 ELSE Given(e, i)
Mode(e) == IF Given(e, 1) < 0 THEN 0 ELSE Given(e, 1)

PrivateMode(t, e) ==
  IF Mode(e) = 7 /\ e.final \in {\h68, \h6C} THEN [t EXCEPT !.awm = e.final = \h68] ELSE t

CsiDone(t, e) ==
  LET k == Count(e, 1)
      f == e.final
      fits == IF k < Cols - t.cx THEN k ELSE Cols - t.cx
  IN CASE f = \h41 -> Goto(t, t.cx, t.cy - k)                     \* CUU
       [] f = \h42 -> Goto(t, t.cx, t.cy + k)                     \* CUD
       [] f = \h43 -> Goto(t, t.cx + k, t.cy)                     \* CUF
       [] f = \h44 -> Goto(t, t.cx - k, t.cy)                     \* CUB
       [] f = \h45 -> Goto(t, 0, t.cy + k)                        \* CNL
       [] f = \h46 -> Goto(t, 0, t.cy - k)                        \* CPL
       [] f = \h47 -> Goto(t, k - 1, t.cy)                        \* CHA
       [] f \in {\h48, \h66} -> Goto(t, Count(e, 2) - 1, k - 1)   \* CUP, HVP
       [] f = \h64 -> Goto(t, t.cx, k - 1)                        \* VPA
       [] f = \h4A /\ Mode(e) = 0 -> EraseRows(Erase(t, t.cy, t.cx, Cols - 1), {r \in Row : r > t.cy})
       [] f = \h4A /\ Mode(e) = 1 -> EraseRows(Erase(t, t.cy, 0, t.cx), {r \in Row : r < t.cy})
       [] f = \h4A /\ Mode(e) \in {2, 3} -> EraseRows(t, Row)
       [] f = \h4B /\ Mode(e) = 0 -> Erase(t, t.cy, t.cx, Cols - 1)
       [] f = \h4B /\ Mode(e) = 1 -> Erase(t, t.cy, 0, t.cx)
       [] f = \h4B /\ Mode(e) = 2 -> EraseRows(t, {t.cy})
       [] f = \h4C -> LineDown(t, t.cy, k)                        \* IL
       [] f = \h4D -> LineUp(t, t.cy, k)                          \* DL
       [] f = \h40 -> Insert(t, fits)                             \* ICH
       [] f = \h50 -> Delete(t, fits)                             \* DCH
       [] f = \h58 -> Erase(t, t.cy, t.cx, t.cx + k - 1)          \* ECH
       [] f = \h53 -> LineUp(t, 0, k)                             \* SU
       [] f = \h54 -> LineDown(t, 0, k)                           \* SD
       [] f \in {\h68, \h6C} /\ Mode(e) = 4 -> [t EXCEPT !.irm = f = \h68]
       [] OTHER -> t

EventDone(t, e) ==
  CASE e.is = "c0" -> C0Done(t, e.byte)
    [] e.is = "esc" -> EscDone(t, e)
    [] e.is = "csi" -> IF e.prefix = \h3F THEN PrivateMode(t, e) ELSE CsiDone(t, e)
    [] OTHER -> t

EventsDone(t, es) == IF es = <<>> THEN t ELSE EventDone(t, Head(es))

-----------------------------------------------------------------------------
(* append_print and flush_print.                                           *)
Add(s, k) ==
  IF Len(s.buf) >= Buffer THEN [buf |-> <<k>>, term |-> PrintSpan(s.term, s.buf)]
  ELSE [s EXCEPT !.buf = Append(@, k)]
Put(s, ks) ==
  LET A[i \in 0 .. Len(ks)] == IF i = 0 THEN s ELSE Add(A[i - 1], ks[i])
  IN A[Len(ks)]
Flush(s) == [buf |-> <<>>, term |-> PrintSpan(s.term, s.buf)]

Receive(b) ==
  /\ n < MaxFeed /\ n' = n + 1
  /\ LET o == Byte(parser, b)
         s == Put([buf |-> buf, term |-> term], o.put)
         f == IF o.flush THEN Flush(s) ELSE s
     IN /\ parser' = o.to /\ buf' = f.buf
        /\ term' = EventsDone(f.term, o.events)
  /\ LET o == PlainByte(plain, b)
     IN /\ plain' = o.to
        /\ paper' = EventsDone(PrintCells(paper, o.put), o.events)

(* The end of vtparse_feed, and the frame that vterm_feed shows.           *)
Shown(t) == [t EXCEPT !.lines = Before]
EndFeed ==
  /\ n > 0 /\ n' = 0
  /\ buf' = <<>> /\ term' = Shown(PrintSpan(term, buf))
  /\ paper' = Shown(paper) /\ UNCHANGED <<parser, plain>>

Next == EndFeed \/ \E b \in Bytes : Receive(b)
Spec == Init /\ [][Next]_vars

-----------------------------------------------------------------------------
(* Whatever the host sends and however it is cut into feeds, buffering,    *)
(* batching and the fast paths cannot be seen: what has been shown and is  *)
(* in the buffer is what writing character by character would have shown,  *)
(* each in the character set, at the place and in the mode that held when  *)
(* its byte arrived (vtparse.c:421-458, termstate.c:742-795).              *)
SameAsPlain == parser = plain /\ PrintSpan(term, buf) = paper
=============================================================================
