------------------------------ MODULE Terminal ------------------------------
(***************************************************************************)
(* The terminal model (tsm) and its bridge to the display (vterm), by rows.*)
(* Rows lie in a ring whose base rotates when the whole screen scrolls;    *)
(* rows that leave the top of the first screen go to a second ring, the    *)
(* scrollback; sb_off says how many of those the view shows above the live *)
(* grid; a flush copies the rows marked since the last one to the display. *)
(*                                                                         *)
(* Two tasks on two cores use it without a lock: the SSH read task feeds   *)
(* and flushes, the shell moves the view. A scroll of the view is cut      *)
(* between its reads and its write of sb_off, and so is the read task's    *)
(* increment of it. That both may copy the same row to the display at once,*)
(* and the older copy land last, is not modelled.                          *)
(*                                                                         *)
(* A row is one value: columns, attributes, character sets, the parser and *)
(* replies to the host are left out, so that everything done inside a row  *)
(* is one edit. So is the cursor: positioning can put it on any row, and a *)
(* function that works at the cursor's row works at any row here. What the *)
(* inactive second screen holds is not kept: it is erased on entry.        *)
(* Synchronized updates only put a flush off.                              *)
(***************************************************************************)
EXTENDS Integers, Sequences

CONSTANTS
  Rows,    \* lines on the screen
  Max,     \* sb_max: rows of scrollback
  Counts,  \* counts given to scroll, insert and delete lines
  Lines,   \* what a row can hold
  Blank    \* an erased row

ASSUME TerminalAssumption ==
  /\ Rows \in Nat \ {0, 1} /\ Max \in Nat \ {0} /\ Blank \in Lines
  /\ Counts \subseteq Nat \ {0}

Row == 0 .. Rows - 1
Slots == 0 .. Max - 1
Nothing == -1

VARIABLES
  \* termstate.h
  cells,   \* physical rows of the active grid
  base,    \* row ring: logical row 0 is physical row base
  alt,     \* mode.decalt
  under,   \* the inactive grid and its base (alt_cells, alt_base)
  sb,      \* sb_cells
  len,     \* sb_len
  head,    \* sb_head
  off,     \* sb_off
  missed,  \* rows out of date on the display that no flush will copy
  top,     \* scroll_top
  bot,     \* scroll_bot
  \* the tasks
  hold,    \* read task: sb_off incremented, not yet stored
  before,  \* shell: the offset before a scroll of the view
  want     \* shell: the offset computed, not yet stored

grid == <<cells, base, alt, under>>
back == <<sb, len, head>>
region == <<top, bot>>
scroll == <<before, want>>
vars == <<grid, back, off, missed, region, hold, scroll>>

Clean == [cells |-> [p \in Row |-> Blank], base |-> 0]

TypeOK ==
  /\ cells \in [Row -> Lines] /\ base \in Row /\ alt \in BOOLEAN
  /\ under \in [cells : [Row -> Lines], base : Row]
  /\ sb \in [Slots -> Lines] /\ len \in 0 .. Max /\ head \in Slots
  /\ off \in 0 .. Max /\ hold \in {Nothing} \union 0 .. Max
  /\ before \in {Nothing} \union 0 .. Max /\ want \in {Nothing} \union 0 .. Max
  /\ missed \subseteq Row
  /\ top \in Row /\ bot \in Row /\ top < bot

Init ==
  /\ cells = Clean.cells /\ base = 0 /\ alt = FALSE /\ under = Clean
  /\ sb = [s \in Slots |-> Blank] /\ len = 0 /\ head = 0 /\ off = 0
  /\ missed = {} /\ top = 0 /\ bot = Rows - 1
  /\ hold = Nothing /\ before = Nothing /\ want = Nothing

-----------------------------------------------------------------------------
(* phys_row, and the rows as they are seen.                                *)
Wrapped(p, n) == IF p >= n THEN p - n ELSE IF p < 0 THEN p + n ELSE p
Phys(b, r) == Wrapped(r + b, Rows)
At(c, b, r) == c[Phys(b, r)]

(* tsm_row: the view with an offset of o.                                  *)
View(o, r) ==
  IF r < o THEN sb[Wrapped(head - o + r, Max)] ELSE At(cells, base, r - o)
Offset == IF hold = Nothing THEN off ELSE hold
Seen == [r \in Row |-> View(Offset, r)]

(* refresh_display at the next flush: the marked rows, or every row when   *)
(* the view is scrolled back.                                              *)
Marked(rows) ==
  missed' = IF Offset' > 0 THEN {}
            ELSE {r \in Row \ rows : r \in missed \/ Seen[r]' # Seen[r]}

(* The grid with logical row r replaced by new[r].                         *)
Written(c, b, new) ==
  [p \in Row |-> LET r == Wrapped(p - b, Rows)
                 IN IF r \in DOMAIN new THEN new[r] ELSE c[p]]
Erased(from, to) == [r \in from .. to |-> Blank]
Into(new) == cells' = Written(cells, base, new)

(* sb_push_row for logical rows 0..n-1 of the active grid.                 *)
\* Variant: a held view does not follow the ring.
PushStays(n) ==
  LET S[k \in 0 .. n] ==
        IF k = 0 THEN [sb |-> sb, len |-> len, head |-> head, off |-> off]
        ELSE LET s == S[k - 1] IN
             [sb |-> [s.sb EXCEPT ![s.head] = At(cells, base, k - 1)],
              head |-> IF s.head + 1 >= Max THEN 0 ELSE s.head + 1,
              len |-> IF s.len < Max THEN s.len + 1 ELSE s.len,
              off |-> s.off]
  IN S[n]
Push(n) ==
  LET S[k \in 0 .. n] ==
        IF k = 0 THEN [sb |-> sb, len |-> len, head |-> head, off |-> off]
        ELSE LET s == S[k - 1]
                 longer == IF s.len < Max THEN s.len + 1 ELSE s.len IN
             [sb |-> [s.sb EXCEPT ![s.head] = At(cells, base, k - 1)],
              head |-> IF s.head + 1 >= Max THEN 0 ELSE s.head + 1,
              len |-> longer,
              off |-> IF s.off > 0 /\ s.off < longer THEN s.off + 1 ELSE s.off]
  IN S[n]

(* What scroll_up does first: only the full first screen makes history.    *)
Evict(t, b, n) ==
  IF ~alt /\ t = 0 /\ b = Rows - 1
  THEN LET s == Push(IF n < Rows THEN n ELSE Rows) IN
       /\ sb' = s.sb /\ len' = s.len /\ head' = s.head
       /\ hold' = IF s.off # off THEN s.off ELSE Nothing
  ELSE UNCHANGED <<back, hold>>

(* scroll_up and scroll_down of rows t..b by n: erased altogether, rotated,*)
(* or copied; the line put on the last row afterwards is Blank unless a    *)
(* print goes on there.                                                    *)
ShiftUp(t, b, n, line) ==
  IF n > b - t
    THEN base' = base /\ Into([r \in t .. b |-> IF r = b THEN line ELSE Blank])
  ELSE IF t = 0 /\ b = Rows - 1
    THEN /\ base' = Wrapped(base + n, Rows)
         /\ cells' = Written(cells, base', [r \in b - n + 1 .. b |-> IF r = b THEN line ELSE Blank])
    ELSE /\ base' = base
         /\ Into([r \in t .. b |-> IF r = b THEN line
                                   ELSE IF r + n <= b THEN At(cells, base, r + n) ELSE Blank])
ScrollUp(t, b, n) ==
  /\ Evict(t, b, n) /\ ShiftUp(t, b, n, Blank)
  /\ UNCHANGED <<alt, under, off>> /\ Marked(t .. b)

\* Variant: a whole screen that scrolls down rotates the wrong way.
ScrollDownTurnsUp(t, b, n) ==
  /\ IF n > b - t
       THEN base' = base /\ Into(Erased(t, b))
     ELSE IF t = 0 /\ b = Rows - 1
       THEN /\ base' = Wrapped(base + n, Rows)
            /\ cells' = Written(cells, base', Erased(t, t + n - 1))
       ELSE /\ base' = base
            /\ Into([r \in t .. b |-> IF r >= t + n THEN At(cells, base, r - n) ELSE Blank])
  /\ UNCHANGED <<alt, under, off, back, hold>> /\ Marked(t .. b)
ScrollDown(t, b, n) ==
  /\ IF n > b - t
       THEN base' = base /\ Into(Erased(t, b))
     ELSE IF t = 0 /\ b = Rows - 1
       THEN /\ base' = Wrapped(base - n, Rows)
            /\ cells' = Written(cells, base', Erased(t, t + n - 1))
       ELSE /\ base' = base
            /\ Into([r \in t .. b |-> IF r >= t + n THEN At(cells, base, r - n) ELSE Blank])
  /\ UNCHANGED <<alt, under, off, back, hold>> /\ Marked(t .. b)

-----------------------------------------------------------------------------
(* The read task: one control function or one run of text.                 *)
Feed == hold = Nothing /\ UNCHANGED scroll
KeepView == UNCHANGED <<back, off, hold>>
KeepGrid == UNCHANGED <<grid, missed>> /\ KeepView

EditRow(r, line) ==
  /\ Into([q \in {r} |-> line])
  /\ UNCHANGED <<base, alt, under>> /\ KeepView /\ Marked({r})

(* Text, and erase in line; insert, delete and erase characters.           *)
EditLine(r, line) == Feed /\ UNCHANGED region /\ EditRow(r, line)

(* do_print_span with a wrap pending on the last row of the region.        *)
Wrap(line) ==
  /\ Feed /\ UNCHANGED <<region, alt, under, off>>
  /\ Evict(top, bot, 1) /\ ShiftUp(top, bot, 1, line) /\ Marked(top .. bot)

(* LF, VT, FF, IND and NEL on the last row of the region; RI on the first. *)
LineFeed == Feed /\ UNCHANGED region /\ ScrollUp(top, bot, 1)
ReverseIndex == Feed /\ UNCHANGED region /\ ScrollDown(top, bot, 1)

(* SU and SD from the top of the region; DL and IL from any row of it.     *)
DeleteLines(t, n) == Feed /\ UNCHANGED region /\ t \in top .. bot /\ ScrollUp(t, bot, n)
InsertLines(t, n) == Feed /\ UNCHANGED region /\ t \in top .. bot /\ ScrollDown(t, bot, n)

(* ED 0 and ED 1: the cursor's row in part, those below or above it.       *)
EraseRest(r, line, gone) ==
  /\ Feed /\ UNCHANGED region
  /\ Into([q \in gone \union {r} |-> IF q = r THEN line ELSE Blank])
  /\ UNCHANGED <<base, alt, under>> /\ KeepView
  /\ Marked(gone \union {r})

(* ED 2 leaves the history alone, ED 3 drops it (sb_clear).                *)
EraseScreen ==
  /\ Feed /\ UNCHANGED <<region, base, alt, under>> /\ KeepView
  /\ Into(Erased(0, Rows - 1)) /\ Marked(Row)
EraseHistory ==
  /\ Feed /\ UNCHANGED <<region, base, alt, under, sb, hold>>
  /\ Into(Erased(0, Rows - 1))
  /\ len' = 0 /\ head' = 0 /\ off' = 0 /\ Marked(Row)

(* DECSTBM; a region of one row or none is refused.                        *)
SetRegion ==
  /\ Feed /\ KeepGrid
  /\ \E t, b \in Row : t < b /\ top' = t /\ bot' = b

(* switch_to_alt, swap_grids: the base goes with its grid.                 *)
SwitchToAlt ==
  /\ Feed /\ ~alt /\ alt' = TRUE
  /\ under' = [cells |-> cells, base |-> base]
  /\ cells' = Clean.cells /\ base' = 0 /\ off' = 0
  /\ UNCHANGED <<back, hold, region>> /\ Marked(Row)

\* Variant: nothing is marked, as no cell has changed.
SwitchToPrimaryUnmarked ==
  /\ Feed /\ alt /\ alt' = FALSE
  /\ cells' = under.cells /\ base' = under.base /\ under' = Clean
  /\ KeepView /\ UNCHANGED region /\ Marked({})

SwitchToPrimary ==
  /\ Feed /\ alt /\ alt' = FALSE
  /\ cells' = under.cells /\ base' = under.base /\ under' = Clean
  /\ KeepView /\ UNCHANGED region /\ Marked(Row)

(* RIS.                                                                    *)
HardReset ==
  /\ Feed
  /\ cells' = Clean.cells /\ base' = 0 /\ alt' = FALSE /\ under' = Clean
  /\ len' = 0 /\ head' = 0 /\ off' = 0
  /\ top' = 0 /\ bot' = Rows - 1
  /\ UNCHANGED <<sb, hold>> /\ Marked(Row)

(* The increment of sb_off arrives.                                        *)
StoreOff ==
  /\ hold # Nothing /\ off' = hold /\ hold' = Nothing
  /\ UNCHANGED <<grid, back, missed, region, scroll>>

-----------------------------------------------------------------------------
(* The shell: vterm_scroll reads the offset, and reads it again to compute *)
(* the new one, not on the second screen; the view is repainted            *)
(* (repaint_all) if that is not the first. vterm_scroll_reset always does. *)
ScrollBegin ==
  /\ before = Nothing /\ before' = off
  /\ UNCHANGED <<grid, back, off, missed, region, hold, want>>

Clamped(n) == IF n < 0 THEN 0 ELSE IF n > len THEN len ELSE n
ScrollView(delta) ==
  /\ before # Nothing /\ want = Nothing /\ ~alt /\ want' = Clamped(off + delta)
  /\ UNCHANGED <<grid, back, off, missed, region, hold, before>>

ScrollAlt ==
  /\ before # Nothing /\ want = Nothing /\ alt /\ before' = Nothing
  /\ missed' = IF off # before THEN {} ELSE missed
  /\ UNCHANGED <<grid, back, off, region, hold, want>>

(* A flush may have shown the offset that is overwritten unseen.           *)
ScrollMoves ==
  /\ want # Nothing /\ off' = want /\ want' = Nothing /\ before' = Nothing
  /\ UNCHANGED <<grid, back, region, hold>>
  /\ IF want # before THEN missed' = {} ELSE Marked({})

ScrollReset ==
  /\ before = Nothing /\ off > 0 /\ off' = 0 /\ missed' = {}
  /\ UNCHANGED <<grid, back, region, hold, scroll>>

Function ==
  \/ LineFeed \/ ReverseIndex \/ EraseScreen \/ EraseHistory
  \/ SetRegion \/ SwitchToAlt \/ SwitchToPrimary \/ HardReset
  \/ \E line \in Lines :
       \/ Wrap(line)
       \/ \E r \in Row :
            \/ EditLine(r, line)
            \/ \E gone \in {0 .. r - 1, r + 1 .. Rows - 1} : EraseRest(r, line, gone)
  \/ \E t \in Row, n \in Counts : DeleteLines(t, n) \/ InsertLines(t, n)

Shell == \/ ScrollBegin \/ ScrollAlt \/ ScrollMoves \/ ScrollReset
         \/ \E delta \in {-1, 1} : ScrollView(delta)

Next == Function \/ StoreOff \/ Shell
Spec == Init /\ [][Next]_vars

-----------------------------------------------------------------------------
(* Properties.                                                             *)
Logical(c, b) == [r \in Row |-> At(c, b, r)]
Line(i) == sb[Wrapped(head - len + i - 1, Max)]
History == [i \in 1 .. len |-> Line(i)]

(* The frame on the display follows the model: a row that looks different  *)
(* after a control function or a move of the view is marked for the next   *)
(* flush or repainted, unless the view is scrolled back, which repaints    *)
(* everything (vterm.c:95-136). Only the shell leaves rows behind: its     *)
(* scroll, back where it began, overtaken by the read task's store of      *)
(* sb_off (vterm.c:247-251).                                               *)
Overtaken == ScrollMoves /\ off # before
FlushShows == [][missed' \subseteq missed \/ Overtaken]_vars

(* Output does not move what the user is reading: a view into history      *)
(* shows the same rows while lines go on leaving the screen, as long as    *)
(* the ring has room for them (termstate.c:132-144).                       *)
ViewHeld ==
  [][head' # head /\ len' > 0 /\ off \in 1 .. len /\ off < Max
       /\ (LineFeed \/ \E line \in Lines : Wrap(line))
     => Seen' = Seen]_vars

(* termstate.h: the view offset stays within the history (<= sb_len), so   *)
(* that cleared rows are unreachable (termstate.c:124). It does when one   *)
(* task alone uses the terminal.                                           *)
OffsetInHistory == off <= len
=============================================================================
