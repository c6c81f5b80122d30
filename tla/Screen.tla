------------------------------- MODULE Screen -------------------------------
(***************************************************************************)
(* What the terminal promises of its rows: a plain grid of lines, a second *)
(* screen on top of it for full-screen programs, and the lines that left   *)
(* the top of the first one, the newest last and at most Max of them.      *)
(* There is no ring, no rotating base and no cursor here.                  *)
(***************************************************************************)
EXTENDS Naturals, Sequences

CONSTANTS
  Rows,    \* lines on the screen
  Max,     \* lines of history kept
  Counts,  \* how far lines are moved at once
  Lines,   \* what a line can hold
  Blank    \* an erased one

VARIABLES
  grid,     \* the active screen, from the top
  alt,      \* the second screen is active
  under,    \* the first screen, while the second one is active
  history   \* the lines that left the top

screen == <<grid, alt, under, history>>

Row == 0 .. Rows - 1
Empty == [r \in Row |-> Blank]

Init == grid = Empty /\ alt = FALSE /\ under = Empty /\ history = <<>>

(* Lines t..b move n up or down, and blank ones follow.                    *)
Up(g, t, b, n) ==
  [r \in Row |-> IF r \notin t .. b THEN g[r] ELSE IF r + n <= b THEN g[r + n] ELSE Blank]
Down(g, t, b, n) ==
  [r \in Row |-> IF r \notin t .. b THEN g[r] ELSE IF r >= t + n THEN g[r - n] ELSE Blank]

(* Only the whole first screen makes history.                              *)
Newest(h) == IF Len(h) <= Max THEN h ELSE SubSeq(h, Len(h) - Max + 1, Len(h))
Leaving(t, b, n) ==
  IF ~alt /\ t = 0 /\ b = Rows - 1
    THEN [i \in 1 .. (IF n < Rows THEN n ELSE Rows) |-> grid[i - 1]]
    ELSE <<>>
Evict(t, b, n) == history' = Newest(history \o Leaving(t, b, n))

Edited(g, r, line) == [g EXCEPT ![r] = line]

ScrollUp(t, b, n) ==
  /\ grid' = Up(grid, t, b, n) /\ Evict(t, b, n)
  /\ UNCHANGED <<alt, under>>

ScrollDown(t, b, n) ==
  /\ grid' = Down(grid, t, b, n)
  /\ UNCHANGED <<alt, under, history>>

(* Text that had to begin a new line.                                      *)
Wrap(t, b, line) ==
  /\ grid' = Edited(Up(grid, t, b, 1), b, line) /\ Evict(t, b, 1)
  /\ UNCHANGED <<alt, under>>

Edit(r, line) ==
  /\ grid' = Edited(grid, r, line)
  /\ UNCHANGED <<alt, under, history>>

(* A line edited, the ones above or below it erased.                       *)
Erase(r, line, gone) ==
  /\ grid' = [q \in Row |-> IF q = r THEN line ELSE IF q \in gone THEN Blank ELSE grid[q]]
  /\ UNCHANGED <<alt, under, history>>

EraseScreen ==
  /\ grid' = Empty
  /\ UNCHANGED <<alt, under, history>>

EraseHistory ==
  /\ grid' = Empty /\ history' = <<>>
  /\ UNCHANGED <<alt, under>>

ToAlt ==
  /\ ~alt /\ alt' = TRUE /\ under' = grid /\ grid' = Empty
  /\ UNCHANGED history

ToPrimary ==
  /\ alt /\ alt' = FALSE /\ grid' = under /\ under' = Empty
  /\ UNCHANGED history

Reset ==
  grid' = Empty /\ alt' = FALSE /\ under' = Empty /\ history' = <<>>

Next ==
  \/ \E r \in Row, line \in Lines : Edit(r, line)
  \/ EraseScreen \/ EraseHistory \/ ToAlt \/ ToPrimary \/ Reset
  \/ \E t, b \in Row : t <= b /\
       \/ \E line \in Lines : Wrap(t, b, line)
       \/ \E n \in Counts \union {1} : ScrollUp(t, b, n) \/ ScrollDown(t, b, n)
  \/ \E r \in Row, line \in Lines :
       Erase(r, line, 0 .. r - 1) \/ Erase(r, line, r + 1 .. Rows - 1)

Spec == Init /\ [][Next]_screen
=============================================================================
