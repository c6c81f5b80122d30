--------------------------- MODULE TerminalScreen ---------------------------
(***************************************************************************)
(* The terminal model in step with a plain screen: every control function  *)
(* that is fed to the one is carried out on the other, with the same       *)
(* arguments, and the rows are compared.                                   *)
(***************************************************************************)
EXTENDS Terminal

VARIABLES
  pgrid,     \* the plain screen's rows,
  punder,    \* its first screen beneath the second
  phistory   \* and the lines that left the top

plain == <<pgrid, punder, phistory>>
Plain == INSTANCE Screen WITH grid <- pgrid, under <- punder, history <- phistory

InitBoth == Init /\ Plain!Init

FunctionBoth ==
  \/ LineFeed /\ Plain!ScrollUp(top, bot, 1)
  \/ ReverseIndex /\ Plain!ScrollDown(top, bot, 1)
  \/ EraseScreen /\ Plain!EraseScreen
  \/ EraseHistory /\ Plain!EraseHistory
  \/ SwitchToAlt /\ Plain!ToAlt
  \/ SwitchToPrimary /\ Plain!ToPrimary
  \/ HardReset /\ Plain!Reset
  \/ SetRegion /\ UNCHANGED plain
  \/ \E line \in Lines :
       \/ Wrap(line) /\ Plain!Wrap(top, bot, line)
       \/ \E r \in Row :
            \/ EditLine(r, line) /\ Plain!Edit(r, line)
            \/ \E gone \in {0 .. r - 1, r + 1 .. Rows - 1} :
                 EraseRest(r, line, gone) /\ Plain!Erase(r, line, gone)
  \/ \E t \in Row, n \in Counts :
       \/ DeleteLines(t, n) /\ Plain!ScrollUp(t, bot, n)
       \/ InsertLines(t, n) /\ Plain!ScrollDown(t, bot, n)

NextBoth == FunctionBoth \/ ((StoreOff \/ Shell) /\ UNCHANGED plain)
SpecBoth == InitBoth /\ [][NextBoth]_<<vars, plain>>

(* Rotating instead of moving is invisible: whatever sequence of control   *)
(* functions came, the rows are those of a plain grid, the history is the  *)
(* last lines that left the first screen and nothing else, and a program's *)
(* own screen gives the first one back as it was (termstate.h,             *)
(* termstate.c:146-211, 269-303), while the shell moves the view.          *)
ShowsPlain ==
  /\ Logical(cells, base) = pgrid
  /\ Logical(under.cells, under.base) = punder
  /\ History = phistory

(* The same without a plain screen beside it, as the promise the terminal  *)
(* keeps on its own: seen from the top, its rows, its history and the      *)
(* screen beneath only ever change as those of a plain screen.             *)
Shown == INSTANCE Screen WITH
  grid <- Logical(cells, base),
  under <- Logical(under.cells, under.base),
  history <- History
ImplementsScreen == Shown!Spec
=============================================================================
