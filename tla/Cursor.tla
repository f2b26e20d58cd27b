------------------------------- MODULE Cursor -------------------------------
(***************************************************************************)
(* The keyboard thread of the client (Interface::handleKeyboard) moving    *)
(* the cursor over a pad larger than the terminal.  After every key four   *)
(* loops move the viewport until it shows the cursor again; each iteration *)
(* is a step.                                                              *)
(***************************************************************************)
EXTENDS BoardScreen

CONSTANTS ScreenCols, ScreenRows  \* the terminal, getmaxyx(stdscr)

PadCols == 230
PadRows == 25
JumpX   == 30
JumpY   == 1

\* Where the viewport is when it shows the end of the pad.
EndX == PadCols - ScreenCols - 1

(***************************************************************************)
(* A terminal with fewer columns than a jump may hide the cursor; one as   *)
(* wide as the pad makes EndX negative.                                    *)
(***************************************************************************)
ASSUME CursorAssumption ==
  /\ ScreenCols \in JumpX + 1 .. PadCols - 1
  /\ ScreenRows \in Nat \ {0, 1}

VARIABLES
  cursor_x, cursor_y,
  viewport_x, viewport_y,  \* viewport_x_offset, viewport_y_offset
  loop                     \* the loop that iterates; Reading when none does

cursorVars == <<cursor_x, cursor_y, viewport_x, viewport_y, loop>>

Reading == 0
ToRight == 1
ToLeft  == 2
ToDown  == 3
ToUp    == 4
Loop    == ToRight..ToUp

CursorInit ==
  /\ cursor_x = 0
  /\ cursor_y = 0
  /\ viewport_x = 0
  /\ viewport_y = 0
  /\ loop = Reading

\* The loop to the right, stopping one column late.
PendsLoose(l) ==
  \/ l = ToRight /\ cursor_x > viewport_x + ScreenCols
  \/ l = ToLeft  /\ cursor_x < viewport_x
  \/ l = ToDown  /\ cursor_y > viewport_y + ScreenRows - 1
  \/ l = ToUp    /\ cursor_y < viewport_y

\* The conditions of the loops.
Pends(l) ==
  \/ l = ToRight /\ cursor_x > viewport_x + ScreenCols - 1
  \/ l = ToLeft  /\ cursor_x < viewport_x
  \/ l = ToDown  /\ cursor_y > viewport_y + ScreenRows - 1
  \/ l = ToUp    /\ cursor_y < viewport_y

\* Control goes from loop l on to the first loop whose condition holds.
Resume(l) ==
  \/ \E i \in l..ToUp : /\ loop' = i
                        /\ Pends(i)'
                        /\ \A j \in l .. i - 1 : ~ Pends(j)'
  \/ loop' = Reading /\ \A i \in l..ToUp : ~ Pends(i)'

-----------------------------------------------------------------------------
Moved(x, y) ==
  /\ loop = Reading
  /\ cursor_x' = x
  /\ cursor_y' = y

\* Home and End place the viewport, too.
Jump(x) ==
  /\ Moved(x, cursor_y)
  /\ viewport_x' = x
  /\ UNCHANGED viewport_y
  /\ Resume(ToRight)

Home == Jump(0)
End  == Jump(EndX)

Move(x, y) ==
  /\ Moved(x, y)
  /\ UNCHANGED <<viewport_x, viewport_y>>
  /\ Resume(ToRight)

PageDown == cursor_x + JumpX < PadCols /\ Move(cursor_x + JumpX, cursor_y)
PageUp   == Move(IF cursor_x >= JumpX THEN cursor_x - JumpX ELSE 0, cursor_y)
Up       == cursor_y > 0 /\ Move(cursor_x, cursor_y - 1)
Down     == cursor_y < PadRows - 1 /\ Move(cursor_x, cursor_y + 1)
Right    == cursor_x < PadCols - 2 /\ Move(cursor_x + 1, cursor_y)
Left     == cursor_x > 0 /\ Move(cursor_x - 1, cursor_y)

Key == Home \/ End \/ PageDown \/ PageUp \/ Up \/ Down \/ Right \/ Left

Scroll(l, vx, vy) ==
  /\ loop = l
  /\ viewport_x' = vx
  /\ viewport_y' = vy
  /\ UNCHANGED <<cursor_x, cursor_y>>
  /\ Resume(l)

\* The end of the pad missed by a column.
ScrollRightShort ==
  Scroll(ToRight, IF viewport_x + JumpX < EndX THEN viewport_x + JumpX ELSE EndX - 1,
         viewport_y)

ScrollRight ==
  Scroll(ToRight, IF viewport_x + JumpX < EndX THEN viewport_x + JumpX ELSE EndX,
         viewport_y)

ScrollLeft ==
  Scroll(ToLeft, IF cursor_x >= JumpX THEN cursor_x - JumpX ELSE 0, viewport_y)

ScrollDown ==
  Scroll(ToDown, viewport_x,
         IF viewport_y + JumpY < PadRows - ScreenRows - 1
         THEN viewport_y + JumpY ELSE PadRows - ScreenRows)

ScrollUp ==
  Scroll(ToUp, viewport_x, IF cursor_y >= JumpY THEN cursor_y - JumpY ELSE 0)

ScrollStep == ScrollRight \/ ScrollLeft \/ ScrollDown \/ ScrollUp

CursorNext == Key \/ ScrollStep

CursorSpec == CursorInit /\ [][CursorNext]_cursorVars

\* The thread runs; the user owes no key.
CursorFairSpec == CursorSpec /\ WF_cursorVars(ScrollStep)

-----------------------------------------------------------------------------
TypeOK ==
  /\ cursor_x \in 0 .. PadCols - 1
  /\ cursor_y \in 0 .. PadRows - 1
  /\ viewport_x \in 0..EndX
  /\ viewport_y \in 0 .. PadRows - 1
  /\ loop \in {Reading} \cup Loop

(***************************************************************************)
(* Whenever the thread waits for a key, the part of the pad on the screen  *)
(* contains the cursor, although each of the loops of handleKeyboard looks *)
(* at one edge only and none is repeated after the others.                 *)
(***************************************************************************)
CursorShown ==
  loop = Reading =>
    /\ cursor_x \in viewport_x .. viewport_x + ScreenCols - 1
    /\ cursor_y \in viewport_y .. viewport_y + ScreenRows - 1

(***************************************************************************)
(* The loops of handleKeyboard end, but for one position: the last column, *)
(* which the right arrow never enters and Page-down does (cursor_x + 30 <  *)
(* v_screen_cols).  There the first loop runs for ever.                    *)
(***************************************************************************)
ScrollEnds == loop # Reading ~> (loop = Reading \/ cursor_x = PadCols - 1)

InColumnsOf(n, x) == x \in FrameOf(n).x + 1 .. FrameOf(n).x + FrameOf(n).w - 2
InRowsOf(n, y)    == y \in FrameOf(n).y + 1 .. FrameOf(n).y + FrameOf(n).h - 2

\* What Enter would bet on at a position, and the numbers seen there.
OnSight(x, y) ==
  LET b == BoxAt(x, y)
  IN  /\ b \in Plenos \cup Verticales \cup Horizontales => Covered(b) = Touched(x, y)
      /\ b \in Calles => Touched(x, y) = {3 * (b - 93)} /\ Touched(x, y) \subseteq Covered(b)
      /\ b \in Docenas => \A n \in 1..36 : InColumnsOf(n, x) => n \in Covered(b)
      /\ b \in Lineas  => \A n \in 1..36 : InRowsOf(n, y) => n \in Covered(b)

BetsOnSight == [x \in 0 .. PadCols - 1 |-> [y \in 0 .. PadRows - 1 |-> OnSight(x, y)]]

(***************************************************************************)
(* Wherever the cursor gets, Enter (askForBet's search of the frames)      *)
(* picks a box that covers, by Board::boxHasNumber, the numbers the cursor *)
(* is seen on: the number under it, the two it stands between, the street  *)
(* whose upper end it is on, the dozen it is above, the line it is beside. *)
(***************************************************************************)
PointedNumbers == BetsOnSight[cursor_x][cursor_y]
=============================================================================
