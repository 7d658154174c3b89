--------------------------------- MODULE Vga ---------------------------------
(***************************************************************************)
(* devices/vga.c: the text screen, of COL_CNT by ROW_CNT characters, and    *)
(* its cursor.  paper is the same text on a sheet that never scrolls, and   *)
(* cursor the position the hardware is told.  vga_putc runs with interrupts *)
(* off, except while it beeps, when another character may be written.       *)
(***************************************************************************)
EXTENDS Integers, Sequences, SequencesExt

CONSTANTS COL_CNT, ROW_CNT, TabStop, MaxWritten

VARIABLES fb, cx, cy, cursor, beeping, paper, written
vgaVars == <<fb, cx, cy, cursor, beeping, paper, written>>

Blank == " "
BlankRow == [x \in 0 .. COL_CNT - 1 |-> Blank]
BlankScreen == [y \in 0 .. ROW_CNT - 1 |-> BlankRow]
ROUND_UP8(x) == ((x + TabStop - 1) \div TabStop) * TabStop

\* The two registers of the hardware cursor.
move_cursor(x, y) == x + COL_CNT * y
find_cursor(cp) == cx = cp % COL_CNT /\ cy = cp \div COL_CNT
\* The cursor is where the boot loader left it.
VgaInit == \E cp \in 0 .. COL_CNT * ROW_CNT - 1 :
  /\ find_cursor(cp) /\ cursor = cp
  /\ fb = BlankScreen /\ beeping = 0 /\ written = 0
  /\ paper = [y \in 1 .. cy + 1 |-> BlankRow]
\* Fault: the screen scrolls when the cursor enters the last row.
AtBottom_early(y) == y + 1 >= ROW_CNT - 1
AtBottom(y) == y + 1 >= ROW_CNT
\* The screen s with the cursor moved to a new line from row y.
Newline(s, y) == IF AtBottom(y)
                 THEN [fb |-> [r \in DOMAIN s |-> IF r = ROW_CNT - 1 THEN BlankRow ELSE s[r + 1]],
                       cx |-> 0, cy |-> ROW_CNT - 1]
                 ELSE [fb |-> s, cx |-> 0, cy |-> y + 1]
Here(x) == [fb |-> fb, cx |-> x, cy |-> cy]
Advanced(s, x, y) == IF x >= COL_CNT THEN Newline(s, y) ELSE [fb |-> s, cx |-> x, cy |-> y]
After(c) ==
  CASE c = "\n" -> Newline(fb, cy)
    [] c = "\f" -> [fb |-> BlankScreen, cx |-> 0, cy |-> 0]
    [] c = "backspace" -> Here(IF cx > 0 THEN cx - 1 ELSE 0)
    [] c = "\r" -> Here(0)
    [] c = "\t" -> Advanced(fb, ROUND_UP8(cx + 1), cy)
    [] OTHER -> Advanced([fb EXCEPT ![cy][cx] = c], cx + 1, cy)
\* The same on the sheet: a new line is a new row below.
NewRow(p) == Append(p, BlankRow)
PaperAfter(c) ==
  CASE c = "\n" -> NewRow(paper)
    [] c = "\f" -> <<BlankRow>>
    [] c \in {"backspace", "\r"} -> paper
    [] c = "\t" -> IF ROUND_UP8(cx + 1) >= COL_CNT THEN NewRow(paper) ELSE paper
    [] OTHER -> LET p == [paper EXCEPT ![Len(paper)][cx] = c]
                IN IF cx + 1 = COL_CNT THEN NewRow(p) ELSE p
Controls == {"\n", "\f", "backspace", "\r", "\t"}
vga_putc == \E c \in Controls \cup {"a"} :
  /\ written < MaxWritten
  /\ LET n == After(c)
     IN /\ fb' = n.fb /\ cx' = n.cx /\ cy' = n.cy
        /\ cursor' = move_cursor(n.cx, n.cy)
  /\ paper' = PaperAfter(c)
  /\ written' = written + 1
  /\ UNCHANGED beeping
\* '\a': interrupts are on while speaker_beep runs, then the cursor is set again.
Beep == /\ beeping = 0 /\ beeping' = 1
        /\ UNCHANGED <<fb, cx, cy, cursor, paper, written>>
BeepEnds == /\ beeping = 1 /\ beeping' = 0
            /\ cursor' = move_cursor(cx, cy)
            /\ UNCHANGED <<fb, cx, cy, paper, written>>
VgaNext == vga_putc \/ Beep \/ BeepEnds
VgaSpec == VgaInit /\ [][VgaNext]_vgaVars
---------------------------------------------------------------------------
\* Whatever is written, and wherever the cursor was found at boot, the frame buffer is
\* indexed inside of its rows and columns and the hardware cursor is where the next
\* character goes.
CursorOnScreen ==
  /\ cx \in 0 .. COL_CNT - 1 /\ cy \in 0 .. ROW_CNT - 1
  /\ cursor = cx + COL_CNT * cy
  /\ DOMAIN fb = 0 .. ROW_CNT - 1 /\ \A y \in DOMAIN fb : DOMAIN fb[y] = 0 .. COL_CNT - 1
\* newline "scrolls the screen upward one line": the screen shows the last rows of all that was
\* written since it was cleared, none twice and none missing, and blanks below the cursor.
ScreenIsTail ==
  \A y \in 0 .. ROW_CNT - 1 : fb[y] = IF y > cy THEN BlankRow ELSE paper[Len(paper) - cy + y]

\* The display shows the end of what vga_putc was given, with the cursor behind it.
ScreenShown == CursorOnScreen /\ ScreenIsTail
=============================================================================
