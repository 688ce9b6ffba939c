--------------------------------- MODULE Vga ---------------------------------
(***************************************************************************)
(* The screen driver (kernel/drivers/video/vga.c): a buffer of lines, a    *)
(* viewport on it, and the video memory that shows the viewport.  While a  *)
(* render is pending single cells are not drawn; the flush at the end of a *)
(* call draws them all.                                                    *)
(*                                                                         *)
(* vga_putchar, vga_write and fvga_write run with interrupts off from      *)
(* irq_save to irq_restore.  They are a start, one step per character and  *)
(* a flush.  The scroll functions are called by the keyboard handler, with *)
(* interrupts off too, so they come between calls only.                    *)
(*                                                                         *)
(* A cell holds a character with its colours as one value, so the choice   *)
(* of the character stands for vgaColor as well.                           *)
(***************************************************************************)
EXTENDS Integers, FiniteSets

CONSTANTS
  Width, Height,   \* VGA_WIDTH, VGA_HEIGHT
  Lines,           \* TERMINAL_LINES
  TabStop,         \* 4
  Entries,         \* what a printable character leaves in a cell
  CLEAR            \* VGA_CLEAR

ASSUME VgaAssumption ==
  /\ {Width, Height, Lines, TabStop} \subseteq Nat \ {0}
  /\ Height <= Lines
  /\ CLEAR \notin Entries
  /\ Entries \cap {"TAB", "LF", "CR", "BS"} = {}

Rows     == 0 .. Lines - 1
Columns  == 0 .. Width - 1
Cells    == Entries \cup {CLEAR}
Controls == {"TAB", "LF", "CR", "BS"}
Blank    == [x \in Columns |-> CLEAR]

VARIABLES
  terminalBuffer, screen,      \* the lines, and the video memory
  cursorX, cursorY, viewportY,
  renderPending,
  writing                      \* between irq_save and irq_restore

vgaVars == <<terminalBuffer, screen, cursorX, cursorY, viewportY, renderPending, writing>>

VgaTypeOK ==
  /\ terminalBuffer \in [Rows -> [Columns -> Cells]]
  /\ screen \in [0 .. Height - 1 -> [Columns -> Cells]]
  /\ cursorX \in Columns /\ cursorY \in Rows /\ viewportY \in Rows
  /\ renderPending \in BOOLEAN /\ writing \in BOOLEAN

\* What vga_render draws for a buffer and a viewport.
vga_render(buffer, view) ==
  [y \in 0 .. Height - 1 |-> IF view + y \in Rows THEN buffer[view + y] ELSE Blank]

\* vga_init.
VgaInit ==
  /\ terminalBuffer = [y \in Rows |-> Blank]
  /\ screen = [y \in 0 .. Height - 1 |-> Blank]
  /\ cursorX = 0 /\ cursorY = 0 /\ viewportY = 0
  /\ renderPending = FALSE
  /\ writing = FALSE

-----------------------------------------------------------------------------
(***************************************************************************)
(* vga_putchar_raw.                                                        *)
(***************************************************************************)
Wrapped(x) == IF x >= Width THEN <<0, cursorY + 1>> ELSE <<x, cursorY>>

\* Where the switch leaves the cursor.
Moved(c) ==
  CASE c = "TAB" -> Wrapped(((cursorX + TabStop) \div TabStop) * TabStop)
    [] c = "LF"  -> <<0, cursorY + 1>>
    [] c = "CR"  -> <<0, cursorY>>
    [] c = "BS"  -> <<IF cursorX > 0 THEN cursorX - 1 ELSE 0, cursorY>>
    [] OTHER     -> Wrapped(cursorX + 1)

\* The columns of line cursorY the switch writes, and what it puts there.
Touched(c) ==
  CASE c = "BS" -> IF cursorX > 0 THEN {cursorX - 1} ELSE {}
    [] c \in Controls \ {"BS"} -> {}
    [] OTHER -> {cursorX}
Edited(line, c) ==
  [x \in Columns |-> IF x \notin Touched(c) THEN line[x] ELSE IF c = "BS" THEN CLEAR ELSE c]

\* vga_write_cell, for what the switch writes.
vga_write_cell(c) ==
  IF ~renderPending /\ cursorY >= viewportY /\ cursorY < viewportY + Height
  THEN [screen EXCEPT ![cursorY - viewportY] = Edited(@, c)]
  ELSE screen

\* Everything moves up by one line.
MutMovedUp(buffer) == [y \in Rows |-> IF y < Lines - 1 THEN buffer[y + 1] ELSE buffer[0]]
MovedUp(buffer) == [y \in Rows |-> IF y < Lines - 1 THEN buffer[y + 1] ELSE Blank]

MutFollow(y, pending) ==
  IF y >= viewportY + Height THEN <<y - Height + 1, pending>> ELSE <<viewportY, pending>>
\* vga_follow_cursor for cursor line y: the new viewport and renderPending.
vga_follow_cursor(y, pending) ==
  IF y >= viewportY + Height THEN <<y - Height + 1, TRUE>> ELSE <<viewportY, pending>>

vga_putchar_raw(c) ==
  LET moved  == Moved(c)
      edited == [terminalBuffer EXCEPT ![cursorY] = Edited(@, c)]
      full   == moved[2] >= Lines
      y      == IF full THEN Lines - 1 ELSE moved[2]
      follow == vga_follow_cursor(y, renderPending \/ full)
  IN
  /\ writing
  /\ terminalBuffer' = IF full THEN MovedUp(edited) ELSE edited
  /\ screen' = vga_write_cell(c)
  /\ cursorX' = moved[1] /\ cursorY' = y
  /\ viewportY' = follow[1] /\ renderPending' = follow[2]
  /\ UNCHANGED writing

irq_save ==
  /\ ~writing
  /\ writing' = TRUE
  /\ UNCHANGED <<terminalBuffer, screen, cursorX, cursorY, viewportY, renderPending>>

\* vga_flush and irq_restore.
vga_flush ==
  /\ writing
  /\ writing' = FALSE
  /\ screen' = IF renderPending THEN vga_render(terminalBuffer, viewportY) ELSE screen
  /\ renderPending' = FALSE
  /\ UNCHANGED <<terminalBuffer, cursorX, cursorY, viewportY>>

-----------------------------------------------------------------------------
maxViewport == IF cursorY >= Height THEN cursorY - Height + 1 ELSE 0

\* The viewport moves and everything is drawn.
ShowFrom(view) ==
  /\ ~writing
  /\ viewportY' = view
  /\ screen' = vga_render(terminalBuffer, view)
  /\ UNCHANGED <<terminalBuffer, cursorX, cursorY, renderPending, writing>>

vga_scroll_up   == viewportY > 0 /\ ShowFrom(viewportY - 1)
vga_scroll_down == viewportY < maxViewport /\ ShowFrom(viewportY + 1)

\* At either end the scroll functions do nothing.
scroll_ignored ==
  /\ ~writing
  /\ viewportY = 0 \/ viewportY >= maxViewport
  /\ UNCHANGED vgaVars

vga_page_up == ShowFrom(IF viewportY >= Height THEN viewportY - Height ELSE 0)

MutPageDown == ShowFrom(IF viewportY + Height > Lines - 1 THEN Lines - 1 ELSE viewportY + Height)
vga_page_down ==
  ShowFrom(IF viewportY + Height > maxViewport THEN maxViewport ELSE viewportY + Height)

\* vga_clear, with interrupts off as in vga_init.
vga_clear ==
  /\ ~writing
  /\ terminalBuffer' = [y \in Rows |-> Blank]
  /\ screen' = [y \in 0 .. Height - 1 |-> Blank]
  /\ cursorX' = 0 /\ cursorY' = 0 /\ viewportY' = 0
  /\ UNCHANGED <<renderPending, writing>>

VgaNext ==
  \/ irq_save \/ vga_flush
  \/ \E c \in Entries \cup Controls : vga_putchar_raw(c)
  \/ vga_scroll_up \/ vga_scroll_down \/ scroll_ignored
  \/ vga_page_up \/ vga_page_down
  \/ vga_clear

VgaSpec == VgaInit /\ [][VgaNext]_vgaVars

-----------------------------------------------------------------------------
(***************************************************************************)
(* Properties.                                                             *)
(***************************************************************************)
\* Whenever no render is pending, between calls in particular, the video memory
\* shows the viewport: every skipped cell was followed by a render.
ScreenShowsViewport ==
  /\ ~renderPending => screen = vga_render(terminalBuffer, viewportY)
  /\ ~writing => ~renderPending

\* The viewport never goes below the line of the cursor, however one scrolls, so
\* vga_render never reads behind the buffer.
ViewportBounded == viewportY <= maxViewport

\* No text is lost but the oldest line: a character changes one cell of the
\* cursor's line, and all lines keep their place or all move up by one, with
\* an empty line below.
TextKept ==
  [][\/ vga_clear
     \/ \E up \in {0, 1} :
          /\ \A y \in Rows : y + up \in Rows \ {cursorY} =>
               terminalBuffer'[y] = terminalBuffer[y + up]
          /\ cursorY - up \in Rows =>
               Cardinality({x \in Columns :
                 terminalBuffer'[cursorY - up][x] # terminalBuffer[cursorY][x]}) <= 1
          /\ up = 1 => terminalBuffer'[Lines - 1] = Blank]_vgaVars
==============================================================================
