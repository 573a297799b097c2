------------------------------ MODULE Terminals ------------------------------
(***************************************************************************)
(* Logical terminals (console/terminal.cpp), the fixed switching between   *)
(* them (console/terminal_switcher.cpp) and the framebuffer that presents  *)
(* the active one (drivers/display/text_display.cpp), which redraws only   *)
(* the cells its shadow says have changed, and the cursor.                 *)
(*                                                                         *)
(* A cell is blank or not; a character is a printable one, a newline or a  *)
(* backspace.  A write is two steps: the cell and the cursor, then the     *)
(* presentation.                                                           *)
(***************************************************************************)
EXTENDS Integers

CONSTANTS
    Columns, Rows,  \* of a terminal and of the display
    Terminal        \* the terminals in use, 1 at first

ASSUME TerminalsAssumption ==
    /\ Columns \in Nat \ {0} /\ Rows \in Nat \ {0}
    /\ Terminal \subseteq Nat /\ 1 \in Terminal

VARIABLES
    cells, cursor,  \* buffer_; row_ and col_
    active,         \* active_terminal
    shadow, last,   \* display: shadow_buffer; last_cursor_* and cursor_valid
    screen,         \* what the framebuffer shows
    writer,         \* who is inside a terminal's write
    overlapped      \* two CPUs have been inside at once

terminalVars == <<cells, cursor, active, shadow, last, screen, writer, overlapped>>

Cell == (0..(Rows - 1)) \X (0..(Columns - 1))
Blank == [c \in Cell |-> FALSE]
Char == {"printable", "newline", "backspace"}

\* framebuffer_draw_cell
Drawn(cell, inverse) == [cell |-> cell, inverse |-> inverse]

\* Mutant: the old cursor is not redrawn unless its cell has changed.
Redraw_NotOldCursor(c, buffer, at) == shadow[c] # buffer[c] \/ at = c

\* present_framebuffer_text: the cells drawn again.
Redraw(c, buffer, at) == shadow[c] # buffer[c] \/ last = c \/ at = c

Presented(buffer, at) ==
    /\ screen' = [c \in Cell |-> IF Redraw(c, buffer, at) THEN Drawn(buffer[c], at = c) ELSE screen[c]]
    /\ shadow' = buffer
    /\ last' = at

TerminalsInit ==
    /\ cells = [t \in Terminal |-> Blank] /\ cursor = [t \in Terminal |-> <<0, 0>>]
    /\ active = 1 /\ shadow = Blank /\ last = <<0, 0>>
    /\ screen = [c \in Cell |-> Drawn(FALSE, c = <<0, 0>>)]
    /\ writer = 0 /\ overlapped = FALSE

\* internal_write: past the last row everything moves up by one.
Scrolled(b, at) ==
    IF at[1] < Rows THEN [buffer |-> b, at |-> at]
    ELSE [buffer |-> [c \in Cell |-> c[1] < Rows - 1 /\ b[<<c[1] + 1, c[2]>>]],
          at |-> <<Rows - 1, at[2]>>]

\* internal_write: the cursor after a printable character.
Right(at) == IF at[2] + 1 >= Columns THEN <<at[1] + 1, 0>> ELSE <<at[1], at[2] + 1>>

InternalWrite(b, at, ch) ==
    CASE ch = "newline" -> Scrolled(b, <<at[1] + 1, 0>>)
      [] ch = "backspace" ->
            IF at[2] > 0 THEN Scrolled([b EXCEPT ![<<at[1], at[2] - 1>>] = FALSE], <<at[1], at[2] - 1>>)
                         ELSE Scrolled(b, at)
      [] OTHER -> Scrolled([b EXCEPT ![at] = TRUE], Right(at))

\* Terminal::write on the active terminal, up to the cursor.  The terminal has no
\* lock of its own; what two CPUs do to it at once is not followed further.
WriteBegins(who, ch) ==
    LET r == InternalWrite(cells[active], cursor[active], ch) IN
    /\ cells' = [cells EXCEPT ![active] = r.buffer]
    /\ cursor' = [cursor EXCEPT ![active] = r.at]
    /\ overlapped' = (overlapped \/ writer # 0) /\ writer' = who
    /\ UNCHANGED <<active, shadow, last, screen>>

\* move_cursor: the terminal is presented.
WriteEnds ==
    /\ Presented(cells[active], cursor[active])
    /\ writer' = 0 /\ UNCHANGED <<cells, cursor, active, overlapped>>

\* kernel_keyboard_hook: another terminal is linked to the display and presented.
SwitchTo(t) ==
    IF t = active THEN UNCHANGED terminalVars
    ELSE /\ active' = t /\ Presented(cells[t], cursor[t])
         /\ overlapped' = (overlapped \/ writer # 0)
         /\ UNCHANGED <<cells, cursor, writer>>

-----------------------------------------------------------------------------
\* Whatever was written to whichever terminal and however often it was switched, the
\* screen shows the active terminal's cells, inverse at its cursor and nowhere else
\* (present_framebuffer_text, with its shadow and last cursor).
ScreenShowsActive ==
    writer = 0 /\ ~overlapped =>
        screen = [c \in Cell |-> Drawn(cells[active][c], c = cursor[active])]

=============================================================================
