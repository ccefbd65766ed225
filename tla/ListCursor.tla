----------------------------- MODULE ListCursor ------------------------------
(***************************************************************************)
(* A list of rows shown in a window of menuconfig.py, with a cursor and a  *)
(* scroll offset: what the main display and the list of matches of the     *)
(* jump-to dialog both promise.  Rows are numbered from 0.                 *)
(***************************************************************************)
EXTENDS Integers

CONSTANTS
    ScrollOffset,       \* _SCROLL_OFFSET: distance from the edge that scrolls
    Heights             \* window heights

\* What a module that shows a list has to give.
CursorConstants ==
    /\ ScrollOffset \in Nat
    /\ Heights \subseteq Nat \ {0}

VARIABLES
    list, size,         \* what is listed, and how many rows that takes
    height,             \* of the window
    sel, scroll         \* the row of the cursor, the row at the top

vars == <<list, size, height, sel, scroll>>

\* A cursor is a row and the row at the top of the window.
At(i, top) == [sel |-> i, top |-> top]

NonNegative(a) == IF a > 0 THEN a ELSE 0
AtMost(a, b)   == IF a < b THEN a ELSE b

MaxScroll(n, h) == NonNegative(n - h)

\* The guards are those of the list of matches; for a cursor in its list they
\* say what the main display's < and > say.
NextRow(c, n, h) ==
    IF c.sel = n - 1 THEN c
    ELSE At(c.sel + 1,
            IF c.sel + 1 >= c.top + h - ScrollOffset /\ c.top < MaxScroll(n, h)
            THEN c.top + 1 ELSE c.top)

PrevRow(c) ==
    IF c.sel = 0 THEN c
    ELSE At(c.sel - 1,
            IF c.sel - 1 < c.top + ScrollOffset THEN NonNegative(c.top - 1) ELSE c.top)

\* _PG_JUMP = 6 rows at once; the cursor reached is the only member.
Down(S, n, h) == {NextRow(c, n, h) : c \in S}
Up(S)         == {PrevRow(c) : c \in S}

PageDown(c, n, h) ==
    Down(Down(Down(Down(Down(Down({c}, n, h), n, h), n, h), n, h), n, h), n, h)

PageUp(c) == Up(Up(Up(Up(Up(Up({c}))))))

LastRow(n, h) == At(n - 1, MaxScroll(n, h))
FirstRow      == At(0, 0)

\* Row i in the middle of the window, if the list is long enough.
Centered(i, n, h) == At(i, AtMost(NonNegative(i - h \div 2), MaxScroll(n, h)))

\* Row i on line `line' of the window, or above if there are not enough rows.
OnLine(i, line) == At(i, NonNegative(i - line))

Resized(c, h) == IF c.sel - c.top >= h THEN At(c.sel, c.sel - h + 1) ELSE c

InWindow(c, n, h) ==
    /\ c.sel \in 0 .. n - 1
    /\ c.top \in 0 .. c.sel
    /\ c.sel < c.top + h

----------------------------------------------------------------------------
(* The list as it is seen on the screen.                                    *)

Cursor == At(sel, scroll)

MoveTo(c) == sel' = c.sel /\ scroll' = c.top

Init ==
    /\ size \in Nat \ {0}
    /\ height \in Heights
    /\ sel = 0
    /\ scroll = 0

\* The cursor is moved by a key.
Move ==
    /\ \/ MoveTo(NextRow(Cursor, size, height))
       \/ MoveTo(PrevRow(Cursor))
       \/ \E c \in PageDown(Cursor, size, height) : MoveTo(c)
       \/ \E c \in PageUp(Cursor) : MoveTo(c)
       \/ MoveTo(LastRow(size, height))
       \/ MoveTo(FirstRow)
    /\ UNCHANGED <<list, size, height>>

\* Another list is shown, with a row of it on any line of the window, which
\* may get another height at the end.
Show ==
    /\ list' # list
    /\ size' \in Nat \ {0}
    /\ height' \in Heights
    /\ \E i \in 0 .. size' - 1, line \in 0 .. height - 1 :
          MoveTo(Resized(OnLine(i, line), height'))

\* A row is looked up, in another list or in the same.
Find ==
    /\ size' \in Nat \ {0}
    /\ list' = list => size' = size
    /\ height' \in Heights
    /\ \E i \in 0 .. size' - 1 : MoveTo(Resized(Centered(i, size', height), height'))

Resize ==
    /\ height' \in Heights
    /\ MoveTo(Resized(Cursor, height'))
    /\ UNCHANGED <<list, size>>

Next == Move \/ Show \/ Find \/ Resize

Spec == Init /\ [][Next]_vars

----------------------------------------------------------------------------
(***************************************************************************)
(* The selected row exists and is inside the window, whatever the keys     *)
(* pressed, the lists shown and the sizes of the terminal, a window lower  *)
(* than _SCROLL_OFFSET included: _draw_main() only draws the rows from     *)
(* _menu_scroll on, and the keys act on the selected one.                  *)
(***************************************************************************)
CursorInWindow == InWindow(Cursor, size, height)
=============================================================================
