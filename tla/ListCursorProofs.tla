-------------------------- MODULE ListCursorProofs ---------------------------
(***************************************************************************)
(* The cursor of a list stays inside its window, for every length of list, *)
(* height of window and _SCROLL_OFFSET.  CursorInWindow is inductive with  *)
(* the types of the length and of the height; each rule for moving the     *)
(* cursor keeps it on its own.                                             *)
(***************************************************************************)
EXTENDS ListCursor, TLAPS

\* A cursor of a list of n rows in a window of h lines.
Fits(c, n, h) ==
    /\ n \in Nat \ {0} /\ h \in Nat \ {0}
    /\ c \in [sel : Int, top : Int]
    /\ InWindow(c, n, h)

\* One row down scrolls early enough, also in a window lower than the offset.
LEMMA NextRowFits ==
    ASSUME ScrollOffset \in Nat, NEW c, NEW n, NEW h, Fits(c, n, h)
    PROVE  Fits(NextRow(c, n, h), n, h)
BY DEF Fits, NextRow, At, InWindow, MaxScroll, NonNegative

\* One row up never scrolls past the cursor.
LEMMA PrevRowFits ==
    ASSUME ScrollOffset \in Nat, NEW c, NEW n, NEW h, Fits(c, n, h)
    PROVE  Fits(PrevRow(c), n, h)
BY DEF Fits, PrevRow, At, InWindow, NonNegative

\* The same for all the cursors of a set.
LEMMA DownFits ==
    ASSUME ScrollOffset \in Nat, NEW S, NEW n, NEW h, \A c \in S : Fits(c, n, h)
    PROVE  \A c \in Down(S, n, h) : Fits(c, n, h)
BY NextRowFits DEF Down

\* One row up, for all the cursors of a set.
LEMMA UpFits ==
    ASSUME ScrollOffset \in Nat, NEW S, NEW n, NEW h, \A c \in S : Fits(c, n, h)
    PROVE  \A c \in Up(S) : Fits(c, n, h)
BY PrevRowFits DEF Up

\* A page is six rows.
LEMMA PageDownFits ==
    ASSUME ScrollOffset \in Nat, NEW c, NEW n, NEW h, Fits(c, n, h)
    PROVE  \A d \in PageDown(c, n, h) : Fits(d, n, h)
<1> DEFINE S1 == Down({c}, n, h)
           S2 == Down(S1, n, h)
           S3 == Down(S2, n, h)
           S4 == Down(S3, n, h)
           S5 == Down(S4, n, h)
<1>1. \A d \in {c} : Fits(d, n, h)
  OBVIOUS
<1>2. \A d \in S1 : Fits(d, n, h)
  BY <1>1, DownFits
<1> HIDE DEF S1
<1>3. \A d \in S2 : Fits(d, n, h)
  BY <1>2, DownFits
<1> HIDE DEF S2
<1>4. \A d \in S3 : Fits(d, n, h)
  BY <1>3, DownFits
<1> HIDE DEF S3
<1>5. \A d \in S4 : Fits(d, n, h)
  BY <1>4, DownFits
<1> HIDE DEF S4
<1>6. \A d \in S5 : Fits(d, n, h)
  BY <1>5, DownFits
<1> HIDE DEF S5
<1>7. \A d \in Down(S5, n, h) : Fits(d, n, h)
  BY <1>6, DownFits
<1> QED
  BY <1>7 DEF PageDown, S1, S2, S3, S4, S5

\* And a page up.
LEMMA PageUpFits ==
    ASSUME ScrollOffset \in Nat, NEW c, NEW n, NEW h, Fits(c, n, h)
    PROVE  \A d \in PageUp(c) : Fits(d, n, h)
<1> DEFINE S1 == Up({c})
           S2 == Up(S1)
           S3 == Up(S2)
           S4 == Up(S3)
           S5 == Up(S4)
<1>1. \A d \in {c} : Fits(d, n, h)
  OBVIOUS
<1>2. \A d \in S1 : Fits(d, n, h)
  BY <1>1, UpFits
<1> HIDE DEF S1
<1>3. \A d \in S2 : Fits(d, n, h)
  BY <1>2, UpFits
<1> HIDE DEF S2
<1>4. \A d \in S3 : Fits(d, n, h)
  BY <1>3, UpFits
<1> HIDE DEF S3
<1>5. \A d \in S4 : Fits(d, n, h)
  BY <1>4, UpFits
<1> HIDE DEF S4
<1>6. \A d \in S5 : Fits(d, n, h)
  BY <1>5, UpFits
<1> HIDE DEF S5
<1>7. \A d \in Up(S5) : Fits(d, n, h)
  BY <1>6, UpFits
<1> QED
  BY <1>7 DEF PageUp, S1, S2, S3, S4, S5

\* The two ends of the list.
LEMMA EndsFit ==
    ASSUME NEW n \in Nat \ {0}, NEW h \in Nat \ {0}
    PROVE  Fits(LastRow(n, h), n, h) /\ Fits(FirstRow, n, h)
BY DEF Fits, LastRow, FirstRow, At, InWindow, MaxScroll, NonNegative

\* A row that is centered.
LEMMA CenteredFits ==
    ASSUME NEW n \in Nat \ {0}, NEW h \in Nat \ {0}, NEW i \in 0 .. n - 1
    PROVE  Fits(Centered(i, n, h), n, h)
<1>1. h \div 2 \in 0 .. h - 1
  BY Z3
<1> QED
  BY <1>1 DEF Fits, Centered, At, InWindow, MaxScroll, NonNegative, AtMost

\* A row on a line the window has.
LEMMA OnLineFits ==
    ASSUME NEW n \in Nat \ {0}, NEW h \in Nat \ {0}, NEW i \in 0 .. n - 1,
           NEW line \in 0 .. h - 1
    PROVE  Fits(OnLine(i, line), n, h)
BY DEF Fits, OnLine, At, InWindow, NonNegative

\* A cursor that fits one height is brought into the window of another.
LEMMA ResizedFits ==
    ASSUME NEW c, NEW n, NEW h, Fits(c, n, h), NEW k \in Nat \ {0}
    PROVE  Fits(Resized(c, k), n, k)
BY DEF Fits, Resized, At, InWindow

\* The cursor on the screen is a cursor of its list.
IInv == Fits(Cursor, size, height) /\ sel \in Int /\ scroll \in Int

\* Moving to a cursor that fits makes the invariant true.
LEMMA MoveToFits ==
    ASSUME NEW c, Fits(c, size', height'), MoveTo(c)
    PROVE  IInv'
BY DEF IInv, Fits, MoveTo, Cursor, At, InWindow

\* The first row of any list is in the window.
LEMMA InitFits ==
    ASSUME CursorConstants, Init
    PROVE  IInv
BY DEF CursorConstants, Init, IInv, Fits, Cursor, At, InWindow

\* Every key, list and resize keeps the invariant.
LEMMA NextFits ==
    ASSUME CursorConstants, IInv, [Next]_vars
    PROVE  IInv'
<1> USE DEF CursorConstants
<1>0. Fits(Cursor, size, height) /\ size \in Nat \ {0} /\ height \in Nat \ {0}
  BY DEF IInv, Fits
<1>1. CASE Move
  <2>0. size' = size /\ height' = height
    BY <1>1 DEF Move
  <2>1. CASE MoveTo(NextRow(Cursor, size, height))
    BY <1>0, <2>0, <2>1, NextRowFits, MoveToFits
  <2>2. CASE MoveTo(PrevRow(Cursor))
    BY <1>0, <2>0, <2>2, PrevRowFits, MoveToFits
  <2>3. CASE \E c \in PageDown(Cursor, size, height) : MoveTo(c)
    BY <1>0, <2>0, <2>3, PageDownFits, MoveToFits
  <2>4. CASE \E c \in PageUp(Cursor) : MoveTo(c)
    BY <1>0, <2>0, <2>4, PageUpFits, MoveToFits
  <2>5. CASE MoveTo(LastRow(size, height))
    BY <1>0, <2>0, <2>5, EndsFit, MoveToFits
  <2>6. CASE MoveTo(FirstRow)
    BY <1>0, <2>0, <2>6, EndsFit, MoveToFits
  <2> QED
    BY <1>1, <2>1, <2>2, <2>3, <2>4, <2>5, <2>6 DEF Move
<1>2. CASE Show
  <2>0. size' \in Nat \ {0} /\ height' \in Nat \ {0}
    BY <1>2 DEF Show
  <2>1. PICK i \in 0 .. size' - 1, line \in 0 .. height - 1 :
            MoveTo(Resized(OnLine(i, line), height'))
    BY <1>2 DEF Show
  <2>2. Fits(OnLine(i, line), size', height)
    BY <1>0, <2>0, OnLineFits
  <2> QED
    BY <2>0, <2>1, <2>2, ResizedFits, MoveToFits
<1>3. CASE Find
  <2>0. size' \in Nat \ {0} /\ height' \in Nat \ {0}
    BY <1>3 DEF Find
  <2>1. PICK i \in 0 .. size' - 1 :
            MoveTo(Resized(Centered(i, size', height), height'))
    BY <1>3 DEF Find
  <2>2. Fits(Centered(i, size', height), size', height)
    BY <1>0, <2>0, CenteredFits
  <2> QED
    BY <2>0, <2>1, <2>2, ResizedFits, MoveToFits
<1>4. CASE Resize
  <2>1. height' \in Nat \ {0} /\ size' = size /\ MoveTo(Resized(Cursor, height'))
    BY <1>4 DEF Resize
  <2> QED
    BY <1>0, <2>1, ResizedFits, MoveToFits
<1>5. CASE UNCHANGED vars
  BY <1>5 DEF vars, IInv, Fits, Cursor, At, InWindow
<1> QED
  BY <1>1, <1>2, <1>3, <1>4, <1>5 DEF Next

(***************************************************************************)
(* For every list, window and _SCROLL_OFFSET the selected row exists and   *)
(* is inside the window, whatever the keys, lists and resizes.             *)
(***************************************************************************)
THEOREM CursorInWindowThm ==
    ASSUME CursorConstants
    PROVE  Spec => []CursorInWindow
<1>1. Init => IInv
  BY InitFits
<1>2. IInv /\ [Next]_vars => IInv'
  BY NextFits
<1>3. IInv => CursorInWindow
  BY DEF IInv, Fits, CursorInWindow
<1> QED
  BY <1>1, <1>2, <1>3, PTL DEF Spec
=============================================================================
