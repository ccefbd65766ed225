-------------------------- MODULE MenuconfigProofs ---------------------------
(***************************************************************************)
(* The terminal interface, for every menu tree, terminal and file: the     *)
(* screen is current whenever a key is awaited, both of its lists are a    *)
(* ListCursor, so that the selected row is always inside its window, no    *)
(* lookup of a node or a value fails, and no change of a value is lost.    *)
(***************************************************************************)
EXTENDS Menuconfig, KconfigTreeProofs

----------------------------------------------------------------------------
(* What menus show.                                                         *)

\* The nodes shown of menu m.
ShownSet(x, all, m) ==
    IF ItemOf[m] \in Choices THEN ChoiceNodes(x, all, m) ELSE RowNodes(x, all, m)

IsList(list) == list \in Seq(Nodes) /\ Distinct(list)

\* Every node shown is in the list once.
LEMMA ShownNodesIs ==
    ASSUME NEW x, NEW all, NEW m
    PROVE  /\ IsList(ShownNodes(x, all, m))
           /\ Seqs!ToSet(ShownNodes(x, all, m)) = ShownSet(x, all, m)
           /\ ShownSet(x, all, m) \subseteq Below
<1>1. NodeOrder \in Seq(Nodes) /\ Distinct(NodeOrder) /\ Seqs!ToSet(NodeOrder) = Nodes
  BY NodesAssumption DEF Distinct, Nodes
<1>2. \A loc : RowNodes(x, all, loc) \subseteq Below
  BY DEF RowNodes, Displayed
<1>3. ShownSet(x, all, m) \subseteq Below
  BY <1>2 DEF ShownSet, ChoiceNodes
<1>4. ShownNodes(x, all, m) = Those(NodeOrder, ShownSet(x, all, m))
  BY DEF ShownNodes, ShownSet, Rows
<1>5. Below \subseteq Nodes
  BY DEF Below
<1> DEFINE S == ShownSet(x, all, m)
           list == Those(NodeOrder, S)
<1> HIDE DEF S
<1>6. list \in Seq(Nodes) /\ Seqs!ToSet(list) = Nodes \cap S /\ Distinct(list)
  BY <1>1, ThoseIs
<1>7. Nodes \cap S = S
  BY <1>3, <1>5 DEF S
<1> HIDE DEF list
<1>8. ShownNodes(x, all, m) = list
  BY <1>4 DEF list, S
<1> QED BY <1>3, <1>6, <1>7, <1>8 DEF IsList, S

\* A menu is not in its own list, whatever the values.
LEMMA NotInItself ==
    ASSUME NoChoiceInItself, NEW x, NEW all, NEW m \in Below
    PROVE  m \notin Seqs!ToSet(ShownNodes(x, all, m))
<1>1. ParentMenu[m] # m
  <2>1. Before(ParentMenu[m], m)
    BY ParentMenuIs
  <2>2. IndexOf(NodeOrder, m) \in Nat
    BY Positions DEF Below
  <2> QED BY <2>1, <2>2 DEF Before
<1>2. m \notin RowNodes(x, all, m)
  BY <1>1 DEF RowNodes
<1>3. CASE ItemOf[m] \in Choices
  <2>1. ItemOf[ParentMenu[m]] # ItemOf[m]
    BY <1>3 DEF NoChoiceInItself
  <2>2. \A loc \in {n \in Nodes : ItemOf[n] = ItemOf[m]} : m \notin RowNodes(x, all, loc)
    BY <2>1 DEF RowNodes
  <2> QED BY <1>2, <1>3, <2>2, ShownNodesIs DEF ShownSet, ChoiceNodes
<1>4. CASE ItemOf[m] \notin Choices
  BY <1>2, <1>4, ShownNodesIs DEF ShownSet
<1> QED BY <1>3, <1>4

\* Show-all hides nothing.
LEMMA ShowAllShows ==
    ASSUME OncePerChoice, NEW x, NEW m
    PROVE  Seqs!ToSet(ShownNodes(x, FALSE, m)) \subseteq Seqs!ToSet(ShownNodes(x, TRUE, m))
<1>1. Displayed(x, FALSE) \subseteq Displayed(x, TRUE)
  BY DEF Displayed
<1>2. \A loc : RowNodes(x, FALSE, loc) \subseteq RowNodes(x, TRUE, loc)
  BY <1>1 DEF RowNodes
<1> SUFFICES ShownSet(x, FALSE, m) \subseteq ShownSet(x, TRUE, m)
  BY ShownNodesIs
<1>3. CASE ItemOf[m] \in Choices
  <2> SUFFICES ASSUME NEW n \in ChoiceNodes(x, FALSE, m)
               PROVE  n \in ChoiceNodes(x, TRUE, m)
    BY <1>3 DEF ShownSet
  <2> DEFINE Locs == {k \in Nodes : ItemOf[k] = ItemOf[m]} \ {m}
             here == RowNodes(x, TRUE, m)
             there == UNION {RowNodes(x, TRUE, loc) : loc \in Locs}
             Repeated == \E k \in here \cup {k \in there : Before(k, n)} : ItemOf[k] = ItemOf[n]
  <2>1. n \in here \/ n \in there
    BY <1>2 DEF ChoiceNodes
  <2>2. \A k \in here \cup there : k \in Below /\ ItemOf[ParentMenu[k]] = ItemOf[m]
    BY DEF RowNodes, Displayed
  <2>3. ChoiceNodes(x, TRUE, m) = here \cup {k \in there : ItemOf[k] \in Syms =>
            ~\E j \in here \cup {j \in there : Before(j, k)} : ItemOf[j] = ItemOf[k]}
    BY DEF ChoiceNodes
  <2>4. CASE n \in here
    BY <2>3, <2>4
  <2>5. CASE n \notin here
    <3>1. ASSUME ItemOf[n] \in Syms, NEW k \in here \cup {k \in there : Before(k, n)},
                 ItemOf[k] = ItemOf[n]
          PROVE  FALSE
      <4>1. n \in Below /\ k \in Below /\ ItemOf[ParentMenu[k]] = ItemOf[m]
            /\ ItemOf[ParentMenu[n]] = ItemOf[m]
        BY <2>1, <2>2
      <4>2. k = n
        BY <1>3, <3>1, <4>1 DEF OncePerChoice
      <4>3. Before(n, n) /\ IndexOf(NodeOrder, n) \in Nat
        BY <2>5, <3>1, <4>1, <4>2, Positions DEF Below
      <4> QED BY <4>3 DEF Before
    <3> QED BY <2>1, <2>3, <2>5, <3>1
  <2> QED BY <2>4, <2>5
<1>4. CASE ItemOf[m] \notin Choices
  BY <1>2, <1>4 DEF ShownSet
<1> QED BY <1>3, <1>4

----------------------------------------------------------------------------
(* The functions of the interface.                                          *)

MP == INSTANCE ListCursorProofs WITH
         list <- shown, size <- Len(shown),
         Heights <- {MenuHeight(t) : t \in Terminals}
FP == INSTANCE ListCursorProofs WITH
         sel <- MatchRow, scroll <- MatchTop, height <- mheight,
         list <- matches, size <- AtLeastOne(Len(matches)),
         Heights <- {MatchesHeight(t) : t \in Terminals}

IsScreen(u) ==
    DOMAIN u = {"env", "menu", "shown", "cur", "rows", "showAll", "changed", "failed"}

\* What is shown is what the values make visible of a menu.
Current(u) == u.menu \in IsMenuconfig /\ u.shown = ShownNodes(u.env, u.showAll, u.menu)

\* A screen with something to select; it may be out of date after a lookup
\* has failed.
WellFormed(u) ==
    /\ IsScreen(u)
    /\ IsList(u.shown) /\ u.shown # <<>>
    /\ u.rows \in Seq(Nat)
    /\ u.showAll \in BOOLEAN /\ u.failed \in BOOLEAN
    /\ ~u.failed => Current(u)

Fits(u) == MP!Fits(u.cur, Len(u.shown), height)

\* The ways in which the cursor gets to another row than by the keys.
IsCentered(u) == \E i \in 0 .. Len(u.shown) - 1 : u.cur = Centered(i, u.shown)
IsOnLine(u)   == \E i \in 0 .. Len(u.shown) - 1, line \in 0 .. height - 1 : u.cur = Main!OnLine(i, line)

Moved(u, to) ==
    \/ to.shown = u.shown /\ to.cur = u.cur
    \/ to.shown # u.shown /\ IsOnLine(to)
    \/ IsCentered(to)

\* A failed lookup leaves the screen as it was.
LEMMA FailedIs ==
    ASSUME NEW u, IsScreen(u), IsList(u.shown), u.shown # <<>>, u.rows \in Seq(Nat),
           u.showAll \in BOOLEAN
    PROVE  /\ WellFormed(Failed(u)) /\ Failed(u).failed
           /\ Failed(u).shown = u.shown /\ Failed(u).cur = u.cur /\ Failed(u).env = u.env
BY DEF Failed, WellFormed, IsScreen

\* The place of a node of the list.
LEMMA PlaceIs ==
    ASSUME NEW list, IsList(list), NEW n \in Seqs!ToSet(list)
    PROVE  /\ IndexOf(list, n) \in 0 .. Len(list) - 1 /\ list # <<>>
           /\ \A k \in 0 .. Len(list) - 1 : list[k + 1] = n => IndexOf(list, n) = k
<1>1. list \in Seq(Nodes) /\ IsIn(n, list)
  BY IsInIs DEF IsList
<1>2. IndexOf(list, n) \in 0 .. Len(list) - 1 /\ list[IndexOf(list, n) + 1] = n
  BY <1>1, IndexOfIs
<1>3. ASSUME NEW k \in 0 .. Len(list) - 1, list[k + 1] = n PROVE IndexOf(list, n) = k
  BY <1>1, <1>2, <1>3 DEF IsList, Distinct
<1> QED BY <1>1, <1>2, <1>3

\* What the cursor is on is in the list.
LEMMA SelectedIs ==
    ASSUME NEW u, IsList(u.shown), Fits(u)
    PROVE  /\ u.cur.sel \in 0 .. Len(u.shown) - 1 /\ u.cur.top \in 0 .. u.cur.sel
           /\ ScreenRow(u) \in 0 .. height - 1 /\ height \in Nat \ {0}
           /\ u.cur = Main!At(u.cur.sel, u.cur.top)
           /\ Selected(u) \in Seqs!ToSet(u.shown)
<1>1. /\ u.cur.sel \in 0 .. Len(u.shown) - 1 /\ u.cur.top \in 0 .. u.cur.sel
      /\ ScreenRow(u) \in 0 .. height - 1 /\ height \in Nat \ {0}
  BY DEF Fits, MP!Fits, MP!InWindow, ScreenRow
<1>2. u.cur = Main!At(u.cur.sel, u.cur.top)
  BY DEF Fits, MP!Fits, Main!At
<1>3. u.shown \in Seq(Nodes)
  BY DEF IsList
<1>4. Selected(u) \in Seqs!ToSet(u.shown)
  BY <1>1, <1>3 DEF Selected, Seqs!ToSet
<1> QED BY <1>1, <1>2, <1>4

\* The same list with the cursor on the row and line it had is the same screen.
LEMMA SameLine ==
    ASSUME NEW u, IsList(u.shown), Fits(u)
    PROVE  Main!OnLine(IndexOf(u.shown, Selected(u)), ScreenRow(u)) = u.cur
<1>1. IndexOf(u.shown, Selected(u)) = u.cur.sel
  BY SelectedIs, PlaceIs DEF Selected
<1>2. /\ u.cur.sel \in Int /\ u.cur.top \in Nat
      /\ u.cur = Main!At(u.cur.sel, u.cur.top)
  BY SelectedIs
<1> QED BY <1>1, <1>2 DEF ScreenRow, Main!OnLine, Main!At, Main!NonNegative

\* The first row is a row in the middle of the window.
LEMMA FirstRowIs ==
    ASSUME NEW n \in Nat \ {0}, height \in Nat \ {0}
    PROVE  Main!FirstRow = Main!Centered(0, n, height)
<1>1. height \div 2 \in Nat
  BY Z3
<1> QED BY <1>1 DEF Main!FirstRow, Main!Centered, Main!At, Main!NonNegative, Main!AtMost, Main!MaxScroll

\* Wherever a node or a line is looked up, the selected row is in the window.
LEMMA MovedFits ==
    ASSUME NEW u, NEW to, Fits(u), IsList(to.shown), to.shown # <<>>, Moved(u, to)
    PROVE  Fits(to)
<1>1. Len(to.shown) \in Nat \ {0} /\ height \in Nat \ {0}
  BY DEF Fits, MP!Fits, IsList
<1>2. CASE to.shown = u.shown /\ to.cur = u.cur
  BY <1>2 DEF Fits
<1>3. CASE IsOnLine(to)
  BY <1>1, <1>3, MP!OnLineFits DEF Fits, IsOnLine, Main!OnLine, MP!OnLine, Main!At, MP!At,
     Main!NonNegative, MP!NonNegative
<1>4. CASE IsCentered(to)
  BY <1>1, <1>4, MP!CenteredFits DEF Fits, IsCentered, Centered, Main!Centered, MP!Centered, Main!At,
     MP!At, Main!NonNegative, MP!NonNegative, Main!AtMost, MP!AtMost, Main!MaxScroll, MP!MaxScroll
<1> QED BY <1>2, <1>3, <1>4 DEF Moved

\* Nothing but the cursor changes.
SameBut(u, to) ==
    /\ to.env = u.env /\ to.menu = u.menu /\ to.shown = u.shown /\ to.rows = u.rows
    /\ to.showAll = u.showAll /\ to.failed = u.failed

\* _select_selected_choice_sym() centers the selected symbol, if it is shown.
LEMMA SelectSelectedIs ==
    ASSUME NEW u, WellFormed(u), NEW to \in SelectSelectedChoiceSym(u)
    PROVE  WellFormed(to) /\ SameBut(u, to) /\ (to.cur = u.cur \/ IsCentered(to))
<1>1. PICK s, there :
          /\ there \in {IF s = NoSelection THEN <<>> ELSE Those(NodesOf(s), Seqs!ToSet(u.shown))}
          /\ to = IF there = <<>> THEN u
                  ELSE [u EXCEPT !.cur = Centered(IndexOf(u.shown, there[1]), u.shown)]
  BY DEF SelectSelectedChoiceSym
<1>2. CASE there = <<>>
  BY <1>1, <1>2 DEF SameBut
<1>3. CASE there # <<>>
  <2>1. there = Those(NodesOf(s), Seqs!ToSet(u.shown))
    BY <1>1, <1>3
  <2>2. NodesOf(s) \in Seq(Nodes)
    BY ThoseIs, NodesAssumption DEF NodesOf
  <2>3. there \in Seq(Nodes) /\ Seqs!ToSet(there) \subseteq Seqs!ToSet(u.shown)
    BY <2>1, <2>2, ThoseIs
  <2>4. there[1] \in Seqs!ToSet(u.shown)
    BY <1>3, <2>3 DEF Seqs!ToSet
  <2>5. IndexOf(u.shown, there[1]) \in 0 .. Len(u.shown) - 1
    BY <2>4, PlaceIs DEF WellFormed
  <2>6. /\ to.cur = Centered(IndexOf(u.shown, there[1]), u.shown)
        /\ IsScreen(to) /\ SameBut(u, to)
    BY <1>1, <1>3 DEF WellFormed, IsScreen, SameBut
  <2>7. IsCentered(to)
    BY <2>5, <2>6 DEF IsCentered, SameBut
  <2> QED BY <2>6, <2>7 DEF WellFormed, SameBut, Current
<1> QED BY <1>2, <1>3

\* _enter_menu() begins at the first row or at the selected symbol.
LEMMA EnterMenuIs ==
    ASSUME NEW u, WellFormed(u), ~u.failed, Fits(u), NEW n, NEW to \in EnterMenu(u, n)
    PROVE  WellFormed(to) /\ ~to.failed /\ IsCentered(to) /\ to.env = u.env
<1> DEFINE Lists == {ShownNodes(u.env, u.showAll, m) : m \in {n} \cap IsMenuconfig} \ {<<>>}
           In(list) == [u EXCEPT !.rows = Append(@, ScreenRow(u)), !.menu = n,
                                 !.shown = list, !.cur = Main!FirstRow]
           Out(in) == IF ItemOf[n] \in Choices THEN SelectSelectedChoiceSym(in) ELSE {in}
<1>0. EnterMenu(u, n) = UNION {Out(in) : in \in {In(list) : list \in Lists}}
  BY DEF EnterMenu
<1> HIDE DEF Lists, In, Out
<1>1. PICK list \in Lists : to \in Out(In(list))
  BY <1>0
<1> DEFINE in == In(list)
<1>2. /\ IsScreen(in) /\ in.env = u.env /\ in.showAll = u.showAll /\ in.failed = u.failed
      /\ in.rows = Append(u.rows, ScreenRow(u)) /\ in.menu = n
      /\ in.shown = list /\ in.cur = Main!FirstRow
  BY DEF In, WellFormed, IsScreen
<1>3. /\ IsList(list) /\ list # <<>>
      /\ n \in IsMenuconfig /\ list = ShownNodes(u.env, u.showAll, n)
  BY ShownNodesIs DEF Lists
<1> HIDE DEF in
<1>4. ScreenRow(u) \in Nat /\ height \in Nat \ {0}
  BY SelectedIs DEF WellFormed
<1>5. WellFormed(in)
  <2>1. in.rows \in Seq(Nat)
    BY <1>2, <1>4 DEF WellFormed
  <2> QED BY <1>2, <1>3, <2>1 DEF WellFormed, Current
<1>6. IsCentered(in)
  <2>1. Len(list) \in Nat \ {0}
    BY <1>3 DEF IsList
  <2> QED BY <1>2, <1>4, <2>1, FirstRowIs DEF IsCentered, Centered
<1>7. CASE to = in
  BY <1>2, <1>5, <1>6, <1>7
<1>8. CASE to \in SelectSelectedChoiceSym(in)
  BY <1>2, <1>5, <1>6, <1>8, SelectSelectedIs DEF SameBut, IsCentered
<1> QED BY <1>1, <1>7, <1>8 DEF Out, in

\* _leave_menu() goes to the menu left, in another list.
LEMMA LeaveMenuIs ==
    ASSUME NoChoiceInItself, NEW u, WellFormed(u), ~u.failed, Fits(u), NEW to \in LeaveMenu(u)
    PROVE  /\ WellFormed(to)
           /\ \/ to.shown = u.shown /\ to.cur = u.cur
              \/ IsCentered(to)
              \/ u.menu \in Below /\ u.menu \in Seqs!ToSet(to.shown) /\ IsOnLine(to)
<1>1. CASE u.menu = TopNode
  BY <1>1 DEF LeaveMenu
<1>2. CASE u.menu # TopNode
  <2> DEFINE list == ShownNodes(u.env, u.showAll, ParentMenu[u.menu])
             in == [u EXCEPT !.menu = ParentMenu[u.menu], !.shown = list,
                       !.cur = IF u.rows = <<>> THEN Centered(IndexOf(list, u.menu), list)
                               ELSE Main!OnLine(IndexOf(list, u.menu), LineInParent(u)),
                       !.rows = IF @ = <<>> THEN @ ELSE Seqs!Front(@)]
  <2>1. to = IF ~IsIn(u.menu, list) THEN Failed(u) ELSE in
    BY <1>2 DEF LeaveMenu
  <2>2. u.menu \in Below
    BY <1>2, NodesAssumption DEF WellFormed, Current, Below
  <2>3. CASE ~IsIn(u.menu, list)
    BY <2>1, <2>3, FailedIs DEF WellFormed
  <2>4. CASE IsIn(u.menu, list)
    <3>1. /\ IsScreen(in) /\ in.env = u.env /\ in.showAll = u.showAll /\ in.failed = u.failed
          /\ in.menu = ParentMenu[u.menu] /\ in.shown = list
          /\ in.rows = IF u.rows = <<>> THEN u.rows ELSE Seqs!Front(u.rows)
          /\ in.cur = IF u.rows = <<>> THEN Centered(IndexOf(list, u.menu), list)
                      ELSE Main!OnLine(IndexOf(list, u.menu), LineInParent(u))
      BY DEF WellFormed, IsScreen
    <3>2. IsList(list) /\ ParentMenu[u.menu] \in IsMenuconfig
      BY <2>2, ShownNodesIs, ParentMenuIs
    <3>3. u.menu \in Seqs!ToSet(list)
      BY <2>4, <3>2, IsInIs DEF IsList
    <3> HIDE DEF list, in
    <3>4. IndexOf(list, u.menu) \in 0 .. Len(list) - 1 /\ list # <<>>
      BY <3>2, <3>3, PlaceIs
    <3>5. in.rows \in Seq(Nat)
      BY <3>1 DEF WellFormed, Seqs!Front
    <3>6. WellFormed(in)
      BY <3>1, <3>2, <3>4, <3>5 DEF WellFormed, Current, list
    <3>7. CASE u.rows = <<>>
      BY <2>1, <2>4, <3>1, <3>4, <3>6, <3>7 DEF IsCentered
    <3>8. CASE u.rows # <<>>
      <4>1. LineInParent(u) \in 0 .. height - 1
        <5>1. Seqs!Last(u.rows) \in Nat
          BY <3>8 DEF WellFormed, Seqs!Last
        <5> QED BY <5>1, SelectedIs DEF LineInParent, Main!AtMost, WellFormed
      <4>2. IsOnLine(in)
        BY <3>1, <3>4, <3>8, <4>1 DEF IsOnLine
      <4> QED BY <2>1, <2>2, <2>4, <3>1, <3>3, <3>6, <4>2
    <3> QED BY <3>7, <3>8
  <2> QED BY <2>3, <2>4
<1> QED BY <1>1, <1>2

\* A screen to be updated: the values, or show-all, have changed.
Outdated(u) ==
    /\ IsScreen(u)
    /\ IsList(u.shown) /\ u.shown # <<>>
    /\ u.rows \in Seq(Nat)
    /\ u.showAll \in BOOLEAN /\ u.failed = FALSE
    /\ u.menu \in IsMenuconfig

\* _update_menu() keeps the cursor where it is if the list stays the same.
LEMMA UpdateMenuIs ==
    ASSUME NEW u, Outdated(u), Fits(u), NEW to \in UpdateMenu(u)
    PROVE  /\ WellFormed(to) /\ to.menu = u.menu
           /\ \/ to.shown = u.shown /\ to.cur = u.cur
              \/ ~to.failed /\ to.shown # u.shown /\ IsOnLine(to)
<1> DEFINE list == ShownNodes(u.env, u.showAll, u.menu)
           in == [u EXCEPT !.shown = list,
                           !.cur = Main!OnLine(IndexOf(list, Selected(u)), ScreenRow(u))]
<1>1. to = IF ~IsIn(Selected(u), list) THEN Failed(u) ELSE in
  BY DEF UpdateMenu
<1>2. /\ IsScreen(in) /\ in.env = u.env /\ in.menu = u.menu /\ in.showAll = u.showAll
      /\ in.failed = FALSE /\ in.rows = u.rows /\ in.shown = list
      /\ in.cur = Main!OnLine(IndexOf(list, Selected(u)), ScreenRow(u))
  BY DEF Outdated, IsScreen
<1>3. IsList(list)
  BY ShownNodesIs
<1> HIDE DEF in
<1>4. CASE ~IsIn(Selected(u), list)
  <2>1. Failed(u).menu = u.menu
    BY DEF Failed, Outdated, IsScreen
  <2> QED BY <1>1, <1>4, <2>1, FailedIs DEF Outdated
<1>5. CASE IsIn(Selected(u), list)
  <2>1. Selected(u) \in Seqs!ToSet(list)
    BY <1>3, <1>5, IsInIs DEF IsList
  <2>2. IndexOf(list, Selected(u)) \in 0 .. Len(list) - 1 /\ list # <<>>
    BY <1>3, <2>1, PlaceIs
  <2>3. ScreenRow(u) \in 0 .. height - 1
    BY SelectedIs DEF Outdated
  <2>4. WellFormed(in)
    BY <1>2, <1>3, <2>2 DEF WellFormed, Current, Outdated
  <2>5. IsOnLine(in)
    BY <1>2, <2>2, <2>3 DEF IsOnLine
  <2>6. list = u.shown => in.cur = u.cur
    BY <1>2, SameLine DEF Outdated
  <2> HIDE DEF list
  <2> QED BY <1>1, <1>2, <1>5, <2>4, <2>5, <2>6
<1> QED BY <1>4, <1>5

\* The search for a node to select begins at the selected one.
LEMMA FromSelectedIs ==
    ASSUME NEW u, IsList(u.shown), u.cur.sel \in 0 .. Len(u.shown) - 1
    PROVE  /\ FromSelected(u) \in Seq(Nodes) /\ Len(FromSelected(u)) > 0
           /\ FromSelected(u)[1] = Selected(u)
           /\ Selected(u) \in Seqs!ToSet(u.shown)
<1> DEFINE upto  == SubSeq(u.shown, 1, u.cur.sel + 1)
           back  == Seqs!Reverse(upto)
           after == SubSeq(u.shown, u.cur.sel + 2, Len(u.shown))
<1>1. u.shown \in Seq(Nodes)
  BY DEF IsList
<1>2. upto \in Seq(Nodes) /\ Len(upto) = u.cur.sel + 1 /\ upto[u.cur.sel + 1] = Selected(u)
  <2> DEFINE n == u.cur.sel + 1
  <2>1. n \in Int /\ 1 \in Int /\ 1 <= n /\ n - 1 + 1 = n /\ \A i \in 1 .. n : u.shown[i] \in Nodes
    BY <1>1
  <2>2. n \in 1 .. n - 1 + 1 /\ 1 + n - 1 = n
    BY <2>1
  <2> HIDE DEF n
  <2>3. /\ SubSeq(u.shown, 1, n) \in Seq(Nodes) /\ Len(SubSeq(u.shown, 1, n)) = n
        /\ SubSeq(u.shown, 1, n)[n] = u.shown[n]
    <3>1. /\ SubSeq(u.shown, 1, n) \in Seq(Nodes)
          /\ Len(SubSeq(u.shown, 1, n)) = IF 1 <= n THEN n - 1 + 1 ELSE 0
          /\ \A i \in 1 .. n - 1 + 1 : SubSeq(u.shown, 1, n)[i] = u.shown[1 + i - 1]
      BY <2>1, SubSeqProperties
    <3> QED BY <2>1, <2>2, <3>1
  <2> QED BY <2>3 DEF Selected, n
<1>3. after \in Seq(Nodes)
  BY <1>1
<1> HIDE DEF upto, after
<1>4. back \in Seq(Nodes) /\ Len(back) = u.cur.sel + 1 /\ back[1] = Selected(u)
  <2> DEFINE f == [i \in 1 .. Len(upto) |-> upto[Len(upto) - i + 1]]
  <2>1. \A i \in 1 .. Len(upto) : Len(upto) - i + 1 \in 1 .. Len(upto)
    BY <1>2
  <2>2. f \in [1 .. Len(upto) -> Nodes] /\ Len(upto) \in Nat
    BY <1>2, <2>1
  <2>3. f[1] = upto[u.cur.sel + 1]
    BY <1>2
  <2> HIDE DEF f
  <2>4. f \in Seq(Nodes) /\ Len(f) = Len(upto)
    BY <2>2
  <2>5. back = f
    BY DEF Seqs!Reverse, f
  <2> QED BY <1>2, <2>3, <2>4, <2>5
<1>5. FromSelected(u) = back \o after
  BY DEF FromSelected, upto, after
<1> HIDE DEF back
<1>6. Selected(u) \in Seqs!ToSet(u.shown)
  BY <1>1 DEF Selected, Seqs!ToSet
<1> QED BY <1>3, <1>4, <1>5, <1>6

\* _toggle_show_all() selects the selected node again, or one near it.
LEMMA ToggleShowAllIs ==
    ASSUME OncePerChoice, NEW u, WellFormed(u), ~u.failed,
           u.cur.sel \in 0 .. Len(u.shown) - 1, NEW to \in ToggleShowAll(u)
    PROVE  /\ WellFormed(to) /\ ~to.failed /\ to.env = u.env
           /\ to.cur.sel \in 0 .. Len(to.shown) - 1
           /\ Fits(u) => Moved(u, to)
<1> DEFINE list == ShownNodes(u.env, ~u.showAll, u.menu)
           near == Those(FromSelected(u), Seqs!ToSet(list))
           kept == [u EXCEPT !.showAll = TRUE]
           in == [u EXCEPT !.showAll = ~@, !.shown = list,
                           !.cur = Main!OnLine(IndexOf(list, near[1]), ScreenRow(u))]
<1>1. to = IF near = <<>> THEN kept ELSE in
  BY DEF ToggleShowAll
<1>2. /\ IsScreen(in) /\ in.env = u.env /\ in.menu = u.menu /\ in.showAll = ~u.showAll
      /\ in.failed = u.failed /\ in.rows = u.rows /\ in.shown = list
      /\ in.cur = Main!OnLine(IndexOf(list, near[1]), ScreenRow(u))
  BY DEF WellFormed, IsScreen
<1>3. /\ IsScreen(kept) /\ kept.env = u.env /\ kept.menu = u.menu /\ kept.showAll = TRUE
      /\ kept.failed = u.failed /\ kept.rows = u.rows /\ kept.shown = u.shown
      /\ kept.cur = u.cur
  BY DEF WellFormed, IsScreen
<1>4. IsList(list)
  BY ShownNodesIs
<1> HIDE DEF in, kept
<1>5. /\ near \in Seq(Nodes) /\ Seqs!ToSet(near) \subseteq Seqs!ToSet(list)
      /\ Selected(u) \in Seqs!ToSet(list) => near # <<>> /\ near[1] = Selected(u)
      /\ Selected(u) \in Seqs!ToSet(u.shown)
  <2> DEFINE from == FromSelected(u)
             S == Seqs!ToSet(list)
  <2>1. from \in Seq(Nodes) /\ Len(from) > 0 /\ from[1] = Selected(u)
        /\ Selected(u) \in Seqs!ToSet(u.shown)
    BY FromSelectedIs DEF WellFormed
  <2> HIDE DEF from, S
  <2>2. /\ Those(from, S) \in Seq(Nodes) /\ Seqs!ToSet(Those(from, S)) \subseteq S
        /\ from[1] \in S => Len(Those(from, S)) > 0 /\ Those(from, S)[1] = from[1]
    <3>1. /\ Those(from, S) \in Seq(Nodes)
          /\ Seqs!ToSet(Those(from, S)) = Seqs!ToSet(from) \cap S
          /\ Len(from) > 0 /\ from[1] \in S =>
                Len(Those(from, S)) > 0 /\ Those(from, S)[1] = from[1]
      BY <2>1, ThoseIs
    <3> QED BY <2>1, <3>1
  <2>3. from[1] \in S => Those(from, S) # <<>>
    BY <2>2
  <2> QED BY <2>1, <2>2, <2>3 DEF from, S
<1>6. CASE near = <<>>
  <2>1. u.showAll = TRUE
    <3> SUFFICES ASSUME u.showAll = FALSE PROVE FALSE
      BY DEF WellFormed
    <3>1. u.shown = ShownNodes(u.env, FALSE, u.menu) /\ list = ShownNodes(u.env, TRUE, u.menu)
      BY DEF WellFormed, Current
    <3>2. Seqs!ToSet(u.shown) \subseteq Seqs!ToSet(list)
      BY <3>1, ShowAllShows
    <3> QED BY <1>5, <1>6, <3>2
  <2>2. WellFormed(kept)
    BY <1>3, <2>1 DEF WellFormed, Current
  <2> QED BY <1>1, <1>3, <1>6, <2>2 DEF Moved
<1>7. CASE near # <<>>
  <2>1. near[1] \in Seqs!ToSet(list)
    <3> HIDE DEF near, list
    <3> QED BY <1>5, <1>7, HeadIsIn
  <2>2. IndexOf(list, near[1]) \in 0 .. Len(list) - 1 /\ list # <<>>
    BY <1>4, <2>1, PlaceIs
  <2>3. WellFormed(in)
    BY <1>2, <1>4, <2>2 DEF WellFormed, Current
  <2>4. in.cur.sel \in 0 .. Len(in.shown) - 1
    BY <1>2, <2>2 DEF Main!OnLine, Main!At
  <2>5. ASSUME Fits(u) PROVE Moved(u, in)
    <3>1. CASE list = u.shown
      <4>1. near[1] = Selected(u)
        BY <1>5, <3>1
      <4> QED BY <1>2, <2>5, <3>1, <4>1, SameLine DEF Moved, WellFormed
    <3>2. CASE list # u.shown
      <4>1. ScreenRow(u) \in 0 .. height - 1
        BY <2>5, SelectedIs DEF WellFormed
      <4>2. IsOnLine(in)
        BY <1>2, <2>2, <4>1 DEF IsOnLine
      <4> QED BY <1>2, <3>2, <4>2 DEF Moved
    <3> QED BY <3>1, <3>2
  <2> HIDE DEF near, list
  <2> QED BY <1>1, <1>2, <1>7, <2>3, <2>4, <2>5
<1> QED BY <1>6, <1>7

\* _center_vertically() with the cursor on a row.
LEMMA CenterIs ==
    ASSUME NEW u, WellFormed(u), u.cur.sel \in 0 .. Len(u.shown) - 1
    PROVE  /\ WellFormed(Center(u)) /\ IsCentered(Center(u))
           /\ Center(u).failed = u.failed /\ Center(u).env = u.env
<1> DEFINE c == Center(u)
<1>1. IsScreen(c) /\ SameBut(u, c) /\ c.cur = Centered(u.cur.sel, u.shown)
  BY DEF Center, WellFormed, IsScreen, SameBut
<1> HIDE DEF c
<1>2. WellFormed(c)
  BY <1>1 DEF WellFormed, Current, SameBut
<1>3. IsCentered(c) /\ c.failed = u.failed /\ c.env = u.env
  BY <1>1 DEF IsCentered, SameBut
<1> QED BY <1>2, <1>3 DEF c

\* _jump_to() shows the node it is given, in a menu.
LEMMA ShowNodeIs ==
    ASSUME NEW u, WellFormed(u), ~u.failed, NEW m \in IsMenuconfig, NEW n, NEW to \in ShowNode(u, m, n)
    PROVE  /\ WellFormed(to) /\ to.env = u.env
           /\ to.failed => to.shown = u.shown /\ to.cur = u.cur
           /\ ~to.failed => to.cur.sel \in 0 .. Len(to.shown) - 1
<1> DEFINE all == u.showAll \/ ~IsIn(n, ShownNodes(u.env, u.showAll, m))
           list == ShownNodes(u.env, all, m)
           in == [u EXCEPT !.rows = <<>>, !.menu = m, !.showAll = all, !.shown = list,
                           !.cur = Main!At(IndexOf(list, n), @.top)]
<1>1. to = IF ~IsIn(n, list) THEN Failed(u) ELSE in
  BY DEF ShowNode
<1>2. /\ IsScreen(in) /\ in.env = u.env /\ in.menu = m /\ in.showAll = all
      /\ in.failed = u.failed /\ in.rows = <<>> /\ in.shown = list
      /\ in.cur = Main!At(IndexOf(list, n), u.cur.top)
  BY DEF WellFormed, IsScreen
<1>3. IsList(list) /\ all \in BOOLEAN
  BY ShownNodesIs DEF WellFormed
<1> HIDE DEF in, all
<1>4. CASE ~IsIn(n, list)
  BY <1>1, <1>4, FailedIs DEF WellFormed
<1>5. CASE IsIn(n, list)
  <2>1. n \in Seqs!ToSet(list)
    BY <1>3, <1>5, IsInIs DEF IsList
  <2>2. IndexOf(list, n) \in 0 .. Len(list) - 1 /\ list # <<>>
    BY <1>3, <2>1, PlaceIs
  <2>3. WellFormed(in)
    BY <1>2, <1>3, <2>2 DEF WellFormed, Current
  <2>4. in.cur.sel \in 0 .. Len(in.shown) - 1
    BY <1>2, <2>2 DEF Main!At
  <2> HIDE DEF list
  <2> QED BY <1>1, <1>2, <1>5, <2>3, <2>4
<1> QED BY <1>4, <1>5

\* Where a jump ends.
Jumped(u, to) ==
    /\ WellFormed(to) /\ to.env = u.env
    /\ to.failed => to.shown = u.shown /\ to.cur = u.cur
    /\ ~to.failed => IsCentered(to)

\* A jump into a menu or choice ends at its first entry or selected symbol.
LEMMA JumpIntoIs ==
    ASSUME OncePerChoice, NEW u, WellFormed(u), ~u.failed, NEW n \in IsMenuconfig,
           NEW end \in JumpInto(u, n)
    PROVE  Jumped(u, end)
<1> DEFINE Shows == ShowNode(u, n, Head(Children[n]))
           Into(v) == IF ItemOf[n] \in Choices THEN SelectSelectedChoiceSym(Center(v)) ELSE {Center(v)}
           Off(to) == IF to.showAll /\ ~u.showAll THEN ToggleShowAll(to) ELSE {to}
           Ends(to) == IF to.failed THEN {to} ELSE UNION {Into(v) : v \in Off(to)}
<1>1. JumpInto(u, n) = UNION {Ends(to) : to \in Shows}
  BY DEF JumpInto
<1> HIDE DEF Ends, Shows
<1>2. PICK to \in Shows : end \in Ends(to)
  BY <1>1
<1>3. /\ WellFormed(to) /\ to.env = u.env
      /\ to.failed => to.shown = u.shown /\ to.cur = u.cur
      /\ ~to.failed => to.cur.sel \in 0 .. Len(to.shown) - 1
  BY ShowNodeIs DEF Shows
<1>4. CASE to.failed
  BY <1>2, <1>3, <1>4 DEF Ends, Jumped
<1>5. CASE ~to.failed
  <2> HIDE DEF Into, Off
  <2>1. PICK v \in Off(to) : end \in Into(v)
    BY <1>2, <1>5 DEF Ends
  <2>2. WellFormed(v) /\ ~v.failed /\ v.env = u.env /\ v.cur.sel \in 0 .. Len(v.shown) - 1
    BY <1>3, <1>5, ToggleShowAllIs DEF Off
  <2>3. /\ WellFormed(Center(v)) /\ IsCentered(Center(v))
        /\ ~Center(v).failed /\ Center(v).env = u.env
    BY <2>2, CenterIs
  <2>4. CASE end = Center(v)
    BY <2>3, <2>4 DEF Jumped
  <2>5. CASE end \in SelectSelectedChoiceSym(Center(v))
    <3>1. WellFormed(end) /\ SameBut(Center(v), end)
          /\ (end.cur = Center(v).cur \/ IsCentered(end))
      BY <2>3, <2>5, SelectSelectedIs
    <3>2. IsCentered(end)
      BY <2>3, <3>1 DEF IsCentered, SameBut
    <3> QED BY <2>3, <3>1, <3>2 DEF Jumped, SameBut
  <2> QED BY <2>1, <2>4, <2>5 DEF Into
<1> QED BY <1>4, <1>5

\* A jump to any node.
LEMMA JumpToIs ==
    ASSUME OncePerChoice, NEW u, WellFormed(u), ~u.failed, NEW n \in Below, NEW end \in JumpTo(u, n)
    PROVE  Jumped(u, end)
<1>1. CASE ItemOf[n] \in Choices \cup {"menu"} /\ Children[n] # <<>>
  <2>1. n \in IsMenuconfig
    BY <1>1, NodesAssumption DEF Below
  <2> QED BY <1>1, <2>1, JumpIntoIs DEF JumpTo
<1>2. CASE ~(ItemOf[n] \in Choices \cup {"menu"} /\ Children[n] # <<>>)
  <2>1. ParentMenu[n] \in IsMenuconfig
    BY ParentMenuIs
  <2>2. PICK to \in ShowNode(u, ParentMenu[n], n) : end = IF to.failed THEN to ELSE Center(to)
    BY <1>2, Zenon DEF JumpTo
  <2>3. /\ WellFormed(to) /\ to.env = u.env
        /\ to.failed => to.shown = u.shown /\ to.cur = u.cur
        /\ ~to.failed => to.cur.sel \in 0 .. Len(to.shown) - 1
    BY <2>1, ShowNodeIs
  <2>4. CASE to.failed
    BY <2>2, <2>3, <2>4 DEF Jumped
  <2>5. CASE ~to.failed
    BY <2>2, <2>3, <2>5, CenterIs DEF Jumped
  <2> QED BY <2>4, <2>5
<1> QED BY <1>1, <1>2

\* What a change of a value does to the screen.
Changed(u, to) ==
    /\ WellFormed(to)
    /\ to.menu = u.menu
    /\ \/ to.shown = u.shown /\ to.cur = u.cur
       \/ to.shown # u.shown /\ IsOnLine(to)

\* _set_val() updates the menu if it changes anything.
LEMMA SetValIs ==
    ASSUME NEW u, WellFormed(u), ~u.failed, Fits(u), NEW i, NEW v, NEW to \in SetVal(u, i, v)
    PROVE  Changed(u, to)
<1>1. CASE ValueOf(u.env, i) = v
  BY <1>1 DEF SetVal, Changed
<1>2. CASE ValueOf(u.env, i) # v
  <2> DEFINE in == [u EXCEPT !.env = WithValue(u.env, i, v), !.changed = TRUE]
  <2>1. to \in UpdateMenu(in)
    BY <1>2 DEF SetVal
  <2>2. IsScreen(in) /\ in.menu = u.menu /\ in.shown = u.shown /\ in.cur = u.cur
        /\ in.rows = u.rows /\ in.showAll = u.showAll /\ in.failed = u.failed
    BY DEF WellFormed, IsScreen
  <2> HIDE DEF in
  <2>3. Outdated(in) /\ Fits(in)
    BY <2>2 DEF WellFormed, Current, Outdated, Fits
  <2> QED BY <2>1, <2>2, <2>3, UpdateMenuIs DEF Changed
<1> QED BY <1>1, <1>2

\* _change_node() may leave the choice after the change.
LEMMA ChangeNodeIs ==
    ASSUME NoChoiceInItself, NEW u, WellFormed(u), ~u.failed, Fits(u), NEW n,
           NEW end \in ChangeNode(u, n)
    PROVE  WellFormed(end) /\ Moved(u, end)
<1> DEFINE next == NextValues(AssignableOf(u.env, ItemOf[n]), ValueOf(u.env, ItemOf[n]))
           Stays(to) == to.failed \/ ~IsYModeChoiceSym(to.env, ItemOf[n]) \/ Children[n] # <<>>
           Ends(to) == IF Stays(to) THEN {to} ELSE LeaveMenu(to)
           Sets == UNION {SetVal(u, ItemOf[n], v) : v \in next}
<1>1. ChangeNode(u, n) = IF next = {} THEN {Failed(u)} ELSE UNION {Ends(to) : to \in Sets}
  BY DEF ChangeNode
<1> HIDE DEF next, Ends
<1>2. CASE next = {}
  <2>1. end = Failed(u)
    BY <1>1, <1>2
  <2> QED BY <2>1, FailedIs DEF WellFormed, Moved
<1>3. CASE next # {}
  <2>1. PICK v \in next : \E to \in SetVal(u, ItemOf[n], v) : end \in Ends(to)
    BY <1>1, <1>3
  <2>2. PICK to \in SetVal(u, ItemOf[n], v) : end \in Ends(to)
    BY <2>1
  <2>3. Changed(u, to)
    BY SetValIs
  <2>4. Moved(u, to) /\ WellFormed(to)
    BY <2>3 DEF Moved, Changed
  <2>5. CASE Stays(to)
    BY <2>2, <2>4, <2>5 DEF Ends
  <2>6. CASE ~Stays(to)
    <3>1. ~to.failed /\ end \in LeaveMenu(to)
      BY <2>2, <2>6 DEF Ends
    <3>2. Fits(to)
      BY <2>4, MovedFits DEF WellFormed
    <3>3. /\ WellFormed(end)
          /\ \/ end.shown = to.shown /\ end.cur = to.cur
             \/ IsCentered(end)
             \/ to.menu \in Below /\ to.menu \in Seqs!ToSet(end.shown) /\ IsOnLine(end)
      BY <2>4, <3>1, <3>2, LeaveMenuIs
    <3>4. CASE end.shown = to.shown /\ end.cur = to.cur
      BY <2>4, <3>3, <3>4 DEF Moved, IsCentered, IsOnLine
    <3>5. CASE IsCentered(end)
      BY <3>3, <3>5 DEF Moved
    <3>6. CASE to.menu \in Below /\ to.menu \in Seqs!ToSet(end.shown) /\ IsOnLine(end)
      <4>1. to.menu = u.menu /\ u.shown = ShownNodes(u.env, u.showAll, u.menu)
        BY <2>3 DEF Changed, WellFormed, Current
      <4>2. end.shown # u.shown
        BY <3>6, <4>1, NotInItself
      <4> QED BY <3>3, <3>6, <4>2 DEF Moved
    <3> QED BY <3>3, <3>4, <3>5, <3>6
  <2> QED BY <2>5, <2>6
<1> QED BY <1>2, <1>3

----------------------------------------------------------------------------
(* The values a node can be given.                                          *)

\* Setting an assignable value leaves the prompts of the item alone.
LEMMA PromptStays ==
    ASSUME IsTree, NEW Order, Ordered(Order), NEW x, IsConfiguration(x),
           NEW i \in Items, NEW v \in AssignableOf(x, i), NEW e \in PromptExprs(i)
    PROVE  ExprValue(WithValue(x, i, v), e) = ExprValue(x, e)
<1> DEFINE y == WithValue(x, i, v)
           p0 == <<i, "vis">>
           user == <<i, "user">>
           c == ChoiceOf[i]
           T == UpToAttr(Order, p0)
<1>0. /\ p0 \in Attributes /\ user \in Inputs
      /\ IsEnv(x) /\ Calculated(x, x)
      /\ i \in Syms <=> i \notin Choices
  BY CellForms, ItemsAssumption DEF IsConfiguration, Items
<1>1. v \in TypeValues(i) /\ (i \in Syms => v \in SymAssignable(x, i).v)
  BY <1>0, AssignableFits DEF AssignableOf
<1>2. /\ IsEnv(y) /\ Calculated(y, y)
      /\ i \in Choices => \A q \in Inputs : y[q] = IF q = user THEN v ELSE x[q]
      /\ i \in Syms => \A q \in Inputs :
            y[q] = IF q = user THEN v
                   ELSE IF c # None /\ v = 2 /\ q = <<c, "usel">> THEN i
                   ELSE x[q]
  BY <1>1, WithValueIsConfiguration DEF IsConfiguration
<1> HIDE DEF y
<1>3. T \subseteq Attributes /\ p0 \in T /\ \A p \in T : p0 \notin Calculate(y, p).r
  BY <1>0, <1>2, UpToAttrIs
<1>4. \A q \in Inputs : x[q] # y[q] => \A p \in T : q \notin Calculate(y, p).r
  <2>1. CASE i \in Choices
    <3>1. p0 \in ChoiceTriValue(y, i).r
      BY <1>2, <2>1, ChoiceTriValueIs
    <3>2. \A p \in T : user \in Calculate(y, p).r => ChoiceTriValue(y, i).r \subseteq Calculate(y, p).r
      BY <1>2, <1>3, <2>1, UserValueReaders
    <3> QED BY <1>2, <1>3, <2>1, <3>1, <3>2
  <2>2. CASE i \in Syms
    <3>1. \A p \in T : user \notin Calculate(y, p).r
      BY <1>2, <2>2, UserValueIsReadLast
    <3>2. ASSUME c # None PROVE \A p \in T : <<c, "usel">> \notin Calculate(y, p).r
      <4>1. c \in Choices
        BY <2>2, <3>2, ItemsAssumption
      <4>2. CASE Mode(y, c) = 2
        BY <1>2, <2>2, <3>2, <4>2, UserSelectionIsReadLast
      <4>3. CASE Mode(y, c) # 2
        <5>1. Selection(y, c).r = ChoiceTriValue(y, c).r
          BY <4>3 DEF Selection, SelectionInMode, AfterReading, Just, Mode
        <5>2. <<c, "usel">> \notin Selection(y, c).r
          <6>1. ChoiceTriValue(y, c).r \subseteq {<<c, "user">>, <<c, "vis">>, <<Modules, "val">>}
            BY <1>2, <4>1, ChoiceTriValueIs
          <6> QED BY <5>1, <6>1
        <5>3. Calculate(y, <<c, "sel">>) = Selection(y, c)
          BY DEF Calculate
        <5>4. \A p \in T : <<c, "usel">> \in Calculate(y, p).r => p = <<c, "sel">>
          BY <1>2, <1>3, <4>1, UserValueReaders
        <5> QED BY <5>2, <5>3, <5>4
      <4> QED BY <4>2, <4>3
    <3> QED BY <1>2, <2>2, <3>1, <3>2
  <2> QED BY <1>0, <2>1, <2>2
<1>5. \A p \in T : x[p] = y[p]
  <2> HIDE DEF T, p0
  <2> QED BY <1>0, <1>2, <1>4, AgreeUpTo DEF T
<1>6. \A q \in Calculate(y, p0).r : y[q] = x[q]
  <2>1. Calculate(y, p0).r \cap Attributes \subseteq T
    BY <1>0, <1>2, <1>3, UpToAttrIs
  <2>2. Calculate(y, p0).r \subseteq Cells
    BY <1>0, <1>2, CalculateIs DEF Registers, Calcs
  <2> SUFFICES ASSUME NEW q \in Calculate(y, p0).r PROVE y[q] = x[q]
    OBVIOUS
  <2>3. CASE q \in Attributes
    BY <1>5, <2>1, <2>3
  <2>4. CASE q \in Inputs
    BY <1>3, <1>4, <2>4
  <2> QED BY <2>2, <2>3, <2>4 DEF Cells
<1>7. e \in Exprs /\ ExprValue(y, e).r \subseteq Calculate(y, p0).r
  <2>1. PICK k \in DOMAIN Prompts[i] : e = Prompts[i][k]
    BY DEF PromptExprs
  <2>2. Prompts[i] \in Seq(Exprs)
    BY TreeAssumption
  <2>3. ExprValue(y, e).r \subseteq PromptLimit(y, Prompts[i]).r
    BY <2>1 DEF PromptLimit, Highest
  <2>4. PromptLimit(y, Prompts[i]).r \subseteq Visibility(y, i).r
    BY DEF Visibility, VisWithin, AfterReading
  <2>5. Calculate(y, p0) = Visibility(y, i)
    BY DEF Calculate
  <2> QED BY <2>1, <2>2, <2>3, <2>4, <2>5
<1>8. SameReads(ExprValue(y, e), y, x)
  BY <1>6, <1>7 DEF SameReads
<1> QED BY <1>2, <1>7, <1>8, ExprDetermined DEF y

\* The value of a symbol is among several assignable ones.
LEMMA SymValueIsAssignable ==
    ASSUME IsTree, NEW x, IsConfiguration(x), DefaultsFit(x), NEW s \in Syms
    PROVE  LET can == SymAssignable(x, s).v
           IN  can \in {{}, {1}, {2}} \/ SymTriValue(x, s).v \in can
<1> DEFINE vis == Vis(x, s)
           rev == ExprValue(x, RevDep[s]).v
           weak == ExprValue(x, WeakRevDep[s]).v
           default == FirstDefault(x, Defaults[s]).v
           type == IF vis = 1 THEN "tristate" ELSE SymType(x, s).v
           w == IF type = "bool" THEN 2 ELSE weak
           can == SymAssignable(x, s).v
           val == SymValue(x, s).v
           user == x[<<s, "user">>]
<1>0. s \in Items /\ IsEnv(x) /\ Calculated(x, x) /\ None \notin 0 .. 2
  BY ItemsAssumption DEF Items, IsConfiguration
<1>1. /\ vis \in 0 .. 2 /\ vis = Visibility(x, s).v
      /\ SymTriValue(x, s).v = val
  BY <1>0, ConfigurationHas
<1>2. /\ rev \in 0 .. 2 /\ weak \in 0 .. 2 /\ type \in Types
      /\ can = IF vis = 0 THEN {}
               ELSE IF (vis = 2 /\ ChoiceOf[s] # None) \/ rev = 2 THEN {2}
               ELSE IF rev = 1 /\ vis = 1 THEN {1}
               ELSE {u \in 0 .. 2 : u >= rev /\ (u # 1 \/ w # 2) /\ (u <= vis \/ w = 2)}
  BY <1>0, SymAssignableSet
<1>3. vis = 1 => SymType(x, s).v = "tristate"
  <2>1. vis = 1 => TypeOf(x, s).v = "tristate" /\ s \notin Choices
    BY <1>0, <1>1, MIsForTristates, ItemsAssumption
  <2> QED BY <2>1 DEF TypeOf
<1>4. vis = 1 /\ rev = 0 => IF weak = 2 THEN ChoiceOf[s] = None
                            ELSE ChoiceOf[s] # None \/ default # 2
  BY DEF DefaultsFit
<1> HIDE DEF can
<1>5. CASE vis = 0
  BY <1>2, <1>5 DEF can
<1>6. CASE vis # 0 /\ ChoiceOf[s] # None
  <2>1. CASE vis = 2
    BY <1>2, <1>6, <2>1 DEF can
  <2>2. CASE vis = 1
    <3>1. val = IF user \in {None, 0} THEN 0 ELSE 1
      BY <1>6, <2>2 DEF SymValue, AfterReading, ChoiceSymValue, Just
    <3> HIDE DEF vis, rev, weak, val
    <3> QED BY <1>1, <1>2, <1>4, <1>6, <2>2, <3>1 DEF can, val
  <2> QED BY <1>1, <1>6, <2>1, <2>2
<1>7. CASE vis # 0 /\ ChoiceOf[s] = None
  <2>1. PICK base \in 0 .. 2, implied \in 0 .. 2 :
          /\ implied \in {0, weak} /\ default \in 0 .. 2
          /\ user # None => user \in 0 .. 2
          /\ base = IF user # None THEN Least(user, vis) ELSE Greatest(default, implied)
          /\ val = IF Greatest(base, rev) # 1 THEN Greatest(base, rev)
                   ELSE IF SymType(x, s).v = "bool" \/ weak = 2 THEN 2 ELSE 1
    <3>1. vis \in {1, 2}
      BY <1>1, <1>7
    <3> QED BY <1>0, <1>7, <3>1, PlainValueSpelled
  <2> HIDE DEF vis, rev, weak, val, default, user
  <2>2. val \in 0 .. 2 /\ val >= rev
    BY <1>2, <2>1 DEF Greatest
  <2>3. CASE rev = 2 \/ (rev = 1 /\ vis = 1)
    BY <1>2, <1>7, <2>3 DEF can
  <2>4. CASE ~(rev = 2 \/ (rev = 1 /\ vis = 1))
    <3>1. can = {u \in 0 .. 2 : u >= rev /\ (u # 1 \/ w # 2) /\ (u <= vis \/ w = 2)}
      BY <1>2, <1>7, <2>4
    <3>2. val # 1 \/ w # 2
      BY <1>2, <1>3, <2>1, <2>4 DEF Greatest
    <3>3. val <= vis \/ w = 2
      <4>1. CASE vis = 2
        BY <2>2, <4>1
      <4>2. CASE vis = 1 /\ weak = 2
        BY <4>2
      <4>3. CASE vis = 1 /\ weak # 2
        <5>1. rev = 0 /\ default # 2
          BY <1>2, <1>4, <1>7, <2>4, <4>3
        <5>2. base \in 0 .. 1
          BY <1>2, <2>1, <4>3, <5>1 DEF Greatest, Least
        <5> QED BY <1>3, <2>1, <4>3, <5>1, <5>2 DEF Greatest
      <4> QED BY <1>1, <1>7, <4>1, <4>2, <4>3
    <3>4. val \in can
      BY <2>2, <3>1, <3>2, <3>3
    <3> QED BY <1>1, <3>4 DEF can
  <2> QED BY <2>3, <2>4
<1> QED BY <1>5, <1>6, <1>7

\* The mode of a choice is always among the assignable ones.
LEMMA ModeIsAssignable ==
    ASSUME IsTree, NEW x, IsConfiguration(x), NEW c \in Choices
    PROVE  ChoiceAssignable(x, c).v = {} \/ Mode(x, c) \in ChoiceAssignable(x, c).v
<1> DEFINE vis == Vis(x, c)
           type == IF vis = 1 THEN "tristate" ELSE ChoiceType(x, c).v
           wanted == WantedMode(x, c)
<1>0. c \in Items /\ IsEnv(x) /\ Calculated(x, x)
  BY DEF Items, IsConfiguration
<1>1. vis \in 0 .. 2 /\ vis = Visibility(x, c).v
  BY <1>0, ConfigurationHas
<1>2. ChoiceAssignable(x, c).v =
         IF vis = 0 THEN {}
         ELSE {u \in 0 .. vis : (u = 0 => IsOptional[c]) /\ (u = 1 => type = "tristate")}
  BY <1>0, ChoiceAssignableSet
<1>3. vis = 1 => ChoiceType(x, c).v = "tristate"
  <2>1. vis = 1 => TypeOf(x, c).v = "tristate"
    BY <1>0, <1>1, MIsForTristates
  <2> QED BY <2>1 DEF TypeOf
<1>4. wanted \in 0 .. 2 /\ (wanted = 0 => IsOptional[c])
  <2>1. /\ <<c, "user">> \in Cells /\ CellValues(<<c, "user">>) = TypeValues(c)
        /\ IsOptional[c] \in BOOLEAN
    BY <1>0, CellForms, CellKinds, TreeAssumption
  <2>2. x[<<c, "user">>] \in (0 .. 2) \cup {None}
    BY <1>0, <2>1 DEF IsEnv, TypeValues
  <2> QED BY <2>1, <2>2 DEF WantedMode, LowestMode, Greatest
<1>5. ChoiceType(x, c) \in Calcs(Types)
  BY <1>0, ChoiceTypeIs DEF Types
<1>6. Mode(x, c) = ModeOfType(Least(wanted, vis), ChoiceType(x, c)).v
  BY DEF Mode, ChoiceTriValue, AfterReading
<1>7. \A val, t : t \in Calcs(Types) =>
         ModeOfType(val, t).v = IF val # 1 THEN val ELSE IF t.v = "bool" THEN 2 ELSE 1
  BY DEF ModeOfType, Just, Calcs
<1>8. Mode(x, c) = IF Least(wanted, vis) # 1 THEN Least(wanted, vis)
                   ELSE IF ChoiceType(x, c).v = "bool" THEN 2 ELSE 1
  BY <1>5, <1>6, <1>7
<1>9. ChoiceType(x, c).v \in {"bool", "tristate"}
  BY <1>5 DEF Calcs, Types
<1> HIDE DEF vis, wanted
<1> QED BY <1>1, <1>2, <1>3, <1>4, <1>8, <1>9 DEF Least

\* The lowest of some values is one of them.
LEMMA SmallestIsIn ==
    ASSUME NEW S \in SUBSET (0 .. 2), S # {}
    PROVE  Smallest(S) \in S
<1>1. \E v \in S : \A w \in S : v <= w
  BY LeastNumber
<1> QED BY <1>1 DEF Smallest

\* A visible symbol of a choice in y mode can only be made y.
LEMMA OnlyYOfChoices ==
    ASSUME NEW x, IsEnv(x), NEW s \in Syms, Vis(x, s) = 2, ChoiceOf[s] # None
    PROVE  SymAssignable(x, s).v = {2}
<1>1. Vis(x, s) # 0 /\ (Vis(x, s) = 2 /\ ChoiceOf[s] # None)
  OBVIOUS
<1> QED BY <1>1, SymAssignableSet

\* What is changed has a next value, which is assignable.
LEMMA NextValueExists ==
    ASSUME IsTree, NEW x, IsConfiguration(x), DefaultsFit(x), NEW n, Changeable(x, n)
    PROVE  LET next == NextValues(AssignableOf(x, ItemOf[n]), ValueOf(x, ItemOf[n]))
           IN  next # {} /\ next \subseteq AssignableOf(x, ItemOf[n])
<1> DEFINE i == ItemOf[n]
           can == AssignableOf(x, i)
           val == ValueOf(x, i)
           pool == IF \E v \in can : v > val THEN {v \in can : v > val} ELSE can
<1>0. i \in Items /\ IsEnv(x) /\ Calculated(x, x) /\ (i \in Syms <=> i \notin Choices)
  BY ItemsAssumption DEF Changeable, Items, IsConfiguration
<1>1. can \in SUBSET (0 .. 2)
  <2>1. can \subseteq TypeValues(i)
    BY <1>0, AssignableFits DEF AssignableOf
  <2> QED BY <2>1 DEF TypeValues
<1>2. can # {} /\ (Cardinality(can) > 1 => val \in can)
  <2>1. Cardinality({}) = 0 /\ Cardinality({1}) = 1 /\ Cardinality({2}) = 1
    BY FS_EmptySet, FS_Singleton
  <2>2. CASE i \in Choices
    <3>1. can = {} \/ val \in can
      BY <2>2, ModeIsAssignable DEF AssignableOf, ValueOf, ItemValue, Mode
    <3>2. ~IsYModeChoiceSym(x, i)
      BY <1>0, <2>2 DEF IsYModeChoiceSym
    <3>3. Cardinality(can) > 1
      BY <3>2 DEF Changeable
    <3> QED BY <2>1, <3>1, <3>3
  <2>3. CASE i \in Syms
    <3>1. can \in {{}, {1}, {2}} \/ val \in can
      BY <1>0, <2>3, SymValueIsAssignable DEF AssignableOf, ValueOf, ItemValue
    <3>2. IsYModeChoiceSym(x, i) => can = {2}
      <4> SUFFICES ASSUME IsYModeChoiceSym(x, i) PROVE can = {2}
        OBVIOUS
      <4>1. Vis(x, i) = 2 /\ ChoiceOf[i] # None
        BY ItemsAssumption DEF IsYModeChoiceSym, Vis, OrZero
      <4>2. can = SymAssignable(x, i).v
        BY <1>0, <2>3 DEF AssignableOf
      <4>3. SymAssignable(x, i).v = {2}
        BY <1>0, <2>3, <4>1, OnlyYOfChoices
      <4> QED BY <4>2, <4>3
    <3> HIDE DEF can, val
    <3>3. Cardinality(can) > 1 \/ can = {2}
      BY <3>2 DEF Changeable, can
    <3> QED BY <2>1, <3>1, <3>3
  <2> QED BY <1>0, <2>2, <2>3
<1>3. NextValues(can, val) = {Smallest(pool)}
  BY <1>2 DEF NextValues
<1> HIDE DEF can, val
<1>4. pool # {} /\ pool \in SUBSET (0 .. 2) /\ pool \subseteq can
  BY <1>1, <1>2
<1> HIDE DEF pool
<1>5. Smallest(pool) \in can
  BY <1>4, SmallestIsIn
<1> QED BY <1>3, <1>5 DEF can, val

----------------------------------------------------------------------------
(* What is displayed is found.                                              *)

\* A node of a list is in the list of the same menu wherever it is displayed,
\* whatever the values.
LEMMA ShownIfDisplayed ==
    ASSUME OncePerChoice, NEW x, NEW a, NEW y, NEW b, NEW m,
           NEW n \in ShownSet(x, a, m), n \in Displayed(y, b)
    PROVE  n \in ShownSet(y, b, m)
<1>1. \A z, c : ShownSet(z, c, m) = IF ItemOf[m] \in Choices THEN ChoiceNodes(z, c, m)
                                    ELSE RowNodes(z, c, m)
  BY DEF ShownSet
<1>2. CASE ItemOf[m] \in Choices
  <2> DEFINE Locs == {k \in Nodes : ItemOf[k] = ItemOf[m]} \ {m}
             here == RowNodes(y, b, m)
             there == UNION {RowNodes(y, b, loc) : loc \in Locs}
  <2>1. ParentMenu[n] = m \/ \E loc \in Locs : ParentMenu[n] = loc
    BY <1>1, <1>2 DEF ChoiceNodes, RowNodes
  <2>2. n \in here \/ n \in there
    BY <2>1 DEF RowNodes
  <2>3. \A k \in here \cup there : k \in Below /\ ItemOf[ParentMenu[k]] = ItemOf[m]
    BY DEF RowNodes, Displayed
  <2>4. ChoiceNodes(y, b, m) = here \cup {k \in there : ItemOf[k] \in Syms =>
            ~\E j \in here \cup {j \in there : Before(j, k)} : ItemOf[j] = ItemOf[k]}
    BY DEF ChoiceNodes
  <2>5. CASE n \in here
    BY <1>1, <1>2, <2>4, <2>5
  <2>6. CASE n \notin here
    <3>1. ASSUME ItemOf[n] \in Syms, NEW k \in here \cup {k \in there : Before(k, n)},
                 ItemOf[k] = ItemOf[n]
          PROVE  FALSE
      <4>1. n \in Below /\ k \in Below /\ ItemOf[ParentMenu[k]] = ItemOf[m]
            /\ ItemOf[ParentMenu[n]] = ItemOf[m]
        BY <2>2, <2>3
      <4>2. k = n
        BY <1>2, <3>1, <4>1 DEF OncePerChoice
      <4>3. Before(n, n) /\ IndexOf(NodeOrder, n) \in Nat
        BY <2>6, <3>1, <4>1, <4>2, Positions DEF Below
      <4> QED BY <4>3 DEF Before
    <3> HIDE DEF here, there
    <3> QED BY <1>1, <1>2, <2>2, <2>4, <2>6, <3>1
  <2> QED BY <2>5, <2>6
<1>3. CASE ItemOf[m] \notin Choices
  BY <1>1, <1>3 DEF RowNodes
<1> QED BY <1>2, <1>3

\* A menu that shows something is in the list of its parent.
LEMMA MenuIsInParent ==
    ASSUME NEW x, HiddenMenusAreEmpty(x), NEW all \in BOOLEAN, NEW m \in Below,
           ShownNodes(x, all, m) # <<>>
    PROVE  m \in Seqs!ToSet(ShownNodes(x, all, ParentMenu[m]))
<1>1. m \in Displayed(x, all)
  <2>1. CASE all = TRUE
    BY <2>1, AllDisplayed
  <2>2. CASE all = FALSE /\ ItemOf[m] \notin Syms
    <3>1. Visible(x, m)
      BY <2>2 DEF HiddenMenusAreEmpty
    <3> QED BY <2>2, <3>1, DisplayedIs
  <2>3. CASE all = FALSE /\ ItemOf[m] \in Syms
    <3>1. ItemOf[m] \notin Choices
      BY <2>3, ItemsAssumption
    <3>2. PICK n \in Seqs!ToSet(ShownNodes(x, all, m)) : TRUE
      <4> DEFINE list == ShownNodes(x, all, m)
      <4>1. list \in Seq(Nodes)
        BY ShownNodesIs DEF IsList
      <4> HIDE DEF list
      <4>2. list # <<>> => list[1] \in Seqs!ToSet(list)
        BY <4>1, HeadIsIn
      <4> QED BY <4>2 DEF list
    <3>3. n \in RowNodes(x, all, m)
      BY <3>1, <3>2, ShownNodesIs DEF ShownSet
    <3> QED BY <2>3, <3>3, SymbolAbove DEF RowNodes
  <2> QED BY <2>1, <2>2, <2>3
<1>2. m \in RowNodes(x, all, ParentMenu[m])
  BY <1>1 DEF RowNodes
<1>3. m \in ShownSet(x, all, ParentMenu[m])
  BY <1>2 DEF ShownSet, ChoiceNodes
<1> QED BY <1>3, ShownNodesIs

\* _leave_menu() finds the menu left.
LEMMA LeaveMenuFinds ==
    ASSUME NEW u, WellFormed(u), ~u.failed, HiddenMenusAreEmpty(u.env), NEW to \in LeaveMenu(u)
    PROVE  ~to.failed /\ to.env = u.env
<1>1. CASE u.menu = TopNode
  BY <1>1 DEF LeaveMenu
<1>2. CASE u.menu # TopNode
  <2> DEFINE list == ShownNodes(u.env, u.showAll, ParentMenu[u.menu])
             in == [u EXCEPT !.menu = ParentMenu[u.menu], !.shown = list,
                       !.cur = IF u.rows = <<>> THEN Centered(IndexOf(list, u.menu), list)
                               ELSE Main!OnLine(IndexOf(list, u.menu), LineInParent(u)),
                       !.rows = IF @ = <<>> THEN @ ELSE Seqs!Front(@)]
  <2>1. to = IF ~IsIn(u.menu, list) THEN Failed(u) ELSE in
    BY <1>2 DEF LeaveMenu
  <2>2. u.menu \in Below
    BY <1>2, NodesAssumption DEF WellFormed, Current, Below
  <2>3. ShownNodes(u.env, u.showAll, u.menu) # <<>> /\ u.showAll \in BOOLEAN
    BY DEF WellFormed, Current
  <2>4. u.menu \in Seqs!ToSet(list)
    BY <2>2, <2>3, MenuIsInParent
  <2>5. list \in Seq(Nodes)
    BY ShownNodesIs DEF IsList
  <2>6. IsIn(u.menu, list)
    BY <2>4, <2>5, IsInIs
  <2>7. in.failed = u.failed /\ in.env = u.env
    BY DEF WellFormed, IsScreen
  <2> HIDE DEF in, list
  <2> QED BY <2>1, <2>6, <2>7
<1> QED BY <1>1, <1>2

\* _update_menu() finds the selected node if it is still displayed.
LEMMA UpdateMenuFinds ==
    ASSUME OncePerChoice, NEW u, Outdated(u), Fits(u), NEW x, NEW all,
           u.shown = ShownNodes(x, all, u.menu), Selected(u) \in Displayed(u.env, u.showAll),
           NEW to \in UpdateMenu(u)
    PROVE  ~to.failed /\ to.env = u.env
<1> DEFINE list == ShownNodes(u.env, u.showAll, u.menu)
           in == [u EXCEPT !.shown = list,
                           !.cur = Main!OnLine(IndexOf(list, Selected(u)), ScreenRow(u))]
<1>1. to = IF ~IsIn(Selected(u), list) THEN Failed(u) ELSE in
  BY DEF UpdateMenu
<1>2. in.failed = u.failed /\ in.env = u.env
  BY DEF Outdated, IsScreen
<1>3. Selected(u) \in ShownSet(x, all, u.menu)
  <2>1. Selected(u) \in Seqs!ToSet(u.shown)
    BY SelectedIs DEF Outdated
  <2> QED BY <2>1, ShownNodesIs
<1>4. Selected(u) \in Seqs!ToSet(list)
  BY <1>3, ShownIfDisplayed, ShownNodesIs
<1>5. list \in Seq(Nodes)
  BY ShownNodesIs DEF IsList
<1>6. IsIn(Selected(u), list)
  BY <1>4, <1>5, IsInIs
<1> HIDE DEF in, list
<1> QED BY <1>1, <1>2, <1>6 DEF Outdated

\* What the interface relies on, in every configuration.
Reliable == \A z : IsConfiguration(z) => HiddenMenusAreEmpty(z) /\ DefaultsFit(z) /\ VisibleIsShown(z)

\* A node with something to assign has a prompt, as far as it is displayed.
LEMMA AssignedHasPrompt ==
    ASSUME NEW x, IsEnv(x), VisibleIsShown(x), NEW n \in Displayed(x, FALSE),
           ItemOf[n] \in Items, AssignableOf(x, ItemOf[n]) # {}
    PROVE  PromptHolds(x, n)
<1>1. CASE ItemOf[n] \in Syms
  <2>1. ItemOf[n] \notin Choices
    BY <1>1, ItemsAssumption
  <2>2. SymAssignable(x, ItemOf[n]).v # {}
    BY <2>1 DEF AssignableOf
  <2>3. Vis(x, ItemOf[n]) # 0
    BY <1>1, <2>2, SymAssignableSet
  <2> QED BY <1>1, <2>3 DEF VisibleIsShown
<1>2. CASE ItemOf[n] \notin Syms
  <2>1. n \in Below
    BY AllDisplayed
  <2>2. Visible(x, n)
    BY <1>2, <2>1, DisplayedIs
  <2> QED BY <2>2 DEF Visible
<1> QED BY <1>1, <1>2

\* _set_val() finds the node whose value it changes: its prompt stays.
LEMMA SetValFinds ==
    ASSUME IsTree, NEW Order, Ordered(Order), OncePerChoice,
           NEW u, WellFormed(u), ~u.failed, Fits(u),
           IsConfiguration(u.env), VisibleIsShown(u.env), ItemOf[Selected(u)] \in Items,
           NEW v \in AssignableOf(u.env, ItemOf[Selected(u)]),
           NEW to \in SetVal(u, ItemOf[Selected(u)], v)
    PROVE  ~to.failed /\ IsConfiguration(to.env)
<1> DEFINE n == Selected(u)
           i == ItemOf[n]
           y == WithValue(u.env, i, v)
<1>1. CASE ValueOf(u.env, i) = v
  BY <1>1 DEF SetVal
<1>2. CASE ValueOf(u.env, i) # v
  <2> DEFINE in == [u EXCEPT !.env = y, !.changed = TRUE]
  <2>1. to \in UpdateMenu(in)
    BY <1>2 DEF SetVal
  <2>2. /\ IsScreen(in) /\ in.menu = u.menu /\ in.shown = u.shown /\ in.cur = u.cur
        /\ in.rows = u.rows /\ in.showAll = u.showAll /\ in.failed = u.failed
        /\ in.env = y /\ Selected(in) = n
    BY DEF WellFormed, IsScreen, Selected
  <2> HIDE DEF in
  <2>3. Outdated(in) /\ Fits(in)
    BY <2>2 DEF WellFormed, Current, Outdated, Fits
  <2>4. in.shown = ShownNodes(u.env, u.showAll, in.menu)
    BY <2>2 DEF WellFormed, Current
  <2>5. IsConfiguration(y)
    BY WithValueIsConfiguration
  <2>6. n \in Displayed(u.env, u.showAll)
    <3>1. n \in ShownSet(u.env, u.showAll, u.menu)
      <4>1. n \in Seqs!ToSet(u.shown)
        BY SelectedIs DEF WellFormed
      <4> QED BY <4>1, ShownNodesIs DEF WellFormed, Current
    <3> QED BY <3>1 DEF ShownSet, ChoiceNodes, RowNodes
  <2>7. n \in Displayed(y, u.showAll)
    <3>1. n \in Below /\ n \in Nodes
      BY <2>6, AllDisplayed DEF Below
    <3>2. CASE u.showAll = TRUE
      BY <3>1, <3>2, AllDisplayed
    <3>3. CASE u.showAll = FALSE
      <4>1. PromptHolds(u.env, n)
        BY <2>6, <3>3, AssignedHasPrompt DEF IsConfiguration
      <4>2. PromptCond[n] \in PromptExprs(i)
        BY <3>1, <4>1, NodesAssumption DEF PromptHolds
      <4>3. ExprValue(y, PromptCond[n]) = ExprValue(u.env, PromptCond[n])
        BY <4>2, PromptStays
      <4>4. PromptHolds(y, n)
        BY <4>1, <4>3 DEF PromptHolds, Holds
      <4>5. i # "menu"
        BY NodesAssumption
      <4>6. Visible(y, n)
        BY <4>4, <4>5 DEF Visible
      <4> QED BY <3>1, <3>3, <4>6, DisplayedIs
    <3> QED BY <3>2, <3>3 DEF WellFormed
  <2> HIDE DEF n, y
  <2>8. ~to.failed /\ to.env = in.env
    BY <2>1, <2>2, <2>3, <2>4, <2>7, UpdateMenuFinds
  <2> QED BY <2>2, <2>5, <2>8
<1> QED BY <1>1, <1>2

\* _change_node() finds a value, the node and, if it leaves the choice, the choice.
LEMMA ChangeNodeFinds ==
    ASSUME IsTree, NEW Order, Ordered(Order), NoChoiceInItself, OncePerChoice, Reliable,
           NEW u, WellFormed(u), ~u.failed, Fits(u), IsConfiguration(u.env),
           Changeable(u.env, Selected(u)), NEW end \in ChangeNode(u, Selected(u))
    PROVE  ~end.failed /\ IsConfiguration(end.env)
<1> DEFINE n == Selected(u)
           next == NextValues(AssignableOf(u.env, ItemOf[n]), ValueOf(u.env, ItemOf[n]))
           Stays(to) == to.failed \/ ~IsYModeChoiceSym(to.env, ItemOf[n]) \/ Children[n] # <<>>
           Ends(to) == IF Stays(to) THEN {to} ELSE LeaveMenu(to)
           Sets == UNION {SetVal(u, ItemOf[n], v) : v \in next}
<1>1. ChangeNode(u, n) = IF next = {} THEN {Failed(u)} ELSE UNION {Ends(to) : to \in Sets}
  BY DEF ChangeNode
<1>2. next # {} /\ next \subseteq AssignableOf(u.env, ItemOf[n])
  BY NextValueExists DEF Reliable
<1> HIDE DEF next, Ends, n
<1>3. PICK v \in next : \E to \in SetVal(u, ItemOf[n], v) : end \in Ends(to)
  BY <1>1, <1>2 DEF n
<1>4. PICK to \in SetVal(u, ItemOf[n], v) : end \in Ends(to)
  BY <1>3
<1>5. ItemOf[n] \in Items
  BY DEF Changeable, n
<1>6. ~to.failed /\ IsConfiguration(to.env)
  BY <1>2, <1>4, <1>5, SetValFinds DEF Reliable, n
<1>7. CASE Stays(to)
  BY <1>4, <1>6, <1>7 DEF Ends
<1>8. CASE ~Stays(to)
  <2>1. end \in LeaveMenu(to)
    BY <1>4, <1>8 DEF Ends
  <2>2. WellFormed(to)
    BY SetValIs DEF Changed
  <2> QED BY <1>6, <2>1, <2>2, LeaveMenuFinds DEF Reliable
<1> QED BY <1>7, <1>8

\* _jump_to() finds a node in its menu, with show-all if it takes that.
LEMMA ShowNodeFinds ==
    ASSUME NEW u, WellFormed(u), ~u.failed, NEW n \in Below, NEW to \in ShowNode(u, ParentMenu[n], n)
    PROVE  ~to.failed
<1> DEFINE m == ParentMenu[n]
           all == u.showAll \/ ~IsIn(n, ShownNodes(u.env, u.showAll, m))
           list == ShownNodes(u.env, all, m)
           in == [u EXCEPT !.rows = <<>>, !.menu = m, !.showAll = all, !.shown = list,
                           !.cur = Main!At(IndexOf(list, n), @.top)]
<1>1. to = IF ~IsIn(n, list) THEN Failed(u) ELSE in
  BY DEF ShowNode
<1>2. in.failed = u.failed
  BY DEF WellFormed, IsScreen
<1>3. IsIn(n, list)
  <2>1. CASE all = u.showAll /\ IsIn(n, ShownNodes(u.env, u.showAll, m))
    BY <2>1
  <2>2. CASE all = TRUE
    <3>1. n \in RowNodes(u.env, TRUE, m)
      BY AllDisplayed DEF RowNodes
    <3>2. n \in ShownSet(u.env, TRUE, m)
      BY <3>1 DEF ShownSet, ChoiceNodes
    <3>3. ShownNodes(u.env, TRUE, m) \in Seq(Nodes)
          /\ n \in Seqs!ToSet(ShownNodes(u.env, TRUE, m))
      BY <3>2, ShownNodesIs DEF IsList
    <3>4. IsIn(n, ShownNodes(u.env, TRUE, m))
      BY <3>3, IsInIs
    <3> QED BY <2>2, <3>4
  <2>3. u.showAll \in BOOLEAN
    BY DEF WellFormed
  <2> HIDE DEF m, list
  <2> QED BY <2>1, <2>2, <2>3
<1> HIDE DEF in, list
<1> QED BY <1>1, <1>2, <1>3

\* The first entry of a menu or choice is in it.
LEMMA FirstChildIs ==
    ASSUME NEW n \in IsMenuconfig, Children[n] # <<>>
    PROVE  Head(Children[n]) \in Below /\ ParentMenu[Head(Children[n])] = n
<1> DEFINE S == {k \in Below : ParentOf[k] = n}
           list == Those(NodeOrder, S)
<1>1. n \in Nodes /\ NodeOrder \in Seq(Nodes)
  BY NodesAssumption
<1>2. Children[n] = list
  BY <1>1 DEF Children
<1> HIDE DEF S
<1>3. list \in Seq(Nodes) /\ Seqs!ToSet(list) \subseteq S
  BY <1>1, ThoseIs
<1> HIDE DEF list
<1>4. list[1] \in Seqs!ToSet(list) /\ Head(list) = list[1]
  BY <1>2, <1>3, HeadIsIn
<1>5. Head(Children[n]) \in S
  BY <1>2, <1>3, <1>4
<1> QED BY <1>5, ParentMenuUnfolds DEF S

\* A jump finds its node.
LEMMA JumpToFinds ==
    ASSUME OncePerChoice, NEW u, WellFormed(u), ~u.failed, NEW n \in Below, NEW end \in JumpTo(u, n)
    PROVE  ~end.failed
<1>1. CASE ItemOf[n] \in Choices \cup {"menu"} /\ Children[n] # <<>>
  <2> DEFINE Shown == ShowNode(u, n, Head(Children[n]))
             Into(v) == IF ItemOf[n] \in Choices THEN SelectSelectedChoiceSym(Center(v)) ELSE {Center(v)}
             Off(to) == IF to.showAll /\ ~u.showAll THEN ToggleShowAll(to) ELSE {to}
             Ends(to) == IF to.failed THEN {to} ELSE UNION {Into(v) : v \in Off(to)}
  <2>0. n \in IsMenuconfig
    BY <1>1, NodesAssumption DEF Below
  <2>1. end \in UNION {Ends(to) : to \in Shown}
    BY <1>1 DEF JumpTo, JumpInto
  <2> HIDE DEF Ends, Shown
  <2>2. PICK to \in Shown : end \in Ends(to)
    BY <2>1
  <2>3. /\ WellFormed(to) /\ to.env = u.env
        /\ ~to.failed => to.cur.sel \in 0 .. Len(to.shown) - 1
    BY <2>0, ShowNodeIs DEF Shown
  <2>4. ~to.failed
    <3> DEFINE k == Head(Children[n])
    <3>1. k \in Below /\ ParentMenu[k] = n
      BY <1>1, <2>0, FirstChildIs
    <3>2. to \in ShowNode(u, ParentMenu[k], k)
      BY <3>1 DEF Shown
    <3> HIDE DEF k
    <3> QED BY <3>1, <3>2, ShowNodeFinds
  <2> HIDE DEF Into, Off
  <2>5. PICK v \in Off(to) : end \in Into(v)
    BY <2>2, <2>4 DEF Ends
  <2>6. WellFormed(v) /\ ~v.failed /\ v.cur.sel \in 0 .. Len(v.shown) - 1
    BY <2>3, <2>4, ToggleShowAllIs DEF Off
  <2>7. WellFormed(Center(v)) /\ ~Center(v).failed
    BY <2>6, CenterIs
  <2>8. end \in SelectSelectedChoiceSym(Center(v)) => ~end.failed
    BY <2>7, SelectSelectedIs DEF SameBut
  <2> QED BY <2>5, <2>7, <2>8 DEF Into
<1>2. CASE ~(ItemOf[n] \in Choices \cup {"menu"} /\ Children[n] # <<>>)
  <2>1. ParentMenu[n] \in IsMenuconfig
    BY ParentMenuIs
  <2>2. PICK to \in ShowNode(u, ParentMenu[n], n) : end = IF to.failed THEN to ELSE Center(to)
    BY <1>2, Zenon DEF JumpTo
  <2>3. WellFormed(to) /\ (~to.failed => to.cur.sel \in 0 .. Len(to.shown) - 1)
    BY <2>1, ShowNodeIs
  <2>4. ~to.failed
    BY ShowNodeFinds
  <2> QED BY <2>2, <2>3, <2>4, CenterIs
<1> QED BY <1>1, <1>2

----------------------------------------------------------------------------
(* The invariant.  After a failed lookup the screen may be out of date, and *)
(* the session is over.                                                     *)

MainHeights  == {MenuHeight(t) : t \in Terminals}
MatchHeights == {MatchesHeight(t) : t \in Terminals}

ScreenInv ==
    /\ IsList(shown) /\ shown # <<>>
    /\ rows \in Seq(Nat)
    /\ showAll \in BOOLEAN
    /\ terminal \in Terminals /\ height \in MainHeights
    /\ dialog \in {"none", "jump"} => menu \in IsMenuconfig /\ shown = ShownNodes(env, showAll, menu)

MatchInv == matches \in Seq(Below) /\ mheight \in MatchHeights

IInv == ScreenInv /\ MatchInv /\ MP!IInv /\ FP!IInv

MainStep  == [Main!Next]_(Main!vars)
MatchStep == [Found!Next]_(Found!vars)

\* What the instances assume.
LEMMA Constants == Main!CursorConstants /\ MP!CursorConstants /\ FP!CursorConstants
BY ListsAssumption DEF Main!CursorConstants, MP!CursorConstants, Found!CursorConstants, FP!CursorConstants

\* The same steps of the same lists.
LEMMA SameMainStep == MainStep => [MP!Next]_(MP!vars)
<1>1. Main!Move => MP!Move
  BY DEF Main!Move, MP!Move, Main!MoveTo, MP!MoveTo, Main!Cursor, MP!Cursor, Main!NextRow, MP!NextRow,
     Main!PrevRow, MP!PrevRow, Main!PageDown, MP!PageDown, Main!PageUp, MP!PageUp, Main!Down, MP!Down,
     Main!Up, MP!Up, Main!LastRow, MP!LastRow, Main!FirstRow, MP!FirstRow, Main!At, MP!At,
     Main!NonNegative, MP!NonNegative, Main!MaxScroll, MP!MaxScroll
<1>2. Main!Show => MP!Show
  BY DEF Main!Show, MP!Show, Main!MoveTo, MP!MoveTo, Main!Resized, MP!Resized, Main!OnLine, MP!OnLine,
     Main!At, MP!At, Main!NonNegative, MP!NonNegative
<1>3. Main!Find => MP!Find
  BY DEF Main!Find, MP!Find, Main!MoveTo, MP!MoveTo, Main!Resized, MP!Resized, Main!Centered, MP!Centered,
     Main!At, MP!At, Main!NonNegative, MP!NonNegative, Main!AtMost, MP!AtMost, Main!MaxScroll, MP!MaxScroll
<1>4. Main!Resize => MP!Resize
  BY DEF Main!Resize, MP!Resize, Main!MoveTo, MP!MoveTo, Main!Cursor, MP!Cursor, Main!Resized, MP!Resized,
     Main!At, MP!At
<1> QED BY <1>1, <1>2, <1>3, <1>4 DEF MainStep, Main!Next, MP!Next, Main!vars, MP!vars

\* The same for the list of matches.
LEMMA SameMatchStep == MatchStep => [FP!Next]_(FP!vars)
<1>1. Found!Move => FP!Move
  BY DEF Found!Move, FP!Move, Found!MoveTo, FP!MoveTo, Found!Cursor, FP!Cursor, Found!NextRow, FP!NextRow,
     Found!PrevRow, FP!PrevRow, Found!PageDown, FP!PageDown, Found!PageUp, FP!PageUp, Found!Down, FP!Down,
     Found!Up, FP!Up, Found!LastRow, FP!LastRow, Found!FirstRow, FP!FirstRow, Found!At, FP!At,
     Found!NonNegative, FP!NonNegative, Found!MaxScroll, FP!MaxScroll
<1>2. Found!Show => FP!Show
  BY DEF Found!Show, FP!Show, Found!MoveTo, FP!MoveTo, Found!Resized, FP!Resized, Found!OnLine, FP!OnLine,
     Found!At, FP!At, Found!NonNegative, FP!NonNegative
<1>3. Found!Find => FP!Find
  BY DEF Found!Find, FP!Find, Found!MoveTo, FP!MoveTo, Found!Resized, FP!Resized, Found!Centered, FP!Centered,
     Found!At, FP!At, Found!NonNegative, FP!NonNegative, Found!AtMost, FP!AtMost, Found!MaxScroll, FP!MaxScroll
<1>4. Found!Resize => FP!Resize
  BY DEF Found!Resize, FP!Resize, Found!MoveTo, FP!MoveTo, Found!Cursor, FP!Cursor, Found!Resized, FP!Resized,
     Found!At, FP!At
<1> QED BY <1>1, <1>2, <1>3, <1>4 DEF MatchStep, Found!Next, FP!Next, Found!vars, FP!vars

\* The screen a key acts on.
LEMMA ScreenIs ==
    ASSUME IInv, dialog \in {"none", "jump"}
    PROVE  /\ WellFormed(Screen) /\ ~Screen.failed /\ Fits(Screen)
           /\ Screen.env = env /\ Screen.menu = menu /\ Screen.shown = shown /\ Screen.rows = rows
           /\ Screen.showAll = showAll /\ Screen.cur = Main!At(sel, scroll)
<1>1. /\ IsScreen(Screen) /\ Screen.failed = FALSE
      /\ Screen.env = env /\ Screen.menu = menu /\ Screen.shown = shown /\ Screen.rows = rows
      /\ Screen.showAll = showAll /\ Screen.cur = Main!At(sel, scroll)
  BY DEF Screen, IsScreen
<1>2. WellFormed(Screen)
  BY <1>1 DEF WellFormed, Current, IInv, ScreenInv
<1>3. Fits(Screen)
  BY <1>1 DEF Fits, IInv, MP!IInv, MP!Cursor, MP!At, Main!At
<1> QED BY <1>1, <1>2, <1>3

\* A cursor inside a window of the same height stays where it is.
LEMMA ResizedSame ==
    ASSUME NEW c, NEW n, MP!Fits(c, n, height)
    PROVE  Main!Resized(c, height) = c
BY DEF MP!Fits, MP!InWindow, Main!Resized

\* The outcome of a function becomes the screen.
LEMMA BecomesIs ==
    ASSUME IInv, NEW u, Fits(u), u.shown = shown, u.cur = Main!At(sel, scroll),
           NEW to, WellFormed(to), Moved(u, to), Becomes(to), UNCHANGED window
    PROVE  ScreenInv' /\ MainStep
<1>1. /\ env' = to.env /\ menu' = to.menu /\ shown' = to.shown /\ rows' = to.rows
      /\ showAll' = to.showAll /\ sel' = to.cur.sel /\ scroll' = to.cur.top
      /\ dialog' = (IF to.failed THEN "failed" ELSE "none")
      /\ height' = height /\ terminal' = terminal
  BY DEF Becomes, window
<1>2. ScreenInv'
  <2>1. dialog' \in {"none", "jump"} => menu' \in IsMenuconfig /\ shown' = ShownNodes(env', showAll', menu')
    BY <1>1 DEF WellFormed, Current
  <2> QED BY <1>1, <2>1 DEF WellFormed, IInv, ScreenInv, IsList, Distinct, MainHeights
<1> SUFFICES MainStep
  BY <1>2
<1>3. Fits(to)
  BY MovedFits DEF WellFormed
<1>4. MP!Fits(to.cur, Len(shown'), height) /\ Main!Resized(to.cur, height') = to.cur
  BY <1>1, <1>3, ResizedSame DEF Fits
<1>5. Len(shown') \in Nat \ {0} /\ height' \in MainHeights
  BY <1>1, <1>4 DEF MP!Fits, IInv, ScreenInv
<1>6. CASE to.shown = u.shown /\ to.cur = u.cur
  BY <1>1, <1>6 DEF MainStep, Main!vars, Main!At
<1>7. CASE to.shown # u.shown /\ IsOnLine(to)
  <2>1. PICK i \in 0 .. Len(to.shown) - 1, line \in 0 .. height - 1 : to.cur = Main!OnLine(i, line)
    BY <1>7 DEF IsOnLine
  <2>2. Main!MoveTo(Main!Resized(Main!OnLine(i, line), height'))
    BY <1>1, <1>4, <2>1 DEF Main!MoveTo
  <2>3. Main!Show
    BY <1>1, <1>5, <1>7, <2>2 DEF Main!Show, MainHeights
  <2> QED BY <2>3 DEF MainStep, Main!Next
<1>8. CASE IsCentered(to)
  <2>1. PICK i \in 0 .. Len(to.shown) - 1 : to.cur = Main!Centered(i, Len(to.shown), height)
    BY <1>8 DEF IsCentered, Centered
  <2>2. Main!MoveTo(Main!Resized(Main!Centered(i, Len(shown'), height), height'))
    BY <1>1, <1>4, <2>1 DEF Main!MoveTo
  <2>3. Main!Find
    BY <1>1, <1>5, <2>2 DEF Main!Find, MainHeights
  <2> QED BY <2>3 DEF MainStep, Main!Next
<1> QED BY <1>6, <1>7, <1>8 DEF Moved

----------------------------------------------------------------------------
(* Each action is a step of the main list.                                  *)

\* The screen stays, and so does the list.
LEMMA ScreenStays ==
    ASSUME IInv, UNCHANGED <<screen, env, height>>, terminal' \in Terminals,
           dialog' \in {"none", "jump"} => dialog \in {"none", "jump"}
    PROVE  ScreenInv' /\ MainStep
BY DEF IInv, ScreenInv, MainStep, screen, Main!vars, IsList, Distinct, MainHeights

\* A cursor key.
LEMMA KeyIs ==
    ASSUME IInv, NEW c, MoveTo(c)
    PROVE  /\ sel' = c.sel /\ scroll' = c.top
           /\ UNCHANGED <<env, menu, shown, rows, showAll, window, dialog>>
<1>1. PICK u : u = [Screen EXCEPT !.cur = c]
  OBVIOUS
<1>2. /\ u.env = env /\ u.menu = menu /\ u.shown = shown /\ u.rows = rows
      /\ u.showAll = showAll /\ u.cur = c /\ u.failed = FALSE
  BY <1>1 DEF Screen
<1>3. Becomes(u) /\ UNCHANGED window /\ dialog = "none"
  BY <1>1 DEF MoveTo, Key, Do
<1> QED BY <1>2, <1>3 DEF Becomes

\* The cursor keys move by the rules of the list.
LEMMA CursorKeyStep ==
    ASSUME IInv, Down \/ Up \/ PageDown \/ PageUp \/ End \/ Home
    PROVE  ScreenInv' /\ MainStep
<1>1. PICK c : MoveTo(c) /\ \/ c = Main!NextRow(Cursor, Len(shown), height)
                            \/ c = Main!PrevRow(Cursor)
                            \/ c \in Main!PageDown(Cursor, Len(shown), height)
                            \/ c \in Main!PageUp(Cursor)
                            \/ c = Main!LastRow(Len(shown), height)
                            \/ c = Main!FirstRow
  BY DEF Down, Up, PageDown, PageUp, End, Home
<1>2. /\ sel' = c.sel /\ scroll' = c.top
      /\ UNCHANGED <<env, menu, shown, rows, showAll, window, dialog>>
  BY <1>1, KeyIs
<1>3. ScreenInv'
  BY <1>2 DEF IInv, ScreenInv, window, IsList, Distinct, MainHeights
<1>4. Main!MoveTo(c) /\ UNCHANGED <<shown, Len(shown), height>>
  BY <1>2 DEF Main!MoveTo, window
<1>5. Main!Move
  BY <1>1, <1>4 DEF Main!Move, Main!Cursor, Cursor
<1> QED BY <1>3, <1>5 DEF MainStep, Main!Next

\* An outcome of a function of the interface.
LEMMA DoStep ==
    ASSUME IInv, Key, NEW to, WellFormed(to), Moved(Screen, to), Do(to)
    PROVE  ScreenInv' /\ MainStep
BY ScreenIs, BecomesIs DEF Do, Key

\* The keys that enter, leave or change something.
LEMMA KeyStep ==
    ASSUME NoChoiceInItself, OncePerChoice, IInv,
           Space \/ Enter \/ Leave \/ ShowAll \/ \E v \in 0 .. 2 : SetTriVal(v)
    PROVE  ScreenInv' /\ MainStep
<1>1. Key
  BY DEF Space, Enter, Leave, ShowAll, SetTriVal
<1>2. WellFormed(Screen) /\ ~Screen.failed /\ Fits(Screen)
  BY <1>1, ScreenIs DEF Key
<1>3. PICK to : /\ Do(to)
                /\ \/ \E n : to \in ChangeNode(Screen, n) \/ to \in EnterMenu(Screen, n)
                   \/ \E i, v : to \in SetVal(Screen, i, v)
                   \/ to \in LeaveMenu(Screen)
                   \/ to \in ToggleShowAll(Screen)
  BY Zenon DEF Space, Enter, Leave, ShowAll, SetTriVal, DoOne
<1>4. WellFormed(to) /\ Moved(Screen, to)
  <2>1. ASSUME NEW n, to \in ChangeNode(Screen, n) PROVE WellFormed(to) /\ Moved(Screen, to)
    BY <1>2, <2>1, ChangeNodeIs
  <2>2. ASSUME NEW n, to \in EnterMenu(Screen, n) PROVE WellFormed(to) /\ Moved(Screen, to)
    BY <1>2, <2>2, EnterMenuIs DEF Moved
  <2>3. ASSUME NEW i, NEW v, to \in SetVal(Screen, i, v) PROVE WellFormed(to) /\ Moved(Screen, to)
    BY <1>2, <2>3, SetValIs DEF Changed, Moved
  <2>4. ASSUME to \in LeaveMenu(Screen) PROVE WellFormed(to) /\ Moved(Screen, to)
    <3>1. /\ WellFormed(to)
          /\ \/ to.shown = Screen.shown /\ to.cur = Screen.cur
             \/ IsCentered(to)
             \/ Screen.menu \in Below /\ Screen.menu \in Seqs!ToSet(to.shown) /\ IsOnLine(to)
      BY <1>2, <2>4, LeaveMenuIs
    <3>2. CASE Screen.menu \in Below /\ Screen.menu \in Seqs!ToSet(to.shown) /\ IsOnLine(to)
      <4>1. Screen.shown = ShownNodes(Screen.env, Screen.showAll, Screen.menu)
        BY <1>2 DEF WellFormed, Current
      <4>2. to.shown # Screen.shown
        BY <3>2, <4>1, NotInItself
      <4> QED BY <3>1, <3>2, <4>2 DEF Moved
    <3> QED BY <3>1, <3>2 DEF Moved
  <2>5. ASSUME to \in ToggleShowAll(Screen) PROVE WellFormed(to) /\ Moved(Screen, to)
    <3>1. Screen.cur.sel \in 0 .. Len(Screen.shown) - 1
      BY <1>2, SelectedIs DEF WellFormed
    <3> QED BY <1>2, <2>5, <3>1, ToggleShowAllIs
  <2> QED BY <1>3, <2>1, <2>2, <2>3, <2>4, <2>5
<1> QED BY <1>1, <1>3, <1>4, DoStep

\* menuconfig() shows the top menu from its first row on.
LEMMA StartStep ==
    ASSUME IInv, Start
    PROVE  ScreenInv' /\ MainStep
<1>1. /\ shown' = ShownNodes(env', showAll', TopNode) /\ shown' # <<>>
      /\ showAll' \in BOOLEAN
      /\ menu' = TopNode /\ sel' = 0 /\ scroll' = 0 /\ rows' = <<>>
      /\ height' = MenuHeight(terminal) /\ terminal' = terminal
  BY DEF Start
<1>2. IsList(shown')
  BY <1>1, ShownNodesIs
<1>3. TopNode \in IsMenuconfig
  <2>1. TopNode \in Nodes
    BY NodesAssumption DEF TopNode, Nodes, Seqs!ToSet
  <2> QED BY <2>1, NodesAssumption
<1>4. height' \in MainHeights /\ terminal' \in Terminals
  BY <1>1 DEF IInv, ScreenInv, MainHeights
<1>5. ScreenInv'
  BY <1>1, <1>2, <1>3, <1>4 DEF ScreenInv, IsList, Distinct, MainHeights
<1>6. Len(shown') \in Nat \ {0} /\ height \in Nat \ {0} /\ height' \in Nat \ {0}
  BY <1>1, <1>2, <1>4, Constants DEF IsList, IInv, MP!IInv, MP!Fits, Main!CursorConstants, MainHeights
<1>7. Main!Centered(0, Len(shown'), height) = Main!At(0, 0)
  BY <1>6, FirstRowIs DEF Main!FirstRow
<1>8. Main!MoveTo(Main!Resized(Main!Centered(0, Len(shown'), height), height'))
  BY <1>1, <1>6, <1>7 DEF Main!MoveTo, Main!Resized, Main!At
<1>9. Main!Find
  BY <1>4, <1>6, <1>8 DEF Main!Find, MainHeights
<1> QED BY <1>5, <1>9 DEF MainStep, Main!Next

\* Another file may give every node another visibility.
LEMMA LoadStep ==
    ASSUME IInv, NEW f, Load(f)
    PROVE  ScreenInv' /\ MainStep
<1>1. Key /\ UNCHANGED window
  BY DEF Load
<1>2. PICK x, list, to :
          /\ to \in UpdateMenu([[Screen EXCEPT !.env = x, !.changed = NeedsSave(x, files[f])]
                                  EXCEPT !.showAll = @ \/ ~IsIn(Selected([Screen EXCEPT !.env = x,
                                             !.changed = NeedsSave(x, files[f])]), list)])
          /\ Becomes(to)
  BY DEF Load
<1> DEFINE u == [Screen EXCEPT !.env = x, !.changed = NeedsSave(x, files[f])]
           v == [u EXCEPT !.showAll = @ \/ ~IsIn(Selected(u), list)]
<1>3. /\ WellFormed(Screen) /\ ~Screen.failed /\ Fits(Screen)
      /\ Screen.shown = shown /\ Screen.cur = Main!At(sel, scroll)
  BY <1>1, ScreenIs DEF Key
<1>4. IsScreen(u) /\ u.menu = Screen.menu /\ u.shown = Screen.shown /\ u.cur = Screen.cur
      /\ u.rows = Screen.rows /\ u.showAll = Screen.showAll /\ u.failed = Screen.failed
  BY <1>3 DEF WellFormed, IsScreen
<1> HIDE DEF u
<1>5. IsScreen(v) /\ v.menu = u.menu /\ v.shown = u.shown /\ v.cur = u.cur
      /\ v.rows = u.rows /\ v.showAll \in BOOLEAN /\ v.failed = u.failed
  BY <1>3, <1>4 DEF WellFormed, IsScreen
<1>6. to \in UpdateMenu(v)
  BY <1>2 DEF u
<1> HIDE DEF v
<1>7. Outdated(v) /\ Fits(v)
  BY <1>3, <1>4, <1>5 DEF WellFormed, Current, Outdated, Fits
<1>8. WellFormed(to) /\ Moved(v, to)
  BY <1>6, <1>7, UpdateMenuIs DEF Moved
<1> QED BY <1>1, <1>2, <1>3, <1>4, <1>5, <1>7, <1>8, BecomesIs

\* _resize_main() alone.
LEMMA ResizeStep ==
    ASSUME IInv, terminal' \in Terminals, ResizeMain(Cursor), dialog \in {"none", "jump"},
           UNCHANGED <<env, menu, shown, rows, showAll>>
    PROVE  ScreenInv' /\ MainStep
<1>1. height' \in MainHeights
  BY DEF ResizeMain, MainHeights
<1>2. ScreenInv'
  BY <1>1 DEF IInv, ScreenInv, IsList, Distinct, MainHeights
<1>3. Main!Resize
  BY <1>1 DEF ResizeMain, Main!Resize, Main!MoveTo, Main!Cursor, Cursor, MainHeights
<1> QED BY <1>2, <1>3 DEF MainStep, Main!Next

\* The dialog is closed after a jump.
LEMMA JumpStep ==
    ASSUME OncePerChoice, IInv, Jump
    PROVE  ScreenInv' /\ MainStep
<1>1. PICK u \in JumpTo(Screen, matches[msel + 1]) :
          /\ menu' = u.menu /\ shown' = u.shown /\ rows' = u.rows /\ showAll' = u.showAll
          /\ dialog' = IF u.failed THEN "failed" ELSE "none"
          /\ ResizeMain(u.cur)
  BY DEF Jump
<1>2. dialog = "jump" /\ matches # <<>> /\ terminal' = terminal /\ env' = env
  BY DEF Jump, InJump, CloseJump
<1>3. matches[msel + 1] \in Below
  <2>1. matches \in Seq(Below) /\ Len(matches) \in Nat \ {0}
    BY <1>2 DEF IInv, MatchInv
  <2>2. msel \in 0 .. AtLeastOne(Len(matches)) - 1
    BY <1>2 DEF IInv, FP!IInv, FP!Fits, FP!InWindow, FP!Cursor, FP!At, MatchRow, MatchTop
  <2>3. msel \in 0 .. Len(matches) - 1
    BY <2>1, <2>2 DEF AtLeastOne
  <2> QED BY <2>1, <2>3
<1>4. /\ WellFormed(Screen) /\ ~Screen.failed /\ Fits(Screen)
      /\ Screen.env = env /\ Screen.shown = shown /\ Screen.cur = Main!At(sel, scroll)
  BY <1>2, ScreenIs
<1>5. /\ WellFormed(u) /\ u.env = env
      /\ u.failed => u.shown = shown /\ u.cur = Cursor
      /\ ~u.failed => IsCentered(u)
  BY <1>3, <1>4, JumpToIs DEF Jumped, Cursor
<1>6. terminal' \in Terminals /\ height' \in MainHeights
  BY <1>1, <1>2 DEF IInv, ScreenInv, ResizeMain, MainHeights
<1>7. ScreenInv'
  <2>1. dialog' \in {"none", "jump"} => menu' \in IsMenuconfig /\ shown' = ShownNodes(env', showAll', menu')
    BY <1>1, <1>2, <1>5 DEF WellFormed, Current
  <2> QED BY <1>1, <1>5, <1>6, <2>1 DEF WellFormed, ScreenInv, IsList, Distinct, MainHeights
<1> SUFFICES MainStep
  BY <1>7
<1>8. Main!MoveTo(Main!Resized(u.cur, height'))
  BY <1>1 DEF ResizeMain, Main!MoveTo
<1>9. CASE u.failed
  <2>1. Main!Resize
    BY <1>1, <1>5, <1>6, <1>8, <1>9 DEF Main!Resize, Main!Cursor, Cursor, MainHeights
  <2> QED BY <2>1 DEF MainStep, Main!Next
<1>10. CASE ~u.failed
  <2>1. PICK i \in 0 .. Len(u.shown) - 1 : u.cur = Main!Centered(i, Len(u.shown), height)
    BY <1>5, <1>10 DEF IsCentered, Centered
  <2>2. Len(shown') \in Nat \ {0}
    BY <1>1, <1>5 DEF WellFormed, IsList
  <2>3. Main!Find
    BY <1>1, <1>6, <1>8, <2>1, <2>2 DEF Main!Find, MainHeights
  <2> QED BY <2>3 DEF MainStep, Main!Next
<1> QED BY <1>9, <1>10

\* Every action is a step of the main list and keeps the screen up to date.
LEMMA MainNext ==
    ASSUME NoChoiceInItself, OncePerChoice, IInv, [MenuNext]_mvars
    PROVE  ScreenInv' /\ MainStep
<1>1. CASE Start
  BY <1>1, StartStep
<1>2. CASE Down \/ Up \/ PageDown \/ PageUp \/ End \/ Home
  BY <1>2, CursorKeyStep
<1>3. CASE Space \/ Enter \/ Leave \/ ShowAll \/ \E v \in 0 .. 2 : SetTriVal(v)
  BY <1>3, KeyStep
<1>4. ASSUME NEW t \in Terminals, Resize(t) PROVE ScreenInv' /\ MainStep
  BY <1>4, ResizeStep DEF Resize, Rest, Key
<1>5. ASSUME NEW t \in Terminals, ResizeJump(t) PROVE ScreenInv' /\ MainStep
  BY <1>5, ScreenStays DEF ResizeJump, Unsearched, values
<1>6. CASE Quit \/ QuitSave \/ OpenJump \/ MoveInMatches
  <2>1. UNCHANGED <<screen, env, window>> /\ (dialog' \in {"none", "jump"} => dialog \in {"none", "jump"})
    BY <1>6 DEF Quit, QuitSave, OpenJump, MoveInMatches, Unsearched, values, Key, InJump
  <2> QED BY <2>1, ScreenStays DEF window, IInv, ScreenInv
<1>7. ASSUME NEW f \in Names, Save(f) \/ SaveFails(f) PROVE ScreenInv' /\ MainStep
  <2>1. UNCHANGED <<screen, env, window, dialog>>
    BY <1>7 DEF Save, SaveFails, values
  <2> QED BY <2>1, ScreenStays DEF window, IInv, ScreenInv
<1>8. ASSUME NEW f \in Names, Load(f) PROVE ScreenInv' /\ MainStep
  BY <1>8, LoadStep
<1>9. CASE Jump
  BY <1>9, JumpStep
<1>10. CASE CancelJump
  <2>1. terminal' \in Terminals
    BY <1>10 DEF CancelJump, CloseJump, IInv, ScreenInv
  <2> QED BY <1>10, <2>1, ResizeStep DEF CancelJump, CloseJump, InJump
<1>11. ASSUME NEW found \in Searches, Search(found) PROVE ScreenInv' /\ MainStep
  <2>1. UNCHANGED <<screen, env, window, dialog>>
    BY <1>11 DEF Search, Unsearched, values
  <2> QED BY <2>1, ScreenStays DEF window, IInv, ScreenInv
<1>12. CASE UNCHANGED mvars
  <2>1. UNCHANGED <<screen, env, window, dialog>>
    BY <1>12 DEF mvars, values
  <2> QED BY <2>1, ScreenStays DEF window, IInv, ScreenInv
<1> QED
  BY <1>1, <1>2, <1>3, <1>4, <1>5, <1>6, <1>7, <1>8, <1>9, <1>10, <1>11, <1>12 DEF MenuNext

----------------------------------------------------------------------------
(* Each action is a step of the list of matches.                            *)

\* The first row of any list of matches.
LEMMA FindMatches ==
    ASSUME IInv, MatchCursor(Found!FirstRow), matches' \in Seq(Below), mheight' \in MatchHeights
    PROVE  MatchInv' /\ MatchStep
<1> DEFINE n == AtLeastOne(Len(matches'))
<1>1. n \in Nat \ {0}
  BY DEF AtLeastOne
<1>2. mheight \in Nat \ {0} /\ mheight' \in Nat \ {0}
  BY Constants DEF IInv, MatchInv, MatchHeights, FP!CursorConstants
<1>3. Found!Centered(0, n, mheight) = Found!At(0, 0)
  <2>1. mheight \div 2 \in Nat
    BY <1>2, Z3
  <2> HIDE DEF n
  <2> QED BY <1>1, <1>2, <2>1 DEF Found!Centered, Found!At, Found!NonNegative, Found!AtMost, Found!MaxScroll
<1>4. Found!MoveTo(Found!Resized(Found!Centered(0, n, mheight), mheight'))
  BY <1>2, <1>3 DEF MatchCursor, MatchRow, MatchTop, Found!MoveTo, Found!FirstRow, Found!Resized, Found!At
<1>5. Found!Find
  BY <1>1, <1>4 DEF Found!Find, MatchHeights
<1> QED BY <1>5 DEF MatchStep, Found!Next, MatchInv, MatchHeights

\* Every action is a step of the list of matches.
LEMMA MatchNext ==
    ASSUME IInv, [MenuNext]_mvars
    PROVE  MatchInv' /\ MatchStep
<1>0. matches \in Seq(Below) /\ mheight \in MatchHeights /\ terminal \in Terminals
  BY DEF IInv, MatchInv, ScreenInv
<1>1. CASE UNCHANGED jump
  BY <1>0, <1>1 DEF jump, MatchStep, Found!vars, MatchInv, MatchHeights, MatchRow, MatchTop
<1>2. CASE OpenJump
  <2>1. matches' = SearchOrder /\ mheight' = MatchesHeight(terminal) /\ MatchCursor(Found!FirstRow)
    BY <1>2 DEF OpenJump
  <2>2. matches' \in Seq(Below) /\ mheight' \in MatchHeights
    BY <1>0, <2>1, ListsAssumption DEF MatchHeights
  <2> QED BY <2>1, <2>2, FindMatches
<1>3. ASSUME NEW found \in Searches, Search(found) PROVE MatchInv' /\ MatchStep
  <2>1. /\ matches' = Those(SearchOrder, found) /\ mheight' = mheight
        /\ MatchCursor(Found!FirstRow)
    BY <1>3 DEF Search
  <2>2. matches' \in Seq(Below)
    BY <2>1, ThoseIs, ListsAssumption
  <2> QED BY <1>0, <2>1, <2>2, FindMatches
<1>4. CASE MoveInMatches
  <2>0. CASE matches = <<>>
    <3>1. matches' = matches /\ mheight' = mheight
      BY <1>4 DEF MoveInMatches
    <3> QED BY <1>0, <2>0, <3>1 DEF MatchStep, Found!vars, MatchInv, MatchHeights, MatchRow, MatchTop
  <2> SUFFICES ASSUME matches # <<>> PROVE MatchInv' /\ MatchStep
    BY <2>0
  <2>1. /\ matches' = matches /\ mheight' = mheight /\ matches # <<>>
        /\ \E c \in {Found!At(msel, mtop)} :
              \/ MatchCursor(Found!NextRow(c, Len(matches), mheight))
              \/ MatchCursor(Found!PrevRow(c))
              \/ \E d \in Found!PageDown(c, Len(matches), mheight) : MatchCursor(d)
              \/ \E d \in Found!PageUp(c) : MatchCursor(d)
              \/ MatchCursor(Found!LastRow(Len(matches), mheight))
              \/ MatchCursor(Found!FirstRow)
    BY <1>4 DEF MoveInMatches
  <2>2. AtLeastOne(Len(matches)) = Len(matches)
    BY <1>0, <2>1 DEF AtLeastOne
  <2>3. Found!Move
    BY <2>1, <2>2 DEF Found!Move, Found!MoveTo, MatchCursor, Found!Cursor, MatchRow, MatchTop
  <2> QED BY <1>0, <2>1, <2>3 DEF MatchStep, Found!Next, MatchInv, MatchHeights
<1>5. ASSUME NEW t \in Terminals, ResizeJump(t) PROVE MatchInv' /\ MatchStep
  <2>1. /\ matches' = matches /\ mheight' = MatchesHeight(t)
        /\ MatchCursor(Found!Resized(Found!At(msel, mtop), mheight'))
    BY <1>5 DEF ResizeJump
  <2>2. Found!Resize
    <3>1. CASE matches = <<>>
      <4>1. mheight' \in Nat \ {0}
        BY <2>1, Constants DEF FP!CursorConstants
      <4> QED BY <2>1, <3>1, <4>1 DEF Found!Resize, Found!MoveTo, Found!Cursor, Found!Resized, Found!At,
                                      MatchRow, MatchTop
    <3>2. CASE matches # <<>>
      BY <2>1, <3>2 DEF Found!Resize, Found!MoveTo, MatchCursor, Found!Cursor, MatchRow, MatchTop
    <3> QED BY <3>1, <3>2
  <2> QED BY <1>0, <2>1, <2>2 DEF MatchStep, Found!Next, MatchInv, MatchHeights
<1>6. CASE Jump \/ CancelJump
  <2>1. matches' = <<>> /\ MatchCursor(Found!FirstRow) /\ mheight' = mheight
    BY <1>6 DEF Jump, CancelJump, CloseJump
  <2>2. matches' \in Seq(Below)
    BY <2>1
  <2> QED BY <1>0, <2>1, <2>2, FindMatches
<1>7. Start \/ Quit \/ QuitSave => UNCHANGED jump
  BY DEF Start, Quit, QuitSave
<1>8. ASSUME NEW c, MoveTo(c) PROVE UNCHANGED jump
  BY <1>8 DEF MoveTo, Do
<1>9. Down \/ Up \/ PageDown \/ PageUp \/ End \/ Home => UNCHANGED jump
  BY <1>8 DEF Down, Up, PageDown, PageUp, End, Home
<1>10. Space \/ Enter \/ Leave \/ ShowAll \/ (\E v \in 0 .. 2 : SetTriVal(v)) => UNCHANGED jump
  BY Zenon DEF Space, Enter, Leave, ShowAll, SetTriVal, DoOne, Do
<1>11. \A f \in Names : Save(f) \/ SaveFails(f) \/ Load(f) => UNCHANGED jump
  BY DEF Save, SaveFails, Load
<1>12. \A t \in Terminals : Resize(t) => UNCHANGED jump
  BY DEF Resize
<1>13. UNCHANGED mvars => UNCHANGED jump
  BY DEF mvars
<1> QED
  BY <1>1, <1>2, <1>3, <1>4, <1>5, <1>6, <1>7, <1>9, <1>10, <1>11, <1>12, <1>13 DEF MenuNext

----------------------------------------------------------------------------

\* Before the first session.
LEMMA InitIs ==
    ASSUME MenuInit
    PROVE  IInv /\ Main!Init /\ Found!Init
<1>1. /\ shown = Rows(env, TRUE, TopNode) /\ sel = 0 /\ scroll = 0 /\ rows = <<>> /\ showAll = FALSE
      /\ terminal \in Terminals /\ height = MenuHeight(terminal) /\ dialog = "done"
      /\ matches = <<>> /\ msel = 0 /\ mtop = 0 /\ mheight = MatchesHeight(terminal)
  BY DEF MenuInit
<1>2. IsList(shown) /\ shown # <<>>
  <2>1. NodeOrder \in Seq(Nodes) /\ Distinct(NodeOrder) /\ Seqs!ToSet(NodeOrder) = Nodes /\ Len(NodeOrder) > 1
    BY NodesAssumption DEF Distinct, Nodes
  <2> DEFINE n == NodeOrder[2]
  <2>2. n \in Below
    BY <2>1 DEF Below, TopNode, Distinct
  <2>3. IndexOf(NodeOrder, TopNode) = 0 /\ IndexOf(NodeOrder, n) = 1 /\ TopNode \in Nodes
    <3>1. IsList(NodeOrder) /\ TopNode \in Seqs!ToSet(NodeOrder) /\ n \in Seqs!ToSet(NodeOrder)
      BY <2>1, <2>2 DEF IsList, TopNode, Below, Seqs!ToSet
    <3> QED BY <2>1, <3>1, PlaceIs DEF TopNode
  <2>4. ParentMenu[n] = TopNode
    <3>1. ParentMenu[n] \in Nodes /\ Before(ParentMenu[n], n)
      BY <2>2, ParentMenuIs, NodesAssumption
    <3>2. IndexOf(NodeOrder, ParentMenu[n]) = 0
      BY <2>3, <3>1, Positions DEF Before
    <3>3. IsIn(ParentMenu[n], NodeOrder)
      BY <2>1, <3>1, IsInIs
    <3>4. NodeOrder[IndexOf(NodeOrder, ParentMenu[n]) + 1] = ParentMenu[n]
      BY <2>1, <3>3, IndexOfIs
    <3> QED BY <3>2, <3>4 DEF TopNode
  <2>5. n \in RowNodes(env, TRUE, TopNode)
    BY <2>2, <2>4 DEF RowNodes, Displayed
  <2>6. shown \in Seq(Nodes) /\ Distinct(shown)
        /\ Seqs!ToSet(shown) = Seqs!ToSet(NodeOrder) \cap RowNodes(env, TRUE, TopNode)
    BY <1>1, <2>1, ThoseIs DEF Rows
  <2>7. n \in Seqs!ToSet(shown)
    BY <2>1, <2>2, <2>5, <2>6 DEF Below
  <2> QED BY <2>6, <2>7 DEF IsList, Seqs!ToSet
<1>3. ScreenInv /\ MatchInv
  <2>1. rows \in Seq(Nat) /\ matches \in Seq(Below)
    BY <1>1
  <2>2. height \in MainHeights /\ mheight \in MatchHeights
    BY <1>1 DEF MainHeights, MatchHeights
  <2>3. showAll \in BOOLEAN /\ terminal \in Terminals /\ dialog \notin {"none", "jump"}
    BY <1>1
  <2> QED BY <1>2, <2>1, <2>2, <2>3 DEF ScreenInv, MatchInv
<1>4. Len(shown) \in Nat \ {0} /\ AtLeastOne(Len(matches)) \in Nat \ {0}
  <2>1. Len(shown) \in Nat \ {0}
    BY <1>2 DEF IsList
  <2>2. Len(matches) \in Nat
    BY <1>3 DEF MatchInv
  <2> QED BY <2>1, <2>2 DEF AtLeastOne
<1>5. Main!Init /\ MP!Init /\ Found!Init /\ FP!Init
  BY <1>1, <1>4 DEF Main!Init, MP!Init, Found!Init, FP!Init, MatchRow, MatchTop
<1>6. MP!IInv /\ FP!IInv
  BY <1>5, Constants, MP!InitFits, FP!InitFits
<1> QED BY <1>3, <1>5, <1>6 DEF IInv

\* The invariant is kept by steps of both lists.
LEMMA NextIs ==
    ASSUME NoChoiceInItself, OncePerChoice, IInv, [MenuNext]_mvars
    PROVE  IInv' /\ MainStep /\ MatchStep
<1>1. ScreenInv' /\ MainStep /\ MatchInv' /\ MatchStep
  BY MainNext, MatchNext
<1>2. MP!IInv' /\ FP!IInv'
  <2>1. [MP!Next]_(MP!vars) /\ [FP!Next]_(FP!vars)
    BY <1>1, SameMainStep, SameMatchStep
  <2>2. MP!IInv /\ FP!IInv
    BY DEF IInv
  <2> QED BY <2>1, <2>2, Constants, MP!NextFits, FP!NextFits
<1> QED BY <1>1, <1>2 DEF IInv

----------------------------------------------------------------------------
(* No lookup fails.                                                         *)

\* The values are a configuration, every file that exists has lines, and no
\* lookup has failed.
ConfInv ==
    /\ IsConfiguration(env)
    /\ DOMAIN files = Names
    /\ \A f \in Names : files[f] = Absent \/ IsFile(files[f])
    /\ NoLookupFails

\* A key that enters, leaves or changes something finds what it looks for.
LEMMA KeyFinds ==
    ASSUME IsTree, NEW Order, Ordered(Order), NoChoiceInItself, OncePerChoice, Reliable,
           IInv, ConfInv,
           Space \/ Enter \/ Leave \/ ShowAll \/ \E v \in 0 .. 2 : SetTriVal(v)
    PROVE  dialog' = "none" /\ IsConfiguration(env') /\ UNCHANGED files
<1>1. Key /\ IsConfiguration(env)
  BY DEF Space, Enter, Leave, ShowAll, SetTriVal, ConfInv
<1>2. WellFormed(Screen) /\ ~Screen.failed /\ Fits(Screen) /\ Screen.env = env
  BY <1>1, ScreenIs DEF Key
<1> DEFINE n == Selected(Screen)
<1>3. PICK to : /\ Do(to)
                /\ \/ to \in EnterMenu(Screen, n)
                   \/ Changeable(env, n) /\ to \in ChangeNode(Screen, n)
                   \/ ItemOf[n] \in Items /\ \E v \in AssignableOf(env, ItemOf[n]) :
                         to \in SetVal(Screen, ItemOf[n], v)
                   \/ to \in LeaveMenu(Screen)
                   \/ to \in ToggleShowAll(Screen)
  BY Zenon DEF Space, Enter, Leave, ShowAll, SetTriVal, DoOne
<1> HIDE DEF n
<1>4. ~to.failed /\ IsConfiguration(to.env)
  <2>1. ASSUME to \in EnterMenu(Screen, n) PROVE ~to.failed /\ IsConfiguration(to.env)
    BY <1>1, <1>2, <2>1, EnterMenuIs
  <2>2. ASSUME Changeable(env, n), to \in ChangeNode(Screen, n)
        PROVE  ~to.failed /\ IsConfiguration(to.env)
    BY <1>1, <1>2, <2>2, ChangeNodeFinds DEF n
  <2>3. ASSUME ItemOf[n] \in Items, NEW v \in AssignableOf(env, ItemOf[n]),
               to \in SetVal(Screen, ItemOf[n], v)
        PROVE  ~to.failed /\ IsConfiguration(to.env)
    BY <1>1, <1>2, <2>3, SetValFinds DEF n, Reliable
  <2>4. ASSUME to \in LeaveMenu(Screen) PROVE ~to.failed /\ IsConfiguration(to.env)
    BY <1>1, <1>2, <2>4, LeaveMenuFinds DEF Reliable
  <2>5. ASSUME to \in ToggleShowAll(Screen) PROVE ~to.failed /\ IsConfiguration(to.env)
    <3>1. Screen.cur.sel \in 0 .. Len(Screen.shown) - 1
      BY <1>2, SelectedIs DEF WellFormed
    <3> QED BY <1>1, <1>2, <2>5, <3>1, ToggleShowAllIs
  <2> QED BY <1>3, <2>1, <2>2, <2>3, <2>4, <2>5
<1> QED BY <1>3, <1>4 DEF Do, Becomes

\* A node that a file hides is found with show-all.
LEMMA LoadFinds ==
    ASSUME IsTree, NEW Order, Ordered(Order), OncePerChoice, IInv, ConfInv,
           NEW f \in Names, Load(f)
    PROVE  dialog' = "none" /\ IsConfiguration(env') /\ UNCHANGED files
<1>1. Key /\ files[f] # Absent /\ UNCHANGED files
  BY DEF Load
<1> DEFINE x == Replaced(env, files[f])
           u == [Screen EXCEPT !.env = x, !.changed = NeedsSave(x, files[f])]
           list == ShownNodes(x, showAll, menu)
           v == [u EXCEPT !.showAll = @ \/ ~IsIn(Selected(u), list)]
<1>2. PICK to \in UpdateMenu(v) : Becomes(to)
  BY DEF Load
<1>3. /\ WellFormed(Screen) /\ ~Screen.failed /\ Fits(Screen)
      /\ Screen.showAll = showAll /\ Screen.menu = menu
  BY <1>1, ScreenIs DEF Key
<1>4. /\ IsScreen(u) /\ u.menu = Screen.menu /\ u.shown = Screen.shown /\ u.cur = Screen.cur
      /\ u.rows = Screen.rows /\ u.showAll = Screen.showAll /\ u.failed = Screen.failed
      /\ u.env = x
  BY <1>3 DEF WellFormed, IsScreen
<1>5. IsConfiguration(x)
  BY <1>1, ReplacedIsConfiguration DEF ConfInv
<1> HIDE DEF u, x, list
<1>6. /\ IsScreen(v) /\ v.menu = u.menu /\ v.shown = u.shown /\ v.cur = u.cur
      /\ v.rows = u.rows /\ v.failed = u.failed /\ v.env = u.env
      /\ v.showAll = (u.showAll \/ ~IsIn(Selected(u), list))
  BY <1>4 DEF IsScreen
<1> HIDE DEF v
<1>7. Outdated(v) /\ Fits(v) /\ Selected(v) = Selected(u)
  BY <1>3, <1>4, <1>6 DEF WellFormed, Current, Outdated, Fits, Selected
<1>8. v.shown = ShownNodes(Screen.env, Screen.showAll, v.menu)
  BY <1>3, <1>4, <1>6 DEF WellFormed, Current
<1>9. Selected(v) \in Displayed(v.env, v.showAll)
  <2>1. CASE IsIn(Selected(u), list)
    <3>1. list \in Seq(Nodes) /\ Seqs!ToSet(list) = ShownSet(x, showAll, menu)
      BY ShownNodesIs DEF list, IsList
    <3>2. Selected(u) \in ShownSet(x, showAll, menu)
      BY <2>1, <3>1, IsInIs
    <3>3. Selected(u) \in Displayed(x, showAll)
      BY <3>2 DEF ShownSet, ChoiceNodes, RowNodes
    <3>4. v.env = x /\ v.showAll = showAll
      BY <1>3, <1>4, <1>6, <2>1 DEF WellFormed
    <3> QED BY <1>7, <3>3, <3>4
  <2>2. CASE ~IsIn(Selected(u), list)
    <3>1. Selected(v) \in Below
      BY <1>7, <1>8, SelectedIs, ShownNodesIs DEF Outdated
    <3>2. v.showAll = TRUE
      BY <1>6, <2>2
    <3> QED BY <3>1, <3>2, AllDisplayed
  <2> QED BY <2>1, <2>2
<1>10. ~to.failed /\ to.env = v.env
  BY <1>2, <1>7, <1>8, <1>9, UpdateMenuFinds
<1> QED BY <1>1, <1>2, <1>4, <1>5, <1>6, <1>10 DEF Becomes

\* The match that is jumped to is found.
LEMMA JumpFinds ==
    ASSUME OncePerChoice, IInv, Jump
    PROVE  dialog' = "none" /\ UNCHANGED <<env, files>>
<1>1. PICK u \in JumpTo(Screen, matches[msel + 1]) : dialog' = IF u.failed THEN "failed" ELSE "none"
  BY DEF Jump
<1>2. dialog = "jump" /\ matches # <<>> /\ UNCHANGED <<env, files>>
  BY DEF Jump, InJump, CloseJump
<1>3. matches[msel + 1] \in Below
  <2>1. matches \in Seq(Below) /\ Len(matches) \in Nat \ {0}
    BY <1>2 DEF IInv, MatchInv
  <2>2. msel \in 0 .. AtLeastOne(Len(matches)) - 1
    BY <1>2 DEF IInv, FP!IInv, FP!Fits, FP!InWindow, FP!Cursor, FP!At, MatchRow, MatchTop
  <2>3. msel \in 0 .. Len(matches) - 1
    BY <2>1, <2>2 DEF AtLeastOne
  <2> QED BY <2>1, <2>3
<1>4. WellFormed(Screen) /\ ~Screen.failed
  BY <1>2, ScreenIs
<1>5. ~u.failed
  BY <1>3, <1>4, JumpToFinds
<1> QED BY <1>1, <1>2, <1>5

\* No action looks for what is not there.
LEMMA NextFinds ==
    ASSUME IsTree, NEW Order, Ordered(Order), NoChoiceInItself, OncePerChoice, Reliable,
           IInv, ConfInv, [MenuNext]_mvars
    PROVE  ConfInv'
<1>1. /\ IsConfiguration(env) /\ DOMAIN files = Names /\ dialog # "failed"
      /\ \A f \in Names : files[f] = Absent \/ IsFile(files[f])
  BY DEF ConfInv, NoLookupFails
<1>2. ASSUME UNCHANGED files, IsConfiguration(env'), dialog' # "failed" PROVE ConfInv'
  BY <1>1, <1>2 DEF ConfInv, NoLookupFails
<1>3. ASSUME UNCHANGED env, dialog' # "failed", NEW f, NEW w, w = Absent \/ IsFile(w),
             files' = [files EXCEPT ![f] = w]
      PROVE  ConfInv'
  <2>1. DOMAIN files' = Names
    BY <1>1, <1>3
  <2>2. \A g \in Names : files'[g] = IF g = f THEN w ELSE files[g]
    BY <1>1, <1>3
  <2> QED BY <1>1, <1>3, <2>1, <2>2 DEF ConfInv, NoLookupFails
<1>4. CASE Start
  <2>1. dialog' = "none" /\ env' = Loaded(files[StdName]) /\ UNCHANGED files
    BY <1>4 DEF Start
  <2>2. files[StdName] = Absent \/ IsFile(files[StdName])
    BY <1>1, FilesAssumption
  <2>3. IsConfiguration(env')
    BY <2>1, <2>2, LoadedIsConfiguration
  <2> QED BY <1>2, <2>1, <2>3
<1>5. CASE Down \/ Up \/ PageDown \/ PageUp \/ End \/ Home
  <2>1. PICK c : MoveTo(c)
    BY <1>5 DEF Down, Up, PageDown, PageUp, End, Home
  <2>2. UNCHANGED <<env, dialog>> /\ UNCHANGED files
    BY <2>1, KeyIs DEF MoveTo, Do
  <2> QED BY <1>1, <1>2, <2>2
<1>6. CASE Space \/ Enter \/ Leave \/ ShowAll \/ \E v \in 0 .. 2 : SetTriVal(v)
  BY <1>2, <1>6, KeyFinds
<1>7. ASSUME NEW t \in Terminals, Resize(t) \/ ResizeJump(t) PROVE ConfInv'
  BY <1>1, <1>2, <1>7 DEF Resize, ResizeJump, Rest, Unsearched, values
<1>8. CASE Quit
  BY <1>1, <1>2, <1>8 DEF Quit, values
<1>9. CASE QuitSave
  BY <1>3, <1>9, WriteConfigIsFile DEF QuitSave, values
<1>10. ASSUME NEW f \in Names, Save(f) PROVE ConfInv'
  BY <1>1, <1>3, <1>10, WriteConfigIsFile DEF Save, values
<1>11. ASSUME NEW f \in Names, SaveFails(f) PROVE ConfInv'
  <2>1. UNCHANGED env /\ UNCHANGED dialog
    BY <1>11 DEF SaveFails, values
  <2>2. PICK w : /\ files' = [files EXCEPT ![f] = w]
                 /\ \/ w = Absent
                    \/ \E n \in CutLines : n < Len(WriteConfig(env)) /\ w = CutAfter(WriteConfig(env), n)
    BY <1>11, Zenon DEF SaveFails
  <2>3. w = Absent \/ IsFile(w)
    BY <2>2, WriteConfigIsFile, CutAfterIsFile, FilesAssumption
  <2> QED BY <1>1, <1>3, <2>1, <2>2, <2>3
<1>12. ASSUME NEW f \in Names, Load(f) PROVE ConfInv'
  BY <1>2, <1>12, LoadFinds
<1>13. CASE OpenJump \/ MoveInMatches \/ CancelJump
  BY <1>1, <1>2, <1>13 DEF OpenJump, MoveInMatches, CancelJump, CloseJump, Unsearched, values
<1>14. CASE Jump
  BY <1>1, <1>2, <1>14, JumpFinds
<1>15. ASSUME NEW found \in Searches, Search(found) PROVE ConfInv'
  BY <1>1, <1>2, <1>15 DEF Search, Unsearched, values
<1>16. CASE UNCHANGED mvars
  BY <1>1, <1>2, <1>16 DEF mvars, values
<1> QED
  BY <1>4, <1>5, <1>6, <1>7, <1>8, <1>9, <1>10, <1>11, <1>12, <1>13, <1>14, <1>15, <1>16
  DEF MenuNext

\* Before the first session.
LEMMA InitFinds ==
    ASSUME IsTree, NEW Order, Ordered(Order), MenuInit
    PROVE  ConfInv
<1>1. /\ files \in [Names -> InitFiles] /\ env = Loaded(Absent) /\ dialog = "done"
  BY DEF MenuInit
<1>2. IsConfiguration(env)
  BY <1>1, LoadedIsConfiguration
<1> QED BY <1>1, <1>2, FilesAssumption DEF ConfInv, NoLookupFails, IsFile

----------------------------------------------------------------------------
(* No change is lost.                                                       *)

\* What a function of the interface leaves alone, or notes as unsaved.
Leaves(u, to) == IsScreen(to) /\ to.env = u.env /\ to.changed = u.changed
Notes(u, to)  == IsScreen(to) /\ IsConfiguration(to.env) /\ to.changed = TRUE

\* _update_menu() changes what is shown.
LEMMA UpdateMenuLeaves ==
    ASSUME NEW u, IsScreen(u), NEW to \in UpdateMenu(u)
    PROVE  Leaves(u, to)
<1> DEFINE list == ShownNodes(u.env, u.showAll, u.menu)
           in == [u EXCEPT !.shown = list,
                           !.cur = Main!OnLine(IndexOf(list, Selected(u)), ScreenRow(u))]
<1>1. to = IF ~IsIn(Selected(u), list) THEN Failed(u) ELSE in
  BY DEF UpdateMenu
<1>2. Leaves(u, in) /\ Leaves(u, Failed(u))
  BY DEF Leaves, IsScreen, Failed
<1> HIDE DEF in, list
<1> QED BY <1>1, <1>2

\* So does entering a menu ...
LEMMA EnterMenuLeaves ==
    ASSUME NEW u, IsScreen(u), NEW n, NEW to \in EnterMenu(u, n)
    PROVE  Leaves(u, to)
<1> DEFINE Lists == {ShownNodes(u.env, u.showAll, m) : m \in {n} \cap IsMenuconfig} \ {<<>>}
           In(list) == [u EXCEPT !.rows = Append(@, ScreenRow(u)), !.menu = n,
                                 !.shown = list, !.cur = Main!FirstRow]
           Out(in) == IF ItemOf[n] \in Choices THEN SelectSelectedChoiceSym(in) ELSE {in}
<1>1. EnterMenu(u, n) = UNION {Out(in) : in \in {In(list) : list \in Lists}}
  BY DEF EnterMenu
<1> HIDE DEF Lists, In, Out
<1>2. PICK list \in Lists : to \in Out(In(list))
  BY <1>1
<1> DEFINE in == In(list)
<1>3. Leaves(u, in)
  BY DEF Leaves, IsScreen, In
<1> HIDE DEF in
<1>4. CASE to = in
  BY <1>3, <1>4
<1>5. CASE to \in SelectSelectedChoiceSym(in)
  <2>1. PICK s, there :
            to = IF there = <<>> THEN in
                 ELSE [in EXCEPT !.cur = Centered(IndexOf(in.shown, there[1]), in.shown)]
    BY <1>5 DEF SelectSelectedChoiceSym
  <2> DEFINE moved == [in EXCEPT !.cur = Centered(IndexOf(in.shown, there[1]), in.shown)]
  <2>2. Leaves(in, moved)
    BY <1>3 DEF Leaves, IsScreen
  <2> HIDE DEF moved
  <2>3. to = in \/ to = moved
    BY <2>1 DEF moved
  <2> QED BY <1>3, <2>2, <2>3 DEF Leaves
<1> QED BY <1>2, <1>4, <1>5 DEF Out, in

\* ... leaving it ...
LEMMA LeaveMenuLeaves ==
    ASSUME NEW u, IsScreen(u), NEW to \in LeaveMenu(u)
    PROVE  Leaves(u, to)
<1> DEFINE list == ShownNodes(u.env, u.showAll, ParentMenu[u.menu])
           in == [u EXCEPT !.menu = ParentMenu[u.menu], !.shown = list,
                     !.cur = IF u.rows = <<>> THEN Centered(IndexOf(list, u.menu), list)
                             ELSE Main!OnLine(IndexOf(list, u.menu), LineInParent(u)),
                     !.rows = IF @ = <<>> THEN @ ELSE Seqs!Front(@)]
<1>1. to = u \/ to = Failed(u) \/ to = in
  BY DEF LeaveMenu
<1>2. Leaves(u, in) /\ Leaves(u, Failed(u)) /\ Leaves(u, u)
  BY DEF Leaves, IsScreen, Failed
<1> HIDE DEF in, list
<1> QED BY <1>1, <1>2

\* ... and show-all.
LEMMA ToggleShowAllLeaves ==
    ASSUME NEW u, IsScreen(u), NEW to \in ToggleShowAll(u)
    PROVE  Leaves(u, to)
<1> DEFINE list == ShownNodes(u.env, ~u.showAll, u.menu)
           near == Those(FromSelected(u), Seqs!ToSet(list))
           kept == [u EXCEPT !.showAll = TRUE]
           in == [u EXCEPT !.showAll = ~@, !.shown = list,
                           !.cur = Main!OnLine(IndexOf(list, near[1]), ScreenRow(u))]
<1>1. to = IF near = <<>> THEN kept ELSE in
  BY DEF ToggleShowAll
<1>2. Leaves(u, in) /\ Leaves(u, kept)
  BY DEF Leaves, IsScreen
<1> HIDE DEF in, kept, near
<1> QED BY <1>1, <1>2

\* _set_val() notes a change.
LEMMA SetValNotes ==
    ASSUME IsTree, NEW Order, Ordered(Order), NEW u, IsScreen(u), IsConfiguration(u.env),
           NEW i \in Items, NEW v, NEW to \in SetVal(u, i, v)
    PROVE  Leaves(u, to) \/ Notes(u, to)
<1>1. CASE ValueOf(u.env, i) = v
  BY <1>1 DEF SetVal, Leaves
<1>2. CASE ValueOf(u.env, i) # v
  <2> DEFINE in == [u EXCEPT !.env = WithValue(u.env, i, v), !.changed = TRUE]
  <2>1. to \in UpdateMenu(in)
    BY <1>2 DEF SetVal
  <2>2. IsScreen(in) /\ in.env = WithValue(u.env, i, v) /\ in.changed = TRUE
    BY DEF IsScreen
  <2>3. IsConfiguration(WithValue(u.env, i, v))
    BY WithValueIsConfiguration
  <2> HIDE DEF in
  <2> QED BY <2>1, <2>2, <2>3, UpdateMenuLeaves DEF Leaves, Notes
<1> QED BY <1>1, <1>2

\* And so does _change_node().
LEMMA ChangeNodeNotes ==
    ASSUME IsTree, NEW Order, Ordered(Order), NEW u, IsScreen(u), IsConfiguration(u.env),
           NEW n, ItemOf[n] \in Items, NEW end \in ChangeNode(u, n)
    PROVE  Leaves(u, end) \/ Notes(u, end)
<1> DEFINE next == NextValues(AssignableOf(u.env, ItemOf[n]), ValueOf(u.env, ItemOf[n]))
           Stays(to) == to.failed \/ ~IsYModeChoiceSym(to.env, ItemOf[n]) \/ Children[n] # <<>>
           Ends(to) == IF Stays(to) THEN {to} ELSE LeaveMenu(to)
           Sets == UNION {SetVal(u, ItemOf[n], v) : v \in next}
<1>1. ChangeNode(u, n) = IF next = {} THEN {Failed(u)} ELSE UNION {Ends(to) : to \in Sets}
  BY DEF ChangeNode
<1> HIDE DEF next, Ends
<1>2. CASE next = {}
  <2>1. end = Failed(u)
    BY <1>1, <1>2
  <2> QED BY <2>1 DEF Failed, Leaves, IsScreen
<1>3. CASE next # {}
  <2>1. PICK v \in next : \E to \in SetVal(u, ItemOf[n], v) : end \in Ends(to)
    BY <1>1, <1>3
  <2>2. PICK to \in SetVal(u, ItemOf[n], v) : end \in Ends(to)
    BY <2>1
  <2>3. Leaves(u, to) \/ Notes(u, to)
    BY SetValNotes
  <2>4. end = to \/ end \in LeaveMenu(to)
    BY <2>2 DEF Ends
  <2>5. IsScreen(to)
    BY <2>3 DEF Leaves, Notes
  <2>6. end = to \/ Leaves(to, end)
    BY <2>4, <2>5, LeaveMenuLeaves
  <2> QED BY <2>3, <2>6 DEF Leaves, Notes
<1> QED BY <1>2, <1>3

\* The values, the files, and what they have in common.
SavedInv ==
    /\ IsConfiguration(env)
    /\ DOMAIN files = Names /\ name \in Names
    /\ \A f \in Names : files[f] = Absent \/ IsFile(files[f])
    /\ dialog \in {"none", "jump"} /\ ~changed /\ Intact(files[name]) =>
          SameValues(env, Loaded(files[name]))

\* A key that enters, leaves or changes something.
LEMMA KeyNotes ==
    ASSUME IsTree, NEW Order, Ordered(Order), SavedInv,
           Space \/ Enter \/ Leave \/ ShowAll \/ \E v \in 0 .. 2 : SetTriVal(v)
    PROVE  SavedInv'
<1>1. Key /\ IsConfiguration(env)
  BY DEF Space, Enter, Leave, ShowAll, SetTriVal, SavedInv
<1>2. IsScreen(Screen) /\ Screen.env = env /\ Screen.changed = changed
  BY DEF Screen, IsScreen
<1> DEFINE n == Selected(Screen)
<1>3. PICK to : /\ Do(to)
                /\ \/ to \in EnterMenu(Screen, n)
                   \/ Changeable(env, n) /\ to \in ChangeNode(Screen, n)
                   \/ ItemOf[n] \in Items /\ \E v \in AssignableOf(env, ItemOf[n]) :
                         to \in SetVal(Screen, ItemOf[n], v)
                   \/ to \in LeaveMenu(Screen)
                   \/ to \in ToggleShowAll(Screen)
  BY Zenon DEF Space, Enter, Leave, ShowAll, SetTriVal, DoOne
<1> HIDE DEF n
<1>4. Leaves(Screen, to) \/ Notes(Screen, to)
  <2>1. ASSUME to \in EnterMenu(Screen, n) PROVE Leaves(Screen, to)
    BY <1>2, <2>1, EnterMenuLeaves
  <2>2. ASSUME Changeable(env, n), to \in ChangeNode(Screen, n)
        PROVE  Leaves(Screen, to) \/ Notes(Screen, to)
    BY <1>1, <1>2, <2>2, ChangeNodeNotes DEF Changeable
  <2>3. ASSUME ItemOf[n] \in Items, NEW v \in AssignableOf(env, ItemOf[n]),
               to \in SetVal(Screen, ItemOf[n], v)
        PROVE  Leaves(Screen, to) \/ Notes(Screen, to)
    BY <1>1, <1>2, <2>3, SetValNotes
  <2>4. ASSUME to \in LeaveMenu(Screen) PROVE Leaves(Screen, to)
    BY <1>2, <2>4, LeaveMenuLeaves
  <2>5. ASSUME to \in ToggleShowAll(Screen) PROVE Leaves(Screen, to)
    BY <1>2, <2>5, ToggleShowAllLeaves
  <2> QED BY <1>3, <2>1, <2>2, <2>3, <2>4, <2>5
<1>5. env' = to.env /\ changed' = to.changed /\ UNCHANGED files /\ UNCHANGED name
  BY <1>3 DEF Do, Becomes
<1>6. CASE Leaves(Screen, to)
  <2>1. UNCHANGED env /\ UNCHANGED changed /\ dialog \in {"none", "jump"}
    BY <1>1, <1>2, <1>5, <1>6 DEF Leaves, Key
  <2> QED BY <1>5, <2>1 DEF SavedInv
<1>7. CASE Notes(Screen, to)
  BY <1>5, <1>7 DEF SavedInv, Notes
<1> QED BY <1>4, <1>6, <1>7

\* Loading a file over unsaved changes.
LEMMA LoadNotes ==
    ASSUME IsTree, NEW Order, Ordered(Order), SavedInv, NEW f \in Names, Load(f)
    PROVE  SavedInv'
<1>1. Key /\ files[f] # Absent /\ UNCHANGED files /\ name' = f
  BY DEF Load
<1> DEFINE x == Replaced(env, files[f])
           u == [Screen EXCEPT !.env = x, !.changed = NeedsSave(x, files[f])]
           list == ShownNodes(x, showAll, menu)
           v == [u EXCEPT !.showAll = @ \/ ~IsIn(Selected(u), list)]
<1>2. PICK to \in UpdateMenu(v) : Becomes(to)
  BY DEF Load
<1>3. IsScreen(Screen)
  BY DEF Screen, IsScreen
<1>4. IsScreen(u) /\ u.env = x /\ u.changed = NeedsSave(x, files[f])
  BY <1>3 DEF IsScreen
<1> HIDE DEF u, list
<1>5. IsScreen(v) /\ v.env = u.env /\ v.changed = u.changed
  BY <1>4 DEF IsScreen
<1> HIDE DEF v
<1>6. env' = x /\ changed' = NeedsSave(x, files[f])
  BY <1>2, <1>4, <1>5, UpdateMenuLeaves DEF Leaves, Becomes
<1>7. IsConfiguration(env) /\ IsFile(files[f])
  BY <1>1 DEF SavedInv
<1>8. IsConfiguration(x)
  BY <1>7, ReplacedIsConfiguration
<1>9. ~NeedsSave(x, files[f]) => SameValues(x, Loaded(files[f]))
  BY <1>1, <1>7, ReplacedIsLoaded
<1> HIDE DEF x
<1> QED BY <1>1, <1>6, <1>8, <1>9 DEF SavedInv

\* Every step.
LEMMA NextNotes ==
    ASSUME IsTree, NEW Order, Ordered(Order),
           \A z : IsConfiguration(z) => ModeIsInferred(z) /\ DefaultsReturn(z),
           SavedInv, [MenuNext]_mvars
    PROVE  SavedInv'
<1>1. /\ IsConfiguration(env) /\ DOMAIN files = Names /\ name \in Names
      /\ \A f \in Names : files[f] = Absent \/ IsFile(files[f])
  BY DEF SavedInv
<1>2. ASSUME UNCHANGED <<files, env, changed, name>>,
             dialog' \in {"none", "jump"} => dialog \in {"none", "jump"}
      PROVE  SavedInv'
  BY <1>2 DEF SavedInv
<1>3. ASSUME UNCHANGED env, NEW f \in Names, NEW w, w = Absent \/ IsFile(w),
             files' = [files EXCEPT ![f] = w], name' \in Names,
             dialog' \in {"none", "jump"} /\ ~changed' /\ Intact(files'[name']) =>
                SameValues(env, Loaded(files'[name']))
      PROVE  SavedInv'
  <2>1. DOMAIN files' = Names
    BY <1>1, <1>3
  <2>2. \A g \in Names : files'[g] = IF g = f THEN w ELSE files[g]
    BY <1>1, <1>3
  <2>3. \A g \in Names : files'[g] = Absent \/ IsFile(files'[g])
    BY <1>1, <1>3, <2>2
  <2> QED BY <1>1, <1>3, <2>1, <2>3 DEF SavedInv
<1>4. CASE Start
  <2>1. env' = Loaded(files[StdName]) /\ UNCHANGED files /\ name' = StdName
    BY <1>4 DEF Start
  <2>2. StdName \in Names /\ (files[StdName] = Absent \/ IsFile(files[StdName]))
    BY <1>1, FilesAssumption
  <2>3. IsConfiguration(env')
    BY <2>1, <2>2, LoadedIsConfiguration
  <2>4. SameValues(env', Loaded(files'[name']))
    BY <2>1 DEF SameValues
  <2> QED BY <1>1, <2>1, <2>2, <2>3, <2>4 DEF SavedInv
<1>5. CASE Down \/ Up \/ PageDown \/ PageUp \/ End \/ Home
  <2>1. PICK c : MoveTo(c)
    BY <1>5 DEF Down, Up, PageDown, PageUp, End, Home
  <2> DEFINE u == [Screen EXCEPT !.cur = c]
  <2>2. u.env = env /\ u.changed = changed
    BY DEF Screen
  <2>3. Becomes(u) /\ UNCHANGED files /\ UNCHANGED name /\ Key
    BY <2>1 DEF MoveTo, Do
  <2> HIDE DEF u
  <2>4. UNCHANGED env /\ UNCHANGED changed
    BY <2>2, <2>3 DEF Becomes
  <2> QED BY <1>2, <2>3, <2>4 DEF Key
<1>6. CASE Space \/ Enter \/ Leave \/ ShowAll \/ \E v \in 0 .. 2 : SetTriVal(v)
  BY <1>6, KeyNotes
<1>7. ASSUME NEW t \in Terminals, Resize(t) \/ ResizeJump(t) PROVE SavedInv'
  BY <1>2, <1>7 DEF Resize, ResizeJump, Rest, Unsearched, values
<1>8. CASE Quit
  BY <1>2, <1>8 DEF Quit, values
<1>9. CASE QuitSave
  BY <1>1, <1>3, <1>9, WriteConfigIsFile DEF QuitSave, values
<1>10. ASSUME NEW f \in Names, Save(f) PROVE SavedInv'
  <2> DEFINE w == WriteConfig(env)
  <2>1. UNCHANGED env /\ name' = f /\ files' = [files EXCEPT ![f] = w]
    BY <1>10 DEF Save, values
  <2>2. IsFile(w)
    BY WriteConfigIsFile
  <2>3. Intact(w) => SameValues(env, Loaded(w))
    BY <1>1, WrittenIsLoaded DEF Intact
  <2> HIDE DEF w
  <2>4. files'[name'] = w
    BY <1>1, <2>1
  <2> QED BY <1>3, <2>1, <2>2, <2>3, <2>4
<1>11. ASSUME NEW f \in Names, SaveFails(f) PROVE SavedInv'
  <2>1. UNCHANGED env /\ UNCHANGED name /\ UNCHANGED changed /\ UNCHANGED dialog
    BY <1>11 DEF SaveFails, values
  <2>2. PICK w : /\ files' = [files EXCEPT ![f] = w]
                 /\ \/ w = Absent
                    \/ \E n \in CutLines : n < Len(WriteConfig(env)) /\ w = CutAfter(WriteConfig(env), n)
    BY <1>11, Zenon DEF SaveFails
  <2>3. (w = Absent \/ IsFile(w)) /\ ~Intact(w)
    BY <2>2, WriteConfigIsFile, CutAfterIsFile, FilesAssumption DEF Intact
  <2>4. Intact(files'[name]) => files'[name] = files[name]
    BY <1>1, <2>2, <2>3
  <2>5. dialog' \in {"none", "jump"} /\ ~changed' /\ Intact(files'[name']) =>
           SameValues(env, Loaded(files'[name']))
    BY <2>1, <2>4 DEF SavedInv
  <2> QED BY <1>1, <1>3, <2>1, <2>2, <2>3, <2>5
<1>12. ASSUME NEW f \in Names, Load(f) PROVE SavedInv'
  BY <1>12, LoadNotes
<1>13. CASE OpenJump \/ MoveInMatches \/ CancelJump \/ Jump
  BY <1>2, <1>13 DEF OpenJump, MoveInMatches, CancelJump, Jump, CloseJump, Unsearched, values,
     Key, InJump
<1>14. ASSUME NEW found \in Searches, Search(found) PROVE SavedInv'
  BY <1>2, <1>14 DEF Search, Unsearched, values
<1>15. CASE UNCHANGED mvars
  BY <1>2, <1>15 DEF mvars, values
<1> QED
  BY <1>4, <1>5, <1>6, <1>7, <1>8, <1>9, <1>10, <1>11, <1>12, <1>13, <1>14, <1>15 DEF MenuNext

\* Before the first session.
LEMMA InitNotes ==
    ASSUME IsTree, NEW Order, Ordered(Order), MenuInit
    PROVE  SavedInv
<1>1. /\ files \in [Names -> InitFiles] /\ env = Loaded(Absent) /\ dialog = "done" /\ name = StdName
  BY DEF MenuInit
<1>2. IsConfiguration(env)
  BY <1>1, LoadedIsConfiguration
<1> QED BY <1>1, <1>2, FilesAssumption DEF SavedInv, IsFile

----------------------------------------------------------------------------
(* The theorems.                                                            *)

(***************************************************************************)
(* For every tree, terminal and file: whenever a key is awaited, the rows  *)
(* in the list are those that the values make visible in the current menu. *)
(* The tree has no choice below a location of itself, where values could   *)
(* not be calculated, and no symbol at two places of a choice, where       *)
(* _toggle_show_all() would take the new list for empty.                   *)
(***************************************************************************)
THEOREM ScreenIsCurrentThm ==
    ASSUME NoChoiceInItself, OncePerChoice
    PROVE  MenuSpec => []ScreenIsCurrent
<1>1. MenuInit => IInv
  BY InitIs
<1>2. IInv /\ [MenuNext]_mvars => IInv'
  BY NextIs
<1>3. IInv => ScreenIsCurrent
  BY DEF IInv, ScreenInv, ScreenIsCurrent, Key
<1> QED BY <1>1, <1>2, <1>3, PTL DEF MenuSpec

(***************************************************************************)
(* The main list is a ListCursor: the cursor stays where it is as long as  *)
(* the same list is shown, and every other list is shown with its selected *)
(* row on a line of the window.                                            *)
(***************************************************************************)
THEOREM MainListRefinesThm ==
    ASSUME NoChoiceInItself, OncePerChoice
    PROVE  MenuSpec => MainListRefines
<1>1. MenuInit => IInv /\ Main!Init
  BY InitIs
<1>2. IInv /\ [MenuNext]_mvars => IInv' /\ [Main!Next]_(Main!vars)
  BY NextIs DEF MainStep
<1> QED BY <1>1, <1>2, PTL DEF MenuSpec, MainListRefines, Main!Spec

(***************************************************************************)
(* And so is the list of matches of the jump-to dialog; with no match it   *)
(* is the one row that says so.                                            *)
(***************************************************************************)
THEOREM MatchListRefinesThm ==
    ASSUME NoChoiceInItself, OncePerChoice
    PROVE  MenuSpec => MatchListRefines
<1>1. MenuInit => IInv /\ Found!Init
  BY InitIs
<1>2. IInv /\ [MenuNext]_mvars => IInv' /\ [Found!Next]_(Found!vars)
  BY NextIs DEF MatchStep
<1> QED BY <1>1, <1>2, PTL DEF MenuSpec, MatchListRefines, Found!Spec

(***************************************************************************)
(* The selected row of each list exists and is inside its window, whatever *)
(* the keys, the changes of values, the files loaded and the resizes, those *)
(* while a dialog hides the main list included.  The keys also move the    *)
(* cursor of a list of matches that is empty, to rows there are not; when  *)
(* something matches again the cursor is a match.                          *)
(***************************************************************************)
THEOREM CursorsInWindowThm ==
    ASSUME NoChoiceInItself, OncePerChoice
    PROVE  MenuSpec =>
               /\ []Main!InWindow(Cursor, Len(shown), height)
               /\ [](matches # <<>> =>
                        Found!InWindow(Found!At(msel, mtop), Len(matches), mheight))
<1>1. MenuInit => IInv
  BY InitIs
<1>2. IInv /\ [MenuNext]_mvars => IInv'
  BY NextIs
<1>3. IInv => Main!InWindow(Cursor, Len(shown), height)
  BY DEF IInv, MP!IInv, MP!Fits, MP!InWindow, Main!InWindow, MP!Cursor, Cursor, MP!At, Main!At
<1>4. IInv => (matches # <<>> => Found!InWindow(Found!At(msel, mtop), Len(matches), mheight))
  <2> SUFFICES ASSUME IInv, matches # <<>>
               PROVE  Found!InWindow(Found!At(msel, mtop), Len(matches), mheight)
    OBVIOUS
  <2>1. AtLeastOne(Len(matches)) = Len(matches)
    BY DEF IInv, MatchInv, AtLeastOne
  <2>2. FP!InWindow(FP!At(msel, mtop), Len(matches), mheight)
    BY <2>1 DEF IInv, FP!IInv, FP!Fits, FP!Cursor, MatchRow, MatchTop
  <2> QED BY <2>2 DEF FP!InWindow, Found!InWindow, FP!At, Found!At
<1> QED BY <1>1, <1>2, <1>3, <1>4, PTL DEF MenuSpec

(***************************************************************************)
(* "the implementation relies on always having a selected node": in every  *)
(* acyclic tree no list.index() of the interface fails.  The menu left is  *)
(* in the list of its parent, the node whose value is changed is still     *)
(* shown after the change, the value is among the assignable ones, and the *)
(* node jumped to is in its menu.  What the interface relies on is stated  *)
(* of all configurations: a hidden menu shows nothing, what is shown of a  *)
(* visible symbol has a visible prompt, no default exceeds a visibility of *)
(* m.  A tree can break each of these, and then the lookup fails.          *)
(***************************************************************************)
THEOREM NoLookupFailsThm ==
    ASSUME IsTree, NEW CONSTANT Order, Ordered(Order), NoChoiceInItself, OncePerChoice,
           \A z : IsConfiguration(z) =>
                     HiddenMenusAreEmpty(z) /\ DefaultsFit(z) /\ VisibleIsShown(z)
    PROVE  MenuSpec => []NoLookupFails
<1>0. Reliable
  BY DEF Reliable
<1>1. MenuInit => IInv /\ ConfInv
  BY InitIs, InitFinds
<1>2. IInv /\ ConfInv /\ [MenuNext]_mvars => IInv' /\ ConfInv'
  BY <1>0, NextIs, NextFinds
<1>3. ConfInv => NoLookupFails
  BY DEF ConfInv
<1> QED BY <1>1, <1>2, <1>3, PTL DEF MenuSpec

(***************************************************************************)
(* "Save configuration?" is only skipped when nothing would be lost: while *)
(* _conf_changed is False, the .config file would give a new session the   *)
(* values there are now, after any history of changes, saves, failed saves *)
(* and files loaded over other user values.  A file that leaves nothing to *)
(* save says everything: what load_config() keeps of the user values that  *)
(* were there before is not looked at.  The tree is one whose files can be *)
(* read back, as in RoundTripThm; in others a saved change may be lost.    *)
(***************************************************************************)
THEOREM NoChangeIsLostThm ==
    ASSUME IsTree, NEW CONSTANT Order, Ordered(Order),
           \A z : IsConfiguration(z) => ModeIsInferred(z) /\ DefaultsReturn(z)
    PROVE  MenuSpec => []NoChangeIsLost
<1>1. MenuInit => SavedInv
  BY InitNotes
<1>2. SavedInv /\ [MenuNext]_mvars => SavedInv'
  BY NextNotes
<1>3. SavedInv => NoChangeIsLost
  BY DEF SavedInv, NoChangeIsLost, Key
<1> QED BY <1>1, <1>2, <1>3, PTL DEF MenuSpec
=============================================================================
