------------------------------ MODULE Guiconfig ------------------------------
(***************************************************************************)
(* The graphical interface of guiconfig.py, composed with the values, the  *)
(* menu tree and the files of kconfiglib.py: one action per callback.  The *)
(* state is the Treeview - which items are attached where, which are open, *)
(* which one has the focus - next to the configuration it displays.  Menus *)
(* are populated when they are opened, and every change of a value tears   *)
(* the tree down and puts it together again.                               *)
(*                                                                         *)
(* env holds a configuration with every attribute calculated.  The         *)
(* selected item is always the focused one.  The position of the scroll    *)
(* bar is left out: any row may be the one in the middle of the window.    *)
(***************************************************************************)
EXTENDS MenuNodes

CONSTANTS
    Names, StdName,     \* bound: file names, standard_config_filename() among them
    InitFiles,          \* bound: contents of the files before the first run
    CutLines,           \* bound: lines written when a write breaks off
    Searchable          \* bound: nodes looked for in the jump-to dialog

VARIABLES
    menu,               \* _cur_menu, ignored outside single-menu mode: TopNode there
    showAll, single,    \* _show_all, _single_menu
    kids,               \* the items attached to each item; to TopNode: to the root
    open,               \* the open items, among those that may have children
    focus,              \* the selected and focused item
    changed,            \* _conf_changed
    files,              \* contents of each file
    name,               \* _conf_filename
    mode                \* "main", "jump", and at the end "done" or, if a callback
                        \* raised, "failed"

ASSUME FilesAssumption ==
    /\ StdName \in Names
    /\ \A f \in InitFiles : f = Absent \/ f \in Seq(Seqs!ToSet(f))
    /\ CutLines \subseteq Nat

\* The dialog lists no top node.
ASSUME SearchAssumption == Searchable \subseteq Below

tree   == <<menu, showAll, single, kids, open, focus>>
values == <<env, wasSet, loading>>
gvars  == <<values, tree, changed, files, name, mode>>

----------------------------------------------------------------------------
(* What a menu shows.                                                       *)

ShownMenuNodes(u, m) == Rows(u.env, u.showAll, m)

----------------------------------------------------------------------------
(* The Treeview as a record u, and the outcome of each function, in a set.  *)

Window ==
    [env |-> env, menu |-> menu, showAll |-> showAll, single |-> single, kids |-> kids,
     open |-> open, focus |-> focus, changed |-> changed, failed |-> FALSE]

Failed(u) == [u EXCEPT !.failed = TRUE]

Detached == [p \in Nodes |-> <<>>]

\* The item that n is below; top is the menu shown at the root.
Place(n, top) == IF ParentOf[n] = top THEN TopNode ELSE ParentOf[n]

\* Move items, one after the other, to the end of their menus.
AddToTree(k, nodes, top) ==
    [p \in Nodes |-> Those(k[p], Nodes \ nodes)
                     \o Those(NodeOrder, {n \in nodes : Place(n, top) = p})]

BuildMenuTree(u, k) == AddToTree(k, RowNodes(u.env, u.showAll, u.menu), u.menu)

\* What is shown of the menus, and of the open ones below them.
ShownFullNodes(u, menus) ==
    LET shown[n \in Below] ==
            /\ n \in Displayed(u.env, u.showAll)
            /\ \/ ParentOf[n] \in menus
               \/ /\ ParentOf[n] \in Below
                  /\ ItemOf[ParentOf[n]] \in Syms \/ ParentOf[n] \in u.open
                  /\ shown[ParentOf[n]]
    IN  {n \in Below : shown[n]}

\* A closed menu gets a single item, so that it can be opened.
Probed(u, closed) ==
    {Head(ShownMenuNodes(u, n)) :
        n \in {n \in closed : ItemOf[n] \notin Syms /\ ShownMenuNodes(u, n) # <<>>}}

BuildFullTree(u, k, menus) ==
    LET shown == ShownFullNodes(u, menus)
    IN  AddToTree(k, shown \cup Probed(u, shown \ (menus \cup u.open)), TopNode)

Rebuilt(u, k) ==
    IF u.single THEN BuildMenuTree(u, k) ELSE BuildFullTree(u, k, {TopNode})

\* Mutant: the items are not detached first.
UpdateTreeInPlace(u) == {[u EXCEPT !.kids = Rebuilt(u, u.kids)]}

UpdateTree(u) == {[u EXCEPT !.kids = Rebuilt(u, Detached)]}

\* The item n is attached to, and those above it.
TreeParent(k, n) == {p \in Nodes : IsIn(n, k[p])}

Above(k, n) ==
    LET above[m \in Below] == UNION {{p} \cup above[p] : p \in TreeParent(k, m) \ {TopNode}}
    IN  above[n]

\* _select(): also opens every item above, without populating it.
Select(u, n) == [u EXCEPT !.focus = n, !.open = @ \cup Above(u.kids, n)]

\* The items at the root and those in open rows.
RowsOf(k, opened) ==
    LET row[n \in Below] ==
            \E p \in TreeParent(k, n) : p = TopNode \/ (p \in opened /\ row[p])
    IN  {n \in Below : row[n]}

TreeRows(u) == RowsOf(u.kids, u.open)

\* _loc_ref_item(): the selected row if it is on the screen, otherwise the one
\* in the middle; any row can be that.  On an empty tree it raises.
LocRefItems(u) == TreeRows(u)

----------------------------------------------------------------------------
(* Show-all and tree mode.                                                  *)

\* Items that show-all has added to the tree, in red.
Red(u, n) == u.showAll /\ ~Visible(u.env, n)

Siblings(u, n) == u.kids[CHOOSE p \in TreeParent(u.kids, n) : TRUE]

VisBefore(u, n) ==
    LET found[m \in Nodes] ==
            \/ \E k \in 1 .. IndexOf(Siblings(u, m), m) + 1 : ~Red(u, Siblings(u, m)[k])
            \/ \E p \in TreeParent(u.kids, m) \ {TopNode} : found[p]
    IN  found[n]

\* Goes on with the item after the parent, if there is one.
VisAfter(u, n) ==
    LET found[m \in Nodes] ==
            \/ \E k \in IndexOf(Siblings(u, m), m) + 1 .. Len(Siblings(u, m)) :
                  ~Red(u, Siblings(u, m)[k])
            \/ \E p \in TreeParent(u.kids, m) \ {TopNode} :
               \E k \in {IndexOf(Siblings(u, p), p) + 2} \cap DOMAIN Siblings(u, p) :
                  found[Siblings(u, p)[k]]
    IN  found[n]


\* An item that is not red is found around item n.
VisLocRefItem(u, n) == VisBefore(u, n) \/ VisAfter(u, n)

\* Show-all stays on if nothing would be shown.
DoShowAll(u) ==
    UNION {
        IF ShownMenuNodes(to, IF u.single THEN u.menu ELSE TopNode) = <<>>
        THEN {[u EXCEPT !.showAll = TRUE]}
        ELSE IF LocRefItems(u) = {} THEN {Failed(u)}
        ELSE UNION {IF VisLocRefItem(u, item) THEN UpdateTree(to) ELSE {Failed(to)} :
                        item \in LocRefItems(u)} :
        to \in {[u EXCEPT !.showAll = ~@]}}

EnterMenu(u, m) == UpdateTree([u EXCEPT !.menu = m])

\* Whether Enter, a click or the right key enters n: menus without a row are
\* not entered.
SingleMenuModeMenu(u, n) == u.single /\ n \in IsMenuconfig /\ ShownMenuNodes(u, n) # <<>>

EnterMenuAndSelectFirst(u, n) ==
    {Select(in, Head(in.kids[TopNode])) : in \in EnterMenu(u, n)}

LeaveMenu(u) ==
    IF u.menu = TopNode THEN {u}
    ELSE {Select(out, u.menu) : out \in EnterMenu(u, ParentMenu[u.menu])}

\* The items above n, and among them the first closed one and those below it.
Parents[n \in Below] ==
    IF ParentOf[n] = TopNode THEN {} ELSE Parents[ParentOf[n]] \cup {ParentOf[n]}

FromFirstClosed(u, n) ==
    {m \in Parents[n] : \E p \in Parents[n] : p \notin u.open /\ ~Before(m, p)}

Menus(nodes) == {n \in nodes : ItemOf[n] \notin Syms}

\* Mutant: the menus below the first closed one are left unpopulated.
LoadParentsFirst(u, n) ==
    LET from == FromFirstClosed(u, n)
    IN  [u EXCEPT !.kids =
            BuildFullTree(u, @, Menus({m \in from : \A p \in from : ~Before(p, m)}))]

LoadParents(u, n) ==
    [u EXCEPT !.kids = BuildFullTree(u, @, Menus(FromFirstClosed(u, n)))]

JumpTo(u, n) ==
    {Select(to, n) : to \in IF u.single THEN EnterMenu(u, ParentMenu[n]) ELSE {LoadParents(u, n)}}

DoTreeMode(u) ==
    LET switched == IF u.single THEN UpdateTree([u EXCEPT !.single = FALSE, !.menu = TopNode])
                    ELSE {[u EXCEPT !.single = TRUE]}
    IN  IF LocRefItems(u) = {} THEN {Failed(u)}
        ELSE UNION {JumpTo(to, item) : to \in switched, item \in LocRefItems(u)}

\* Turns show-all on if it takes that to show the node.
JumpToSelected(u, n) ==
    UNION {JumpTo(to, n) :
        to \in IF IsIn(n, ShownMenuNodes(u, ParentMenu[n])) THEN {u}
               ELSE IF u.single THEN {[u EXCEPT !.showAll = TRUE]}
               ELSE UpdateTree([u EXCEPT !.showAll = TRUE])}

----------------------------------------------------------------------------
(* Changing values, opening and closing items.  What does nothing has no    *)
(* outcome.                                                                 *)

\* Mutant: the change is not remembered as unsaved.
SetValForgotten(u, i, v) ==
    IF ValueOf(u.env, i) = v THEN {}
    ELSE UNION {UpdateTree([u EXCEPT !.env = x]) : x \in {WithValue(u.env, i, v)}}

\* The value is set before the reference item is looked for.
SetVal(u, i, v) ==
    IF ValueOf(u.env, i) = v THEN {}
    ELSE UNION {
        IF LocRefItems(to) = {} THEN {Failed(to)} ELSE UpdateTree(to) :
        to \in {[u EXCEPT !.env = x, !.changed = TRUE] : x \in {WithValue(u.env, i, v)}}}

\* list.index() raises if the value is not among the assignable ones.
ChangeNode(u, n) ==
    IF ~Changeable(u.env, n) THEN {}
    ELSE UNION {
        IF next = {} THEN {Failed(u)} ELSE UNION {SetVal(u, ItemOf[n], v) : v \in next} :
        next \in {NextValues(AssignableOf(u.env, ItemOf[n]), ValueOf(u.env, ItemOf[n]))}}

TreeSetVal(u, n, v) ==
    IF ItemOf[n] \in Items /\ v \in AssignableOf(u.env, ItemOf[n])
    THEN SetVal(u, ItemOf[n], v) ELSE {}

\* Opening also populates a menu.
OpenItem(u, n) ==
    {[u EXCEPT !.open = @ \cup {n},
               !.kids = IF ItemOf[n] \in Syms THEN @
                        ELSE BuildFullTree(u, @, {n})]}

TreeToggleOpen(u, n) ==
    IF n \in u.open THEN {[u EXCEPT !.open = @ \ {n}]} ELSE OpenItem(u, n)

TreeEnter(u, n) ==
    IF u.kids[n] # <<>> THEN TreeToggleOpen(u, n)
    ELSE IF SingleMenuModeMenu(u, n) THEN EnterMenuAndSelectFirst(u, n)
    ELSE ChangeNode(u, n)

TreeToggle(u, n) ==
    IF Changeable(u.env, n) THEN ChangeNode(u, n)
    ELSE IF SingleMenuModeMenu(u, n) THEN EnterMenuAndSelectFirst(u, n)
    ELSE IF u.kids[n] # <<>> THEN TreeToggleOpen(u, n)
    ELSE {}

\* The right arrow and the indicator of a row; Tk opens the item afterwards.
TreeOpen(u, n) ==
    IF u.single \/ ItemOf[n] \in Syms THEN {[u EXCEPT !.open = @ \cup {n}]} ELSE OpenItem(u, n)

----------------------------------------------------------------------------
(* Actions.                                                                 *)

Becomes(u) ==
    /\ env' = u.env
    /\ menu' = u.menu
    /\ showAll' = u.showAll
    /\ single' = u.single
    /\ kids' = u.kids
    /\ open' = u.open
    /\ focus' = u.focus
    /\ changed' = u.changed
    /\ UNCHANGED <<wasSet, loading>>

\* Without a window.
NoWindow ==
    [env |-> NoValues, menu |-> TopNode, showAll |-> FALSE, single |-> FALSE, kids |-> Detached,
     open |-> {}, focus |-> TopNode, changed |-> FALSE, failed |-> FALSE]

GuiInit ==
    /\ files \in [Names -> InitFiles] /\ name = StdName
    /\ env = NoWindow.env /\ wasSet = {} /\ loading = "no"
    /\ menu = NoWindow.menu /\ showAll = NoWindow.showAll /\ single = NoWindow.single
    /\ kids = NoWindow.kids /\ open = NoWindow.open /\ focus = NoWindow.focus
    /\ changed = NoWindow.changed
    /\ mode = "done"

\* menuconfig(): show-all is turned on if nothing is visible.
Start ==
    /\ mode \in {"done", "failed"}
    /\ \E x \in {Loaded(files[StdName])} :
       \E u \in {[NoWindow EXCEPT !.env = x, !.changed = UnsavedAtStart(x, files[StdName]),
                                  !.showAll = (Rows(x, FALSE, TopNode) = <<>>)]} :
          /\ ShownMenuNodes(u, TopNode) # <<>>
          /\ \E to \in UpdateTree(u) : Becomes(Select(to, Head(to.kids[TopNode])))
    /\ name' = StdName
    /\ mode' = "main"
    /\ UNCHANGED files

Idle == mode = "main"

\* A callback of the main window, and one of the dialog.
Do(outcomes) ==
    /\ \E to \in outcomes : Becomes(to) /\ mode' = IF to.failed THEN "failed" ELSE mode
    /\ UNCHANGED <<files, name>>

SelectRow(n) ==
    /\ Idle /\ n \in TreeRows(Window) /\ n # focus
    /\ Do({Select(Window, n)})

\* On the image of a row.
Click(n) ==
    /\ Idle /\ n \in TreeRows(Window)
    /\ \E u \in {Select(Window, n)} : \E after \in {ChangeNode(u, n)} :
          Do(IF after = {} THEN {u} ELSE after)

Enter     == Idle /\ \E u \in {Window} : Do(TreeEnter(u, focus))
Toggle    == Idle /\ \E u \in {Window} : Do(TreeToggle(u, focus))
SetTri(v) == Idle /\ \E u \in {Window} : Do(TreeSetVal(u, focus, v))

\* The left arrow and the back button in single-menu mode.
Back == Idle /\ single /\ \E u \in {Window} : Do(LeaveMenu(u))

\* The keys act on the focused item, a click on the indicator focuses it first.
OpenRow(n) ==
    /\ Idle /\ Children[n] # <<>> /\ n \in TreeRows(Window)
    /\ \E u \in {Select(Window, n)} : Do(TreeOpen(u, n))

CloseRow(n) ==
    /\ Idle /\ n \in open /\ n \in TreeRows(Window)
    /\ \E u \in {Select(Window, n)} : Do({[u EXCEPT !.open = @ \ {n}]})

RightKey ==
    /\ Idle
    /\ SingleMenuModeMenu(Window, focus)
    /\ Do(EnterMenuAndSelectFirst(Window, focus))

ShowAll  == Idle /\ \E u \in {Window} : Do(DoShowAll(u))
TreeMode == Idle /\ \E u \in {Window} : Do(DoTreeMode(u))

----------------------------------------------------------------------------
(* Files.  Minimal configurations go to another file, see KconfigFiles.     *)

Rest == <<values, tree>>

Save ==
    /\ Idle
    /\ files' = [files EXCEPT ![name] = WriteConfig(env)]
    /\ changed' = FALSE
    /\ UNCHANGED <<Rest, name, mode>>

\* Leaves _conf_changed as it is.
SaveAs(f) ==
    /\ Idle
    /\ files' = [files EXCEPT ![f] = WriteConfig(env)]
    /\ name' = f
    /\ UNCHANGED <<Rest, changed, mode>>

\* A file with the same contents is not written.  Writing another fails before
\* _save_old() has moved the old file away, which makes no difference, after
\* that, or in the middle.
SaveFails(f) ==
    /\ Idle
    /\ files[f] # WriteConfig(env)
    /\ \/ files' = [files EXCEPT ![f] = Absent]
       \/ \E n \in CutLines :
             /\ n < Len(WriteConfig(env))
             /\ files' = [files EXCEPT ![f] = CutAfter(WriteConfig(env), n)]
    /\ UNCHANGED <<Rest, changed, name, mode>>

\* Asks first if there are unsaved changes.  In single-menu mode show-all is
\* turned on if the menu would be empty.
Open(f) ==
    /\ Idle /\ files[f] # Absent
    /\ \E x \in {Replaced(env, files[f])} :
       \E u \in {[Window EXCEPT !.env = x, !.changed = NeedsSave(x, files[f])]} :
       \E to \in UpdateTree([u EXCEPT !.showAll =
                    @ \/ (single /\ ShownMenuNodes(u, menu) = <<>>)]) :
          Becomes(to)
    /\ name' = f
    /\ UNCHANGED <<files, mode>>

\* "No" to "Save changes?" or not asked.
Quit ==
    /\ Idle
    /\ Becomes(NoWindow)
    /\ mode' = "done"
    /\ UNCHANGED <<files, name>>

QuitSave ==
    /\ Idle /\ changed
    /\ files' = [files EXCEPT ![name] = WriteConfig(env)]
    /\ Becomes(NoWindow)
    /\ mode' = "done"
    /\ UNCHANGED name

----------------------------------------------------------------------------
(* The jump-to dialog.  Values can be changed in it, with the main window   *)
(* behind it.                                                               *)

InJump == mode = "jump"

OpenJump ==
    /\ Idle
    /\ mode' = "jump"
    /\ UNCHANGED <<Rest, changed, files, name>>

DialogChange(n) == InJump /\ \E u \in {Window} : Do(ChangeNode(u, n))
DialogSet(n, v) == InJump /\ \E u \in {Window} : Do(TreeSetVal(u, n, v))

Jump(n) ==
    /\ InJump
    /\ \E u \in {Window} : \E to \in JumpToSelected(u, n) : Becomes(to)
    /\ mode' = "main"
    /\ UNCHANGED <<files, name>>

CancelJump ==
    /\ InJump
    /\ mode' = "main"
    /\ UNCHANGED <<Rest, changed, files, name>>

----------------------------------------------------------------------------

GuiNext ==
    \/ Start
    \/ \E n \in Nodes : SelectRow(n) \/ Click(n) \/ OpenRow(n) \/ CloseRow(n)
    \/ Enter \/ Toggle \/ Back \/ RightKey \/ ShowAll \/ TreeMode
    \/ \E v \in 0 .. 2 : SetTri(v)
    \/ Save \/ Quit \/ QuitSave
    \/ \E f \in Names : SaveAs(f) \/ SaveFails(f) \/ Open(f)
    \/ OpenJump \/ CancelJump
    \/ \E n \in Searchable : DialogChange(n) \/ Jump(n) \/ \E v \in 0 .. 2 : DialogSet(n, v)

GuiSpec == GuiInit /\ [][GuiNext]_gvars

----------------------------------------------------------------------------
(* Properties.                                                              *)

Used == mode \in {"main", "jump"}

ShownChildren(p) == Those(NodeOrder, {n \in Displayed(env, showAll) : ParentOf[n] = p})

\* The configurations x in which hidden menus, choices and comments show
\* nothing when entered.
HiddenMenusAreEmpty(x) ==
    \A m \in Below : ItemOf[m] \notin Syms /\ ~Visible(x, m) => Rows(x, FALSE, m) = <<>>

(***************************************************************************)
(* Lazily populated or rebuilt, the tree shows what the values at this     *)
(* moment make visible, each node once, in order and under its parent: the *)
(* items at the root and in every open row are exactly the nodes to be     *)
(* shown there, and a closed menu can be opened exactly if something is in *)
(* it.  In single-menu mode only the rows of the current menu are there    *)
(* (_tree_toggle_open: "Can only get here in full-tree mode").             *)
(***************************************************************************)
TreeIsCurrent ==
    Used =>
        /\ kids[TopNode] = ShownChildren(IF single THEN menu ELSE TopNode)
        /\ \A n \in TreeRows(Window) :
              IF single /\ n \in IsMenuconfig THEN kids[n] = <<>>
              ELSE IF n \in open \/ ItemOf[n] \in Syms THEN kids[n] = ShownChildren(n)
              ELSE (kids[n] = <<>>) = (ShownChildren(n) = <<>>)


SelectsARow ==
    Used /\ Used' /\ (menu' # menu \/ single' # single \/ (InJump /\ focus' # focus)) =>
        focus' \in RowsOf(kids', open')

(***************************************************************************)
(* Jumping to a node, switching between full tree and single menu, and     *)
(* entering and leaving a menu leave the selection on a row of the tree,   *)
(* however many closed and unpopulated menus lead to it and whether or not *)
(* the node is visible; not if hidden menus have something to show, or if  *)
(* a change has hidden the current menu, which its parent does not list.   *)
(***************************************************************************)
SelectionIsOnARow ==
    [][HiddenMenusAreEmpty(env) /\ (menu = TopNode \/ menu \in Displayed(env, showAll))
          => SelectsARow]_gvars

(***************************************************************************)
(* "Save changes?" is only skipped when nothing would be lost: if          *)
(* _conf_changed is False, the file gives every symbol the value it has    *)
(* now, changes made in the jump-to dialog, files opened over others and   *)
(* failing saves included; that one has moved the file away or cut it      *)
(* short was reported.                                                     *)
(***************************************************************************)
NoChangeIsLost ==
    Used /\ ~changed /\ Intact(files[name]) => SameValues(env, Loaded(files[name]))
=============================================================================
