----------------------------- MODULE Menuconfig ------------------------------
(***************************************************************************)
(* The terminal interface of menuconfig.py, composed with the values, the  *)
(* menu tree and the files of kconfiglib.py: one action per key of the     *)
(* main display and of its dialogs.                                        *)
(*                                                                         *)
(* env holds a configuration with every attribute calculated, as the       *)
(* display leaves it; MenuNodes and KconfigFiles say what a change of a    *)
(* user value makes of it.  A session starts from the .config file and     *)
(* ends with "done".  Rows are numbered from 0, as in the code.            *)
(***************************************************************************)
EXTENDS MenuNodes

CONSTANTS
    Terminals,          \* bound: heights of the terminal
    Names, StdName,     \* bound: file names, standard_config_filename() among them
    InitFiles,          \* bound: contents of the files before the first run
    CutLines,           \* bound: lines written when a write breaks off
    Searches,           \* bound: sets of nodes a search text matches
    SearchOrder,        \* _sorted_sc_nodes() and _sorted_menu_comment_nodes()
    ScrollOffset,       \* _SCROLL_OFFSET
    MaxStray            \* bound: how far the cursor moves from a list with no match

VARIABLES
    menu,               \* _cur_menu
    shown,              \* _shown
    sel, scroll,        \* _sel_node_i, _menu_scroll
    rows,               \* _parent_screen_rows
    showAll,            \* _show_all
    height,             \* of _menu_win
    changed,            \* _conf_changed
    files,              \* contents of each file
    name,               \* _conf_filename
    terminal,           \* height of the terminal
    dialog,             \* "none", "jump", and at the end "done" or "failed"
    matches, msel, mtop, mheight    \* the list of matches of the jump-to dialog

screen == <<menu, shown, sel, scroll, rows, showAll>>
window == <<height, terminal>>
jump   == <<matches, msel, mtop, mheight>>
values == <<env, wasSet, loading>>
mvars  == <<values, screen, window, jump, changed, files, name, dialog>>

----------------------------------------------------------------------------
(* Windows.                                                                 *)

MainHelpLines   == 4
JumpToHelpLines == 5

AtLeastOne(h) == IF h >= 1 THEN h ELSE 1

MenuHeight(t)    == AtLeastOne(t - MainHelpLines - 3)
MatchesHeight(t) == AtLeastOne(t - JumpToHelpLines - 4)

\* With no match one row says so, and the cursor, which the keys still move,
\* means nothing.
MatchRow == IF matches = <<>> THEN 0 ELSE msel
MatchTop == IF matches = <<>> THEN 0 ELSE mtop

\* The two lists of the interface, and the rules for moving in them.
Main  == INSTANCE ListCursor WITH
            list <- shown, size <- Len(shown),
            Heights <- {MenuHeight(t) : t \in Terminals}
Found == INSTANCE ListCursor WITH
            sel <- MatchRow, scroll <- MatchTop, height <- mheight,
            list <- matches, size <- AtLeastOne(Len(matches)),
            Heights <- {MatchesHeight(t) : t \in Terminals}

ASSUME ListsAssumption ==
    /\ Main!CursorConstants /\ Found!CursorConstants
    /\ SearchOrder \in Seq(Below)
    /\ MaxStray \in Nat

ASSUME FilesAssumption ==
    /\ StdName \in Names
    /\ \A f \in InitFiles : f = Absent \/ f \in Seq(Seqs!ToSet(f))
    /\ CutLines \subseteq Nat

----------------------------------------------------------------------------
(* What is shown of a menu.                                                 *)

\* A choice shows the rows of all its locations, but each symbol once, and
\* those of location m.
ChoiceNodes(x, all, m) ==
    LET here  == RowNodes(x, all, m)
        there == UNION {RowNodes(x, all, loc) : loc \in {n \in Nodes : ItemOf[n] = ItemOf[m]} \ {m}}
        Repeated(n) == \E k \in here \cup {k \in there : Before(k, n)} : ItemOf[k] = ItemOf[n]
    IN  here \cup {n \in there : ItemOf[n] \in Syms => ~Repeated(n)}

ShownNodes(x, all, m) ==
    IF ItemOf[m] \in Choices THEN Those(NodeOrder, ChoiceNodes(x, all, m)) ELSE Rows(x, all, m)

\* A choice that is not below a location of itself: values could not be
\* calculated otherwise.
NoChoiceInItself ==
    \A n \in Below : ItemOf[n] \in Choices => ItemOf[ParentMenu[n]] # ItemOf[n]

\* No symbol is at two places of a choice.
OncePerChoice ==
    \A n, k \in Below :
        /\ ItemOf[n] \in Syms /\ ItemOf[k] = ItemOf[n]
        /\ ItemOf[ParentMenu[n]] \in Choices /\ ItemOf[ParentMenu[k]] = ItemOf[ParentMenu[n]]
        => k = n

(* The configurations x in which the interface can rely on the tree: *)

\* A menu, choice or comment that is hidden shows nothing when entered.
HiddenMenusAreEmpty(x) ==
    \A m \in Below :
        ItemOf[m] \notin Syms /\ ~Visible(x, m) => ShownNodes(x, FALSE, m) = <<>>

\* What is shown of a visible symbol has a visible prompt.
VisibleIsShown(x) ==
    \A n \in Displayed(x, FALSE) :
        ItemOf[n] \in Syms /\ Vis(x, ItemOf[n]) # 0 => PromptHolds(x, n)

\* With visibility m, no default gives y, and no imply gives y in a choice.
DefaultsFit(x) ==
    \A s \in Syms :
        Vis(x, s) = 1 /\ ExprValue(x, RevDep[s]).v = 0 =>
            IF ExprValue(x, WeakRevDep[s]).v = 2 THEN ChoiceOf[s] = None
            ELSE ChoiceOf[s] # None \/ FirstDefault(x, Defaults[s]).v # 2

----------------------------------------------------------------------------
(* The screen as a record u, and the outcome of each function of the        *)
(* interface, in a set.  A list.index() that finds nothing raises.          *)

Screen ==
    [env |-> env, menu |-> menu, shown |-> shown, cur |-> Main!At(sel, scroll),
     rows |-> rows, showAll |-> showAll, changed |-> changed, failed |-> FALSE]

Failed(u) == [u EXCEPT !.failed = TRUE]

Selected(u) == u.shown[u.cur.sel + 1]
ScreenRow(u) == u.cur.sel - u.cur.top

Centered(i, list) == Main!Centered(i, Len(list), height)

SelectSelectedChoiceSym(u) ==
    {IF there = <<>> THEN u
     ELSE [u EXCEPT !.cur = Centered(IndexOf(u.shown, there[1]), u.shown)] :
        there \in {IF s = NoSelection THEN <<>> ELSE Those(NodesOf(s), Seqs!ToSet(u.shown)) :
                      s \in {Selection(u.env, ItemOf[u.menu]).v}}}

\* Menus without a row are never entered: no outcome.
EnterMenu(u, n) ==
    UNION {IF ItemOf[n] \in Choices THEN SelectSelectedChoiceSym(in) ELSE {in} :
              in \in {[u EXCEPT !.rows = Append(@, ScreenRow(u)), !.menu = n,
                                !.shown = list, !.cur = Main!FirstRow] :
                 list \in {ShownNodes(u.env, u.showAll, m) : m \in {n} \cap IsMenuconfig} \ {<<>>}}}

LineInParent(u) == Main!AtMost(Seqs!Last(u.rows), height - 1)

\* Back to the line the menu was entered from, if it is known.
LeaveMenu(u) ==
    IF u.menu = TopNode THEN {u}
    ELSE {IF ~IsIn(u.menu, list) THEN Failed(u)
          ELSE [u EXCEPT !.menu = ParentMenu[u.menu], !.shown = list,
                         !.cur = IF u.rows = <<>> THEN Centered(IndexOf(list, u.menu), list)
                                 ELSE Main!OnLine(IndexOf(list, u.menu), LineInParent(u)),
                         !.rows = IF @ = <<>> THEN @ ELSE Seqs!Front(@)] :
             list \in {ShownNodes(u.env, u.showAll, ParentMenu[u.menu])}}

\* Mutant: the selected node goes to the top of the window.
UpdateMenuToTop(u) ==
    {IF ~IsIn(Selected(u), list) THEN Failed(u)
     ELSE [u EXCEPT !.shown = list, !.cur = Main!OnLine(IndexOf(list, Selected(u)), 0)] :
        list \in {ShownNodes(u.env, u.showAll, u.menu)}}

\* Mutant: the list is not calculated again after a change.
UpdateMenuStale(u) == {u}

\* The cursor stays on its node and, if possible, on its line.
UpdateMenu(u) ==
    {IF ~IsIn(Selected(u), list) THEN Failed(u)
     ELSE [u EXCEPT !.shown = list,
                    !.cur = Main!OnLine(IndexOf(list, Selected(u)), ScreenRow(u))] :
        list \in {ShownNodes(u.env, u.showAll, u.menu)}}

\* The selected node, those before it from the nearest on, then those after.
FromSelected(u) ==
    Seqs!Reverse(SubSeq(u.shown, 1, u.cur.sel + 1))
        \o SubSeq(u.shown, u.cur.sel + 2, Len(u.shown))

\* Show-all stays on if nothing would be left to select.
ToggleShowAll(u) ==
    UNION {
        {IF near = <<>> THEN [u EXCEPT !.showAll = TRUE]
         ELSE [u EXCEPT !.showAll = ~@, !.shown = list,
                        !.cur = Main!OnLine(IndexOf(list, near[1]), ScreenRow(u))] :
            near \in {Those(FromSelected(u), Seqs!ToSet(list))}} :
        list \in {ShownNodes(u.env, ~u.showAll, u.menu)}}

\* Mutant: show-all is left off.
ShowNodeVisible(u, m, n) ==
    {IF ~IsIn(n, list) THEN Failed(u)
     ELSE [u EXCEPT !.rows = <<>>, !.menu = m, !.shown = list,
                    !.cur = Main!At(IndexOf(list, n), @.top)] :
        list \in {ShownNodes(u.env, u.showAll, m)}}

\* Show node n of menu m, turning show-all on if it takes that.
ShowNode(u, m, n) ==
    UNION {
        {IF ~IsIn(n, list) THEN Failed(u)
         ELSE [u EXCEPT !.rows = <<>>, !.menu = m, !.showAll = all, !.shown = list,
                        !.cur = Main!At(IndexOf(list, n), @.top)] :
            list \in {ShownNodes(u.env, all, m)}} :
        all \in {u.showAll \/ ~IsIn(n, ShownNodes(u.env, u.showAll, m))}}

Center(u) == [u EXCEPT !.cur = Centered(@.sel, u.shown)]

\* Jumping to a choice or menu that is not empty goes to its first entry, or
\* the selected symbol, without show-all if another entry is visible.
JumpInto(u, n) ==
    UNION {
        IF to.failed THEN {to}
        ELSE UNION {IF ItemOf[n] \in Choices THEN SelectSelectedChoiceSym(Center(v))
                    ELSE {Center(v)} :
                v \in IF to.showAll /\ ~u.showAll THEN ToggleShowAll(to) ELSE {to}} :
        to \in ShowNode(u, n, Head(Children[n]))}

JumpTo(u, n) ==
    IF ItemOf[n] \in Choices \cup {"menu"} /\ Children[n] # <<>> THEN JumpInto(u, n)
    ELSE {IF to.failed THEN to ELSE Center(to) : to \in ShowNode(u, ParentMenu[n], n)}

----------------------------------------------------------------------------
(* Changing values.                                                         *)

\* Mutant: the change is not remembered as unsaved.
SetValForgotten(u, i, v) ==
    IF ValueOf(u.env, i) = v THEN {u}
    ELSE UNION {UpdateMenu([u EXCEPT !.env = x]) : x \in {WithValue(u.env, i, v)}}

SetVal(u, i, v) ==
    IF ValueOf(u.env, i) = v THEN {u}
    ELSE UNION {UpdateMenu([u EXCEPT !.env = x, !.changed = TRUE]) :
                    x \in {WithValue(u.env, i, v)}}

\* Selecting a choice symbol also leaves the choice.
ChangeNode(u, n) ==
    UNION {
        IF next = {} THEN {Failed(u)}
        ELSE UNION {
            IF to.failed \/ ~IsYModeChoiceSym(to.env, ItemOf[n]) \/ Children[n] # <<>>
            THEN {to} ELSE LeaveMenu(to) :
            to \in UNION {SetVal(u, ItemOf[n], v) : v \in next}} :
        next \in {NextValues(AssignableOf(u.env, ItemOf[n]), ValueOf(u.env, ItemOf[n]))}}

----------------------------------------------------------------------------
(* Actions.                                                                 *)

Becomes(u) ==
    /\ env' = u.env
    /\ menu' = u.menu
    /\ shown' = u.shown
    /\ sel' = u.cur.sel
    /\ scroll' = u.cur.top
    /\ rows' = u.rows
    /\ showAll' = u.showAll
    /\ changed' = u.changed
    /\ dialog' = IF u.failed THEN "failed" ELSE "none"
    /\ UNCHANGED <<wasSet, loading>>

MenuInit ==
    /\ files \in [Names -> InitFiles] /\ name = StdName
    /\ env = Loaded(Absent) /\ wasSet = {} /\ loading = "no"
    /\ menu = TopNode /\ shown = Rows(env, TRUE, TopNode) /\ sel = 0 /\ scroll = 0 /\ rows = <<>>
    /\ showAll = FALSE /\ changed = FALSE
    /\ terminal \in Terminals
    /\ height = MenuHeight(terminal)
    /\ dialog = "done"
    /\ matches = <<>> /\ msel = 0 /\ mtop = 0 /\ mheight = MatchesHeight(terminal)

\* menuconfig(): show-all is turned on if nothing is visible.
Start ==
    /\ dialog = "done"
    /\ \E x \in {Loaded(files[StdName])} :
          /\ env' = x
          /\ changed' = UnsavedAtStart(x, files[StdName])
          /\ showAll' = (ShownNodes(x, FALSE, TopNode) = <<>>)
          /\ shown' = ShownNodes(x, showAll', TopNode)
    /\ shown' # <<>>
    /\ name' = StdName /\ menu' = TopNode /\ sel' = 0 /\ scroll' = 0 /\ rows' = <<>>
    /\ height' = MenuHeight(terminal)
    /\ dialog' = "none"
    /\ UNCHANGED <<wasSet, loading, files, terminal, jump>>

Key == dialog = "none"

Do(u) == Becomes(u) /\ UNCHANGED <<window, jump, files, name>>

MoveTo(c) == Key /\ Do([Screen EXCEPT !.cur = c])

Cursor == Main!At(sel, scroll)

Down     == MoveTo(Main!NextRow(Cursor, Len(shown), height))
Up       == MoveTo(Main!PrevRow(Cursor))
PageDown == \E c \in Main!PageDown(Cursor, Len(shown), height) : MoveTo(c)
PageUp   == \E c \in Main!PageUp(Cursor) : MoveTo(c)
End      == MoveTo(Main!LastRow(Len(shown), height))
Home     == MoveTo(Main!FirstRow)

DoOne(outcomes) == \E to \in outcomes : Do(to)

Space ==
    /\ Key
    /\ \E u \in {Screen} : \E n \in {Selected(u)} :
          IF Changeable(env, n) THEN DoOne(ChangeNode(u, n)) ELSE DoOne(EnterMenu(u, n))

Enter ==
    /\ Key
    /\ \E u \in {Screen} : \E n \in {Selected(u)} : \E entered \in {EnterMenu(u, n)} :
          IF entered # {} THEN DoOne(entered)
          ELSE Changeable(env, n) /\ DoOne(ChangeNode(u, n))

SetTriVal(v) ==
    /\ Key
    /\ \E u \in {Screen} : \E i \in {ItemOf[Selected(u)]} :
          /\ i \in Items
          /\ v \in AssignableOf(env, i)
          /\ DoOne(SetVal(u, i, v))

Leave   == Key /\ \E u \in {Screen} : DoOne(LeaveMenu(u))
ShowAll == Key /\ \E u \in {Screen} : DoOne(ToggleShowAll(u))

\* The f key makes the list lower or higher in the same way.
ResizeMain(cur) ==
    /\ height' = MenuHeight(terminal')
    /\ sel' = Main!Resized(cur, height').sel
    /\ scroll' = Main!Resized(cur, height').top

Rest == <<env, wasSet, loading, menu, shown, rows, showAll, changed, files, name>>

Resize(t) ==
    /\ Key
    /\ t # terminal
    /\ terminal' = t
    /\ ResizeMain(Cursor)
    /\ UNCHANGED <<Rest, dialog, jump>>

----------------------------------------------------------------------------
(* The dialogs for quitting, saving and loading float over the main display *)
(* and keep no state of their own: a resize is one of the main display, and *)
(* an error or a cancelled question comes back to where it was.  Minimal     *)
(* configurations go to another file, see KconfigFiles.                     *)

\* q, or ESC in the top menu; "no" to "Save configuration?" or not asked.
Quit ==
    /\ Key
    /\ dialog' = "done"
    /\ UNCHANGED <<values, screen, window, jump, changed, files, name>>

QuitSave ==
    /\ Key /\ changed
    /\ files' = [files EXCEPT ![name] = WriteConfig(env)]
    /\ dialog' = "done"
    /\ UNCHANGED <<values, screen, window, jump, changed, name>>

Save(f) ==
    /\ Key
    /\ files' = [files EXCEPT ![f] = WriteConfig(env)]
    /\ name' = f /\ changed' = FALSE
    /\ UNCHANGED <<values, screen, window, jump, dialog>>

\* A file with the same contents is not written.  Writing another fails before
\* _save_old() has moved the old file away, which makes no difference, after
\* that, or in the middle.
SaveFails(f) ==
    /\ Key
    /\ files[f] # WriteConfig(env)
    /\ \/ files' = [files EXCEPT ![f] = Absent]
       \/ \E n \in CutLines :
             /\ n < Len(WriteConfig(env))
             /\ files' = [files EXCEPT ![f] = CutAfter(WriteConfig(env), n)]
    /\ UNCHANGED <<values, screen, window, jump, dialog, name, changed>>

\* Asks first if there are unsaved changes.  Show-all is turned on if the
\* selected node has disappeared.
Load(f) ==
    /\ Key /\ files[f] # Absent
    /\ \E x \in {Replaced(env, files[f])} :
       \E u \in {[Screen EXCEPT !.env = x, !.changed = NeedsSave(x, files[f])]} :
       \E list \in {ShownNodes(x, showAll, menu)} :
       \E to \in UpdateMenu([u EXCEPT !.showAll = @ \/ ~IsIn(Selected(u), list)]) :
          Becomes(to)
    /\ name' = f
    /\ UNCHANGED <<window, jump, files>>

----------------------------------------------------------------------------
(* The jump-to dialog fills the screen: the main display does not notice    *)
(* that the terminal changes until the dialog is closed.                    *)

InJump == dialog = "jump"

MatchCursor(c) == msel' = c.sel /\ mtop' = c.top

Unsearched == <<values, screen, changed, files, name>>

\* An empty text matches everything.
OpenJump ==
    /\ Key
    /\ dialog' = "jump"
    /\ matches' = SearchOrder
    /\ MatchCursor(Found!FirstRow)
    /\ mheight' = MatchesHeight(terminal)
    /\ UNCHANGED <<Unsearched, window>>

Search(found) ==
    /\ InJump
    /\ matches' = Those(SearchOrder, found)
    /\ MatchCursor(Found!FirstRow)
    /\ UNCHANGED <<Unsearched, window, mheight, dialog>>

\* With no match too: End gives -1, Up from there -2, and Down any number.
MoveInMatches ==
    /\ InJump
    /\ \E c \in {Found!At(msel, mtop)} :
          \/ MatchCursor(Found!NextRow(c, Len(matches), mheight))
          \/ MatchCursor(Found!PrevRow(c))
          \/ \E d \in Found!PageDown(c, Len(matches), mheight) : MatchCursor(d)
          \/ \E d \in Found!PageUp(c) : MatchCursor(d)
          \/ MatchCursor(Found!LastRow(Len(matches), mheight))
          \/ MatchCursor(Found!FirstRow)
    /\ matches = <<>> => msel' \in -MaxStray .. MaxStray
    /\ UNCHANGED <<Unsearched, window, matches, mheight, dialog>>

\* Mutant: the selected match goes to the bottom of the window.
ResizeJumpToEnd(t) ==
    /\ InJump
    /\ t # terminal
    /\ terminal' = t
    /\ mheight' = MatchesHeight(t)
    /\ MatchCursor(Found!OnLine(msel, mheight' - 1))
    /\ UNCHANGED <<Unsearched, height, matches, dialog>>

ResizeJump(t) ==
    /\ InJump
    /\ t # terminal
    /\ terminal' = t
    /\ mheight' = MatchesHeight(t)
    /\ MatchCursor(Found!Resized(Found!At(msel, mtop), mheight'))
    /\ UNCHANGED <<Unsearched, height, matches, dialog>>

\* _resize_main() follows in both cases.
CloseJump ==
    /\ UNCHANGED <<terminal, wasSet, loading, files, name, env, changed>>
    /\ matches' = <<>> /\ MatchCursor(Found!FirstRow) /\ UNCHANGED mheight

Jump ==
    /\ InJump /\ matches # <<>>
    /\ CloseJump
    /\ \E now \in {Screen} : \E u \in JumpTo(now, matches[msel + 1]) :
          /\ menu' = u.menu /\ shown' = u.shown /\ rows' = u.rows /\ showAll' = u.showAll
          /\ dialog' = IF u.failed THEN "failed" ELSE "none"
          /\ ResizeMain(u.cur)

CancelJump ==
    /\ InJump
    /\ CloseJump
    /\ dialog' = "none"
    /\ ResizeMain(Cursor)
    /\ UNCHANGED <<menu, shown, rows, showAll>>

----------------------------------------------------------------------------

MenuNext ==
    \/ Start
    \/ Down \/ Up \/ PageDown \/ PageUp \/ End \/ Home
    \/ Space \/ Enter \/ Leave \/ ShowAll
    \/ \E v \in 0 .. 2 : SetTriVal(v)
    \/ \E t \in Terminals : Resize(t) \/ ResizeJump(t)
    \/ Quit \/ QuitSave
    \/ \E f \in Names : Save(f) \/ SaveFails(f) \/ Load(f)
    \/ OpenJump \/ MoveInMatches \/ Jump \/ CancelJump
    \/ \E found \in Searches : Search(found)

MenuSpec == MenuInit /\ [][MenuNext]_mvars

----------------------------------------------------------------------------
(* Properties.                                                              *)

(***************************************************************************)
(* "the implementation relies on always having a selected node": no lookup *)
(* of a node in the list of shown nodes, or of a value among the           *)
(* assignable ones, fails - the menu left is in the list of its parent,    *)
(* the node changed is still shown, the node jumped to can be shown -      *)
(* although every change of a value may hide or show other nodes.          *)
(***************************************************************************)
NoLookupFails == dialog # "failed"

(***************************************************************************)
(* Whenever a key is awaited the screen is up to date: the rows in the    *)
(* list are those that the values at this moment make visible in the       *)
(* current menu, which is a menu.                                          *)
(***************************************************************************)
ScreenIsCurrent ==
    Key =>
        /\ menu \in IsMenuconfig
        /\ shown = ShownNodes(env, showAll, menu)

(***************************************************************************)
(* "Save configuration?" is only skipped when nothing would be lost: if    *)
(* _conf_changed is False, the file gives every symbol the value it has    *)
(* now.  Failing saves, files loaded over unsaved changes and files that   *)
(* assign what the tree does not accept are included; that a failed save   *)
(* has moved the file away or cut it short was reported.                   *)
(***************************************************************************)
NoChangeIsLost ==
    Key /\ ~changed /\ Intact(files[name]) =>
        SameValues(env, Loaded(files[name]))

(***************************************************************************)
(* Both lists are a ListCursor: as long as the same list is shown the      *)
(* cursor only moves by the rules for the keys, a lookup or a resize, so   *)
(* that the display does not jump when a value is changed; and another     *)
(* list is shown with its selected row on a line that the window has.      *)
(* Hence (ListCursorProofs) the selected row is always inside its window,  *)
(* through resizes while a dialog hides the main list too.                 *)
(***************************************************************************)
MainListRefines  == Main!Spec
MatchListRefines == Found!Spec
=============================================================================
