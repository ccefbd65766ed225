--------------------------- MODULE GuiconfigProofs ---------------------------
(***************************************************************************)
(* The graphical interface, for every menu tree and file: no change of a   *)
(* value is lost, and the tree widget always has the items of the          *)
(* configuration.                                                          *)
(***************************************************************************)
EXTENDS Guiconfig, KconfigTreeProofs

----------------------------------------------------------------------------
(* What a function of the interface leaves alone, or notes as unsaved.      *)

IsWindow(u) ==
    DOMAIN u = {"env", "menu", "showAll", "single", "kids", "open", "focus", "changed", "failed"}

Leaves(u, to) == IsWindow(to) /\ to.env = u.env /\ to.changed = u.changed
Notes(u, to)  == IsWindow(to) /\ IsConfiguration(to.env) /\ to.changed = TRUE

LEMMA WindowIs == IsWindow(Window) /\ Window.env = env /\ Window.changed = changed
BY DEF Window, IsWindow

LEMMA LeavesBoth ==
    ASSUME NEW u, NEW in, NEW to, Leaves(u, in), IsWindow(in) => Leaves(in, to)
    PROVE  Leaves(u, to)
BY DEF Leaves

LEMMA FailedLeaves ==
    ASSUME NEW u, IsWindow(u)
    PROVE  Leaves(u, Failed(u))
BY DEF Leaves, IsWindow, Failed

\* _update_tree() and _select() change what is shown.
LEMMA UpdateTreeLeaves ==
    ASSUME NEW u, IsWindow(u), NEW to \in UpdateTree(u)
    PROVE  Leaves(u, to)
<1> DEFINE k == Rebuilt(u, Detached)
<1>1. to = [u EXCEPT !.kids = k]
  BY DEF UpdateTree
<1> HIDE DEF k
<1> QED BY <1>1 DEF Leaves, IsWindow

LEMMA SelectLeaves ==
    ASSUME NEW u, IsWindow(u), NEW n
    PROVE  Leaves(u, Select(u, n))
<1> DEFINE o == u.open \cup Above(u.kids, n)
<1>1. Select(u, n) = [u EXCEPT !.focus = n, !.open = o]
  BY DEF Select, IsWindow
<1> HIDE DEF o
<1> QED BY <1>1 DEF Leaves, IsWindow

\* So do entering and leaving a menu ...
LEMMA EnterMenuLeaves ==
    ASSUME NEW u, IsWindow(u), NEW m, NEW to \in EnterMenu(u, m)
    PROVE  Leaves(u, to)
<1> DEFINE in == [u EXCEPT !.menu = m]
<1>1. Leaves(u, in)
  BY DEF Leaves, IsWindow
<1>2. to \in UpdateTree(in)
  BY DEF EnterMenu
<1> HIDE DEF in
<1> QED BY <1>1, <1>2, UpdateTreeLeaves, LeavesBoth

LEMMA EnterFirstLeaves ==
    ASSUME NEW u, IsWindow(u), NEW n, NEW to \in EnterMenuAndSelectFirst(u, n)
    PROVE  Leaves(u, to)
<1>1. PICK in \in EnterMenu(u, n) : to = Select(in, Head(in.kids[TopNode]))
  BY DEF EnterMenuAndSelectFirst
<1> QED BY <1>1, EnterMenuLeaves, SelectLeaves, LeavesBoth

LEMMA LeaveMenuLeaves ==
    ASSUME NEW u, IsWindow(u), NEW to \in LeaveMenu(u)
    PROVE  Leaves(u, to)
<1>1. CASE to = u
  BY <1>1 DEF Leaves
<1>2. CASE to # u
  <2>1. PICK out \in EnterMenu(u, ParentMenu[u.menu]) : to = Select(out, u.menu)
    BY <1>2 DEF LeaveMenu
  <2> QED BY <2>1, EnterMenuLeaves, SelectLeaves, LeavesBoth
<1> QED BY <1>1, <1>2

\* ... jumping to a node ...
LEMMA JumpToLeaves ==
    ASSUME NEW u, IsWindow(u), NEW n, NEW to \in JumpTo(u, n)
    PROVE  Leaves(u, to)
<1> DEFINE in == LoadParents(u, n)
<1>1. Leaves(u, in)
  <2>1. PICK k : in = [u EXCEPT !.kids = k]
    BY DEF LoadParents
  <2> HIDE DEF in
  <2> QED BY <2>1 DEF Leaves, IsWindow
<1> HIDE DEF in
<1>2. PICK there : /\ there \in EnterMenu(u, ParentMenu[n]) \/ there = in
                   /\ to = Select(there, n)
  BY DEF JumpTo, in
<1>3. Leaves(u, there)
  BY <1>1, <1>2, EnterMenuLeaves
<1> QED BY <1>2, <1>3, SelectLeaves, LeavesBoth

LEMMA JumpToSelectedLeaves ==
    ASSUME NEW u, IsWindow(u), NEW n, NEW to \in JumpToSelected(u, n)
    PROVE  Leaves(u, to)
<1> DEFINE all == [u EXCEPT !.showAll = TRUE]
<1>1. Leaves(u, all)
  BY DEF Leaves, IsWindow
<1>2. PICK in : (in = u \/ in = all \/ in \in UpdateTree(all)) /\ to \in JumpTo(in, n)
  BY DEF JumpToSelected
<1> HIDE DEF all
<1>3. Leaves(u, in)
  <2>1. CASE in = u
    BY <2>1 DEF Leaves
  <2>2. CASE in \in UpdateTree(all)
    BY <1>1, <2>2, UpdateTreeLeaves, LeavesBoth
  <2> QED BY <1>1, <1>2, <2>1, <2>2
<1> QED BY <1>2, <1>3, JumpToLeaves, LeavesBoth

\* ... switching show-all and tree mode ...
LEMMA ShowAllLeaves ==
    ASSUME NEW u, IsWindow(u), NEW to \in DoShowAll(u)
    PROVE  Leaves(u, to)
<1> DEFINE in   == [u EXCEPT !.showAll = ~@]
           kept == [u EXCEPT !.showAll = TRUE]
<1>1. Leaves(u, in) /\ Leaves(u, kept)
  BY DEF Leaves, IsWindow
<1>2. to = kept \/ to = Failed(u) \/ to \in UpdateTree(in) \/ to = Failed(in)
  BY DEF DoShowAll
<1> HIDE DEF in, kept
<1>3. CASE to = kept \/ to = Failed(u)
  BY <1>1, <1>3, FailedLeaves
<1>4. CASE to \in UpdateTree(in) \/ to = Failed(in)
  BY <1>1, <1>4, UpdateTreeLeaves, FailedLeaves, LeavesBoth
<1> QED BY <1>2, <1>3, <1>4

LEMMA TreeModeLeaves ==
    ASSUME NEW u, IsWindow(u), NEW to \in DoTreeMode(u)
    PROVE  Leaves(u, to)
<1> DEFINE full == [u EXCEPT !.single = FALSE, !.menu = TopNode]
           menus == [u EXCEPT !.single = TRUE]
<1>1. Leaves(u, full) /\ Leaves(u, menus)
  BY DEF Leaves, IsWindow
<1>2. \/ to = Failed(u)
      \/ \E in, item : (in \in UpdateTree(full) \/ in = menus) /\ to \in JumpTo(in, item)
  BY DEF DoTreeMode
<1> HIDE DEF full, menus
<1>3. CASE to = Failed(u)
  BY <1>3, FailedLeaves
<1>4. ASSUME NEW in, NEW item, in \in UpdateTree(full) \/ in = menus, to \in JumpTo(in, item)
      PROVE  Leaves(u, to)
  <2>1. Leaves(u, in)
    BY <1>1, <1>4, UpdateTreeLeaves, LeavesBoth
  <2> QED BY <1>4, <2>1, JumpToLeaves, LeavesBoth
<1> QED BY <1>2, <1>3, <1>4

\* ... and opening and closing an item.
LEMMA CloseLeaves ==
    ASSUME NEW u, IsWindow(u), NEW n
    PROVE  /\ Leaves(u, [u EXCEPT !.open = @ \ {n}])
           /\ Leaves(u, [u EXCEPT !.open = @ \cup {n}])
BY DEF Leaves, IsWindow

LEMMA OpenItemLeaves ==
    ASSUME NEW u, IsWindow(u), NEW n, NEW to \in OpenItem(u, n)
    PROVE  Leaves(u, to)
<1>1. PICK o, k : to = [u EXCEPT !.open = o, !.kids = k]
  BY DEF OpenItem, IsWindow
<1> QED BY <1>1 DEF Leaves, IsWindow

LEMMA ToggleOpenLeaves ==
    ASSUME NEW u, IsWindow(u), NEW n, NEW to \in TreeToggleOpen(u, n)
    PROVE  Leaves(u, to)
<1> DEFINE there == [u EXCEPT !.open = @ \ {n}]
<1>1. to = there \/ to \in OpenItem(u, n)
  BY DEF TreeToggleOpen
<1>2. Leaves(u, there)
  BY CloseLeaves
<1> HIDE DEF there
<1> QED BY <1>1, <1>2, OpenItemLeaves

LEMMA TreeOpenLeaves ==
    ASSUME NEW u, IsWindow(u), NEW n, NEW to \in TreeOpen(u, n)
    PROVE  Leaves(u, to)
<1> DEFINE there == [u EXCEPT !.open = @ \cup {n}]
<1>1. to = there \/ to \in OpenItem(u, n)
  BY DEF TreeOpen
<1>2. Leaves(u, there)
  BY CloseLeaves
<1> HIDE DEF there
<1> QED BY <1>1, <1>2, OpenItemLeaves

\* _set_val() notes a change, whether or not an item to keep the scroll
\* position by is found afterwards.
LEMMA SetValNotes ==
    ASSUME IsTree, NEW Order, Ordered(Order), NEW u, IsWindow(u), IsConfiguration(u.env),
           NEW i \in Items, NEW v, NEW to \in SetVal(u, i, v)
    PROVE  Notes(u, to)
<1> DEFINE x  == WithValue(u.env, i, v)
           in == [u EXCEPT !.env = x, !.changed = TRUE]
<1>1. to = Failed(in) \/ to \in UpdateTree(in)
  BY DEF SetVal
<1>2. IsConfiguration(x)
  BY WithValueIsConfiguration
<1> HIDE DEF x
<1>3. IsWindow(in) /\ in.env = x /\ in.changed = TRUE
  BY DEF IsWindow
<1> HIDE DEF in
<1>4. Leaves(in, to)
  BY <1>1, <1>3, FailedLeaves, UpdateTreeLeaves
<1> QED BY <1>2, <1>3, <1>4 DEF Leaves, Notes

LEMMA ChangeNodeNotes ==
    ASSUME IsTree, NEW Order, Ordered(Order), NEW u, IsWindow(u), IsConfiguration(u.env),
           NEW n, NEW to \in ChangeNode(u, n)
    PROVE  Leaves(u, to) \/ Notes(u, to)
<1>1. Changeable(u.env, n) /\ (to = Failed(u) \/ \E v : to \in SetVal(u, ItemOf[n], v))
  BY DEF ChangeNode
<1>2. ItemOf[n] \in Items
  BY <1>1 DEF Changeable
<1> QED BY <1>1, <1>2, FailedLeaves, SetValNotes

LEMMA TreeSetValNotes ==
    ASSUME IsTree, NEW Order, Ordered(Order), NEW u, IsWindow(u), IsConfiguration(u.env),
           NEW n, NEW v, NEW to \in TreeSetVal(u, n, v)
    PROVE  Notes(u, to)
<1>1. ItemOf[n] \in Items /\ to \in SetVal(u, ItemOf[n], v)
  BY DEF TreeSetVal
<1> QED BY <1>1, SetValNotes

LEMMA EnterNotes ==
    ASSUME IsTree, NEW Order, Ordered(Order), NEW u, IsWindow(u), IsConfiguration(u.env),
           NEW n, NEW to \in TreeEnter(u, n) \cup TreeToggle(u, n)
    PROVE  Leaves(u, to) \/ Notes(u, to)
<1>1. \/ to \in TreeToggleOpen(u, n)
      \/ to \in EnterMenuAndSelectFirst(u, n)
      \/ to \in ChangeNode(u, n)
  BY DEF TreeEnter, TreeToggle
<1> QED BY <1>1, ToggleOpenLeaves, EnterFirstLeaves, ChangeNodeNotes

----------------------------------------------------------------------------
(* The values, the files, and what they have in common.                     *)

Saved == ~changed /\ Intact(files[name]) => SameValues(env, Loaded(files[name]))

ConfInv ==
    /\ mode \in {"main", "jump", "done", "failed"}
    /\ DOMAIN files = Names /\ name \in Names
    /\ \A f \in Names : files[f] = Absent \/ IsFile(files[f])
    /\ Used => IsConfiguration(env)

SavedInv == ConfInv /\ (Used => Saved)

\* What each step does with the two.  A file that is written can be read back:
Readable == \A z : IsConfiguration(z) => ModeIsInferred(z) /\ DefaultsReturn(z)

KeepsSaved == ConfInv' /\ (SavedInv /\ Readable => SavedInv')

\* A callback that leaves the values alone or notes that they changed.
LEMMA DoNotes ==
    ASSUME ConfInv, Used, NEW outcomes, Do(outcomes),
           \A to \in outcomes : Leaves(Window, to) \/ Notes(Window, to)
    PROVE  KeepsSaved
<1>1. PICK to \in outcomes : Becomes(to) /\ mode' = IF to.failed THEN "failed" ELSE mode
  BY DEF Do
<1>2. UNCHANGED <<files, name>> /\ env' = to.env /\ changed' = to.changed
  BY <1>1 DEF Do, Becomes
<1>3. mode' \in {"main", "jump", "done", "failed"}
  BY <1>1 DEF ConfInv
<1>4. CASE Leaves(Window, to)
  <2>1. UNCHANGED <<env, changed>>
    BY <1>2, <1>4, WindowIs DEF Leaves
  <2>2. IsConfiguration(env') /\ (Saved => Saved')
    BY <1>2, <2>1 DEF ConfInv, Saved
  <2> QED BY <1>2, <1>3, <2>2 DEF ConfInv, SavedInv, KeepsSaved
<1>5. CASE Notes(Window, to)
  <2>1. (IsConfiguration(env) /\ Saved)'
    BY <1>2, <1>5 DEF Notes, Saved
  <2> QED BY <1>2, <1>3, <2>1 DEF ConfInv, SavedInv, KeepsSaved
<1> QED BY <1>1, <1>4, <1>5

\* The callbacks of the main window.
LEMMA RowNotes ==
    ASSUME IsTree, NEW Order, Ordered(Order), ConfInv, NEW n,
           SelectRow(n) \/ Click(n) \/ OpenRow(n) \/ CloseRow(n)
    PROVE  KeepsSaved
<1>1. Used
  BY DEF SelectRow, Click, OpenRow, CloseRow, Idle, Used
<1> DEFINE u == Select(Window, n)
<1>2. Leaves(Window, u)
  BY WindowIs, SelectLeaves
<1>3. IsWindow(u) /\ u.env = env /\ IsConfiguration(u.env)
  BY <1>1, <1>2, WindowIs DEF Leaves, ConfInv
<1>4. CASE SelectRow(n)
  BY <1>1, <1>2, <1>4, DoNotes DEF SelectRow
<1>5. CASE Click(n)
  <2> DEFINE after == ChangeNode(u, n)
             outcomes == IF after = {} THEN {u} ELSE after
  <2>1. Do(outcomes)
    BY <1>5 DEF Click
  <2> HIDE DEF u
  <2>2. ASSUME NEW to \in after PROVE Leaves(Window, to) \/ Notes(Window, to)
    <3>1. Leaves(u, to) \/ Notes(u, to)
      BY <1>3, <2>2, ChangeNodeNotes
    <3> QED BY <1>2, <3>1 DEF Leaves, Notes
  <2>3. \A to \in outcomes : Leaves(Window, to) \/ Notes(Window, to)
    BY <1>2, <2>2
  <2> HIDE DEF outcomes
  <2> QED BY <1>1, <2>1, <2>3, DoNotes
<1>6. CASE OpenRow(n)
  <2>1. Do(TreeOpen(u, n))
    BY <1>6 DEF OpenRow
  <2> HIDE DEF u
  <2>2. \A to \in TreeOpen(u, n) : Leaves(Window, to)
    BY <1>2, <1>3, TreeOpenLeaves, LeavesBoth
  <2> QED BY <1>1, <2>1, <2>2, DoNotes
<1>7. CASE CloseRow(n)
  <2> DEFINE to == [u EXCEPT !.open = @ \ {n}]
  <2>1. Do({to})
    BY <1>7 DEF CloseRow
  <2>2. Leaves(u, to)
    <3> HIDE DEF u
    <3> QED BY <1>3, CloseLeaves
  <2> HIDE DEF u, to
  <2>3. Leaves(Window, to)
    BY <1>2, <2>2, LeavesBoth
  <2> QED BY <1>1, <2>1, <2>3, DoNotes
<1> QED BY <1>4, <1>5, <1>6, <1>7

LEMMA KeyNotes ==
    ASSUME IsTree, NEW Order, Ordered(Order), ConfInv,
           \/ Enter \/ Toggle \/ Back \/ RightKey \/ ShowAll \/ TreeMode
           \/ \E v \in 0 .. 2 : SetTri(v)
           \/ \E n \in Searchable : DialogChange(n) \/ \E v \in 0 .. 2 : DialogSet(n, v)
    PROVE  KeepsSaved
<1> DEFINE u == Window
<1>1. Used
  BY DEF Enter, Toggle, Back, RightKey, ShowAll, TreeMode, SetTri, DialogChange, DialogSet,
         Idle, InJump, Used
<1>2. IsWindow(u) /\ IsConfiguration(u.env)
  BY <1>1, WindowIs DEF ConfInv
<1> DEFINE AllFine(outcomes) == \A to \in outcomes : Leaves(u, to) \/ Notes(u, to)
<1>3. ASSUME NEW outcomes, AllFine(outcomes), Do(outcomes) PROVE KeepsSaved
  BY <1>1, <1>3, DoNotes
<1>4. ASSUME NEW n
      PROVE  /\ AllFine(TreeEnter(u, n)) /\ AllFine(TreeToggle(u, n))
             /\ AllFine(EnterMenuAndSelectFirst(u, n)) /\ AllFine(ChangeNode(u, n))
             /\ \A v : AllFine(TreeSetVal(u, n, v))
  <2> HIDE DEF u
  <2>1. AllFine(TreeEnter(u, n)) /\ AllFine(TreeToggle(u, n))
    BY <1>2, EnterNotes
  <2>2. AllFine(EnterMenuAndSelectFirst(u, n))
    BY <1>2, EnterFirstLeaves
  <2>3. AllFine(ChangeNode(u, n))
    BY <1>2, ChangeNodeNotes
  <2>4. \A v : AllFine(TreeSetVal(u, n, v))
    BY <1>2, TreeSetValNotes
  <2> QED BY <2>1, <2>2, <2>3, <2>4
<1>5. AllFine(LeaveMenu(u)) /\ AllFine(DoShowAll(u)) /\ AllFine(DoTreeMode(u))
  <2> HIDE DEF u
  <2> QED BY <1>2, LeaveMenuLeaves, ShowAllLeaves, TreeModeLeaves
<1>6. PICK outcomes :
          /\ Do(outcomes)
          /\ \/ \E n : \/ outcomes = TreeEnter(u, n)
                       \/ outcomes = TreeToggle(u, n)
                       \/ outcomes = EnterMenuAndSelectFirst(u, n)
                       \/ outcomes = ChangeNode(u, n)
                       \/ \E v : outcomes = TreeSetVal(u, n, v)
             \/ outcomes = LeaveMenu(u)
             \/ outcomes = DoShowAll(u)
             \/ outcomes = DoTreeMode(u)
  BY Zenon DEF Enter, Toggle, Back, RightKey, ShowAll, TreeMode, SetTri, DialogChange, DialogSet
<1> HIDE DEF u
<1>7. AllFine(outcomes)
  BY <1>4, <1>5, <1>6
<1> HIDE DEF AllFine
<1> QED BY <1>3, <1>6, <1>7

\* Opening a file over unsaved changes.
LEMMA OpenNotes ==
    ASSUME IsTree, NEW Order, Ordered(Order), ConfInv, NEW f \in Names, Open(f)
    PROVE  KeepsSaved
<1>1. Used /\ files[f] # Absent /\ name' = f /\ UNCHANGED <<files, mode>>
  BY DEF Open, Idle, Used
<1> DEFINE x == Replaced(env, files[f])
           u == [Window EXCEPT !.env = x, !.changed = NeedsSave(x, files[f])]
           empty == single /\ ShownMenuNodes(u, menu) = <<>>
           v == [u EXCEPT !.showAll = @ \/ empty]
<1>2. PICK to \in UpdateTree(v) : Becomes(to)
  BY DEF Open
<1>3. IsWindow(u) /\ u.env = x /\ u.changed = NeedsSave(x, files[f])
  BY WindowIs DEF IsWindow
<1> HIDE DEF u, empty
<1>4. IsWindow(v) /\ v.env = u.env /\ v.changed = u.changed
  BY <1>3 DEF IsWindow
<1> HIDE DEF v
<1>5. env' = x /\ changed' = NeedsSave(x, files[f])
  BY <1>2, <1>3, <1>4, UpdateTreeLeaves DEF Leaves, Becomes
<1>6. IsConfiguration(env) /\ IsFile(files[f])
  BY <1>1 DEF ConfInv
<1>7. IsConfiguration(x)
  BY <1>6, ReplacedIsConfiguration
<1>8. ~NeedsSave(x, files[f]) => SameValues(x, Loaded(files[f]))
  BY <1>1, <1>6, ReplacedIsLoaded
<1> HIDE DEF x
<1>9. (IsConfiguration(env) /\ Saved)'
  BY <1>1, <1>5, <1>7, <1>8 DEF Saved
<1> QED BY <1>1, <1>9 DEF ConfInv, SavedInv, KeepsSaved

\* The first window.
LEMMA StartNotes ==
    ASSUME IsTree, NEW Order, Ordered(Order), ConfInv, Start
    PROVE  KeepsSaved
<1> DEFINE f == files[StdName]
           x == Loaded(f)
           all == Rows(x, FALSE, TopNode) = <<>>
           u == [NoWindow EXCEPT !.env = x, !.changed = UnsavedAtStart(x, f), !.showAll = all]
<1>1. PICK in \in UpdateTree(u) : Becomes(Select(in, Head(in.kids[TopNode])))
  BY DEF Start
<1>2. name' = StdName /\ mode' = "main" /\ UNCHANGED files /\ StdName \in Names
  BY FilesAssumption DEF Start
<1>3. IsWindow(u) /\ u.env = x /\ u.changed = UnsavedAtStart(x, f)
  BY DEF NoWindow, IsWindow
<1> HIDE DEF u, all
<1> DEFINE to == Select(in, Head(in.kids[TopNode]))
<1>4. Leaves(u, to)
  BY <1>1, <1>3, UpdateTreeLeaves, SelectLeaves, LeavesBoth
<1>5. env' = x
  BY <1>1, <1>3, <1>4 DEF Leaves, Becomes
<1>6. IsConfiguration(x)
  BY <1>2, LoadedIsConfiguration DEF ConfInv
<1>7. (IsConfiguration(env) /\ Saved)'
  <2> HIDE DEF x
  <2>1. SameValues(x, x)
    BY DEF SameValues
  <2> QED BY <1>2, <1>5, <1>6, <2>1 DEF Saved, x
<1> QED BY <1>2, <1>7 DEF ConfInv, SavedInv, KeepsSaved

\* Every step.
LEMMA NextNotes ==
    ASSUME IsTree, NEW Order, Ordered(Order), ConfInv, [GuiNext]_gvars
    PROVE  KeepsSaved
<1>1. /\ DOMAIN files = Names /\ name \in Names
      /\ \A f \in Names : files[f] = Absent \/ IsFile(files[f])
      /\ Used => IsConfiguration(env)
      /\ SavedInv <=> (Used => Saved)
  BY DEF ConfInv, SavedInv
<1>2. ASSUME UNCHANGED <<files, env, changed, name>>, Used' => Used,
             mode' \in {"main", "jump", "done", "failed"}
      PROVE  KeepsSaved
  BY <1>1, <1>2 DEF ConfInv, SavedInv, Saved, KeepsSaved
<1>3. ASSUME NEW f \in Names, NEW w, w = Absent \/ IsFile(w),
             files' = [files EXCEPT ![f] = w], name' \in Names,
             mode' \in {"main", "jump", "done", "failed"},
             Used' => IsConfiguration(env'),
             SavedInv /\ Readable => (Used' => Saved')
      PROVE  KeepsSaved
  <2>1. DOMAIN files' = Names
    BY <1>1, <1>3
  <2>2. \A g \in Names : files'[g] = IF g = f THEN w ELSE files[g]
    BY <1>1, <1>3
  <2>3. \A g \in Names : files'[g] = Absent \/ IsFile(files'[g])
    BY <1>1, <1>3, <2>2
  <2>4. ConfInv'
    BY <1>3, <2>1, <2>3 DEF ConfInv
  <2> QED BY <1>3, <2>4 DEF SavedInv, KeepsSaved
<1>4. ASSUME NEW n \in Nodes, SelectRow(n) \/ Click(n) \/ OpenRow(n) \/ CloseRow(n)
      PROVE  KeepsSaved
  BY <1>4, RowNotes
<1>5. CASE \/ Enter \/ Toggle \/ Back \/ RightKey \/ ShowAll \/ TreeMode
           \/ \E v \in 0 .. 2 : SetTri(v)
           \/ \E n \in Searchable : DialogChange(n) \/ \E v \in 0 .. 2 : DialogSet(n, v)
  BY <1>5, KeyNotes
<1>6. CASE Quit
  <2>1. mode' = "done" /\ UNCHANGED <<files, name>>
    BY <1>6 DEF Quit
  <2> QED BY <1>1, <2>1 DEF ConfInv, SavedInv, KeepsSaved, Used
<1>7. CASE QuitSave
  <2> DEFINE w == WriteConfig(env)
  <2>1. mode' = "done" /\ files' = [files EXCEPT ![name] = w] /\ UNCHANGED name
    BY <1>7 DEF QuitSave
  <2>2. IsFile(w)
    BY WriteConfigIsFile
  <2> HIDE DEF w
  <2> QED BY <1>1, <1>3, <2>1, <2>2 DEF Used
<1>8. ASSUME NEW f \in Names, name' = f, UNCHANGED <<env, mode>>, Idle,
             files' = [files EXCEPT ![f] = WriteConfig(env)]
      PROVE  KeepsSaved
  <2> DEFINE w == WriteConfig(env)
  <2>1. IsFile(w) /\ Used
    BY <1>8, WriteConfigIsFile DEF Idle, Used
  <2>2. Readable /\ Intact(w) => SameValues(env, Loaded(w))
    BY <1>1, <2>1, WrittenIsLoaded DEF Readable, Intact
  <2>3. files' = [files EXCEPT ![f] = w]
    BY <1>8
  <2> HIDE DEF w
  <2>4. files'[name'] = w
    BY <1>1, <1>8, <2>3
  <2>5. IsConfiguration(env') /\ (Readable => Saved')
    BY <1>1, <1>8, <2>1, <2>2, <2>4 DEF Saved
  <2>6. mode' \in {"main", "jump", "done", "failed"}
    BY <1>8 DEF Idle
  <2> QED BY <1>3, <1>8, <2>1, <2>3, <2>5, <2>6
<1>9. CASE Save
  BY <1>1, <1>8, <1>9 DEF Save, Rest, values
<1>10. ASSUME NEW f \in Names, SaveAs(f) PROVE KeepsSaved
  BY <1>8, <1>10 DEF SaveAs, Rest, values
<1>11. ASSUME NEW f \in Names, SaveFails(f) PROVE KeepsSaved
  <2>1. /\ UNCHANGED <<env, changed, name, mode>> /\ Used
        /\ mode' \in {"main", "jump", "done", "failed"}
    BY <1>11 DEF SaveFails, Rest, values, Idle, Used
  <2>2. PICK w : /\ files' = [files EXCEPT ![f] = w]
                 /\ \/ w = Absent
                    \/ \E n \in CutLines : n < Len(WriteConfig(env)) /\ w = CutAfter(WriteConfig(env), n)
    BY <1>11, Zenon DEF SaveFails
  <2>3. (w = Absent \/ IsFile(w)) /\ ~Intact(w)
    BY <2>2, WriteConfigIsFile, CutAfterIsFile, FilesAssumption DEF Intact
  <2>4. Intact(files'[name]) => files'[name] = files[name]
    BY <1>1, <2>2, <2>3
  <2>5. IsConfiguration(env') /\ (SavedInv => Saved')
    BY <1>1, <2>1, <2>4 DEF Saved
  <2> QED BY <1>1, <1>3, <2>1, <2>2, <2>3, <2>5
<1>12. ASSUME NEW f \in Names, Open(f) PROVE KeepsSaved
  BY <1>12, OpenNotes
<1>13. CASE OpenJump \/ CancelJump
  BY <1>2, <1>13 DEF OpenJump, CancelJump, Rest, values, Idle, InJump, Used
<1>14. ASSUME NEW n \in Searchable, Jump(n) PROVE KeepsSaved
  <2>1. PICK to \in JumpToSelected(Window, n) : Becomes(to)
    BY <1>14 DEF Jump
  <2>2. Leaves(Window, to)
    BY WindowIs, JumpToSelectedLeaves
  <2>3. UNCHANGED <<env, changed>>
    BY <2>1, <2>2, WindowIs DEF Leaves, Becomes
  <2>4. UNCHANGED <<files, name>> /\ Used /\ mode' = "main"
    BY <1>14 DEF Jump, InJump, Used
  <2> QED BY <1>2, <2>3, <2>4
<1>15. CASE UNCHANGED gvars
  BY <1>2, <1>15 DEF gvars, values, Used, ConfInv
<1>16. CASE Start
  BY <1>16, StartNotes
<1> QED
  BY <1>4, <1>5, <1>6, <1>7, <1>9, <1>10, <1>11, <1>12, <1>13, <1>14, <1>15, <1>16 DEF GuiNext

\* Before the first window.
LEMMA InitNotes == GuiInit => SavedInv
<1> SUFFICES ASSUME GuiInit PROVE SavedInv
  OBVIOUS
<1>1. files \in [Names -> InitFiles] /\ mode = "done" /\ name = StdName
  BY DEF GuiInit
<1> QED BY <1>1, FilesAssumption DEF SavedInv, ConfInv, IsFile, Used

----------------------------------------------------------------------------
(* The theorem.                                                             *)

(***************************************************************************)
(* "Save changes?" is only skipped when nothing would be lost: while       *)
(* _conf_changed is False, the file gives a new session the values there   *)
(* are now, after any history of changes in the main window and in the     *)
(* jump-to dialog, saves, failed saves and files opened over other user    *)
(* values.  Saving under another name leaves _conf_changed as it is: the   *)
(* new file has the values of the moment anyway.  The tree is one whose    *)
(* files can be read back, as in RoundTripThm.                             *)
(***************************************************************************)
THEOREM NoChangeIsLostThm ==
    ASSUME IsTree, NEW CONSTANT Order, Ordered(Order),
           \A z : IsConfiguration(z) => ModeIsInferred(z) /\ DefaultsReturn(z)
    PROVE  GuiSpec => []NoChangeIsLost
<1>1. GuiInit => SavedInv
  BY InitNotes
<1>2. SavedInv /\ [GuiNext]_gvars => SavedInv'
  <2> SUFFICES ASSUME SavedInv, [GuiNext]_gvars PROVE SavedInv'
    OBVIOUS
  <2>1. KeepsSaved
    BY NextNotes DEF SavedInv
  <2>2. Readable
    BY DEF Readable
  <2> QED BY <2>1, <2>2 DEF KeepsSaved
<1>3. SavedInv => NoChangeIsLost
  BY DEF SavedInv, Saved, NoChangeIsLost
<1> QED BY <1>1, <1>2, <1>3, PTL DEF GuiSpec

----------------------------------------------------------------------------
(* What Those begins with.                                                  *)

\* What is kept begins with the first element that is kept.
LEMMA ThoseFirst ==
    ASSUME NEW T, NEW seq \in Seq(T), NEW S, NEW j \in DOMAIN seq, seq[j] \in S
    PROVE  /\ Those(seq, S) # <<>>
           /\ \E h \in DOMAIN seq : h <= j /\ Those(seq, S)[1] = seq[h]
<1> DEFINE kept == CHOOSE kept : Keeps(kept, seq, S)
           Begins(k, i) == Len(kept[k]) > 0 /\ \E h \in 1 .. i : kept[k][1] = seq[h]
           Right(k) == /\ kept[k] \in Seq(T)
                       /\ Len(kept[k]) > 0 => Begins(k, k)
                       /\ \A i \in 1 .. k : seq[i] \in S => Begins(k, i)
           Wrong == {k \in 0 .. Len(seq) : ~Right(k)}
<1>1. Keeps(kept, seq, S)
  BY KeptExists
<1>2. Those(seq, S) = kept[Len(seq)]
  BY DEF Those, Keeps
<1> HIDE DEF kept
<1>3. Right(0)
  <2>1. kept[0] = <<>>
    BY <1>1 DEF Keeps
  <2> QED BY <2>1
<1>4. ASSUME NEW k \in 1 .. Len(seq), Right(k - 1)
      PROVE  Right(k)
  <2>1. kept[k] = IF seq[k] \in S THEN Append(kept[k - 1], seq[k]) ELSE kept[k - 1]
    <3>1. k \in 0 .. Len(seq) /\ k # 0
      OBVIOUS
    <3> QED BY <1>1, <3>1, Zenon DEF Keeps
  <2> DEFINE a == kept[k - 1]
  <2>2. a \in Seq(T) /\ seq[k] \in T /\ Len(a) \in Nat
    BY <1>4
  <2>3. \A i \in 1 .. k : i \in 1 .. k - 1 \/ i = k
    OBVIOUS
  <2>4. CASE seq[k] \notin S
    <3>1. kept[k] = a
      BY <2>1, <2>4
    <3>2. Len(a) > 0 => \E h \in 1 .. k : a[1] = seq[h]
      BY <1>4
    <3>3. \A i \in 1 .. k : seq[i] \in S => Len(a) > 0 /\ \E h \in 1 .. i : a[1] = seq[h]
      BY <1>4, <2>3, <2>4
    <3> HIDE DEF a
    <3> QED BY <2>2, <3>1, <3>2, <3>3
  <2>5. CASE seq[k] \in S
    <3>1. kept[k] = Append(a, seq[k])
      BY <2>1, <2>5
    <3>2. \/ Len(a) = 0
          \/ Len(a) > 0 /\ \E h \in 1 .. k - 1 : a[1] = seq[h]
      BY <1>4, <2>2
    <3>3. \A i \in 1 .. k - 1 : seq[i] \in S => Len(a) > 0 /\ \E h \in 1 .. i : a[1] = seq[h]
      BY <1>4
    <3> HIDE DEF a
    <3>4. /\ kept[k] \in Seq(T) /\ Len(kept[k]) = Len(a) + 1
          /\ Len(a) > 0 => kept[k][1] = a[1]
          /\ Len(a) = 0 => kept[k][1] = seq[k]
      BY <2>2, <3>1
    <3>5. ASSUME NEW i \in 1 .. k, seq[i] \in S PROVE Begins(k, i)
      <4>1. CASE i \in 1 .. k - 1
        BY <2>2, <3>3, <3>4, <3>5, <4>1
      <4>2. CASE i = k
        BY <2>2, <3>2, <3>4, <4>2
      <4> QED BY <2>3, <4>1, <4>2
    <3>6. Begins(k, k)
      BY <2>5, <3>5
    <3> QED BY <3>4, <3>5, <3>6
  <2> QED BY <2>4, <2>5
<1> HIDE DEF Right
<1>5. Wrong = {}
  <2> SUFFICES ASSUME Wrong # {} PROVE FALSE
    OBVIOUS
  <2>1. PICK k \in Wrong : \A i \in Wrong : k <= i
    <3>1. Wrong \in SUBSET Nat
      OBVIOUS
    <3> HIDE DEF Wrong
    <3> QED BY <3>1, LeastNumber
  <2>2. k # 0
    BY <1>3
  <2>3. k - 1 \in 0 .. Len(seq) /\ k - 1 \notin Wrong /\ k \in 1 .. Len(seq)
    BY <2>1, <2>2
  <2> QED BY <1>4, <2>3
<1>6. Right(Len(seq))
  <2>1. Len(seq) \in 0 .. Len(seq)
    OBVIOUS
  <2> QED BY <1>5, <2>1
<1>7. j \in 1 .. Len(seq)
  OBVIOUS
<1>8. /\ Len(kept[Len(seq)]) > 0
      /\ \E h \in 1 .. j : kept[Len(seq)][1] = seq[h]
  BY <1>6, <1>7 DEF Right
<1> QED BY <1>2, <1>7, <1>8

\* Nothing is kept of a sequence with none of the elements.
LEMMA ThoseNone ==
    ASSUME NEW T, NEW seq \in Seq(T), NEW S, Seqs!ToSet(seq) \cap S = {}
    PROVE  Those(seq, S) = <<>>
<1> DEFINE s == Those(seq, S)
<1>1. s \in Seq(T) /\ Seqs!ToSet(s) = {}
  BY ThoseIs
<1> HIDE DEF s
<1>2. Len(s) \in Nat /\ DOMAIN s = 1 .. Len(s)
  BY <1>1
<1>3. Len(s) = 0
  <2> SUFFICES ASSUME Len(s) > 0 PROVE FALSE
    BY <1>2
  <2>1. 1 \in DOMAIN s
    BY <1>2
  <2> QED BY <1>1, <2>1 DEF Seqs!ToSet
<1>4. s = <<>>
  BY <1>1, <1>3
<1> QED BY <1>4 DEF s

----------------------------------------------------------------------------
(* What is displayed below a node.                                          *)

KidsIn(D, p) == {n \in D : ParentOf[n] = p}
Want(D, p)   == Those(NodeOrder, KidsIn(D, p))

LEMMA OrderIs == NodeOrder \in Seq(Nodes) /\ Seqs!ToSet(NodeOrder) = Nodes
BY NodesAssumption DEF Nodes

LEMMA WantIs ==
    ASSUME NEW D \in SUBSET Below, NEW p
    PROVE  /\ Want(D, p) \in Seq(KidsIn(D, p))
           /\ Want(D, p) = <<>> <=> KidsIn(D, p) = {}
<1> DEFINE K == KidsIn(D, p)
           s == Those(NodeOrder, K)
<1>1. K \subseteq Nodes
  BY DEF KidsIn, Below
<1> HIDE DEF K
<1>2. s \in Seq(Nodes) /\ Seqs!ToSet(s) = K
  <2>1. Seqs!ToSet(s) = Nodes \cap K
    BY OrderIs, ThoseIs
  <2> QED BY <1>1, <2>1, OrderIs, ThoseIs
<1> HIDE DEF s
<1>3. \A j \in DOMAIN s : s[j] \in K
  BY <1>2 DEF Seqs!ToSet
<1>4. s \in Seq(K)
  BY <1>2, <1>3
<1>5. K = {} => s = <<>>
  BY <1>4
<1>6. s = <<>> => K = {}
  BY <1>2 DEF Seqs!ToSet
<1> QED BY <1>4, <1>5, <1>6 DEF Want, s, K

\* The parent of a node that is not below a menu is a symbol below the top.
LEMMA ParentIs ==
    ASSUME NEW n \in Below
    PROVE  /\ ParentOf[n] \in Nodes /\ n \in Nodes /\ Before(ParentOf[n], n)
           /\ ParentOf[n] \in IsMenuconfig \/ ItemOf[ParentOf[n]] \in Syms
           /\ ParentOf[n] # TopNode => ParentOf[n] \in Below /\ <<ParentOf[n], n>> \in LowerNodes
           /\ ParentOf[n] \in IsMenuconfig => ParentMenu[n] = ParentOf[n]
           /\ ParentOf[n] \notin IsMenuconfig =>
                 ParentMenu[n] = ParentMenu[ParentOf[n]] /\ ParentOf[n] \in Below
<1>1. ParentOf[n] \in Nodes /\ n \in Nodes /\ Before(ParentOf[n], n)
  BY NodesAssumption DEF Below
<1>2. ParentOf[n] # TopNode => ParentOf[n] \in Below /\ <<ParentOf[n], n>> \in LowerNodes
  BY <1>1 DEF Below, LowerNodes
<1>3. TopNode \in IsMenuconfig
  <2>1. TopNode \in Nodes
    BY NodesAssumption DEF TopNode, Nodes, Seqs!ToSet
  <2> QED BY <2>1, NodesAssumption
<1> QED BY <1>1, <1>2, <1>3, ParentMenuUnfolds, NodesAssumption

\* What has a displayed row has a displayed node directly below.
LEMMA RowHasKid ==
    ASSUME NEW x, NEW all \in BOOLEAN, NEW m, Rows(x, all, m) # <<>>
    PROVE  Rows(x, all, m)[1] \in KidsIn(Displayed(x, all), m)
<1> DEFINE S == RowNodes(x, all, m)
           s == Those(NodeOrder, S)
<1>1. Rows(x, all, m) = s
  BY DEF Rows
<1>2. s \in Seq(Nodes) /\ Seqs!ToSet(s) = Nodes \cap S
  BY OrderIs, ThoseIs
<1> HIDE DEF s
<1> DEFINE n == s[1]
<1>3. n \in S
  <2>1. n \in Seqs!ToSet(s)
    BY <1>1, <1>2, HeadIsIn
  <2> QED BY <1>2, <2>1
<1>4. n \in Displayed(x, all) /\ n \in Below /\ ParentMenu[n] = m
  BY <1>3, AllDisplayed DEF RowNodes
<1> HIDE DEF S, n
<1>5. ParentOf[n] = m
  <2> DEFINE q == ParentOf[n]
  <2> SUFFICES ASSUME q # m PROVE FALSE
    OBVIOUS
  <2>1. q \notin IsMenuconfig /\ q \in Below /\ ParentMenu[q] = m /\ ItemOf[q] \in Syms
        /\ Before(q, n) /\ q \in Nodes
    BY <1>4, ParentIs
  <2>2. q \in Displayed(x, all)
    <3>1. CASE all
      BY <2>1, <3>1, AllDisplayed
    <3>2. CASE ~all
      <4>1. all = FALSE
        BY <3>2
      <4> QED BY <1>4, <2>1, <4>1, DisplayedIs
    <3> QED BY <3>1, <3>2
  <2>3. q \in S
    BY <2>1, <2>2 DEF S, RowNodes
  <2>4. PICK j \in DOMAIN NodeOrder : NodeOrder[j] = q
    BY <2>1 DEF Nodes, Seqs!ToSet
  <2>5. PICK h \in DOMAIN NodeOrder : h <= j /\ n = NodeOrder[h]
    <3>1. \E h \in DOMAIN NodeOrder : h <= j /\ Those(NodeOrder, S)[1] = NodeOrder[h]
      BY <2>3, <2>4, OrderIs, ThoseFirst
    <3> QED BY <3>1 DEF n, s
  <2>6. IndexOf(NodeOrder, q) = j - 1 /\ IndexOf(NodeOrder, n) = h - 1
    <3>1. IsIn(q, NodeOrder) /\ IsIn(n, NodeOrder)
      BY <2>4, <2>5 DEF IsIn
    <3>2. /\ IndexOf(NodeOrder, q) \in 0 .. Len(NodeOrder) - 1
          /\ NodeOrder[IndexOf(NodeOrder, q) + 1] = q
          /\ IndexOf(NodeOrder, n) \in 0 .. Len(NodeOrder) - 1
          /\ NodeOrder[IndexOf(NodeOrder, n) + 1] = n
      BY <3>1, OrderIs, IndexOfIs
    <3>3. \A i, k \in DOMAIN NodeOrder : NodeOrder[i] = NodeOrder[k] => i = k
      BY NodesAssumption
    <3>4. DOMAIN NodeOrder = 1 .. Len(NodeOrder) /\ Len(NodeOrder) \in Nat
      BY OrderIs
    <3>5. IndexOf(NodeOrder, q) + 1 = j
      <4> DEFINE i == IndexOf(NodeOrder, q)
      <4>1. i \in 0 .. Len(NodeOrder) - 1 /\ NodeOrder[i + 1] = NodeOrder[j]
        BY <2>4, <3>2
      <4> HIDE DEF i
      <4>2. i + 1 \in DOMAIN NodeOrder
        BY <3>4, <4>1
      <4> QED BY <3>3, <4>1, <4>2 DEF i
    <3>6. IndexOf(NodeOrder, n) + 1 = h
      <4> DEFINE i == IndexOf(NodeOrder, n)
      <4>1. i \in 0 .. Len(NodeOrder) - 1 /\ NodeOrder[i + 1] = NodeOrder[h]
        BY <2>5, <3>2
      <4> HIDE DEF i
      <4>2. i + 1 \in DOMAIN NodeOrder
        BY <3>4, <4>1
      <4> QED BY <3>3, <4>1, <4>2 DEF i
    <3> QED BY <3>2, <3>4, <3>5, <3>6
  <2>7. j \in Int /\ h \in Int
    BY OrderIs
  <2> HIDE DEF q
  <2> QED BY <2>1, <2>5, <2>6, <2>7 DEF Before
<1> QED BY <1>1, <1>4, <1>5 DEF KidsIn, n

\* A menu has a row exactly if a node directly below is displayed.
LEMMA RowsAndKids ==
    ASSUME NEW x, NEW all \in BOOLEAN, NEW m, ItemOf[m] \notin Syms
    PROVE  Rows(x, all, m) = <<>> <=> KidsIn(Displayed(x, all), m) = {}
<1>1. Rows(x, all, m) # <<>> => KidsIn(Displayed(x, all), m) # {}
  BY RowHasKid
<1>2. ASSUME NEW n \in KidsIn(Displayed(x, all), m) PROVE Rows(x, all, m) # <<>>
  <2>1. n \in Below /\ n \in Displayed(x, all) /\ ParentOf[n] = m
    BY AllDisplayed DEF KidsIn
  <2>2. ParentMenu[n] = m
    BY <2>1, ParentIs
  <2>3. n \in RowNodes(x, all, m)
    BY <2>1, <2>2 DEF RowNodes
  <2>4. PICK j \in DOMAIN NodeOrder : NodeOrder[j] = n
    BY <2>1 DEF Below, Nodes, Seqs!ToSet
  <2> QED BY <2>3, <2>4, OrderIs, ThoseFirst DEF Rows
<1> QED BY <1>1, <1>2

----------------------------------------------------------------------------
(* The recursions over nodes.                                               *)

\* What is below the menus and the open items, from the top down.
IsShownFull(u, menus, shown) ==
    shown = [n \in Below |->
                /\ n \in Displayed(u.env, u.showAll)
                /\ \/ ParentOf[n] \in menus
                   \/ /\ ParentOf[n] \in Below
                      /\ ItemOf[ParentOf[n]] \in Syms \/ ParentOf[n] \in u.open
                      /\ shown[ParentOf[n]]]

LEMMA ShownFullExists ==
    ASSUME NEW u, NEW menus
    PROVE  \E shown \in [Below -> BOOLEAN] : IsShownFull(u, menus, shown)
<1> DEFINE F == [Below -> BOOLEAN]
           Next1(f) == [n \in Below |->
                /\ n \in Displayed(u.env, u.showAll)
                /\ \/ ParentOf[n] \in menus
                   \/ /\ ParentOf[n] \in Below
                      /\ ItemOf[ParentOf[n]] \in Syms \/ ParentOf[n] \in u.open
                      /\ f[ParentOf[n]]]
           Step == [f \in F |-> Next1(f)]
<1>1. F # {} /\ PointByPoint(Below, F)
  <2>1. [n \in Below |-> TRUE] \in F
    OBVIOUS
  <2>2. PointByPoint(Below, F)
    BY DEF PointByPoint
  <2> QED BY <2>1, <2>2
<1>2. \A f \in F : Next1(f) \in F
  OBVIOUS
<1>3. DeterminedBelow(Below, F, Step, LowerNodes)
  <2> SUFFICES ASSUME NEW f \in F, NEW g \in F, NEW p \in Below,
                      \A q \in Below : <<q, p>> \in LowerNodes => f[q] = g[q]
               PROVE  Step[f][p] = Step[g][p]
    BY DEF DeterminedBelow
  <2>1. ParentOf[p] \in Below => f[ParentOf[p]] = g[ParentOf[p]]
    <3>1. ParentOf[p] \in Below => <<ParentOf[p], p>> \in LowerNodes
      BY ParentIs DEF Below
    <3> QED BY <3>1
  <2>2. Step[f] = Next1(f) /\ Step[g] = Next1(g)
    OBVIOUS
  <2> HIDE DEF Step, F
  <2>3. Next1(f)[p] = Next1(g)[p]
    BY <2>1
  <2> QED BY <2>2, <2>3
<1>4. \A f \in F : Step[f] \in F
  BY <1>2
<1> HIDE DEF F, Step
<1>5. PICK f \in F : f = Step[f]
  BY <1>1, <1>3, <1>4, FirstNode, RecursionHasSolution
<1>6. f = Next1(f)
  BY <1>5 DEF Step
<1> QED BY <1>6 DEF IsShownFull, F

LEMMA ShownFullIs ==
    ASSUME NEW u, NEW menus
    PROVE  /\ ShownFullNodes(u, menus) \subseteq Displayed(u.env, u.showAll)
           /\ ShownFullNodes(u, menus) \subseteq Below
           /\ \A n \in Below :
                 n \in ShownFullNodes(u, menus) <=>
                    /\ n \in Displayed(u.env, u.showAll)
                    /\ \/ ParentOf[n] \in menus
                       \/ /\ ItemOf[ParentOf[n]] \in Syms \/ ParentOf[n] \in u.open
                          /\ ParentOf[n] \in ShownFullNodes(u, menus)
<1> DEFINE shown == CHOOSE f : IsShownFull(u, menus, f)
<1>1. IsShownFull(u, menus, shown)
  BY ShownFullExists
<1>2. ShownFullNodes(u, menus) = {n \in Below : shown[n]}
  BY DEF ShownFullNodes, IsShownFull
<1> HIDE DEF shown
<1>3. \A n \in Below : shown[n] <=>
         /\ n \in Displayed(u.env, u.showAll)
         /\ \/ ParentOf[n] \in menus
            \/ /\ ParentOf[n] \in Below
               /\ ItemOf[ParentOf[n]] \in Syms \/ ParentOf[n] \in u.open
               /\ shown[ParentOf[n]]
  BY <1>1 DEF IsShownFull
<1> QED BY <1>2, <1>3

\* Items are attached below the parents of their nodes; at the root they may
\* be others.
Parented(k) == \A p \in Below : \A n : IsIn(n, k[p]) => n \in Below /\ ParentOf[n] = p

IsRow(k, opened, row) ==
    row = [n \in Below |-> \E p \in TreeParent(k, n) : p = TopNode \/ (p \in opened /\ row[p])]

LEMMA TreeParentIs ==
    ASSUME NEW k, Parented(k), NEW n, NEW p \in TreeParent(k, n), p # TopNode
    PROVE  /\ p \in Below /\ n \in Below /\ p = ParentOf[n] /\ <<p, n>> \in LowerNodes
<1>1. p \in Below /\ IsIn(n, k[p])
  BY DEF TreeParent, Below
<1>2. n \in Below /\ ParentOf[n] = p
  BY <1>1 DEF Parented
<1> QED BY <1>1, <1>2, ParentIs

LEMMA RowExists ==
    ASSUME NEW k, Parented(k), NEW opened
    PROVE  \E row \in [Below -> BOOLEAN] : IsRow(k, opened, row)
<1> DEFINE F == [Below -> BOOLEAN]
           Next1(f) == [n \in Below |->
                \E p \in TreeParent(k, n) : p = TopNode \/ (p \in opened /\ f[p])]
           Step == [f \in F |-> Next1(f)]
<1>1. F # {} /\ PointByPoint(Below, F)
  <2>1. [n \in Below |-> TRUE] \in F
    OBVIOUS
  <2>2. PointByPoint(Below, F)
    BY DEF PointByPoint
  <2> QED BY <2>1, <2>2
<1>2. \A f \in F : Next1(f) \in F
  OBVIOUS
<1>3. DeterminedBelow(Below, F, Step, LowerNodes)
  <2> SUFFICES ASSUME NEW f \in F, NEW g \in F, NEW n \in Below,
                      \A q \in Below : <<q, n>> \in LowerNodes => f[q] = g[q]
               PROVE  Step[f][n] = Step[g][n]
    BY DEF DeterminedBelow
  <2>1. \A p \in TreeParent(k, n) : p # TopNode => f[p] = g[p]
    BY TreeParentIs
  <2>2. Step[f] = Next1(f) /\ Step[g] = Next1(g)
    OBVIOUS
  <2> HIDE DEF Step, F
  <2>3. Next1(f)[n] = Next1(g)[n]
    BY <2>1
  <2> QED BY <2>2, <2>3
<1>4. \A f \in F : Step[f] \in F
  BY <1>2
<1> HIDE DEF F, Step
<1>5. PICK f \in F : f = Step[f]
  BY <1>1, <1>3, <1>4, FirstNode, RecursionHasSolution
<1>6. f = Next1(f)
  BY <1>5 DEF Step
<1> QED BY <1>6 DEF IsRow, F

LEMMA RowsOfIs ==
    ASSUME NEW k, Parented(k), NEW opened
    PROVE  /\ RowsOf(k, opened) \subseteq Below
           /\ \A n \in Below :
                 n \in RowsOf(k, opened) <=>
                    \E p \in TreeParent(k, n) :
                       p = TopNode \/ (p \in opened /\ p \in RowsOf(k, opened))
<1> DEFINE row == CHOOSE f : IsRow(k, opened, f)
<1>1. IsRow(k, opened, row)
  BY RowExists
<1>2. RowsOf(k, opened) = {n \in Below : row[n]}
  BY DEF RowsOf, IsRow
<1> HIDE DEF row
<1>3. \A n \in Below : row[n] <=>
         \E p \in TreeParent(k, n) : p = TopNode \/ (p \in opened /\ row[p])
  BY <1>1 DEF IsRow
<1>4. ASSUME NEW n \in Below, NEW p \in TreeParent(k, n), p # TopNode PROVE p \in Below
  BY <1>4, TreeParentIs
<1> QED BY <1>2, <1>3, <1>4

IsAbove(k, above) ==
    above = [m \in Below |-> UNION {{p} \cup above[p] : p \in TreeParent(k, m) \ {TopNode}}]

LEMMA AboveExists ==
    ASSUME NEW k, Parented(k)
    PROVE  \E above \in [Below -> SUBSET Below] : IsAbove(k, above)
<1> DEFINE F == [Below -> SUBSET Below]
           Up(f, n) == UNION {{p} \cup f[p] : p \in TreeParent(k, n) \ {TopNode}}
           Next1(f) == [n \in Below |-> Up(f, n)]
           Step == [f \in F |-> Next1(f)]
<1>1. F # {} /\ PointByPoint(Below, F)
  <2>1. [n \in Below |-> {}] \in F
    OBVIOUS
  <2>2. PointByPoint(Below, F)
    BY DEF PointByPoint
  <2> QED BY <2>1, <2>2
<1>2. \A f \in F : Next1(f) \in F
  <2> SUFFICES ASSUME NEW f \in F, NEW n \in Below PROVE Up(f, n) \subseteq Below
    OBVIOUS
  <2>1. \A p \in TreeParent(k, n) \ {TopNode} : p \in Below /\ f[p] \subseteq Below
    BY TreeParentIs
  <2> HIDE DEF F
  <2> QED BY <2>1
<1>3. DeterminedBelow(Below, F, Step, LowerNodes)
  <2> SUFFICES ASSUME NEW f \in F, NEW g \in F, NEW n \in Below,
                      \A q \in Below : <<q, n>> \in LowerNodes => f[q] = g[q]
               PROVE  Step[f][n] = Step[g][n]
    BY DEF DeterminedBelow
  <2>1. \A p \in TreeParent(k, n) \ {TopNode} : f[p] = g[p]
    BY TreeParentIs
  <2>2. Step[f] = Next1(f) /\ Step[g] = Next1(g)
    OBVIOUS
  <2> HIDE DEF Step, F
  <2>3. Up(f, n) = Up(g, n)
    BY <2>1
  <2> HIDE DEF Up
  <2> QED BY <2>2, <2>3
<1>4. \A f \in F : Step[f] \in F
  BY <1>2
<1> HIDE DEF F, Step
<1>5. PICK f \in F : f = Step[f]
  BY <1>1, <1>3, <1>4, FirstNode, RecursionHasSolution
<1>6. f = Next1(f)
  BY <1>5 DEF Step
<1> QED BY <1>6 DEF IsAbove, F

LEMMA AboveIs ==
    ASSUME NEW k, Parented(k), NEW n \in Below
    PROVE  /\ Above(k, n) \subseteq Below
           /\ Above(k, n) = UNION {{p} \cup Above(k, p) : p \in TreeParent(k, n) \ {TopNode}}
<1> DEFINE above == CHOOSE f : IsAbove(k, f)
<1>1. IsAbove(k, above)
  BY AboveExists
<1>2. \A m \in Below : Above(k, m) = above[m]
  BY DEF Above, IsAbove
<1> HIDE DEF above
<1>3. \A m \in Below :
         above[m] = UNION {{p} \cup above[p] : p \in TreeParent(k, m) \ {TopNode}}
  BY <1>1 DEF IsAbove
<1> DEFINE Wrong == {m \in Below : ~(above[m] \subseteq Below)}
<1>4. Wrong = {}
  <2> SUFFICES ASSUME Wrong # {} PROVE FALSE
    OBVIOUS
  <2>1. PICK m \in Wrong : \A q \in Wrong : <<q, m>> \notin LowerNodes
    BY FirstNode DEF HasLowest
  <2>2. \A p \in TreeParent(k, m) \ {TopNode} : p \in Below /\ above[p] \subseteq Below
    BY <2>1, TreeParentIs
  <2>3. above[m] \subseteq Below
    BY <1>3, <2>2
  <2> QED BY <2>1, <2>3
<1>5. \A p \in TreeParent(k, n) \ {TopNode} : Above(k, p) = above[p]
  BY <1>2, TreeParentIs
<1>6. above[n] = UNION {{p} \cup Above(k, p) : p \in TreeParent(k, n) \ {TopNode}}
  BY <1>3, <1>5
<1> QED BY <1>2, <1>4, <1>6

----------------------------------------------------------------------------
(* What the functions that populate the tree attach.                        *)

Shown(u) == Displayed(u.env, u.showAll)

\* Every item is below its parent, and displayed.
Fit(D, k) == \A p \in Nodes : k[p] \in Seq(KidsIn(D, p))

LEMMA ElementsIn ==
    ASSUME NEW K, NEW s \in Seq(K)
    PROVE  /\ \A j \in DOMAIN s : s[j] \in K
           /\ \A L : K \subseteq L => s \in Seq(L)
<1>1. s \in [1 .. Len(s) -> K] /\ Len(s) \in Nat
  OBVIOUS
<1>2. ASSUME NEW L, K \subseteq L PROVE s \in Seq(L)
  <2>1. s \in [1 .. Len(s) -> L]
    BY <1>1, <1>2
  <2> QED BY <1>1, <2>1
<1> QED BY <1>1, <1>2

LEMMA FitIsParented ==
    ASSUME NEW D \in SUBSET Below, NEW k, Fit(D, k)
    PROVE  /\ Parented(k)
           /\ \A n : \A p \in TreeParent(k, n) : n \in D /\ ParentOf[n] = p
<1>1. ASSUME NEW p \in Nodes, NEW n, IsIn(n, k[p]) PROVE n \in D /\ ParentOf[n] = p
  <2>1. PICK j \in DOMAIN k[p] : k[p][j] = n
    BY <1>1 DEF IsIn
  <2>2. n \in KidsIn(D, p)
    BY <2>1, ElementsIn DEF Fit
  <2> QED BY <2>2 DEF KidsIn
<1>2. Parented(k)
  BY <1>1 DEF Parented, Below
<1> QED BY <1>1, <1>2 DEF TreeParent

LEMMA PlaceAtTop == ASSUME NEW n PROVE Place(n, TopNode) = ParentOf[n]
BY DEF Place

\* Opened menus and what is open below them get all of their items, closed
\* menus among these one if there is any, other items keep what they have.
LEMMA BuildIs ==
    ASSUME NEW u, u.showAll \in BOOLEAN, NEW k, Fit(Shown(u), k), NEW menus
    PROVE  LET S  == ShownFullNodes(u, menus)
               to == BuildFullTree(u, k, menus)
           IN  /\ Fit(Shown(u), to)
               /\ \A p \in Nodes :
                     IF p \in menus \/ (p \in S /\ (ItemOf[p] \in Syms \/ p \in u.open))
                     THEN to[p] = Want(Shown(u), p)
                     ELSE IF p \in S THEN (to[p] = <<>>) = (Want(Shown(u), p) = <<>>)
                     ELSE to[p] = k[p]
<1> DEFINE D  == Shown(u)
           S  == ShownFullNodes(u, menus)
           C  == S \ (menus \cup u.open)
           P  == Probed(u, C)
           to == BuildFullTree(u, k, menus)
           All(p) == p \in menus \/ (p \in S /\ (ItemOf[p] \in Syms \/ p \in u.open))
           Kept(p) == Those(k[p], Nodes \ (S \cup P))
           New(p)  == Those(NodeOrder, KidsIn(S \cup P, p))
<1>1. S \subseteq D /\ S \subseteq Below /\ D \subseteq Below
  BY ShownFullIs, AllDisplayed DEF Shown
<1>2. \A n \in Below : n \in S <=> n \in D /\ All(ParentOf[n])
  BY ShownFullIs DEF Shown
<1>3. \A p \in Nodes : to[p] = Kept(p) \o New(p)
  BY PlaceAtTop DEF BuildFullTree, AddToTree, KidsIn
<1> HIDE DEF to
<1>4. ASSUME NEW n \in P
      PROVE  \E q \in C : /\ ItemOf[q] \notin Syms /\ ShownMenuNodes(u, q) # <<>>
                          /\ n \in KidsIn(D, q)
  <2>1. PICK q \in C : /\ ItemOf[q] \notin Syms /\ ShownMenuNodes(u, q) # <<>>
                       /\ n = Head(ShownMenuNodes(u, q))
    BY DEF Probed
  <2>2. Rows(u.env, u.showAll, q) # <<>>
    BY <2>1 DEF ShownMenuNodes
  <2>3. Rows(u.env, u.showAll, q)[1] \in KidsIn(D, q)
    BY <2>2, RowHasKid DEF Shown
  <2>4. n = Rows(u.env, u.showAll, q)[1]
    <3>1. Rows(u.env, u.showAll, q) \in Seq(Nodes)
      BY OrderIs, ThoseIs DEF Rows
    <3> QED BY <2>1, <2>2, <3>1 DEF ShownMenuNodes
  <2> QED BY <2>1, <2>3, <2>4
<1>5. ASSUME NEW q \in C, ItemOf[q] \notin Syms, ShownMenuNodes(u, q) # <<>>
      PROVE  KidsIn(P, q) # {}
  <2> DEFINE n == Head(ShownMenuNodes(u, q))
  <2>1. n \in P
    BY <1>5 DEF Probed
  <2>2. Rows(u.env, u.showAll, q) # <<>>
    BY <1>5 DEF ShownMenuNodes
  <2>3. Rows(u.env, u.showAll, q)[1] \in KidsIn(D, q)
    BY <2>2, RowHasKid DEF Shown
  <2>4. n = Rows(u.env, u.showAll, q)[1]
    <3>1. Rows(u.env, u.showAll, q) \in Seq(Nodes)
      BY OrderIs, ThoseIs DEF Rows
    <3> QED BY <2>2, <3>1 DEF ShownMenuNodes
  <2> HIDE DEF n, P
  <2> QED BY <2>1, <2>3, <2>4 DEF KidsIn
<1>6. ASSUME NEW q \in C, ItemOf[q] \notin Syms
      PROVE  ShownMenuNodes(u, q) = <<>> <=> KidsIn(D, q) = {}
  BY <1>6, RowsAndKids DEF ShownMenuNodes, Shown
<1> HIDE DEF P
<1>7. P \subseteq D
  BY <1>4 DEF KidsIn
<1> HIDE DEF D, S
<1>8. ASSUME NEW p \in Nodes PROVE k[p] \in Seq(KidsIn(D, p)) /\ Seqs!ToSet(k[p]) \subseteq KidsIn(D, p)
  BY DEF Fit, D, Seqs!ToSet
<1>9. ASSUME NEW p \in Nodes PROVE to[p] \in Seq(KidsIn(D, p))
  <2>1. Kept(p) \in Seq(KidsIn(D, p))
    BY <1>8, ThoseIs
  <2>2. New(p) \in Seq(KidsIn(S \cup P, p))
    <3>1. S \cup P \in SUBSET Below
      BY <1>1, <1>7
    <3> QED BY <3>1, WantIs DEF Want
  <2>3. KidsIn(S \cup P, p) \subseteq KidsIn(D, p)
    BY <1>1, <1>7 DEF KidsIn
  <2>4. New(p) \in Seq(KidsIn(D, p))
    <3> HIDE DEF New
    <3> QED BY <2>2, <2>3, ElementsIn
  <2>5. to[p] = Kept(p) \o New(p)
    BY <1>3
  <2> HIDE DEF Kept, New
  <2> QED BY <2>1, <2>4, <2>5
<1>10. ASSUME NEW p \in Nodes, All(p) PROVE to[p] = Want(D, p)
  <2>1. KidsIn(S \cup P, p) = KidsIn(D, p)
    BY <1>1, <1>2, <1>7, <1>10 DEF KidsIn
  <2>2. Kept(p) = <<>>
    <3>1. Seqs!ToSet(k[p]) \cap (Nodes \ (S \cup P)) = {}
      BY <1>8, <2>1 DEF KidsIn
    <3> QED BY <1>8, <3>1, ThoseNone
  <2>3. New(p) = Want(D, p)
    BY <2>1 DEF Want
  <2>4. Want(D, p) \in Seq(KidsIn(D, p))
    BY <1>1, WantIs
  <2>5. to[p] = Kept(p) \o New(p)
    BY <1>3
  <2> HIDE DEF Kept, New
  <2> QED BY <2>2, <2>3, <2>4, <2>5
<1>11. ASSUME NEW p \in Nodes, ~All(p), p \in S
       PROVE  (to[p] = <<>>) = (Want(D, p) = <<>>)
  <2>1. p \in C /\ ItemOf[p] \notin Syms
    BY <1>11
  <2>2. CASE ShownMenuNodes(u, p) = <<>>
    <3>1. KidsIn(D, p) = {}
      BY <1>6, <2>1, <2>2
    <3>2. Want(D, p) = <<>>
      BY <1>1, <3>1, WantIs
    <3>3. to[p] = <<>>
      BY <1>9, <3>1
    <3> QED BY <3>2, <3>3
  <2>3. CASE ShownMenuNodes(u, p) # <<>>
    <3>1. KidsIn(D, p) # {}
      BY <1>6, <2>1, <2>3
    <3>2. Want(D, p) # <<>>
      BY <1>1, <3>1, WantIs
    <3>3. KidsIn(P, p) # {}
      BY <1>5, <2>1, <2>3
    <3>4. KidsIn(S \cup P, p) # {}
      BY <3>3 DEF KidsIn
    <3>5. New(p) # <<>> /\ New(p) \in Seq(KidsIn(S \cup P, p))
      <4>1. S \cup P \in SUBSET Below
        BY <1>1, <1>7
      <4> QED BY <3>4, <4>1, WantIs DEF Want
    <3>6. Kept(p) \in Seq(KidsIn(D, p))
      BY <1>8, ThoseIs
    <3>7. to[p] = Kept(p) \o New(p)
      BY <1>3
    <3> HIDE DEF Kept, New
    <3>8. to[p] # <<>>
      BY <3>5, <3>6, <3>7
    <3> QED BY <3>2, <3>8
  <2> QED BY <2>2, <2>3
<1>12. ASSUME NEW p \in Nodes, ~All(p), p \notin S PROVE to[p] = k[p]
  <2>1. KidsIn(S \cup P, p) = {}
    <3> SUFFICES ASSUME NEW n \in S \cup P, ParentOf[n] = p PROVE FALSE
      BY DEF KidsIn
    <3>1. CASE n \in S
      BY <1>1, <1>2, <1>12, <3>1
    <3>2. CASE n \in P
      BY <1>4, <1>12, <3>2 DEF KidsIn
    <3> QED BY <3>1, <3>2
  <2>2. \A j \in DOMAIN k[p] : k[p][j] \in Nodes \ (S \cup P)
    <3> TAKE j \in DOMAIN k[p]
    <3>1. k[p][j] \in KidsIn(D, p)
      BY <1>8
    <3>2. k[p][j] \in Nodes
      BY <1>1, <3>1 DEF KidsIn, Below
    <3> QED BY <2>1, <3>1, <3>2 DEF KidsIn
  <2>3. Kept(p) = k[p]
    BY <1>8, <2>2, ThoseAll
  <2>4. New(p) = <<>>
    <3>1. S \cup P \in SUBSET Below
      BY <1>1, <1>7
    <3> QED BY <2>1, <3>1, WantIs DEF Want
  <2>5. to[p] = Kept(p) \o New(p)
    BY <1>3
  <2> HIDE DEF Kept, New
  <2> QED BY <1>8, <2>3, <2>4, <2>5
<1>13. Fit(D, to)
  BY <1>9 DEF Fit
<1> QED BY <1>10, <1>11, <1>12, <1>13 DEF D, S, to

----------------------------------------------------------------------------
(* The full tree.                                                           *)

\* An item has the items it should have: at the root, below symbols and open
\* items all of them, and below closed menus any if there are any.
Right(u, p) ==
    IF p = TopNode \/ p \in u.open \/ ItemOf[p] \in Syms
    THEN u.kids[p] = Want(Shown(u), p)
    ELSE (u.kids[p] = <<>>) = (Want(Shown(u), p) = <<>>)

Full(u) ==
    /\ Fit(Shown(u), u.kids)
    /\ \A p \in ShownFullNodes(u, {TopNode}) \cup {TopNode} : Right(u, p)

\* Put together from nothing.
LEMMA BuiltFull ==
    ASSUME NEW u, u.showAll \in BOOLEAN, u.kids = BuildFullTree(u, Detached, {TopNode})
    PROVE  Full(u)
<1>1. Fit(Shown(u), Detached)
  <2>1. \A p \in Nodes : Detached[p] = <<>>
    BY DEF Detached
  <2>2. \A K : <<>> \in Seq(K)
    OBVIOUS
  <2> QED BY <2>1, <2>2 DEF Fit
<1> DEFINE S == ShownFullNodes(u, {TopNode})
<1>2. /\ Fit(Shown(u), u.kids)
      /\ \A p \in Nodes :
            IF p \in {TopNode} \/ (p \in S /\ (ItemOf[p] \in Syms \/ p \in u.open))
            THEN u.kids[p] = Want(Shown(u), p)
            ELSE IF p \in S THEN (u.kids[p] = <<>>) = (Want(Shown(u), p) = <<>>)
            ELSE u.kids[p] = Detached[p]
  BY <1>1, BuildIs
<1>3. S \subseteq Nodes /\ TopNode \in Nodes /\ TopNode \notin S
  <2>1. TopNode \in Nodes
    BY NodesAssumption DEF TopNode, Nodes, Seqs!ToSet
  <2> QED BY <2>1, ShownFullIs DEF Below
<1> HIDE DEF S
<1>4. ASSUME NEW p \in S \cup {TopNode} PROVE Right(u, p)
  BY <1>2, <1>3 DEF Right
<1> QED BY <1>2, <1>4 DEF Full, S

\* Opening and closing items that need no more than they have.
LEMMA SameFull ==
    ASSUME NEW u, Full(u), NEW to,
           to.env = u.env, to.showAll = u.showAll, to.kids = u.kids,
           \A p \in to.open \ u.open : ItemOf[p] \in Syms
    PROVE  Full(to)
<1> DEFINE S == ShownFullNodes(u, {TopNode})
           T == ShownFullNodes(to, {TopNode})
<1>1. Shown(to) = Shown(u)
  BY DEF Shown
<1>2. /\ \A n \in Below : n \in S <=>
            /\ n \in Shown(u)
            /\ \/ ParentOf[n] \in {TopNode}
               \/ (ItemOf[ParentOf[n]] \in Syms \/ ParentOf[n] \in u.open) /\ ParentOf[n] \in S
      /\ \A n \in Below : n \in T <=>
            /\ n \in Shown(to)
            /\ \/ ParentOf[n] \in {TopNode}
               \/ (ItemOf[ParentOf[n]] \in Syms \/ ParentOf[n] \in to.open) /\ ParentOf[n] \in T
      /\ S \subseteq Below /\ T \subseteq Below
  BY ShownFullIs DEF Shown
<1> HIDE DEF S, T
<1> DEFINE Wrong == T \ S
<1>3. Wrong = {}
  <2> SUFFICES ASSUME Wrong # {} PROVE FALSE
    OBVIOUS
  <2>1. PICK n \in Wrong : \A q \in Wrong : <<q, n>> \notin LowerNodes
    BY <1>2, FirstNode DEF HasLowest
  <2>2. n \in Below /\ n \in T /\ n \notin S
    BY <1>2, <2>1
  <2>3. ParentOf[n] # TopNode
    BY <1>1, <1>2, <2>2
  <2>4. ParentOf[n] \in T /\ ParentOf[n] \notin S
    BY <1>1, <1>2, <2>2, <2>3
  <2>5. <<ParentOf[n], n>> \in LowerNodes
    BY <2>2, <2>3, ParentIs
  <2> QED BY <2>1, <2>4, <2>5
<1>4. ASSUME NEW p \in T \cup {TopNode} PROVE Right(to, p)
  <2>1. Right(u, p)
    BY <1>3 DEF Full, S
  <2>2. p \in to.open => p \in u.open \/ ItemOf[p] \in Syms
    OBVIOUS
  <2> QED BY <1>1, <2>1, <2>2 DEF Right
<1> QED BY <1>1, <1>4 DEF Full, T

\* Opening items, with the menus among them populated.
LEMMA OpenedFull ==
    ASSUME NEW u, u.showAll \in BOOLEAN, Full(u), NEW to, NEW menus \in SUBSET Below,
           to.env = u.env, to.showAll = u.showAll, u.open \subseteq to.open,
           to.kids = BuildFullTree(u, u.kids, menus),
           \A p \in to.open \ u.open : ItemOf[p] \in Syms \/ p \in menus
    PROVE  Full(to)
<1> DEFINE S == ShownFullNodes(u, {TopNode})
           M == ShownFullNodes(u, menus)
           T == ShownFullNodes(to, {TopNode})
<1>1. Shown(to) = Shown(u)
  BY DEF Shown
<1>2. /\ \A n \in Below : n \in S <=>
            /\ n \in Shown(u)
            /\ \/ ParentOf[n] \in {TopNode}
               \/ (ItemOf[ParentOf[n]] \in Syms \/ ParentOf[n] \in u.open) /\ ParentOf[n] \in S
      /\ \A n \in Below : n \in M <=>
            /\ n \in Shown(u)
            /\ \/ ParentOf[n] \in menus
               \/ (ItemOf[ParentOf[n]] \in Syms \/ ParentOf[n] \in u.open) /\ ParentOf[n] \in M
      /\ \A n \in Below : n \in T <=>
            /\ n \in Shown(to)
            /\ \/ ParentOf[n] \in {TopNode}
               \/ (ItemOf[ParentOf[n]] \in Syms \/ ParentOf[n] \in to.open) /\ ParentOf[n] \in T
      /\ S \subseteq Below /\ M \subseteq Below /\ T \subseteq Below
  BY ShownFullIs DEF Shown
<1>3. Fit(Shown(u), u.kids)
  BY DEF Full
<1>4. /\ Fit(Shown(u), to.kids)
      /\ \A p \in Nodes :
            IF p \in menus \/ (p \in M /\ (ItemOf[p] \in Syms \/ p \in u.open))
            THEN to.kids[p] = Want(Shown(u), p)
            ELSE IF p \in M THEN (to.kids[p] = <<>>) = (Want(Shown(u), p) = <<>>)
            ELSE to.kids[p] = u.kids[p]
  BY <1>3, BuildIs
<1> HIDE DEF M, T
<1> DEFINE Wrong == T \ (S \cup M)
<1>5. Wrong = {}
  <2> HIDE DEF S
  <2> SUFFICES ASSUME Wrong # {} PROVE FALSE
    OBVIOUS
  <2>1. PICK n \in Wrong : \A q \in Wrong : <<q, n>> \notin LowerNodes
    BY <1>2, FirstNode DEF HasLowest
  <2>2. n \in Below /\ n \in T /\ n \notin S /\ n \notin M /\ n \in Shown(u)
    BY <1>1, <1>2, <2>1
  <2>3. ParentOf[n] # TopNode /\ ParentOf[n] \notin menus
    BY <1>2, <2>2
  <2>4. ParentOf[n] \in T /\ (ItemOf[ParentOf[n]] \in Syms \/ ParentOf[n] \in to.open)
    BY <1>2, <2>2, <2>3
  <2>5. ItemOf[ParentOf[n]] \in Syms \/ ParentOf[n] \in u.open
    BY <2>3, <2>4
  <2>6. ParentOf[n] \notin S /\ ParentOf[n] \notin M
    BY <1>2, <2>2, <2>5
  <2>7. <<ParentOf[n], n>> \in LowerNodes
    BY <2>2, <2>3, ParentIs
  <2> QED BY <2>1, <2>4, <2>6, <2>7
<1>6. TopNode \in Nodes /\ TopNode \notin menus /\ TopNode \notin M /\ T \subseteq Nodes
  <2>1. TopNode \in Nodes
    BY NodesAssumption DEF TopNode, Nodes, Seqs!ToSet
  <2> QED BY <1>2, <2>1 DEF Below
<1>7. ASSUME NEW p \in T \cup {TopNode} PROVE Right(to, p)
  <2>1. p \in Nodes /\ (p = TopNode \/ p \in S \/ p \in M)
    BY <1>5, <1>6
  <2>2. p \in to.open => p \in u.open \/ ItemOf[p] \in Syms \/ p \in menus
    OBVIOUS
  <2>3. p = TopNode \/ p \in S => Right(u, p)
    BY DEF Full
  <2> HIDE DEF S
  <2>4. CASE p \in menus \/ (p \in M /\ (ItemOf[p] \in Syms \/ p \in u.open))
    <3>1. to.kids[p] = Want(Shown(to), p)
      BY <1>1, <1>4, <2>1, <2>4
    <3> QED BY <3>1 DEF Right
  <2>5. CASE /\ ~(p \in menus \/ (p \in M /\ (ItemOf[p] \in Syms \/ p \in u.open)))
             /\ p \in M
    <3>1. (to.kids[p] = <<>>) = (Want(Shown(to), p) = <<>>)
      BY <1>1, <1>4, <2>1, <2>5
    <3>2. p # TopNode /\ p \notin to.open /\ ItemOf[p] \notin Syms
      BY <1>6, <2>2, <2>5
    <3> QED BY <3>1, <3>2 DEF Right
  <2>6. CASE p \notin menus /\ p \notin M
    <3>1. to.kids[p] = u.kids[p]
      BY <1>4, <2>1, <2>6
    <3>2. Right(u, p)
      BY <2>1, <2>3, <2>6
    <3>3. p \in to.open <=> p \in u.open \/ (p \in to.open /\ ItemOf[p] \in Syms)
      BY <2>2, <2>6
    <3> QED BY <1>1, <3>1, <3>2, <3>3 DEF Right
  <2> QED BY <2>4, <2>5, <2>6
<1> QED BY <1>1, <1>4, <1>7 DEF Full, T

\* The top node has a node of its own.
LEMMA TopHasRow == /\ TopNode \in IsMenuconfig
                   /\ \E n \in Below : ParentMenu[n] = TopNode
<1>1. TopNode \in IsMenuconfig
  <2>1. TopNode \in Nodes
    BY NodesAssumption DEF TopNode, Nodes, Seqs!ToSet
  <2> QED BY <2>1, NodesAssumption
<1>2. NodeOrder[2] \in Below
  <2>1. 1 \in DOMAIN NodeOrder /\ 2 \in DOMAIN NodeOrder
    BY NodesAssumption
  <2>2. NodeOrder[2] \in Nodes /\ NodeOrder[2] # NodeOrder[1]
    <3>1. NodeOrder[2] \in Nodes
      BY <2>1 DEF Nodes, Seqs!ToSet
    <3>2. NodeOrder[2] = NodeOrder[1] => 2 = 1
      BY <2>1, NodesAssumption
    <3> QED BY <3>1, <3>2
  <2> QED BY <2>2 DEF Below, TopNode
<1>3. PICK n \in Below : \A q \in Below : <<q, n>> \notin LowerNodes
  BY <1>2, FirstNode DEF HasLowest
<1>4. ParentOf[n] = TopNode
  BY <1>3, ParentIs
<1>5. ParentMenu[n] = TopNode
  BY <1>1, <1>4, ParentIs
<1> QED BY <1>1, <1>5

\* The recursion in _load_parents() has a solution.
LEMMA ParentsUnfolds ==
    \A n \in Below : Parents[n] = IF ParentOf[n] = TopNode THEN {}
                                  ELSE Parents[ParentOf[n]] \cup {ParentOf[n]}
<1> DEFINE F == [Below -> SUBSET Below]
           Next1(f) == [n \in Below |-> IF ParentOf[n] = TopNode THEN {}
                                        ELSE f[ParentOf[n]] \cup {ParentOf[n]}]
           Step == [f \in F |-> Next1(f)]
<1>1. F # {} /\ PointByPoint(Below, F)
  <2>1. [n \in Below |-> {}] \in F
    OBVIOUS
  <2>2. PointByPoint(Below, F)
    BY DEF PointByPoint
  <2> QED BY <2>1, <2>2
<1>2. \A f \in F : Next1(f) \in F
  <2> SUFFICES ASSUME NEW f \in F, NEW n \in Below, ParentOf[n] # TopNode
               PROVE  f[ParentOf[n]] \cup {ParentOf[n]} \subseteq Below
    OBVIOUS
  <2>1. ParentOf[n] \in Below
    BY ParentIs
  <2> QED BY <2>1
<1>3. DeterminedBelow(Below, F, Step, LowerNodes)
  <2> SUFFICES ASSUME NEW f \in F, NEW g \in F, NEW p \in Below,
                      \A q \in Below : <<q, p>> \in LowerNodes => f[q] = g[q]
               PROVE  Step[f][p] = Step[g][p]
    BY DEF DeterminedBelow
  <2>1. ParentOf[p] # TopNode => f[ParentOf[p]] = g[ParentOf[p]]
    BY ParentIs
  <2>2. Step[f] = Next1(f) /\ Step[g] = Next1(g)
    OBVIOUS
  <2> HIDE DEF Step, F
  <2>3. Next1(f)[p] = Next1(g)[p]
    BY <2>1
  <2> QED BY <2>2, <2>3
<1>4. \A f \in F : Step[f] \in F
  BY <1>2
<1> HIDE DEF F, Step
<1>5. PICK f \in F : f = Step[f]
  BY <1>1, <1>3, <1>4, FirstNode, RecursionHasSolution
<1>6. f = Next1(f)
  BY <1>5 DEF Step
<1>7. Parents = CHOOSE h : h = Next1(h)
  BY DEF Parents
<1> HIDE DEF Next1
<1>8. Parents = Next1(Parents)
  BY <1>6, <1>7
<1> USE DEF Next1
<1> QED BY <1>8, Zenon

LEMMA ParentsBelow ==
    ASSUME NEW n \in Below
    PROVE  Parents[n] \subseteq Below
<1> DEFINE Wrong == {k \in Below : ~(Parents[k] \subseteq Below)}
<1>1. Wrong = {}
  <2> SUFFICES ASSUME Wrong # {} PROVE FALSE
    OBVIOUS
  <2>1. PICK k \in Wrong : \A q \in Wrong : <<q, k>> \notin LowerNodes
    BY FirstNode DEF HasLowest
  <2>2. CASE ParentOf[k] = TopNode
    BY <2>1, <2>2, ParentsUnfolds
  <2>3. CASE ParentOf[k] # TopNode
    <3>1. ParentOf[k] \in Below /\ Parents[ParentOf[k]] \subseteq Below
      BY <2>1, <2>3, ParentIs
    <3>2. Parents[k] = Parents[ParentOf[k]] \cup {ParentOf[k]}
      BY <2>1, <2>3, ParentsUnfolds
    <3> QED BY <2>1, <3>1, <3>2
  <2> QED BY <2>2, <2>3
<1> QED BY <1>1

\* What is above an item in the tree is above its node.
LEMMA AboveParents ==
    ASSUME NEW k, Parented(k), NEW n \in Below
    PROVE  Above(k, n) \subseteq Parents[n]
<1> DEFINE Wrong == {m \in Below : ~(Above(k, m) \subseteq Parents[m])}
<1>1. Wrong = {}
  <2> SUFFICES ASSUME Wrong # {} PROVE FALSE
    OBVIOUS
  <2>1. PICK m \in Wrong : \A q \in Wrong : <<q, m>> \notin LowerNodes
    BY FirstNode DEF HasLowest
  <2>2. ASSUME NEW p \in TreeParent(k, m) \ {TopNode}
        PROVE  {p} \cup Above(k, p) \subseteq Parents[m]
    <3>1. p = ParentOf[m] /\ p \in Below /\ p \notin Wrong
      BY <2>1, TreeParentIs
    <3>2. Parents[m] = Parents[p] \cup {p}
      BY <2>1, <3>1, ParentsUnfolds
    <3> QED BY <3>1, <3>2
  <2>3. Above(k, m) = UNION {{p} \cup Above(k, p) : p \in TreeParent(k, m) \ {TopNode}}
    BY <2>1, AboveIs
  <2> QED BY <2>1, <2>2, <2>3
<1> QED BY <1>1

\* The tree of a menu.
LEMMA MenuTreeIs ==
    ASSUME NEW u, NEW p \in Nodes
    PROVE  BuildMenuTree(u, Detached)[p] =
              Those(NodeOrder, {n \in RowNodes(u.env, u.showAll, u.menu) : Place(n, u.menu) = p})
<1> DEFINE S == RowNodes(u.env, u.showAll, u.menu)
           new == Those(NodeOrder, {n \in S : Place(n, u.menu) = p})
<1>1. BuildMenuTree(u, Detached)[p] = Those(<<>>, Nodes \ S) \o new
  BY DEF BuildMenuTree, AddToTree, Detached
<1>2. Those(<<>>, Nodes \ S) = <<>>
  <2>1. <<>> \in Seq({}) /\ Seqs!ToSet(<<>>) \cap (Nodes \ S) = {}
    BY DEF Seqs!ToSet
  <2> QED BY <2>1, ThoseNone
<1>3. new \in Seq(Nodes)
  BY OrderIs, ThoseIs
<1>4. \A s \in Seq(Nodes) : <<>> \o s = s
  OBVIOUS
<1> HIDE DEF new
<1>5. BuildMenuTree(u, Detached)[p] = new
  BY <1>1, <1>2, <1>3, <1>4
<1> QED BY <1>5 DEF new

----------------------------------------------------------------------------
(* A tree that is current.                                                  *)

Sound(u) ==
    /\ IsWindow(u)
    /\ u.showAll \in BOOLEAN /\ u.single \in BOOLEAN /\ u.focus \in Below
    /\ \E n \in Below : ParentMenu[n] = u.menu

Current(u) ==
    /\ Sound(u)
    /\ IF u.single THEN u.kids = BuildMenuTree(u, Detached) ELSE Full(u)

LEMMA SoundMenu ==
    ASSUME NEW u, Sound(u)
    PROVE  u.menu \in IsMenuconfig
BY ParentMenuIs DEF Sound

LEMMA SingleIs ==
    ASSUME NEW u, Sound(u), u.kids = BuildMenuTree(u, Detached)
    PROVE  /\ u.kids[TopNode] = Want(Shown(u), u.menu)
           /\ \A n : \A p \in TreeParent(u.kids, n) :
                 n \in Shown(u) /\ ParentMenu[n] = u.menu /\ Place(n, u.menu) = p
           /\ Parented(u.kids)
           /\ \A n \in Below \cap IsMenuconfig : u.kids[n] = <<>>
           /\ \A n \in Below \ IsMenuconfig :
                 ParentMenu[n] = u.menu => u.kids[n] = Want(Shown(u), n)
<1> DEFINE D == Shown(u)
           S == RowNodes(u.env, u.showAll, u.menu)
           At(p) == {n \in S : Place(n, u.menu) = p}
<1>1. \A p \in Nodes : u.kids[p] = Those(NodeOrder, At(p))
  BY MenuTreeIs
<1>2. S = {n \in D : ParentMenu[n] = u.menu} /\ D \subseteq Below
  BY AllDisplayed DEF RowNodes, Shown
<1>3. u.menu \in IsMenuconfig /\ TopNode \in Nodes /\ TopNode \in IsMenuconfig
  BY SoundMenu, TopHasRow, NodesAssumption
<1> HIDE DEF S, D
<1>4. At(TopNode) = KidsIn(D, u.menu)
  <2>1. ASSUME NEW n \in S, Place(n, u.menu) = TopNode PROVE ParentOf[n] = u.menu
    <3>1. CASE ParentOf[n] = TopNode
      BY <1>2, <1>3, <3>1, ParentIs
    <3> QED BY <2>1, <3>1 DEF Place
  <2>2. ASSUME NEW n \in D, ParentOf[n] = u.menu PROVE n \in S /\ Place(n, u.menu) = TopNode
    BY <1>2, <1>3, <2>2, ParentIs DEF Place
  <2>3. \A n \in S : n \in D
    BY <1>2
  <2> QED BY <2>1, <2>2, <2>3 DEF KidsIn
<1>5. u.kids[TopNode] = Want(D, u.menu)
  BY <1>1, <1>3, <1>4 DEF Want
<1>6. ASSUME NEW p \in Nodes, NEW n, IsIn(n, u.kids[p])
      PROVE  n \in D /\ ParentMenu[n] = u.menu /\ Place(n, u.menu) = p
  <2>1. PICK j \in DOMAIN u.kids[p] : u.kids[p][j] = n
    BY <1>6 DEF IsIn
  <2> DEFINE s == Those(NodeOrder, At(p))
  <2>2. s \in Seq(Nodes) /\ Seqs!ToSet(s) = Nodes \cap At(p)
    BY OrderIs, ThoseIs
  <2> HIDE DEF s
  <2>3. n \in Seqs!ToSet(s)
    <3>1. u.kids[p] = s
      BY <1>1 DEF s
    <3> QED BY <2>1, <3>1 DEF Seqs!ToSet
  <2> QED BY <1>2, <2>2, <2>3
<1>7. Parented(u.kids)
  <2> SUFFICES ASSUME NEW p \in Below, NEW n, IsIn(n, u.kids[p])
               PROVE  n \in Below /\ ParentOf[n] = p
    BY DEF Parented
  <2>1. n \in D /\ Place(n, u.menu) = p
    BY <1>6 DEF Below
  <2> QED BY <1>2, <2>1 DEF Place, Below
<1>8. ASSUME NEW n \in Below
      PROVE  At(n) = {c \in KidsIn(D, n) : ParentMenu[c] = u.menu /\ n # u.menu}
  BY <1>2 DEF Place, Below, KidsIn
<1>9. ASSUME NEW n \in Below \cap IsMenuconfig PROVE u.kids[n] = <<>>
  <2>1. At(n) = {}
    <3> SUFFICES ASSUME NEW c \in KidsIn(D, n), ParentMenu[c] = u.menu, n # u.menu PROVE FALSE
      BY <1>8
    <3>1. c \in Below /\ ParentOf[c] = n
      BY <1>2 DEF KidsIn
    <3> QED BY <3>1, ParentIs
  <2>2. Those(NodeOrder, {}) = <<>>
    BY OrderIs, ThoseNone
  <2> QED BY <1>1, <2>1, <2>2 DEF Below
<1>10. ASSUME NEW n \in Below \ IsMenuconfig, ParentMenu[n] = u.menu
       PROVE  u.kids[n] = Want(D, n)
  <2>1. \A c \in KidsIn(D, n) : ParentMenu[c] = u.menu /\ n # u.menu
    <3> TAKE c \in KidsIn(D, n)
    <3>1. c \in Below /\ ParentOf[c] = n
      BY <1>2 DEF KidsIn
    <3> QED BY <1>3, <1>10, <3>1, ParentIs
  <2>2. At(n) = KidsIn(D, n)
    BY <1>8, <2>1
  <2> QED BY <1>1, <2>2 DEF Want, Below
<1> QED BY <1>5, <1>6, <1>7, <1>9, <1>10 DEF TreeParent, D

LEMMA CurrentParented ==
    ASSUME NEW u, Current(u)
    PROVE  Parented(u.kids) /\ TreeRows(u) \subseteq Below
<1>1. CASE u.single
  BY <1>1, SingleIs, RowsOfIs DEF Current, TreeRows
<1>2. CASE ~u.single
  <2>1. Shown(u) \in SUBSET Below /\ Fit(Shown(u), u.kids)
    BY <1>2, AllDisplayed DEF Current, Full, Shown
  <2> QED BY <2>1, FitIsParented, RowsOfIs DEF TreeRows
<1> QED BY <1>1, <1>2

\* In the full tree what is in a row is shown, and all above it is open.
LEMMA FullRow ==
    ASSUME NEW u, Full(u), NEW n \in TreeRows(u)
    PROVE  n \in ShownFullNodes(u, {TopNode}) /\ Above(u.kids, n) \subseteq u.open
<1> DEFINE S == ShownFullNodes(u, {TopNode})
           R == TreeRows(u)
<1>1. Shown(u) \in SUBSET Below /\ Fit(Shown(u), u.kids)
  BY AllDisplayed DEF Full, Shown
<1>2. /\ Parented(u.kids)
      /\ \A m : \A p \in TreeParent(u.kids, m) : m \in Shown(u) /\ ParentOf[m] = p
  BY <1>1, FitIsParented
<1>3. /\ R \subseteq Below
      /\ \A m \in Below : m \in R <=> \E p \in TreeParent(u.kids, m) :
                                         p = TopNode \/ (p \in u.open /\ p \in R)
  BY <1>2, RowsOfIs DEF TreeRows
<1>4. \A m \in Below : m \in S <=>
            /\ m \in Shown(u)
            /\ \/ ParentOf[m] \in {TopNode}
               \/ (ItemOf[ParentOf[m]] \in Syms \/ ParentOf[m] \in u.open) /\ ParentOf[m] \in S
  BY ShownFullIs DEF Shown
<1>5. \A m \in Below : Above(u.kids, m) =
            UNION {{p} \cup Above(u.kids, p) : p \in TreeParent(u.kids, m) \ {TopNode}}
  BY <1>2, AboveIs
<1>6. n \in R
  OBVIOUS
<1> HIDE DEF S, R
<1> DEFINE Wrong == {m \in R : ~(m \in S /\ Above(u.kids, m) \subseteq u.open)}
<1>7. Wrong = {}
  <2> SUFFICES ASSUME Wrong # {} PROVE FALSE
    OBVIOUS
  <2>1. PICK m \in Wrong : \A q \in Wrong : <<q, m>> \notin LowerNodes
    BY <1>3, FirstNode DEF HasLowest
  <2>2. m \in R /\ m \in Below
    BY <1>3, <2>1
  <2>3. PICK p \in TreeParent(u.kids, m) : p = TopNode \/ (p \in u.open /\ p \in R)
    BY <1>3, <2>2
  <2>4. m \in Shown(u) /\ ParentOf[m] = p /\ \A q \in TreeParent(u.kids, m) : q = p
    BY <1>2, <2>3
  <2>5. CASE p = TopNode
    <3>1. m \in S
      BY <1>4, <2>2, <2>4, <2>5
    <3>2. Above(u.kids, m) = {}
      <4>1. TreeParent(u.kids, m) \ {TopNode} = {}
        BY <2>4, <2>5
      <4> QED BY <1>5, <2>2, <4>1
    <3> QED BY <2>1, <3>1, <3>2
  <2>6. CASE p # TopNode
    <3>1. p \in u.open /\ p \in R /\ <<p, m>> \in LowerNodes
      BY <1>2, <2>3, <2>6, TreeParentIs
    <3>2. p \in S /\ Above(u.kids, p) \subseteq u.open
      BY <2>1, <3>1
    <3>3. m \in S
      BY <1>4, <2>2, <2>4, <3>1, <3>2
    <3>4. Above(u.kids, m) \subseteq u.open
      <4>1. Above(u.kids, m) =
              UNION {{q} \cup Above(u.kids, q) : q \in TreeParent(u.kids, m) \ {TopNode}}
        BY <1>5, <2>2
      <4>2. \A q \in TreeParent(u.kids, m) \ {TopNode} :
              {q} \cup Above(u.kids, q) \subseteq u.open
        BY <2>4, <3>1, <3>2
      <4> QED BY <4>1, <4>2
    <3> QED BY <2>1, <3>3, <3>4
  <2> QED BY <2>5, <2>6
<1> QED BY <1>6, <1>7 DEF S

\* What TreeIsCurrent says of a window.
Shows(u) ==
    /\ u.kids[TopNode] = Want(Shown(u), IF u.single THEN u.menu ELSE TopNode)
    /\ \A n \in TreeRows(u) :
          IF u.single /\ n \in IsMenuconfig THEN u.kids[n] = <<>>
          ELSE IF n \in u.open \/ ItemOf[n] \in Syms THEN u.kids[n] = Want(Shown(u), n)
          ELSE (u.kids[n] = <<>>) = (Want(Shown(u), n) = <<>>)

LEMMA CurrentShows ==
    ASSUME NEW u, Current(u)
    PROVE  Shows(u)
<1>1. CASE u.single
  <2>1. /\ u.kids[TopNode] = Want(Shown(u), u.menu)
        /\ \A n : \A p \in TreeParent(u.kids, n) : ParentMenu[n] = u.menu
        /\ Parented(u.kids)
        /\ \A n \in Below \cap IsMenuconfig : u.kids[n] = <<>>
        /\ \A n \in Below \ IsMenuconfig :
              ParentMenu[n] = u.menu => u.kids[n] = Want(Shown(u), n)
    BY <1>1, SingleIs DEF Current
  <2>2. \A n \in TreeRows(u) : n \in Below /\ \E p \in TreeParent(u.kids, n) : TRUE
    BY <2>1, RowsOfIs DEF TreeRows
  <2> QED BY <1>1, <2>1, <2>2 DEF Shows
<1>2. CASE ~u.single
  <2>1. Full(u) /\ \A p \in ShownFullNodes(u, {TopNode}) \cup {TopNode} : Right(u, p)
    BY <1>2 DEF Current, Full
  <2>2. \A n \in TreeRows(u) : Right(u, n) /\ n # TopNode
    BY <2>1, FullRow, CurrentParented DEF Below
  <2> QED BY <1>2, <2>1, <2>2 DEF Shows, Right
<1> QED BY <1>1, <1>2

----------------------------------------------------------------------------
(* The functions of the interface keep the tree current or fail.            *)

Fine(to) == to.failed = TRUE \/ Current(to)

\* The tree depends on nothing else in a window.
LEMMA SameBuild ==
    ASSUME NEW u, NEW w, u.env = w.env, u.showAll = w.showAll, NEW k
    PROVE  /\ u.menu = w.menu => BuildMenuTree(u, k) = BuildMenuTree(w, k)
           /\ u.open = w.open => \A menus : BuildFullTree(u, k, menus) = BuildFullTree(w, k, menus)
<1> DEFINE From(D, o, menus) ==
               LET shown[n \in Below] ==
                       /\ n \in D
                       /\ \/ ParentOf[n] \in menus
                          \/ /\ ParentOf[n] \in Below
                             /\ ItemOf[ParentOf[n]] \in Syms \/ ParentOf[n] \in o
                             /\ shown[ParentOf[n]]
               IN  {n \in Below : shown[n]}
<1>1. \A menus : /\ ShownFullNodes(u, menus) = From(Displayed(u.env, u.showAll), u.open, menus)
                 /\ ShownFullNodes(w, menus) = From(Displayed(w.env, w.showAll), w.open, menus)
  BY DEF ShownFullNodes
<1> HIDE DEF From
<1>2. \A C : Probed(u, C) = Probed(w, C)
  BY DEF Probed, ShownMenuNodes
<1> QED BY <1>1, <1>2 DEF BuildMenuTree, BuildFullTree

LEMMA UpdateTreeIs ==
    ASSUME NEW u, Sound(u), NEW to \in UpdateTree(u)
    PROVE  /\ Current(to)
           /\ to.env = u.env /\ to.menu = u.menu /\ to.showAll = u.showAll
           /\ to.single = u.single /\ to.open = u.open /\ to.focus = u.focus
<1> DEFINE k == Rebuilt(u, Detached)
<1>1. to = [u EXCEPT !.kids = k]
  BY DEF UpdateTree
<1> HIDE DEF k
<1>2. /\ IsWindow(to) /\ to.kids = k
      /\ to.env = u.env /\ to.menu = u.menu /\ to.showAll = u.showAll
      /\ to.single = u.single /\ to.open = u.open /\ to.focus = u.focus
  BY <1>1 DEF Sound, IsWindow
<1>3. Sound(to)
  BY <1>2 DEF Sound
<1>4. CASE u.single
  BY <1>2, <1>3, <1>4, SameBuild DEF Current, k, Rebuilt
<1>5. CASE ~u.single
  <2>1. to.kids = BuildFullTree(to, Detached, {TopNode})
    BY <1>2, <1>5, SameBuild DEF k, Rebuilt
  <2>2. Full(to)
    BY <1>3, <2>1, BuiltFull DEF Sound
  <2> QED BY <1>2, <1>3, <1>5, <2>2 DEF Current
<1> QED BY <1>2, <1>4, <1>5

\* Focusing another item; opening and closing rows that have all they need.
LEMMA SameTree ==
    ASSUME NEW u, Current(u), NEW to, IsWindow(to), to.focus \in Below,
           to.env = u.env, to.menu = u.menu, to.showAll = u.showAll,
           to.single = u.single, to.kids = u.kids,
           ~u.single => \A p \in to.open \ u.open : ItemOf[p] \in Syms
    PROVE  Current(to)
<1>1. Sound(to)
  BY DEF Current, Sound
<1>2. CASE u.single
  BY <1>1, <1>2, SameBuild DEF Current
<1>3. CASE ~u.single
  BY <1>1, <1>3, SameFull DEF Current
<1> QED BY <1>2, <1>3

LEMMA SelectIs ==
    ASSUME NEW u, IsWindow(u), NEW n
    PROVE  LET to == Select(u, n)
           IN  /\ IsWindow(to) /\ to.focus = n /\ to.open = u.open \cup Above(u.kids, n)
               /\ to.env = u.env /\ to.menu = u.menu /\ to.showAll = u.showAll
               /\ to.single = u.single /\ to.kids = u.kids /\ to.failed = u.failed
<1> DEFINE o == u.open \cup Above(u.kids, n)
<1>1. Select(u, n) = [u EXCEPT !.focus = n, !.open = o]
  BY DEF Select, IsWindow
<1> HIDE DEF o
<1> DEFINE to == Select(u, n)
<1>3. /\ IsWindow(to) /\ to.focus = n /\ to.open = o
      /\ to.env = u.env /\ to.menu = u.menu /\ to.showAll = u.showAll
      /\ to.single = u.single /\ to.kids = u.kids /\ to.failed = u.failed
  BY <1>1 DEF IsWindow
<1> QED BY <1>3 DEF o

\* A row is selected; in single-menu mode anything can be.
LEMMA SelectRowIs ==
    ASSUME NEW u, Current(u), NEW n \in Below, u.single \/ n \in TreeRows(u)
    PROVE  Current(Select(u, n))
<1>1. ~u.single => Above(u.kids, n) \subseteq u.open
  BY FullRow DEF Current
<1>2. IsWindow(u)
  BY DEF Current, Sound
<1> DEFINE to == Select(u, n)
<1>3. /\ IsWindow(to) /\ to.focus = n /\ to.open = u.open \cup Above(u.kids, n)
      /\ to.env = u.env /\ to.menu = u.menu /\ to.showAll = u.showAll
      /\ to.single = u.single /\ to.kids = u.kids
  BY <1>2, SelectIs
<1> HIDE DEF to
<1>4. Current(to)
  BY <1>1, <1>3, SameTree
<1> QED BY <1>4 DEF to

\* The first item is a row.
LEMMA FirstItemIs ==
    ASSUME NEW u, Current(u),
           Rows(u.env, u.showAll, IF u.single THEN u.menu ELSE TopNode) # <<>>
    PROVE  /\ Head(u.kids[TopNode]) \in Below
           /\ Head(u.kids[TopNode]) \in TreeRows(u)
<1> DEFINE m == IF u.single THEN u.menu ELSE TopNode
           s == u.kids[TopNode]
<1>1. s = Want(Shown(u), m)
  BY CurrentShows DEF Shows
<1>2. KidsIn(Shown(u), m) # {} /\ Shown(u) \in SUBSET Below
  BY RowHasKid, AllDisplayed DEF Shown, Current, Sound
<1>3. s \in Seq(KidsIn(Shown(u), m)) /\ s # <<>>
  BY <1>1, <1>2, WantIs
<1> HIDE DEF s, m
<1>4. Head(s) = s[1] /\ 1 \in DOMAIN s
  BY <1>3
<1>5. s[1] \in KidsIn(Shown(u), m)
  BY <1>3, <1>4
<1>6. Head(s) \in Below
  BY <1>2, <1>4, <1>5 DEF KidsIn
<1>7. TopNode \in TreeParent(u.kids, Head(s))
  BY <1>4, TopHasRow, NodesAssumption DEF TreeParent, IsIn, s
<1>8. Head(s) \in TreeRows(u)
  BY <1>6, <1>7, CurrentParented, RowsOfIs DEF TreeRows
<1> QED BY <1>6, <1>8 DEF s

LEMMA FailedFine ==
    ASSUME NEW u, IsWindow(u)
    PROVE  Fine(Failed(u))
BY DEF Fine, Failed, IsWindow

\* Entering and leaving a menu.
LEMMA EnterMenuIs ==
    ASSUME NEW u, Sound(u), NEW n \in Below, NEW m, ParentMenu[n] = m, NEW to \in EnterMenu(u, m)
    PROVE  /\ Current(to) /\ to.menu = m /\ to.single = u.single
           /\ to.env = u.env /\ to.showAll = u.showAll
<1> DEFINE in == [u EXCEPT !.menu = m]
<1>1. /\ IsWindow(in) /\ in.menu = m /\ in.env = u.env /\ in.showAll = u.showAll
      /\ in.single = u.single /\ in.focus = u.focus
  BY DEF Sound, IsWindow
<1>2. to \in UpdateTree(in)
  BY DEF EnterMenu
<1> HIDE DEF in
<1>3. Sound(in)
  BY <1>1 DEF Sound
<1> QED BY <1>1, <1>2, <1>3, UpdateTreeIs

LEMMA EnterFirstIs ==
    ASSUME NEW u, Current(u), NEW n, SingleMenuModeMenu(u, n),
           NEW to \in EnterMenuAndSelectFirst(u, n)
    PROVE  Current(to)
<1>1. PICK in \in EnterMenu(u, n) : to = Select(in, Head(in.kids[TopNode]))
  BY DEF EnterMenuAndSelectFirst
<1>2. u.single /\ Rows(u.env, u.showAll, n) # <<>> /\ Sound(u)
  BY DEF SingleMenuModeMenu, ShownMenuNodes, Current
<1>3. PICK k \in Below : ParentOf[k] = n
  <2>1. u.showAll \in BOOLEAN
    BY <1>2 DEF Sound
  <2> DEFINE k == Rows(u.env, u.showAll, n)[1]
  <2>2. k \in KidsIn(Displayed(u.env, u.showAll), n)
    BY <1>2, <2>1, RowHasKid
  <2>3. Displayed(u.env, u.showAll) \subseteq Below
    BY AllDisplayed
  <2> HIDE DEF k
  <2> QED BY <2>2, <2>3 DEF KidsIn
<1>4. ParentMenu[k] = n
  BY <1>3, ParentIs DEF SingleMenuModeMenu
<1>5. /\ Current(in) /\ in.menu = n /\ in.single = u.single
      /\ in.env = u.env /\ in.showAll = u.showAll
  BY <1>1, <1>2, <1>4, EnterMenuIs
<1> QED BY <1>1, <1>2, <1>5, FirstItemIs, SelectRowIs

LEMMA LeaveMenuIs ==
    ASSUME NEW u, Current(u), u.single, NEW to \in LeaveMenu(u)
    PROVE  Current(to)
<1>1. CASE u.menu = TopNode
  BY <1>1 DEF LeaveMenu
<1>2. CASE u.menu # TopNode
  <2>1. PICK out \in EnterMenu(u, ParentMenu[u.menu]) : to = Select(out, u.menu)
    BY <1>2 DEF LeaveMenu
  <2>2. Sound(u) /\ u.menu \in Below
    BY <1>2, SoundMenu, NodesAssumption DEF Current, Below
  <2>3. Current(out) /\ out.single
    BY <2>1, <2>2, EnterMenuIs
  <2> QED BY <2>1, <2>2, <2>3, SelectRowIs
<1> QED BY <1>1, <1>2

\* Jumping to a node populates the menus that it opens.
LEMMA LoadedIs ==
    ASSUME NEW u, Current(u), ~u.single, NEW n \in Below
    PROVE  Current(Select(LoadParents(u, n), n))
<1> DEFINE menus == Menus(FromFirstClosed(u, n))
           k == BuildFullTree(u, u.kids, menus)
           in == LoadParents(u, n)
           to == Select(in, n)
<1>1. in = [u EXCEPT !.kids = k]
  BY DEF LoadParents, Current, Sound, IsWindow
<1>2. menus \subseteq Parents[n] /\ Parents[n] \subseteq Below
  BY ParentsBelow DEF Menus, FromFirstClosed
<1>3. ASSUME NEW p \in Parents[n], p \notin u.open PROVE ItemOf[p] \in Syms \/ p \in menus
  <2>1. ~Before(p, p)
    <3>1. IndexOf(NodeOrder, p) \in Nat
      BY <1>2, Positions DEF Below
    <3> QED BY <3>1 DEF Before
  <2> QED BY <1>3, <2>1 DEF Menus, FromFirstClosed
<1>4. Sound(u) /\ Full(u) /\ u.showAll \in BOOLEAN /\ Fit(Shown(u), u.kids) /\ IsWindow(u)
  BY DEF Current, Sound, Full
<1>5. Fit(Shown(u), k)
  BY <1>4, BuildIs
<1> HIDE DEF menus, in
<1>6. Parented(k)
  <2>1. Shown(u) \in SUBSET Below
    BY AllDisplayed DEF Shown
  <2> HIDE DEF k
  <2> QED BY <1>5, <2>1, FitIsParented
<1>7. Above(k, n) \subseteq Parents[n]
  <2> HIDE DEF k
  <2> QED BY <1>6, AboveParents
<1> HIDE DEF k
<1>8. /\ IsWindow(in) /\ in.kids = k /\ in.open = u.open
      /\ in.env = u.env /\ in.menu = u.menu /\ in.showAll = u.showAll
      /\ in.single = u.single
  BY <1>1, <1>4 DEF IsWindow
<1>9. /\ IsWindow(to) /\ to.focus = n /\ to.open = u.open \cup Above(k, n)
      /\ to.env = u.env /\ to.menu = u.menu /\ to.showAll = u.showAll
      /\ to.single = u.single /\ to.kids = k
  BY <1>8, SelectIs
<1> HIDE DEF to
<1>10. Full(to)
  <2>1. menus \in SUBSET Below /\ u.open \subseteq to.open
        /\ \A p \in to.open \ u.open : ItemOf[p] \in Syms \/ p \in menus
    BY <1>2, <1>3, <1>7, <1>9
  <2>2. to.kids = BuildFullTree(u, u.kids, menus)
    BY <1>9 DEF k
  <2> QED BY <1>4, <1>9, <2>1, <2>2, OpenedFull
<1>11. Sound(to)
  BY <1>4, <1>9 DEF Sound
<1> QED BY <1>9, <1>10, <1>11 DEF Current, to, in

LEMMA JumpToIs ==
    ASSUME NEW u, Sound(u), ~u.single => Current(u), NEW n \in Below, NEW to \in JumpTo(u, n)
    PROVE  Current(to)
<1>1. CASE u.single
  <2>1. PICK there \in EnterMenu(u, ParentMenu[n]) : to = Select(there, n)
    BY <1>1 DEF JumpTo
  <2>2. Current(there) /\ there.single
    BY <1>1, <2>1, EnterMenuIs
  <2> QED BY <2>1, <2>2, SelectRowIs
<1>2. CASE ~u.single
  BY <1>2, LoadedIs DEF JumpTo
<1> QED BY <1>1, <1>2

LEMMA JumpToSelectedIs ==
    ASSUME NEW u, Current(u), NEW n \in Below, NEW to \in JumpToSelected(u, n)
    PROVE  Current(to)
<1> DEFINE all == [u EXCEPT !.showAll = TRUE]
<1>1. PICK in : /\ \/ in = u
                   \/ u.single /\ in = all
                   \/ ~u.single /\ in \in UpdateTree(all)
                /\ to \in JumpTo(in, n)
  BY DEF JumpToSelected
<1>2. Sound(u)
  BY DEF Current
<1>3. /\ IsWindow(all) /\ all.showAll = TRUE /\ all.menu = u.menu
      /\ all.single = u.single /\ all.focus = u.focus
  BY <1>2 DEF Sound, IsWindow
<1> HIDE DEF all
<1>4. Sound(all)
  BY <1>2, <1>3 DEF Sound
<1>5. Sound(in) /\ (~in.single => Current(in))
  BY <1>1, <1>2, <1>3, <1>4, UpdateTreeIs DEF Current
<1> QED BY <1>1, <1>5, JumpToIs

LEMMA IsRowIs ==
    ASSUME NEW u, Current(u), NEW n \in TreeRows(u)
    PROVE  n \in Below /\ Sound(u)
BY CurrentParented DEF Current

\* Switching show-all: in show-all mode there is always something to show.
LEMMA ShowAllIs ==
    ASSUME NEW u, Current(u), NEW to \in DoShowAll(u)
    PROVE  Fine(to)
<1> DEFINE in   == [u EXCEPT !.showAll = ~@]
           kept == [u EXCEPT !.showAll = TRUE]
           m == IF u.single THEN u.menu ELSE TopNode
<1>1. Sound(u)
  BY DEF Current
<1>2. \/ ShownMenuNodes(in, m) = <<>> /\ to = kept
      \/ to = Failed(u) \/ to \in UpdateTree(in) \/ to = Failed(in)
  BY DEF DoShowAll
<1>3. /\ IsWindow(in) /\ in.showAll = ~u.showAll /\ in.env = u.env /\ in.menu = u.menu
      /\ in.single = u.single /\ in.focus = u.focus
  BY <1>1 DEF Sound, IsWindow
<1>4. /\ IsWindow(kept) /\ kept.showAll = TRUE /\ kept.env = u.env /\ kept.menu = u.menu
      /\ kept.single = u.single /\ kept.focus = u.focus /\ kept.kids = u.kids
      /\ kept.open = u.open
  BY <1>1 DEF Sound, IsWindow
<1> HIDE DEF in, kept
<1>5. Sound(in)
  BY <1>1, <1>3 DEF Sound
<1>6. CASE ShownMenuNodes(in, m) = <<>> /\ to = kept
  <2>1. PICK n \in Below : ParentMenu[n] = m
    <3>1. /\ \E n \in Below : ParentMenu[n] = u.menu
          /\ \E n \in Below : ParentMenu[n] = TopNode
      BY <1>1, TopHasRow DEF Sound
    <3> QED BY <3>1
  <2>2. ASSUME u.showAll = FALSE PROVE FALSE
    <3>1. in.showAll = TRUE
      BY <1>3, <2>2
    <3>2. n \in RowNodes(in.env, TRUE, m)
      BY <2>1, AllDisplayed DEF RowNodes
    <3>3. PICK j \in DOMAIN NodeOrder : NodeOrder[j] = n
      BY DEF Below, Nodes, Seqs!ToSet
    <3>4. Rows(in.env, TRUE, m) # <<>>
      BY <3>2, <3>3, OrderIs, ThoseFirst DEF Rows
    <3> QED BY <1>6, <3>1, <3>4 DEF ShownMenuNodes
  <2>3. u.showAll = TRUE
    BY <1>1, <2>2 DEF Sound
  <2>4. kept.focus \in Below
    BY <1>1, <1>4 DEF Sound
  <2> QED BY <1>4, <1>6, <2>3, <2>4, SameTree DEF Fine
<1>7. CASE to = Failed(u) \/ to = Failed(in)
  BY <1>1, <1>5, <1>7, FailedFine DEF Sound
<1>8. CASE to \in UpdateTree(in)
  BY <1>5, <1>8, UpdateTreeIs DEF Fine
<1> QED BY <1>2, <1>6, <1>7, <1>8

\* Switching between the full tree and a single menu.
LEMMA TreeModeIs ==
    ASSUME NEW u, Current(u), NEW to \in DoTreeMode(u)
    PROVE  Fine(to)
<1> DEFINE full == [u EXCEPT !.single = FALSE, !.menu = TopNode]
           menus == [u EXCEPT !.single = TRUE]
<1>1. Sound(u)
  BY DEF Current
<1>2. \/ to = Failed(u)
      \/ \E in, item : /\ item \in TreeRows(u) /\ to \in JumpTo(in, item)
                       /\ in \in UpdateTree(full) \/ in = menus
  BY DEF DoTreeMode, LocRefItems
<1>3. /\ IsWindow(full) /\ full.single = FALSE /\ full.menu = TopNode
      /\ full.showAll = u.showAll /\ full.focus = u.focus
      /\ IsWindow(menus) /\ menus.single = TRUE /\ menus.menu = u.menu
      /\ menus.showAll = u.showAll /\ menus.focus = u.focus
  BY <1>1 DEF Sound, IsWindow
<1> HIDE DEF full, menus
<1>4. Sound(full)
  BY <1>1, <1>3, TopHasRow DEF Sound
<1>5. Sound(menus)
  BY <1>1, <1>3 DEF Sound
<1>6. CASE to = Failed(u)
  BY <1>1, <1>6, FailedFine DEF Sound
<1>7. ASSUME NEW in, NEW item, item \in TreeRows(u), to \in JumpTo(in, item),
             in \in UpdateTree(full) \/ in = menus
      PROVE  Current(to)
  <2>1. item \in Below
    BY <1>7, IsRowIs
  <2>2. Sound(in) /\ (~in.single => Current(in))
    BY <1>3, <1>4, <1>5, <1>7, UpdateTreeIs DEF Current
  <2> QED BY <1>7, <2>1, <2>2, JumpToIs
<1> QED BY <1>2, <1>6, <1>7 DEF Fine

\* Changing a value rebuilds the tree.
LEMMA SetValIs ==
    ASSUME NEW u, Current(u), NEW i, NEW v, NEW to \in SetVal(u, i, v)
    PROVE  Fine(to)
<1> DEFINE x  == WithValue(u.env, i, v)
           in == [u EXCEPT !.env = x, !.changed = TRUE]
<1>1. to = Failed(in) \/ to \in UpdateTree(in)
  BY DEF SetVal
<1> HIDE DEF x
<1>2. /\ IsWindow(in) /\ in.showAll = u.showAll /\ in.menu = u.menu
      /\ in.single = u.single /\ in.focus = u.focus
  BY DEF Current, Sound, IsWindow
<1> HIDE DEF in
<1>3. Sound(in)
  BY <1>2 DEF Current, Sound
<1> QED BY <1>1, <1>2, <1>3, FailedFine, UpdateTreeIs DEF Fine

LEMMA ChangeNodeIs ==
    ASSUME NEW u, Current(u), NEW n, NEW to \in ChangeNode(u, n)
    PROVE  Fine(to)
<1>1. to = Failed(u) \/ \E v : to \in SetVal(u, ItemOf[n], v)
  BY DEF ChangeNode
<1> QED BY <1>1, FailedFine, SetValIs DEF Current, Sound

LEMMA TreeSetValIs ==
    ASSUME NEW u, Current(u), NEW n, NEW v, NEW to \in TreeSetVal(u, n, v)
    PROVE  Fine(to)
<1>1. to \in SetVal(u, ItemOf[n], v)
  BY DEF TreeSetVal
<1> QED BY <1>1, SetValIs

\* Closing and opening an item.
LEMMA CloseIs ==
    ASSUME NEW u, Current(u), NEW n
    PROVE  /\ Current([u EXCEPT !.open = @ \ {n}])
           /\ u.single \/ ItemOf[n] \in Syms => Current([u EXCEPT !.open = @ \cup {n}])
<1>1. Sound(u) /\ IsWindow(u)
  BY DEF Current, Sound
<1>2. ASSUME NEW o, ~u.single => \A p \in o \ u.open : ItemOf[p] \in Syms
      PROVE  Current([u EXCEPT !.open = o])
  <2> DEFINE to == [u EXCEPT !.open = o]
  <2>1. /\ IsWindow(to) /\ to.focus = u.focus /\ to.open = o
        /\ to.env = u.env /\ to.menu = u.menu /\ to.showAll = u.showAll
        /\ to.single = u.single /\ to.kids = u.kids
    BY <1>1 DEF IsWindow
  <2>2. to.focus \in Below
    BY <1>1, <2>1 DEF Sound
  <2> HIDE DEF to
  <2>3. Current(to)
    BY <1>2, <2>1, <2>2, SameTree
  <2> QED BY <2>3 DEF to
<1> DEFINE less == u.open \ {n}
           more == u.open \cup {n}
<1>3. \A p \in less \ u.open : ItemOf[p] \in Syms
  OBVIOUS
<1>4. u.single \/ ItemOf[n] \in Syms => (~u.single => \A p \in more \ u.open : ItemOf[p] \in Syms)
  OBVIOUS
<1> HIDE DEF less, more
<1>5. /\ Current([u EXCEPT !.open = less])
      /\ u.single \/ ItemOf[n] \in Syms => Current([u EXCEPT !.open = more])
  BY <1>2, <1>3, <1>4
<1>6. /\ [u EXCEPT !.open = @ \ {n}] = [u EXCEPT !.open = less]
      /\ [u EXCEPT !.open = @ \cup {n}] = [u EXCEPT !.open = more]
  BY DEF less, more
<1> QED BY <1>5, <1>6

LEMMA OpenItemIs ==
    ASSUME NEW u, Current(u), NEW n \in Below, ~u.single \/ ItemOf[n] \in Syms,
           NEW to \in OpenItem(u, n)
    PROVE  Current(to)
<1>1. Sound(u) /\ IsWindow(u)
  BY DEF Current, Sound
<1>2. CASE ItemOf[n] \in Syms
  <2> DEFINE there == [u EXCEPT !.open = @ \cup {n}]
  <2>1. Current(there)
    BY <1>2, CloseIs
  <2>2. to = there
    BY <1>1, <1>2 DEF OpenItem, IsWindow
  <2> HIDE DEF there
  <2> QED BY <2>1, <2>2
<1>3. CASE ItemOf[n] \notin Syms
  <2> DEFINE o == u.open \cup {n}
             k == BuildFullTree(u, u.kids, {n})
  <2>1. to = [u EXCEPT !.open = o, !.kids = k]
    BY <1>1, <1>3 DEF OpenItem, IsWindow
  <2>2. u.open \subseteq o /\ \A p \in o \ u.open : ItemOf[p] \in Syms \/ p \in {n}
    OBVIOUS
  <2> HIDE DEF o, k
  <2>3. /\ IsWindow(to) /\ to.focus = u.focus /\ to.open = o
        /\ to.env = u.env /\ to.menu = u.menu /\ to.showAll = u.showAll
        /\ to.single = u.single /\ to.kids = k
    BY <1>1, <2>1 DEF IsWindow
  <2>4. Sound(to)
    BY <1>1, <2>3 DEF Sound
  <2>5. ~u.single /\ Full(u) /\ u.showAll \in BOOLEAN
    BY <1>1, <1>3 DEF Current, Sound
  <2>6. {n} \in SUBSET Below /\ to.kids = BuildFullTree(u, u.kids, {n})
    BY <2>3 DEF k
  <2>7. Full(to)
    BY <2>2, <2>3, <2>5, <2>6, OpenedFull
  <2> QED BY <2>3, <2>4, <2>5, <2>7 DEF Current
<1> QED BY <1>2, <1>3

\* "Can only get here in full-tree mode", or for a symbol.
LEMMA ToggleOpenIs ==
    ASSUME NEW u, Current(u), NEW n \in Below, u.kids[n] # <<>>, NEW to \in TreeToggleOpen(u, n)
    PROVE  Current(to)
<1>1. ~u.single \/ ItemOf[n] \in Syms
  <2> SUFFICES ASSUME u.single PROVE ItemOf[n] \in Syms
    OBVIOUS
  <2>1. n \notin IsMenuconfig
    BY SingleIs DEF Current
  <2>2. u.kids[n] \in Seq(Nodes)
    <3>1. u.kids[n] =
             Those(NodeOrder, {c \in RowNodes(u.env, u.showAll, u.menu) : Place(c, u.menu) = n})
      BY MenuTreeIs DEF Current, Below
    <3> QED BY <3>1, OrderIs, ThoseIs
  <2>3. IsIn(u.kids[n][1], u.kids[n])
    BY <2>2 DEF IsIn
  <2>4. u.kids[n][1] \in Below /\ ParentOf[u.kids[n][1]] = n
    BY <2>3, CurrentParented DEF Parented
  <2> QED BY <2>1, <2>4, ParentIs
<1> DEFINE there == [u EXCEPT !.open = @ \ {n}]
<1>2. to = there \/ to \in OpenItem(u, n)
  BY DEF TreeToggleOpen
<1>3. Current(there)
  BY CloseIs
<1> HIDE DEF there
<1> QED BY <1>1, <1>2, <1>3, OpenItemIs

LEMMA TreeOpenIs ==
    ASSUME NEW u, Current(u), NEW n \in Below, NEW to \in TreeOpen(u, n)
    PROVE  Current(to)
<1> DEFINE there == [u EXCEPT !.open = @ \cup {n}]
<1>1. \/ (u.single \/ ItemOf[n] \in Syms) /\ to = there
      \/ ~u.single /\ to \in OpenItem(u, n)
  BY DEF TreeOpen
<1>2. u.single \/ ItemOf[n] \in Syms => Current(there)
  BY CloseIs
<1> HIDE DEF there
<1> QED BY <1>1, <1>2, OpenItemIs

LEMMA EnterIs ==
    ASSUME NEW u, Current(u), NEW n \in Below, NEW to \in TreeEnter(u, n) \cup TreeToggle(u, n)
    PROVE  Fine(to)
<1>1. \/ u.kids[n] # <<>> /\ to \in TreeToggleOpen(u, n)
      \/ SingleMenuModeMenu(u, n) /\ to \in EnterMenuAndSelectFirst(u, n)
      \/ to \in ChangeNode(u, n)
  BY DEF TreeEnter, TreeToggle
<1> QED BY <1>1, ToggleOpenIs, EnterFirstIs, ChangeNodeIs DEF Fine

----------------------------------------------------------------------------
(* Every step.                                                              *)

TreeInv == Used => Current(Window)

LEMMA WindowFields ==
    /\ IsWindow(Window) /\ Window.failed = FALSE
    /\ Window.env = env /\ Window.menu = menu /\ Window.showAll = showAll
    /\ Window.single = single /\ Window.kids = kids /\ Window.open = open
    /\ Window.focus = focus
BY DEF Window, IsWindow

LEMMA BecomesCurrent ==
    ASSUME NEW to, Becomes(to), Current(to)
    PROVE  Current(Window)'
<1> DEFINE w == [env |-> env', menu |-> menu', showAll |-> showAll', single |-> single',
                 kids |-> kids', open |-> open', focus |-> focus', changed |-> changed',
                 failed |-> FALSE]
<1>1. Window' = w
  BY DEF Window
<1>2. /\ IsWindow(w)
      /\ w.env = to.env /\ w.menu = to.menu /\ w.showAll = to.showAll
      /\ w.single = to.single /\ w.kids = to.kids /\ w.open = to.open
      /\ w.focus = to.focus
  BY DEF Becomes, IsWindow
<1> HIDE DEF w
<1>3. Current(w)
  BY <1>2, SameTree DEF Current, Sound
<1> QED BY <1>1, <1>3

LEMMA DoCurrent ==
    ASSUME NEW outcomes, Do(outcomes), \A to \in outcomes : Fine(to)
    PROVE  TreeInv'
<1>1. PICK to \in outcomes : Becomes(to) /\ mode' = IF to.failed THEN "failed" ELSE mode
  BY DEF Do
<1>2. CASE to.failed = TRUE
  BY <1>1, <1>2 DEF TreeInv, Used
<1>3. CASE Current(to)
  BY <1>1, <1>3, BecomesCurrent DEF TreeInv
<1> QED BY <1>2, <1>3 DEF Fine

LEMMA RowCurrent ==
    ASSUME TreeInv, NEW n \in Nodes, SelectRow(n) \/ Click(n) \/ OpenRow(n) \/ CloseRow(n)
    PROVE  TreeInv'
<1> DEFINE w == Window
           u == Select(w, n)
<1>1. Current(w) /\ n \in TreeRows(w)
  BY DEF TreeInv, SelectRow, Click, OpenRow, CloseRow, Idle, Used
<1>2. \/ Do({u})
      \/ Do(IF ChangeNode(u, n) = {} THEN {u} ELSE ChangeNode(u, n))
      \/ Do(TreeOpen(u, n))
      \/ Do({[u EXCEPT !.open = @ \ {n}]})
  BY DEF SelectRow, Click, OpenRow, CloseRow
<1> HIDE DEF w
<1>3. n \in Below
  BY <1>1, IsRowIs
<1>4. Current(u)
  BY <1>1, <1>3, SelectRowIs
<1> HIDE DEF u
<1>5. CASE Do({u})
  BY <1>4, <1>5, DoCurrent DEF Fine
<1>6. CASE Do(IF ChangeNode(u, n) = {} THEN {u} ELSE ChangeNode(u, n))
  <2>1. \A to \in IF ChangeNode(u, n) = {} THEN {u} ELSE ChangeNode(u, n) : Fine(to)
    BY <1>4, ChangeNodeIs DEF Fine
  <2> QED BY <1>6, <2>1, DoCurrent
<1>7. CASE Do(TreeOpen(u, n))
  <2>1. \A to \in TreeOpen(u, n) : Fine(to)
    BY <1>3, <1>4, TreeOpenIs DEF Fine
  <2> QED BY <1>7, <2>1, DoCurrent
<1>8. CASE Do({[u EXCEPT !.open = @ \ {n}]})
  <2> DEFINE to == [u EXCEPT !.open = @ \ {n}]
  <2>1. Current(to)
    BY <1>4, CloseIs
  <2>2. Do({to})
    BY <1>8
  <2> HIDE DEF to
  <2> QED BY <2>1, <2>2, DoCurrent DEF Fine
<1> QED BY <1>2, <1>5, <1>6, <1>7, <1>8

LEMMA KeyCurrent ==
    ASSUME TreeInv,
           \/ Enter \/ Toggle \/ Back \/ RightKey \/ ShowAll \/ TreeMode
           \/ \E v \in 0 .. 2 : SetTri(v)
           \/ \E n \in Searchable : DialogChange(n) \/ \E v \in 0 .. 2 : DialogSet(n, v)
    PROVE  TreeInv'
<1> DEFINE u == Window
           AllFine(outcomes) == \A to \in outcomes : Fine(to)
<1>1. Current(u)
  BY DEF TreeInv, Enter, Toggle, Back, RightKey, ShowAll, TreeMode, SetTri, DialogChange, DialogSet,
         Idle, InJump, Used
<1>2. u.focus = focus /\ u.single = single /\ focus \in Below
  BY <1>1, WindowFields DEF Current, Sound
<1>3. PICK outcomes :
          /\ Do(outcomes)
          /\ \/ outcomes = TreeEnter(u, focus)
             \/ outcomes = TreeToggle(u, focus)
             \/ SingleMenuModeMenu(u, focus) /\ outcomes = EnterMenuAndSelectFirst(u, focus)
             \/ \E n : outcomes = ChangeNode(u, n)
             \/ \E n, v : outcomes = TreeSetVal(u, n, v)
             \/ single /\ outcomes = LeaveMenu(u)
             \/ outcomes = DoShowAll(u)
             \/ outcomes = DoTreeMode(u)
  BY Zenon DEF Enter, Toggle, Back, RightKey, ShowAll, TreeMode, SetTri, DialogChange, DialogSet
<1> HIDE DEF u
<1>4. AllFine(TreeEnter(u, focus)) /\ AllFine(TreeToggle(u, focus))
  BY <1>1, <1>2, EnterIs
<1>5. SingleMenuModeMenu(u, focus) => AllFine(EnterMenuAndSelectFirst(u, focus))
  BY <1>1, EnterFirstIs DEF Fine
<1>6. \A n : AllFine(ChangeNode(u, n)) /\ \A v : AllFine(TreeSetVal(u, n, v))
  BY <1>1, ChangeNodeIs, TreeSetValIs
<1>7. single => AllFine(LeaveMenu(u))
  BY <1>1, <1>2, LeaveMenuIs DEF Fine
<1>8. AllFine(DoShowAll(u)) /\ AllFine(DoTreeMode(u))
  BY <1>1, ShowAllIs, TreeModeIs
<1> HIDE DEF AllFine
<1>9. AllFine(outcomes)
  BY <1>3, <1>4, <1>5, <1>6, <1>7, <1>8
<1> QED BY <1>3, <1>9, DoCurrent DEF AllFine

\* Opening a file.
LEMMA OpenCurrent ==
    ASSUME TreeInv, NEW f, Open(f)
    PROVE  TreeInv'
<1> DEFINE x == Replaced(env, files[f])
           w == [Window EXCEPT !.env = x, !.changed = NeedsSave(x, files[f])]
           empty == single /\ ShownMenuNodes(w, menu) = <<>>
           v == [w EXCEPT !.showAll = @ \/ empty]
<1>1. Current(Window)
  BY DEF TreeInv, Open, Idle, Used
<1>2. PICK to \in UpdateTree(v) : Becomes(to)
  BY DEF Open
<1>3. /\ IsWindow(w) /\ w.showAll = showAll /\ w.menu = menu /\ w.single = single
      /\ w.focus = focus
  BY WindowFields DEF IsWindow
<1> HIDE DEF w
<1>4. empty \in BOOLEAN
  <2>1. single \in BOOLEAN
    BY <1>1, WindowFields DEF Current, Sound
  <2> QED BY <2>1
<1> HIDE DEF empty
<1>5. /\ IsWindow(v) /\ v.showAll = (showAll \/ empty) /\ v.menu = menu /\ v.single = single
      /\ v.focus = focus
  BY <1>3 DEF IsWindow
<1> HIDE DEF v
<1>6. Sound(v)
  BY <1>1, <1>4, <1>5, WindowFields DEF Current, Sound
<1>7. Current(to)
  BY <1>2, <1>6, UpdateTreeIs
<1> QED BY <1>2, <1>7, BecomesCurrent DEF TreeInv

\* The first window.
LEMMA StartCurrent ==
    ASSUME Start
    PROVE  TreeInv'
<1> DEFINE f == files[StdName]
           x == Loaded(f)
           all == Rows(x, FALSE, TopNode) = <<>>
           w == [NoWindow EXCEPT !.env = x, !.changed = UnsavedAtStart(x, f), !.showAll = all]
<1>1. /\ ShownMenuNodes(w, TopNode) # <<>>
      /\ \E to \in UpdateTree(w) : Becomes(Select(to, Head(to.kids[TopNode])))
  BY DEF Start
<1>2. all \in BOOLEAN
  OBVIOUS
<1> HIDE DEF all
<1>3. /\ IsWindow(w) /\ w.env = x /\ w.showAll = all /\ w.menu = TopNode /\ w.single = FALSE
      /\ w.open = {} /\ w.focus = TopNode
  BY DEF NoWindow, IsWindow
<1> HIDE DEF w, x
<1> DEFINE k == Rebuilt(w, Detached)
<1>4. PICK in \in UpdateTree(w) : Becomes(Select(in, Head(in.kids[TopNode])))
  BY <1>1
<1> DEFINE h == Head(in.kids[TopNode])
           to == Select(in, h)
\* The window has no focus yet: one with a focus has the same tree.
<1>5. PICK n \in Below : ParentMenu[n] = TopNode
  BY TopHasRow
<1> DEFINE ww == [w EXCEPT !.focus = n]
           there == [ww EXCEPT !.kids = k]
<1>6. /\ IsWindow(ww) /\ ww.env = x /\ ww.showAll = all /\ ww.menu = TopNode /\ ww.single = FALSE
      /\ ww.open = {} /\ ww.focus = n
  BY <1>3 DEF IsWindow
<1> HIDE DEF ww
<1>7. Sound(ww)
  BY <1>2, <1>5, <1>6 DEF Sound
<1>8. k = Rebuilt(ww, Detached)
  BY <1>3, <1>6, SameBuild DEF Rebuilt
<1>9. there \in UpdateTree(ww)
  BY <1>8 DEF UpdateTree
<1>10. in = [w EXCEPT !.kids = k]
  BY <1>4 DEF UpdateTree
<1> HIDE DEF k
<1>11. /\ IsWindow(in) /\ in.env = x /\ in.showAll = all /\ in.menu = TopNode /\ in.single = FALSE
       /\ in.open = {} /\ in.kids = k
  BY <1>3, <1>10 DEF IsWindow
<1>12. there.kids = k
  BY <1>6 DEF IsWindow
<1> HIDE DEF there
<1>13. /\ Current(there) /\ there.env = x /\ there.menu = TopNode /\ there.showAll = all
       /\ there.single = FALSE /\ there.open = {} /\ IsWindow(there)
  BY <1>6, <1>7, <1>9, UpdateTreeIs DEF Current, Sound
<1>14. Rows(x, all, TopNode) # <<>>
  BY <1>1, <1>3 DEF ShownMenuNodes
<1>15. h \in Below /\ h \in TreeRows(there)
  <2>1. Head(there.kids[TopNode]) \in Below /\ Head(there.kids[TopNode]) \in TreeRows(there)
    BY <1>13, <1>14, FirstItemIs
  <2> QED BY <1>11, <1>12, <2>1
<1>16. Above(k, h) \subseteq {}
  BY <1>12, <1>13, <1>15, FullRow DEF Current
<1> HIDE DEF h
<1>17. /\ IsWindow(to) /\ to.focus = h /\ to.open = {} \cup Above(k, h)
       /\ to.env = x /\ to.menu = TopNode /\ to.showAll = all
       /\ to.single = FALSE /\ to.kids = k
  <2>1. /\ IsWindow(to) /\ to.focus = h /\ to.open = in.open \cup Above(in.kids, h)
        /\ to.env = in.env /\ to.menu = in.menu /\ to.showAll = in.showAll
        /\ to.single = in.single /\ to.kids = in.kids
    <3>1. IsWindow(in)
      BY <1>11
    <3> QED BY <3>1, SelectIs
  <2> HIDE DEF to
  <2> QED BY <1>11, <2>1
<1>18. Becomes(to)
  BY <1>4 DEF h
<1> HIDE DEF to
<1>19. Current(to)
  BY <1>12, <1>13, <1>15, <1>16, <1>17, SameTree
<1> QED BY <1>18, <1>19, BecomesCurrent DEF TreeInv

LEMMA NextCurrent ==
    ASSUME TreeInv, [GuiNext]_gvars
    PROVE  TreeInv'
<1>1. ASSUME UNCHANGED <<env, tree>>, Used' => Used PROVE TreeInv'
  <2>1. Used' => Current(Window)
    BY <1>1 DEF TreeInv
  <2>2. /\ env' = env /\ menu' = menu /\ showAll' = showAll /\ single' = single
        /\ kids' = kids /\ open' = open /\ focus' = focus
    BY <1>1 DEF tree
  <2> DEFINE w == [env |-> env', menu |-> menu', showAll |-> showAll', single |-> single',
                   kids |-> kids', open |-> open', focus |-> focus', changed |-> changed',
                   failed |-> FALSE]
  <2>3. Window' = w
    BY DEF Window
  <2>4. /\ IsWindow(w)
        /\ w.env = env /\ w.menu = menu /\ w.showAll = showAll
        /\ w.single = single /\ w.kids = kids /\ w.open = open
        /\ w.focus = focus
    BY <2>2 DEF IsWindow
  <2> HIDE DEF w
  <2>5. Used' => Current(w)
    <3> SUFFICES ASSUME Used' PROVE Current(w)
      OBVIOUS
    <3> DEFINE u == Window
    <3>1. /\ Current(u) /\ w.env = u.env /\ w.menu = u.menu /\ w.showAll = u.showAll
          /\ w.single = u.single /\ w.kids = u.kids /\ w.open = u.open
          /\ w.focus = u.focus
      BY <2>1, <2>4, WindowFields
    <3> HIDE DEF u
    <3>2. w.focus \in Below
      BY <3>1 DEF Current, Sound
    <3> QED BY <2>4, <3>1, <3>2, SameTree
  <2> QED BY <2>3, <2>5 DEF TreeInv
<1>2. ASSUME NEW n \in Nodes, SelectRow(n) \/ Click(n) \/ OpenRow(n) \/ CloseRow(n)
      PROVE  TreeInv'
  BY <1>2, RowCurrent
<1>3. CASE \/ Enter \/ Toggle \/ Back \/ RightKey \/ ShowAll \/ TreeMode
           \/ \E v \in 0 .. 2 : SetTri(v)
           \/ \E n \in Searchable : DialogChange(n) \/ \E v \in 0 .. 2 : DialogSet(n, v)
  BY <1>3, KeyCurrent
<1>4. CASE Quit \/ QuitSave
  BY <1>4 DEF Quit, QuitSave, TreeInv, Used
<1>5. CASE Save \/ \E f \in Names : SaveAs(f) \/ SaveFails(f)
  BY <1>1, <1>5 DEF Save, SaveAs, SaveFails, Rest, values, Used, Idle
<1>6. CASE OpenJump \/ CancelJump
  BY <1>1, <1>6 DEF OpenJump, CancelJump, Rest, values, Used, Idle, InJump
<1>7. ASSUME NEW f \in Names, Open(f) PROVE TreeInv'
  BY <1>7, OpenCurrent
<1>8. ASSUME NEW n \in Searchable, Jump(n) PROVE TreeInv'
  <2>1. PICK to \in JumpToSelected(Window, n) : Becomes(to)
    BY <1>8 DEF Jump
  <2>2. Current(Window) /\ n \in Below
    BY <1>8, SearchAssumption DEF TreeInv, Jump, InJump, Used
  <2>3. Current(to)
    BY <2>1, <2>2, JumpToSelectedIs
  <2> QED BY <2>1, <2>3, BecomesCurrent DEF TreeInv
<1>9. CASE Start
  BY <1>9, StartCurrent
<1>10. CASE UNCHANGED gvars
  BY <1>1, <1>10 DEF gvars, values, Used
<1> QED
  BY <1>2, <1>3, <1>4, <1>5, <1>6, <1>7, <1>8, <1>9, <1>10 DEF GuiNext

LEMMA CurrentTree == TreeInv => TreeIsCurrent
<1> SUFFICES ASSUME TreeInv, Used PROVE TreeIsCurrent
  BY DEF TreeIsCurrent
<1>1. Shows(Window)
  BY CurrentShows DEF TreeInv
<1>2. \A p : ShownChildren(p) = Want(Shown(Window), p)
  BY WindowFields DEF ShownChildren, Want, KidsIn, Shown
<1> DEFINE u == Window
<1>3. /\ u.kids[TopNode] = Want(Shown(u), IF u.single THEN u.menu ELSE TopNode)
      /\ \A n \in TreeRows(u) :
          IF u.single /\ n \in IsMenuconfig THEN u.kids[n] = <<>>
          ELSE IF n \in u.open \/ ItemOf[n] \in Syms THEN u.kids[n] = Want(Shown(u), n)
          ELSE (u.kids[n] = <<>>) = (Want(Shown(u), n) = <<>>)
  BY <1>1 DEF Shows
<1>4. u.kids = kids /\ u.single = single /\ u.menu = menu /\ u.open = open
  BY WindowFields
<1> HIDE DEF u
<1>5. \A p : ShownChildren(p) = Want(Shown(u), p)
  BY <1>2 DEF u
<1>6. /\ kids[TopNode] = ShownChildren(IF single THEN menu ELSE TopNode)
      /\ \A n \in TreeRows(u) :
          IF single /\ n \in IsMenuconfig THEN kids[n] = <<>>
          ELSE IF n \in open \/ ItemOf[n] \in Syms THEN kids[n] = ShownChildren(n)
          ELSE (kids[n] = <<>>) = (ShownChildren(n) = <<>>)
  BY <1>3, <1>4, <1>5
<1> QED BY <1>6 DEF TreeIsCurrent, u

(***************************************************************************)
(* The tree is never stale: after any history of changes, expansions,      *)
(* switches of the show-all and tree modes, jumps and opened files, every  *)
(* item that can be reached in the tree has the items of the nodes that    *)
(* are displayed below it, or one placeholder when it is closed and has    *)
(* any.  So opening a menu (_tree_open) finds its items or builds them,    *)
(* whichever function populated the tree, and whether or not the menu was  *)
(* shown when _build_full_tree() last ran.                                 *)
(***************************************************************************)
THEOREM TreeIsCurrentThm == GuiSpec => []TreeIsCurrent
<1>1. GuiInit => TreeInv
  BY DEF GuiInit, TreeInv, Used
<1>2. TreeInv /\ [GuiNext]_gvars => TreeInv'
  BY NextCurrent
<1>3. TreeInv => TreeIsCurrent
  BY CurrentTree
<1> QED BY <1>1, <1>2, <1>3, PTL DEF GuiSpec

----------------------------------------------------------------------------
(* The selection is on a row.                                               *)

\* Opening more does not take a row away.
LEMMA MoreRows ==
    ASSUME NEW k, Parented(k), NEW o, NEW opened, o \subseteq opened
    PROVE  RowsOf(k, o) \subseteq RowsOf(k, opened)
<1> DEFINE Lost == {n \in Below : n \in RowsOf(k, o) /\ n \notin RowsOf(k, opened)}
<1>1. Lost = {}
  <2> SUFFICES ASSUME Lost # {} PROVE FALSE
    OBVIOUS
  <2>1. PICK n \in Lost : \A q \in Lost : <<q, n>> \notin LowerNodes
    BY FirstNode DEF HasLowest
  <2>2. PICK p \in TreeParent(k, n) : p = TopNode \/ (p \in o /\ p \in RowsOf(k, o))
    BY <2>1, RowsOfIs
  <2>3. p # TopNode => p \in Below /\ <<p, n>> \in LowerNodes
    BY TreeParentIs
  <2>4. p = TopNode \/ (p \in opened /\ p \in RowsOf(k, opened))
    BY <2>1, <2>2, <2>3
  <2>5. n \in RowsOf(k, opened)
    BY <2>1, <2>4, RowsOfIs
  <2> QED BY <2>1, <2>5
<1>2. RowsOf(k, o) \subseteq Below
  BY RowsOfIs
<1> QED BY <1>1, <1>2

\* An item is on a row once see() has opened what is above it, if all of that
\* is attached.
LEMMA SeenRow ==
    ASSUME NEW k, Parented(k), NEW o, NEW C \in SUBSET Below,
           \A m \in C : \E p \in TreeParent(k, m) : p = TopNode \/ p \in C,
           NEW n \in C
    PROVE  n \in RowsOf(k, o \cup Above(k, n))
<1> DEFINE Lost == {m \in C : m \notin RowsOf(k, o \cup Above(k, m))}
<1>1. Lost = {}
  <2> SUFFICES ASSUME Lost # {} PROVE FALSE
    OBVIOUS
  <2>1. PICK m \in Lost : \A q \in Lost : <<q, m>> \notin LowerNodes
    BY FirstNode DEF HasLowest
  <2>2. PICK p \in TreeParent(k, m) : p = TopNode \/ p \in C
    BY <2>1
  <2> DEFINE opened == o \cup Above(k, m)
  <2>3. CASE p = TopNode
    BY <2>1, <2>2, <2>3, RowsOfIs
  <2>4. CASE p # TopNode
    <3>1. p \in C /\ <<p, m>> \in LowerNodes /\ p \in Below
      BY <2>2, <2>4, TreeParentIs
    <3>2. p \in RowsOf(k, o \cup Above(k, p))
      BY <2>1, <3>1
    <3>3. p \in Above(k, m) /\ Above(k, p) \subseteq Above(k, m)
      <4>1. Above(k, m) = UNION {{q} \cup Above(k, q) : q \in TreeParent(k, m) \ {TopNode}}
        BY <2>1, AboveIs
      <4>2. p \in TreeParent(k, m) \ {TopNode}
        BY <2>2, <2>4
      <4> QED BY <4>1, <4>2
    <3>4. o \cup Above(k, p) \subseteq opened /\ p \in opened
      BY <3>3
    <3> HIDE DEF opened
    <3>5. p \in RowsOf(k, opened)
      BY <3>2, <3>4, MoreRows
    <3>6. m \in RowsOf(k, opened)
      BY <2>1, <2>2, <3>4, <3>5, RowsOfIs
    <3> QED BY <2>1, <3>6 DEF opened
  <2> QED BY <2>3, <2>4
<1> QED BY <1>1

\* Items that an item list has.
LEMMA WantHas ==
    ASSUME NEW D \in SUBSET Below, NEW n \in D
    PROVE  IsIn(n, Want(D, ParentOf[n])) /\ ParentOf[n] \in Nodes
<1> DEFINE K == KidsIn(D, ParentOf[n])
           s == Those(NodeOrder, K)
<1>1. s \in Seq(Nodes) /\ Seqs!ToSet(s) = Nodes \cap K
  BY OrderIs, ThoseIs
<1>2. n \in K /\ n \in Nodes
  BY DEF KidsIn, Below
<1> HIDE DEF s, K
<1>3. n \in Seqs!ToSet(s)
  BY <1>1, <1>2
<1>4. IsIn(n, s)
  BY <1>3 DEF IsIn, Seqs!ToSet
<1> QED BY <1>4, ParentIs DEF s, K, Want

\* A symbol with an item below it is displayed.
LEMMA SymbolStays ==
    ASSUME NEW x, NEW all \in BOOLEAN, NEW n \in Displayed(x, all), ParentOf[n] \notin IsMenuconfig
    PROVE  ParentOf[n] \in Displayed(x, all) /\ ParentMenu[ParentOf[n]] = ParentMenu[n]
<1> DEFINE q == ParentOf[n]
<1>1. n \in Below
  BY AllDisplayed
<1>2. q \in Below /\ ParentMenu[q] = ParentMenu[n] /\ ItemOf[q] \in Syms
  BY <1>1, ParentIs
<1> HIDE DEF q
<1>3. q \in Displayed(x, all)
  <2>1. CASE all
    <3>1. all = TRUE
      BY <2>1
    <3> QED BY <1>2, <3>1, AllDisplayed
  <2>2. CASE ~all
    <3>1. all = FALSE
      BY <2>2
    <3> QED BY <1>1, <1>2, <3>1, DisplayedIs DEF q
  <2> QED BY <2>1, <2>2
<1> QED BY <1>2, <1>3 DEF q

Landed(u) == u.focus \in TreeRows(u)

LEMMA SelectLands ==
    ASSUME NEW u, Current(u), NEW n \in TreeRows(u)
    PROVE  Landed(Select(u, n))
<1>1. IsWindow(u) /\ Parented(u.kids)
  BY CurrentParented DEF Current, Sound
<1> DEFINE to == Select(u, n)
<1>2. to.focus = n /\ to.open = u.open \cup Above(u.kids, n) /\ to.kids = u.kids
  BY <1>1, SelectIs
<1> HIDE DEF to
<1>3. u.open \subseteq to.open
  BY <1>2
<1>4. n \in RowsOf(u.kids, to.open)
  BY <1>1, <1>3, MoreRows DEF TreeRows
<1> QED BY <1>2, <1>4 DEF Landed, TreeRows, to

\* In single-menu mode, what is displayed of the menu has a row.
LEMMA SingleLands ==
    ASSUME NEW u, Current(u), u.single, NEW n \in Shown(u), ParentMenu[n] = u.menu
    PROVE  Landed(Select(u, n))
<1>1. IsWindow(u) /\ Parented(u.kids) /\ Sound(u) /\ u.kids = BuildMenuTree(u, Detached)
      /\ u.showAll \in BOOLEAN
  BY CurrentParented DEF Current, Sound
<1>2. Shown(u) \subseteq Below
  BY AllDisplayed DEF Shown
<1> DEFINE C == {m \in Shown(u) : ParentMenu[m] = u.menu}
<1>3. ASSUME NEW m \in C PROVE \E p \in TreeParent(u.kids, m) : p = TopNode \/ p \in C
  <2>1. m \in Shown(u) /\ ParentMenu[m] = u.menu /\ m \in Below
    BY <1>2, <1>3
  <2>2. IsIn(m, Want(Shown(u), ParentOf[m])) /\ ParentOf[m] \in Nodes
    BY <1>2, <2>1, WantHas
  <2>3. CASE ParentOf[m] \in IsMenuconfig
    <3>1. ParentOf[m] = u.menu
      BY <2>1, <2>3, ParentIs
    <3>2. u.kids[TopNode] = Want(Shown(u), u.menu)
      BY <1>1, SingleIs
    <3>3. TopNode \in Nodes
      BY TopHasRow, NodesAssumption
    <3> QED BY <2>2, <3>1, <3>2, <3>3 DEF TreeParent
  <2>4. CASE ParentOf[m] \notin IsMenuconfig
    <3> DEFINE q == ParentOf[m]
    <3>1. q \in Shown(u) /\ ParentMenu[q] = u.menu
      BY <1>1, <2>1, <2>4, SymbolStays DEF Shown
    <3>2. q \in C /\ q \in Below
      BY <1>2, <3>1
    <3>3. u.kids[q] = Want(Shown(u), q)
      BY <1>1, <2>4, <3>1, <3>2, SingleIs
    <3> HIDE DEF C
    <3> QED BY <2>2, <3>2, <3>3 DEF TreeParent
  <2> QED BY <2>3, <2>4
<1>4. C \in SUBSET Below /\ n \in C
  BY <1>2
<1> DEFINE to == Select(u, n)
<1>5. to.focus = n /\ to.open = u.open \cup Above(u.kids, n) /\ to.kids = u.kids
  BY <1>1, SelectIs
<1> HIDE DEF to, C
<1>6. n \in RowsOf(u.kids, u.open \cup Above(u.kids, n))
  BY <1>1, <1>3, <1>4, SeenRow
<1> QED BY <1>5, <1>6 DEF Landed, TreeRows, to

\* The items above an item above are above it too.
LEMMA ParentsUp ==
    ASSUME NEW n \in Below, NEW p \in Parents[n]
    PROVE  ParentOf[p] = TopNode \/ ParentOf[p] \in Parents[n]
<1> DEFINE Wrong == {m \in Below : \E q \in Parents[m] :
                        ParentOf[q] # TopNode /\ ParentOf[q] \notin Parents[m]}
<1>1. Wrong = {}
  <2> SUFFICES ASSUME Wrong # {} PROVE FALSE
    OBVIOUS
  <2>1. PICK m \in Wrong : \A q \in Wrong : <<q, m>> \notin LowerNodes
    BY FirstNode DEF HasLowest
  <2>2. PICK q \in Parents[m] : ParentOf[q] # TopNode /\ ParentOf[q] \notin Parents[m]
    BY <2>1
  <2>3. CASE ParentOf[m] = TopNode
    BY <2>1, <2>2, <2>3, ParentsUnfolds
  <2>4. CASE ParentOf[m] # TopNode
    <3> DEFINE r == ParentOf[m]
    <3>1. r \in Below /\ <<r, m>> \in LowerNodes /\ Parents[m] = Parents[r] \cup {r}
      BY <2>1, <2>4, ParentIs, ParentsUnfolds
    <3>2. r \notin Wrong
      BY <2>1, <3>1
    <3>3. CASE q = r
      <4>1. ParentOf[r] \in Parents[r]
        BY <2>2, <3>1, <3>3, ParentsUnfolds
      <4> QED BY <2>2, <3>1, <3>3, <4>1
    <3>4. CASE q \in Parents[r]
      BY <2>2, <3>1, <3>2, <3>4
    <3> QED BY <2>2, <3>1, <3>3, <3>4
  <2> QED BY <2>3, <2>4
<1> QED BY <1>1

\* _load_parents() leaves every item above n with all of its items, whether it
\* was open before, is populated now, or is a symbol below one of these.
LEMMA LoadedAbove ==
    ASSUME NEW u, Current(u), ~u.single, NEW n \in Below, Parents[n] \subseteq Shown(u),
           NEW q \in Parents[n]
    PROVE  LoadParents(u, n).kids[q] = Want(Shown(u), q)
<1> DEFINE menus == Menus(FromFirstClosed(u, n))
           k  == BuildFullTree(u, u.kids, menus)
           S  == ShownFullNodes(u, menus)
           S0 == ShownFullNodes(u, {TopNode})
<1>1. LoadParents(u, n).kids = k
  BY DEF LoadParents, Current, Sound, IsWindow
<1>2. u.showAll \in BOOLEAN /\ Fit(Shown(u), u.kids) /\ Full(u)
  BY DEF Current, Sound, Full
<1>3. \A p \in Nodes :
         /\ p \in menus \/ (p \in S /\ (ItemOf[p] \in Syms \/ p \in u.open)) =>
               k[p] = Want(Shown(u), p)
         /\ p \notin menus /\ p \notin S => k[p] = u.kids[p]
  BY <1>2, BuildIs
<1>4. Parents[n] \subseteq Below
  BY ParentsBelow
<1>5. ASSUME NEW p \in Parents[n], p \notin menus PROVE ItemOf[p] \in Syms \/ p \in u.open
  <2>1. ~Before(p, p)
    <3>1. IndexOf(NodeOrder, p) \in Nat
      BY <1>4, Positions DEF Below
    <3> QED BY <3>1 DEF Before
  <2> QED BY <1>5, <2>1 DEF Menus, FromFirstClosed
<1>6. ASSUME NEW p \in S0, ItemOf[p] \in Syms \/ p \in u.open PROVE u.kids[p] = Want(Shown(u), p)
  BY <1>2, <1>6 DEF Full, Right
<1>7. /\ S \subseteq Below /\ S0 \subseteq Below
      /\ \A m \in Below : m \in Shown(u) =>
            /\ ParentOf[m] \in menus => m \in S
            /\ (ItemOf[ParentOf[m]] \in Syms \/ ParentOf[m] \in u.open) /\ ParentOf[m] \in S => m \in S
            /\ ParentOf[m] = TopNode => m \in S0
            /\ (ItemOf[ParentOf[m]] \in Syms \/ ParentOf[m] \in u.open) /\ ParentOf[m] \in S0 => m \in S0
  BY ShownFullIs DEF Shown
<1> HIDE DEF menus, k, S, S0
<1> DEFINE Wrong == {p \in Parents[n] : p \notin menus \cup S \cup S0}
<1>8. Wrong = {}
  <2> SUFFICES ASSUME Wrong # {} PROVE FALSE
    OBVIOUS
  <2>1. PICK p \in Wrong : \A r \in Wrong : <<r, p>> \notin LowerNodes
    BY <1>4, FirstNode DEF HasLowest
  <2>2. p \in Parents[n] /\ p \in Below /\ p \in Shown(u)
    BY <1>4, <2>1
  <2>3. ParentOf[p] # TopNode
    BY <1>7, <2>1, <2>2
  <2> DEFINE r == ParentOf[p]
  <2>4. r \in Parents[n] /\ <<r, p>> \in LowerNodes
    BY <2>2, <2>3, ParentsUp, ParentIs
  <2>5. r \in menus \cup S \cup S0
    BY <2>1, <2>4
  <2>6. p \in S \cup S0
    BY <1>5, <1>7, <2>2, <2>4, <2>5
  <2> QED BY <2>1, <2>6
<1>9. q \in menus \/ q \in S \/ q \in S0
  BY <1>8
<1>10. q \in Nodes
  BY <1>4 DEF Below
<1>11. k[q] = Want(Shown(u), q)
  BY <1>3, <1>5, <1>6, <1>9, <1>10
<1> QED BY <1>1, <1>11

LEMMA LoadedLands ==
    ASSUME NEW u, Current(u), ~u.single, NEW n \in Below,
           n \in Shown(u), Parents[n] \subseteq Shown(u)
    PROVE  Landed(Select(LoadParents(u, n), n))
<1> DEFINE in == LoadParents(u, n)
           k  == in.kids
           to == Select(in, n)
           C  == Parents[n] \cup {n}
<1>1. IsWindow(u) /\ Full(u) /\ u.showAll \in BOOLEAN /\ Fit(Shown(u), u.kids)
  BY DEF Current, Sound, Full
<1>2. IsWindow(in) /\ in.open = u.open
      /\ k = BuildFullTree(u, u.kids, Menus(FromFirstClosed(u, n)))
  BY <1>1 DEF LoadParents, IsWindow
<1>3. Shown(u) \in SUBSET Below
  BY AllDisplayed DEF Shown
<1>4. Fit(Shown(u), k)
  BY <1>1, <1>2, BuildIs
<1>5. \A q \in Parents[n] : k[q] = Want(Shown(u), q)
  BY LoadedAbove
<1>6. k[TopNode] = Want(Shown(u), TopNode)
  <2> DEFINE menus == Menus(FromFirstClosed(u, n))
  <2>1. TopNode \notin menus /\ TopNode \notin ShownFullNodes(u, menus) /\ TopNode \in Nodes
    <3>1. Parents[n] \subseteq Below
      BY ParentsBelow
    <3>2. menus \subseteq Parents[n]
      BY DEF Menus, FromFirstClosed
    <3>3. ShownFullNodes(u, menus) \subseteq Below
      BY ShownFullIs
    <3> HIDE DEF menus
    <3> QED BY <3>1, <3>2, <3>3, TopHasRow, NodesAssumption DEF Below
  <2>2. k[TopNode] = u.kids[TopNode]
    BY <1>1, <1>2, <2>1, BuildIs
  <2>3. Right(u, TopNode)
    BY <1>1 DEF Full
  <2>4. u.kids[TopNode] = Want(Shown(u), TopNode)
    BY <2>3 DEF Right
  <2> QED BY <2>2, <2>4
<1>7. /\ IsWindow(to) /\ to.focus = n /\ to.open = u.open \cup Above(k, n) /\ to.kids = k
  BY <1>2, SelectIs
<1> HIDE DEF in, k, to
<1>8. Parented(k)
  BY <1>3, <1>4, FitIsParented
<1>9. ASSUME NEW m \in C PROVE \E p \in TreeParent(k, m) : p = TopNode \/ p \in C
  <2>1. m \in Shown(u) /\ m \in Below
    BY <1>3, <1>9
  <2>2. IsIn(m, Want(Shown(u), ParentOf[m])) /\ ParentOf[m] \in Nodes
    BY <1>3, <2>1, WantHas
  <2>3. ParentOf[m] = TopNode \/ ParentOf[m] \in Parents[n]
    <3>1. CASE m = n
      BY <3>1, ParentsUnfolds
    <3>2. CASE m \in Parents[n]
      BY <3>2, ParentsUp
    <3> QED BY <1>9, <3>1, <3>2
  <2>4. k[ParentOf[m]] = Want(Shown(u), ParentOf[m])
    BY <1>5, <1>6, <2>3
  <2>5. ParentOf[m] \in TreeParent(k, m)
    BY <2>2, <2>4 DEF TreeParent
  <2> QED BY <2>3, <2>5
<1>10. C \in SUBSET Below /\ n \in C
  BY ParentsBelow
<1> HIDE DEF C
<1>11. n \in RowsOf(k, u.open \cup Above(k, n))
  BY <1>8, <1>9, <1>10, SeenRow
<1> QED BY <1>7, <1>11 DEF Landed, TreeRows, to, in

\* What is displayed without show-all is below menus that are displayed, if a
\* hidden menu shows nothing.
LEMMA ParentsShown ==
    ASSUME NEW x, HiddenMenusAreEmpty(x), NEW all \in BOOLEAN, NEW n \in Displayed(x, all)
    PROVE  n \in Below /\ Parents[n] \subseteq Displayed(x, all)
<1> DEFINE D == Displayed(x, all)
<1>1. D \subseteq Below
  BY AllDisplayed
<1>2. ASSUME NEW m \in D, ParentOf[m] # TopNode PROVE ParentOf[m] \in D
  <2> DEFINE q == ParentOf[m]
  <2>1. m \in Below /\ q \in Below
    BY <1>1, <1>2, ParentIs
  <2>2. CASE all
    <3>1. all = TRUE
      BY <2>2
    <3> QED BY <2>1, <3>1, AllDisplayed
  <2>3. CASE ~all /\ ItemOf[q] \in Syms
    <3>1. all = FALSE
      BY <2>3
    <3> QED BY <1>2, <2>1, <2>3, <3>1, DisplayedIs
  <2>4. CASE ~all /\ ItemOf[q] \notin Syms
    <3>1. all = FALSE
      BY <2>4
    <3>2. m \in KidsIn(D, q)
      BY <1>2 DEF KidsIn
    <3>3. Rows(x, FALSE, q) # <<>>
      BY <2>4, <3>1, <3>2, RowsAndKids
    <3>4. Visible(x, q)
      BY <2>1, <2>4, <3>3 DEF HiddenMenusAreEmpty
    <3> QED BY <2>1, <3>1, <3>4, DisplayedIs
  <2> QED BY <2>2, <2>3, <2>4
<1> HIDE DEF D
<1> DEFINE Wrong == {m \in D : ~(Parents[m] \subseteq D)}
<1>3. Wrong = {}
  <2> SUFFICES ASSUME Wrong # {} PROVE FALSE
    OBVIOUS
  <2>1. PICK m \in Wrong : \A q \in Wrong : <<q, m>> \notin LowerNodes
    BY <1>1, FirstNode DEF HasLowest
  <2>2. m \in D /\ m \in Below
    BY <1>1, <2>1
  <2>3. CASE ParentOf[m] = TopNode
    BY <2>1, <2>2, <2>3, ParentsUnfolds
  <2>4. CASE ParentOf[m] # TopNode
    <3>1. ParentOf[m] \in D /\ <<ParentOf[m], m>> \in LowerNodes
      BY <1>2, <2>2, <2>4, ParentIs
    <3>2. Parents[ParentOf[m]] \subseteq D
      BY <2>1, <3>1
    <3>3. Parents[m] = Parents[ParentOf[m]] \cup {ParentOf[m]}
      BY <2>2, <2>4, ParentsUnfolds
    <3> QED BY <2>1, <3>1, <3>2, <3>3
  <2> QED BY <2>3, <2>4
<1> QED BY <1>1, <1>3 DEF D

\* Entering and leaving a menu, and jumping to a node.
LEMMA EnterFirstLands ==
    ASSUME NEW u, Current(u), NEW n, SingleMenuModeMenu(u, n),
           NEW to \in EnterMenuAndSelectFirst(u, n)
    PROVE  Landed(to)
<1>1. PICK in \in EnterMenu(u, n) : to = Select(in, Head(in.kids[TopNode]))
  BY DEF EnterMenuAndSelectFirst
<1>2. u.single /\ Rows(u.env, u.showAll, n) # <<>> /\ Sound(u)
  BY DEF SingleMenuModeMenu, ShownMenuNodes, Current
<1>3. PICK k \in Below : ParentOf[k] = n
  <2>1. u.showAll \in BOOLEAN
    BY <1>2 DEF Sound
  <2> DEFINE k == Rows(u.env, u.showAll, n)[1]
  <2>2. k \in KidsIn(Displayed(u.env, u.showAll), n)
    BY <1>2, <2>1, RowHasKid
  <2>3. Displayed(u.env, u.showAll) \subseteq Below
    BY AllDisplayed
  <2> HIDE DEF k
  <2> QED BY <2>2, <2>3 DEF KidsIn
<1>4. ParentMenu[k] = n
  BY <1>3, ParentIs DEF SingleMenuModeMenu
<1>5. /\ Current(in) /\ in.menu = n /\ in.single = u.single
      /\ in.env = u.env /\ in.showAll = u.showAll
  BY <1>1, <1>2, <1>4, EnterMenuIs
<1> QED BY <1>1, <1>2, <1>5, FirstItemIs, SelectLands

LEMMA LeaveMenuLands ==
    ASSUME NEW u, Current(u), u.single, u.menu = TopNode \/ u.menu \in Shown(u),
           NEW to \in LeaveMenu(u)
    PROVE  to = u \/ Landed(to)
<1>1. CASE u.menu = TopNode
  BY <1>1 DEF LeaveMenu
<1>2. CASE u.menu # TopNode
  <2>1. PICK out \in EnterMenu(u, ParentMenu[u.menu]) : to = Select(out, u.menu)
    BY <1>2 DEF LeaveMenu
  <2>2. Sound(u) /\ u.menu \in Below
    BY <1>2, SoundMenu, NodesAssumption DEF Current, Below
  <2>3. /\ Current(out) /\ out.single /\ out.menu = ParentMenu[u.menu]
        /\ out.env = u.env /\ out.showAll = u.showAll
    BY <2>1, <2>2, EnterMenuIs
  <2>4. u.menu \in Shown(out)
    BY <1>2, <2>3 DEF Shown
  <2> QED BY <2>1, <2>3, <2>4, SingleLands
<1> QED BY <1>1, <1>2

LEMMA JumpToLands ==
    ASSUME NEW u, Sound(u), ~u.single => Current(u), HiddenMenusAreEmpty(u.env),
           NEW n \in Shown(u), NEW to \in JumpTo(u, n)
    PROVE  Landed(to)
<1>1. n \in Below /\ Parents[n] \subseteq Shown(u)
  BY ParentsShown DEF Sound, Shown
<1>2. CASE u.single
  <2>1. PICK there \in EnterMenu(u, ParentMenu[n]) : to = Select(there, n)
    BY <1>2 DEF JumpTo
  <2>2. /\ Current(there) /\ there.single /\ there.menu = ParentMenu[n]
        /\ there.env = u.env /\ there.showAll = u.showAll
    BY <1>1, <1>2, <2>1, EnterMenuIs
  <2>3. n \in Shown(there)
    BY <2>2 DEF Shown
  <2> QED BY <2>1, <2>2, <2>3, SingleLands
<1>3. CASE ~u.single
  BY <1>1, <1>3, LoadedLands DEF JumpTo
<1> QED BY <1>2, <1>3

LEMMA JumpToSelectedLands ==
    ASSUME NEW u, Current(u), HiddenMenusAreEmpty(u.env), NEW n \in Below,
           NEW to \in JumpToSelected(u, n)
    PROVE  Landed(to)
<1> DEFINE all == [u EXCEPT !.showAll = TRUE]
<1>1. PICK in : /\ \/ IsIn(n, ShownMenuNodes(u, ParentMenu[n])) /\ in = u
                   \/ u.single /\ in = all
                   \/ ~u.single /\ in \in UpdateTree(all)
                /\ to \in JumpTo(in, n)
  BY DEF JumpToSelected
<1>2. Sound(u)
  BY DEF Current
<1>3. /\ IsWindow(all) /\ all.showAll = TRUE /\ all.menu = u.menu /\ all.env = u.env
      /\ all.single = u.single /\ all.focus = u.focus
  BY <1>2 DEF Sound, IsWindow
<1> HIDE DEF all
<1>4. Sound(all)
  BY <1>2, <1>3 DEF Sound
<1>5. Sound(in) /\ (~in.single => Current(in)) /\ in.env = u.env
  BY <1>1, <1>2, <1>3, <1>4, UpdateTreeIs DEF Current
<1>6. n \in Shown(in)
  <2>1. CASE in = u /\ IsIn(n, ShownMenuNodes(u, ParentMenu[n]))
    <3> DEFINE S == RowNodes(u.env, u.showAll, ParentMenu[n])
               s == Those(NodeOrder, S)
    <3>1. Seqs!ToSet(s) = Nodes \cap S
      BY OrderIs, ThoseIs
    <3>2. IsIn(n, s)
      BY <2>1 DEF ShownMenuNodes, Rows
    <3> HIDE DEF s, S
    <3>3. n \in S
      BY <3>1, <3>2 DEF IsIn, Seqs!ToSet
    <3> QED BY <2>1, <3>3 DEF S, RowNodes, Shown
  <2>2. CASE in.showAll = TRUE
    BY <2>2, AllDisplayed DEF Shown
  <2> QED BY <1>1, <1>3, <1>4, <2>1, <2>2, UpdateTreeIs
<1> QED BY <1>1, <1>5, <1>6, JumpToLands

\* Switching the mode: a row is displayed.
LEMMA RowIsShown ==
    ASSUME NEW u, Current(u), NEW n \in TreeRows(u)
    PROVE  n \in Shown(u)
<1>1. Sound(u) /\ Parented(u.kids) /\ n \in Below
  BY CurrentParented, IsRowIs
<1>2. PICK p \in TreeParent(u.kids, n) : TRUE
  BY <1>1, RowsOfIs DEF TreeRows
<1>3. CASE u.single
  <2>1. u.kids = BuildMenuTree(u, Detached)
    BY <1>3 DEF Current
  <2> QED BY <1>1, <1>2, <2>1, SingleIs
<1>4. CASE ~u.single
  <2>1. Fit(Shown(u), u.kids) /\ Shown(u) \in SUBSET Below
    BY <1>4, AllDisplayed DEF Current, Full, Shown
  <2> QED BY <1>2, <2>1, FitIsParented
<1> QED BY <1>3, <1>4

LEMMA TreeModeLands ==
    ASSUME NEW u, Current(u), HiddenMenusAreEmpty(u.env), NEW to \in DoTreeMode(u)
    PROVE  to = Failed(u) \/ Landed(to)
<1> DEFINE full == [u EXCEPT !.single = FALSE, !.menu = TopNode]
           menus == [u EXCEPT !.single = TRUE]
<1>1. Sound(u)
  BY DEF Current
<1>2. \/ to = Failed(u)
      \/ \E in, item : /\ item \in TreeRows(u) /\ to \in JumpTo(in, item)
                       /\ in \in UpdateTree(full) \/ in = menus
  BY DEF DoTreeMode, LocRefItems
<1>3. /\ IsWindow(full) /\ full.single = FALSE /\ full.menu = TopNode
      /\ full.showAll = u.showAll /\ full.focus = u.focus /\ full.env = u.env
      /\ IsWindow(menus) /\ menus.single = TRUE /\ menus.menu = u.menu
      /\ menus.showAll = u.showAll /\ menus.focus = u.focus /\ menus.env = u.env
  BY <1>1 DEF Sound, IsWindow
<1> HIDE DEF full, menus
<1>4. Sound(full)
  BY <1>1, <1>3, TopHasRow DEF Sound
<1>5. Sound(menus)
  BY <1>1, <1>3 DEF Sound
<1>6. ASSUME NEW in, NEW item, item \in TreeRows(u), to \in JumpTo(in, item),
             in \in UpdateTree(full) \/ in = menus
      PROVE  Landed(to)
  <2>1. item \in Shown(u)
    BY <1>6, RowIsShown
  <2>2. /\ Sound(in) /\ (~in.single => Current(in))
        /\ in.env = u.env /\ in.showAll = u.showAll
    BY <1>3, <1>4, <1>5, <1>6, UpdateTreeIs DEF Current
  <2>3. item \in Shown(in)
    BY <2>1, <2>2 DEF Shown
  <2> QED BY <1>6, <2>2, <2>3, JumpToLands
<1> QED BY <1>2, <1>6

\* What stays when a value changes, a row is opened or closed, and show-all is
\* switched, unless the callback raises.
SameView(u, to) ==
    to.failed = TRUE
    \/ (IsWindow(to) /\ to.menu = u.menu /\ to.single = u.single /\ to.focus = u.focus)

LEMMA SameViews ==
    ASSUME NEW u, NEW in, NEW to, in.failed = FALSE, SameView(u, in), SameView(in, to)
    PROVE  SameView(u, to)
BY DEF SameView

LEMMA UpdateTreeSame ==
    ASSUME NEW u, IsWindow(u), NEW to \in UpdateTree(u)
    PROVE  SameView(u, to)
<1> DEFINE k == Rebuilt(u, Detached)
<1>1. to = [u EXCEPT !.kids = k]
  BY DEF UpdateTree
<1> HIDE DEF k
<1> QED BY <1>1 DEF SameView, IsWindow

LEMMA FailedSame ==
    ASSUME NEW u, IsWindow(u), NEW w
    PROVE  SameView(w, Failed(u))
BY DEF SameView, IsWindow, Failed

LEMMA SetValSame ==
    ASSUME NEW u, IsWindow(u), NEW i, NEW v, NEW to \in SetVal(u, i, v)
    PROVE  SameView(u, to)
<1> DEFINE x  == WithValue(u.env, i, v)
           in == [u EXCEPT !.env = x, !.changed = TRUE]
<1>1. to = Failed(in) \/ to \in UpdateTree(in)
  BY DEF SetVal
<1> HIDE DEF x
<1>2. IsWindow(in) /\ in.menu = u.menu /\ in.single = u.single /\ in.focus = u.focus
  BY DEF IsWindow
<1> HIDE DEF in
<1>3. SameView(in, to)
  BY <1>1, <1>2, FailedSame, UpdateTreeSame
<1> QED BY <1>2, <1>3 DEF SameView

LEMMA ChangeNodeSame ==
    ASSUME NEW u, IsWindow(u), NEW n, NEW to \in ChangeNode(u, n)
    PROVE  SameView(u, to)
<1>1. to = Failed(u) \/ \E v : to \in SetVal(u, ItemOf[n], v)
  BY DEF ChangeNode
<1> QED BY <1>1, FailedSame, SetValSame

LEMMA TreeSetValSame ==
    ASSUME NEW u, IsWindow(u), NEW n, NEW v, NEW to \in TreeSetVal(u, n, v)
    PROVE  SameView(u, to)
<1>1. to \in SetVal(u, ItemOf[n], v)
  BY DEF TreeSetVal
<1> QED BY <1>1, SetValSame

LEMMA ShowAllSame ==
    ASSUME NEW u, IsWindow(u), NEW to \in DoShowAll(u)
    PROVE  SameView(u, to)
<1> DEFINE in   == [u EXCEPT !.showAll = ~@]
           kept == [u EXCEPT !.showAll = TRUE]
<1>1. to = kept \/ to = Failed(u) \/ to \in UpdateTree(in) \/ to = Failed(in)
  BY DEF DoShowAll
<1>2. /\ IsWindow(in) /\ in.menu = u.menu /\ in.single = u.single /\ in.focus = u.focus
      /\ SameView(u, kept)
  BY DEF IsWindow, SameView
<1> HIDE DEF in, kept
<1>3. to \in UpdateTree(in) => SameView(in, to)
  BY <1>2, UpdateTreeSame
<1>4. SameView(in, to) => SameView(u, to)
  BY <1>2 DEF SameView
<1> QED BY <1>1, <1>2, <1>3, <1>4, FailedSame

LEMMA OpenSame ==
    ASSUME NEW u, IsWindow(u), NEW n
    PROVE  /\ SameView(u, [u EXCEPT !.open = @ \ {n}])
           /\ SameView(u, [u EXCEPT !.open = @ \cup {n}])
           /\ \A to \in OpenItem(u, n) : SameView(u, to)
<1>1. ASSUME NEW o PROVE SameView(u, [u EXCEPT !.open = o])
  BY DEF SameView, IsWindow
<1>2. ASSUME NEW o, NEW k PROVE SameView(u, [u EXCEPT !.open = o, !.kids = k])
  BY DEF SameView, IsWindow
<1>3. ASSUME NEW to \in OpenItem(u, n) PROVE SameView(u, to)
  <2>1. PICK o, k : to = [u EXCEPT !.open = o, !.kids = k]
    BY <1>3 DEF OpenItem, IsWindow
  <2> QED BY <1>2, <2>1
<1>4. SameView(u, [u EXCEPT !.open = @ \ {n}])
  <2> DEFINE o == u.open \ {n}
  <2>1. [u EXCEPT !.open = @ \ {n}] = [u EXCEPT !.open = o]
    OBVIOUS
  <2> HIDE DEF o
  <2> QED BY <1>1, <2>1
<1>5. SameView(u, [u EXCEPT !.open = @ \cup {n}])
  <2> DEFINE o == u.open \cup {n}
  <2>1. [u EXCEPT !.open = @ \cup {n}] = [u EXCEPT !.open = o]
    OBVIOUS
  <2> HIDE DEF o
  <2> QED BY <1>1, <2>1
<1> QED BY <1>3, <1>4, <1>5

LEMMA TreeOpenSame ==
    ASSUME NEW u, IsWindow(u), NEW n, NEW to \in TreeOpen(u, n) \cup TreeToggleOpen(u, n)
    PROVE  SameView(u, to)
<1> DEFINE closed == [u EXCEPT !.open = @ \ {n}]
           opened == [u EXCEPT !.open = @ \cup {n}]
<1>1. SameView(u, closed) /\ SameView(u, opened)
  BY OpenSame
<1>2. to \in TreeOpen(u, n) => to = opened \/ to \in OpenItem(u, n)
  BY DEF TreeOpen
<1>3. to \in TreeToggleOpen(u, n) => to = closed \/ to \in OpenItem(u, n)
  BY DEF TreeToggleOpen
<1> HIDE DEF closed, opened
<1> QED BY <1>1, <1>2, <1>3, OpenSame

\* Only entering a menu changes more.
LEMMA EnterLands ==
    ASSUME NEW u, Current(u), NEW n, NEW to \in TreeEnter(u, n) \cup TreeToggle(u, n)
    PROVE  SameView(u, to) \/ Landed(to)
<1>1. IsWindow(u)
  BY DEF Current, Sound
<1>2. \/ to \in TreeToggleOpen(u, n)
      \/ SingleMenuModeMenu(u, n) /\ to \in EnterMenuAndSelectFirst(u, n)
      \/ to \in ChangeNode(u, n)
  BY DEF TreeEnter, TreeToggle
<1> QED BY <1>1, <1>2, TreeOpenSame, EnterFirstLands, ChangeNodeSame

\* What an outcome of a callback of the main window may do to the selection.
Lands(to) ==
    \/ to.failed = TRUE
    \/ Landed(to)
    \/ to.menu = menu /\ to.single = single /\ (InJump => to.focus = focus)

LEMMA DoLands ==
    ASSUME NEW outcomes, Do(outcomes), \A to \in outcomes : Lands(to)
    PROVE  SelectsARow
<1>1. PICK to \in outcomes : Becomes(to) /\ mode' = IF to.failed THEN "failed" ELSE mode
  BY DEF Do
<1>2. to.failed = TRUE => ~Used'
  BY <1>1 DEF Used
<1>3. Landed(to) => focus' \in RowsOf(kids', open')
  BY <1>1 DEF Landed, TreeRows, Becomes
<1>4. menu' = to.menu /\ single' = to.single /\ focus' = to.focus
  BY <1>1 DEF Becomes
<1> QED BY <1>1, <1>2, <1>3, <1>4 DEF Lands, SelectsARow

LEMMA ViewLands ==
    ASSUME NEW to, SameView(Window, to)
    PROVE  Lands(to)
BY WindowFields DEF SameView, Lands

LEMMA RowLands ==
    ASSUME NEW n \in Nodes, SelectRow(n) \/ Click(n) \/ OpenRow(n) \/ CloseRow(n)
    PROVE  SelectsARow
<1> DEFINE w == Window
           u == Select(w, n)
           closed == [u EXCEPT !.open = @ \ {n}]
           Same(to) == to.failed = TRUE \/ (to.menu = menu /\ to.single = single)
<1>1. \/ Do({u})
      \/ Do(IF ChangeNode(u, n) = {} THEN {u} ELSE ChangeNode(u, n))
      \/ Do(TreeOpen(u, n))
      \/ Do({closed})
  BY DEF SelectRow, Click, OpenRow, CloseRow
<1>2. IsWindow(u) /\ u.menu = menu /\ u.single = single
  <2>1. IsWindow(w) /\ w.menu = menu /\ w.single = single
    BY WindowFields
  <2> HIDE DEF w
  <2> QED BY <2>1, SelectIs
<1>3. ~InJump
  BY DEF SelectRow, Click, OpenRow, CloseRow, Idle, InJump
<1> HIDE DEF u
<1>4. \A to : SameView(u, to) => Same(to)
  BY <1>2 DEF SameView
<1>5. Same(u) /\ Same(closed)
  BY <1>2, <1>4, OpenSame
<1> HIDE DEF closed
<1>6. \A to \in ChangeNode(u, n) \cup TreeOpen(u, n) : Same(to)
  BY <1>2, <1>4, ChangeNodeSame, TreeOpenSame
<1>7. \A to : Same(to) => Lands(to)
  BY <1>3 DEF Lands
<1> HIDE DEF Same
<1>8. PICK outcomes : Do(outcomes) /\ \A to \in outcomes : Same(to)
  BY <1>1, <1>5, <1>6
<1> QED BY <1>7, <1>8, DoLands

\* The keys and buttons, in the main window and in the dialog.
LEMMA KeyLands ==
    ASSUME TreeInv, HiddenMenusAreEmpty(env), menu = TopNode \/ menu \in Displayed(env, showAll),
           \/ Enter \/ Toggle \/ Back \/ RightKey \/ ShowAll \/ TreeMode
           \/ \E v \in 0 .. 2 : SetTri(v)
           \/ \E n \in Searchable : DialogChange(n) \/ \E v \in 0 .. 2 : DialogSet(n, v)
    PROVE  SelectsARow
<1> DEFINE u == Window
           AllLand(outcomes) == \A to \in outcomes : Lands(to)
<1>1. Current(u) /\ IsWindow(u)
  BY DEF TreeInv, Enter, Toggle, Back, RightKey, ShowAll, TreeMode, SetTri, DialogChange, DialogSet,
         Idle, InJump, Used, Current, Sound
<1>2. /\ u.focus = focus /\ u.single = single /\ u.env = env /\ u.menu = menu
      /\ u.showAll = showAll
  BY WindowFields
<1>3. PICK outcomes :
          /\ Do(outcomes)
          /\ \/ outcomes = TreeEnter(u, focus)
             \/ outcomes = TreeToggle(u, focus)
             \/ SingleMenuModeMenu(u, focus) /\ outcomes = EnterMenuAndSelectFirst(u, focus)
             \/ \E n : outcomes = ChangeNode(u, n)
             \/ \E n, v : outcomes = TreeSetVal(u, n, v)
             \/ single /\ outcomes = LeaveMenu(u)
             \/ outcomes = DoShowAll(u)
             \/ outcomes = DoTreeMode(u)
  BY Zenon DEF Enter, Toggle, Back, RightKey, ShowAll, TreeMode, SetTri, DialogChange, DialogSet
<1>4. \A to : SameView(u, to) \/ Landed(to) \/ to = u \/ to = Failed(u) => Lands(to)
  <2>1. \A to : SameView(u, to) => Lands(to)
    BY ViewLands
  <2>2. \A to : Landed(to) => Lands(to)
    BY DEF Lands
  <2>3. SameView(u, u)
    BY <1>1 DEF SameView
  <2>4. SameView(u, Failed(u))
    BY <1>1, FailedSame
  <2> QED BY <2>1, <2>2, <2>3, <2>4
<1> HIDE DEF u
<1>5. AllLand(TreeEnter(u, focus)) /\ AllLand(TreeToggle(u, focus))
  BY <1>1, <1>4, EnterLands
<1>6. SingleMenuModeMenu(u, focus) => AllLand(EnterMenuAndSelectFirst(u, focus))
  BY <1>1, <1>4, EnterFirstLands
<1>7. \A n : AllLand(ChangeNode(u, n)) /\ \A v : AllLand(TreeSetVal(u, n, v))
  BY <1>1, <1>4, ChangeNodeSame, TreeSetValSame
<1>8. single => AllLand(LeaveMenu(u))
  BY <1>1, <1>2, <1>4, LeaveMenuLands DEF Shown
<1>9. AllLand(DoShowAll(u)) /\ AllLand(DoTreeMode(u))
  BY <1>1, <1>2, <1>4, ShowAllSame, TreeModeLands
<1> HIDE DEF AllLand
<1>10. AllLand(outcomes)
  BY <1>3, <1>5, <1>6, <1>7, <1>8, <1>9
<1> QED BY <1>3, <1>10, DoLands DEF AllLand

LEMMA OpenSelects ==
    ASSUME NEW f, Open(f)
    PROVE  SelectsARow
<1> DEFINE x == Replaced(env, files[f])
           w == [Window EXCEPT !.env = x, !.changed = NeedsSave(x, files[f])]
           empty == single /\ ShownMenuNodes(w, menu) = <<>>
           v == [w EXCEPT !.showAll = @ \/ empty]
<1>1. PICK to \in UpdateTree(v) : Becomes(to)
  BY DEF Open
<1>2. IsWindow(w) /\ w.menu = menu /\ w.single = single /\ w.failed = FALSE
  BY WindowFields DEF IsWindow
<1> HIDE DEF w, empty
<1>3. IsWindow(v) /\ v.menu = menu /\ v.single = single /\ v.failed = FALSE
  BY <1>2 DEF IsWindow
<1> HIDE DEF v
<1> DEFINE k == Rebuilt(v, Detached)
<1>4. to = [v EXCEPT !.kids = k]
  BY <1>1 DEF UpdateTree
<1> HIDE DEF k
<1>5. to.menu = menu /\ to.single = single
  BY <1>3, <1>4 DEF IsWindow
<1>6. menu' = menu /\ single' = single /\ ~InJump
  BY <1>1, <1>5 DEF Becomes, Open, Idle, InJump
<1> QED BY <1>6 DEF SelectsARow

LEMMA NextLands ==
    ASSUME TreeInv, HiddenMenusAreEmpty(env), menu = TopNode \/ menu \in Displayed(env, showAll),
           [GuiNext]_gvars
    PROVE  SelectsARow
<1>1. ASSUME UNCHANGED tree PROVE SelectsARow
  BY <1>1 DEF tree, SelectsARow
<1>2. ASSUME NEW n \in Nodes, SelectRow(n) \/ Click(n) \/ OpenRow(n) \/ CloseRow(n)
      PROVE  SelectsARow
  BY <1>2, RowLands
<1>3. CASE \/ Enter \/ Toggle \/ Back \/ RightKey \/ ShowAll \/ TreeMode
           \/ \E v \in 0 .. 2 : SetTri(v)
           \/ \E n \in Searchable : DialogChange(n) \/ \E v \in 0 .. 2 : DialogSet(n, v)
  BY <1>3, KeyLands
<1>4. CASE Start \/ Quit \/ QuitSave
  BY <1>4 DEF Start, Quit, QuitSave, Used, SelectsARow
<1>5. CASE \/ Save \/ \E f \in Names : SaveAs(f) \/ SaveFails(f)
           \/ OpenJump \/ CancelJump
           \/ UNCHANGED gvars
  BY <1>1, <1>5 DEF Save, SaveAs, SaveFails, OpenJump, CancelJump, Rest, gvars
<1>6. ASSUME NEW f \in Names, Open(f) PROVE SelectsARow
  BY <1>6, OpenSelects
<1>7. ASSUME NEW n \in Searchable, Jump(n) PROVE SelectsARow
  <2>1. PICK to \in JumpToSelected(Window, n) : Becomes(to)
    BY <1>7 DEF Jump
  <2>2. Current(Window) /\ n \in Below
    BY <1>7, SearchAssumption DEF TreeInv, Jump, InJump, Used
  <2>3. Landed(to)
    BY <2>1, <2>2, JumpToSelectedLands, WindowFields
  <2>4. focus' \in RowsOf(kids', open')
    BY <2>1, <2>3 DEF Landed, TreeRows, Becomes
  <2> QED BY <2>4 DEF SelectsARow
<1> QED
  BY <1>2, <1>3, <1>4, <1>5, <1>6, <1>7 DEF GuiNext

\* No menu is hidden.
MenusStay(x) == \A m \in Below : m \in IsMenuconfig => m \in Displayed(x, FALSE)

\* Where no menu is ever hidden, none is, and a hidden choice or comment shows
\* nothing: comments have no rows.
LEMMA StayingMenus ==
    ASSUME NEW x, MenusStay(x)
    PROVE  /\ HiddenMenusAreEmpty(x)
           /\ \A m \in IsMenuconfig :
                 m = TopNode \/ \A all \in BOOLEAN : m \in Displayed(x, all)
<1>1. ASSUME NEW m \in IsMenuconfig, m # TopNode, NEW all \in BOOLEAN
      PROVE  m \in Displayed(x, all)
  <2>1. m \in Below
    BY <1>1, NodesAssumption DEF Below
  <2>2. m \in Displayed(x, FALSE)
    BY <1>1, <2>1 DEF MenusStay
  <2> QED BY <1>1, <2>1, <2>2, AllDisplayed
<1>2. ASSUME NEW m \in Below, ItemOf[m] \notin Syms, ~Visible(x, m)
      PROVE  Rows(x, FALSE, m) = <<>>
  <2>1. m \notin Displayed(x, FALSE)
    BY <1>2, DisplayedIs
  <2>2. m \notin IsMenuconfig
    BY <1>2, <2>1 DEF MenusStay
  <2>3. RowNodes(x, FALSE, m) = {}
    <3>1. \A n \in Displayed(x, FALSE) : n \in Below
      BY AllDisplayed
    <3> QED BY <2>2, <3>1, ParentMenuIs DEF RowNodes
  <2>4. NodeOrder \in Seq(Nodes) /\ Seqs!ToSet(NodeOrder) \cap {} = {}
    BY OrderIs
  <2> QED BY <2>3, <2>4, ThoseNone DEF Rows
<1> QED BY <1>1, <1>2 DEF HiddenMenusAreEmpty

(***************************************************************************)
(* In every menu tree: whenever an enter, leave, jump or tree-mode         *)
(* callback changes the current menu, the mode of the tree or - from the   *)
(* jump-to dialog - the selection, the selection is on a row afterwards,   *)
(* provided that hidden menus show nothing when entered and that the       *)
(* current menu is displayed itself.  Without the first, _load_parents()   *)
(* leaves what is below a hidden menu detached; without the second,        *)
(* _leave_menu() selects an item that is not in the tree.                  *)
(***************************************************************************)
THEOREM SelectionIsOnARowThm == GuiSpec => SelectionIsOnARow
<1> DEFINE Step == HiddenMenusAreEmpty(env) /\ (menu = TopNode \/ menu \in Displayed(env, showAll))
                      => SelectsARow
<1>1. GuiInit => TreeInv
  BY DEF GuiInit, TreeInv, Used
<1>2. TreeInv /\ [GuiNext]_gvars => TreeInv'
  BY NextCurrent
<1>3. TreeInv /\ [GuiNext]_gvars => Step
  BY NextLands
<1> HIDE DEF Step
<1>4. GuiSpec => [][Step]_gvars
  BY <1>1, <1>2, <1>3, PTL DEF GuiSpec
<1> QED BY <1>4 DEF Step, SelectionIsOnARow

(***************************************************************************)
(* Where no menu is ever hidden, that is so at every step: entering,       *)
(* leaving, jumping (however many closed and unpopulated menus lead to the *)
(* node, visible or not) and switching the tree mode leave the selection   *)
(* on a row of the tree (_select(), _load_parents(), _enter_menu()).       *)
(***************************************************************************)
THEOREM SelectsARowThm ==
    ASSUME IsTree, NEW CONSTANT Order, Ordered(Order),
           \A z : IsConfiguration(z) => MenusStay(z)
    PROVE  GuiSpec => [][SelectsARow]_gvars
<1>1. GuiInit => TreeInv /\ ConfInv
  BY InitNotes DEF GuiInit, TreeInv, Used, SavedInv
<1>2. TreeInv /\ ConfInv /\ [GuiNext]_gvars => (TreeInv /\ ConfInv)'
  <2> SUFFICES ASSUME TreeInv, ConfInv, [GuiNext]_gvars PROVE TreeInv' /\ ConfInv'
    OBVIOUS
  <2>1. TreeInv'
    BY NextCurrent
  <2>2. KeepsSaved
    BY NextNotes
  <2> QED BY <2>1, <2>2 DEF KeepsSaved
<1>3. TreeInv /\ ConfInv /\ [GuiNext]_gvars => SelectsARow
  <2> SUFFICES ASSUME TreeInv, ConfInv, [GuiNext]_gvars PROVE SelectsARow
    OBVIOUS
  <2>1. CASE ~Used
    BY <2>1 DEF SelectsARow
  <2>2. CASE Used
    <3>1. MenusStay(env) /\ Sound(Window)
      BY <2>2 DEF TreeInv, ConfInv, Current
    <3>2. menu \in IsMenuconfig /\ showAll \in BOOLEAN
      BY <3>1, SoundMenu, WindowFields DEF Sound
    <3> QED BY <3>1, <3>2, StayingMenus, NextLands
  <2> QED BY <2>1, <2>2
<1> QED BY <1>1, <1>2, <1>3, PTL DEF GuiSpec

=============================================================================
