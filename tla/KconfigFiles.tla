---------------------------- MODULE KconfigFiles -----------------------------
(***************************************************************************)
(* .config files written by kconfiglib.py, and what the user values, a     *)
(* file or an assignment mean for a configuration: the attributes of every *)
(* item, calculated from the user values.  A file is the sequence of its   *)
(* assignments <<symbol, value>>; comments, menu headings and the text of  *)
(* a line are left out.                                                    *)
(***************************************************************************)
EXTENDS KconfigTree, KconfigValues

Seqs == INSTANCE SequencesExt

CONSTANTS
    SymOrder,           \* unique_defined_syms, in the order of definition
    Absent              \* contents of a file that does not exist

ASSUME OrderAssumption ==
    /\ SymOrder \in Seq(Syms) /\ \A s \in Syms : \E k \in DOMAIN SymOrder : SymOrder[k] = s
    /\ Len(SymOrder) = Cardinality(Syms)

\* The elements of seq that are in S.
Those(seq, S) ==
    LET kept[k \in 0 .. Len(seq)] ==
            IF k = 0 THEN <<>>
            ELSE IF seq[k] \in S THEN Append(kept[k - 1], seq[k]) ELSE kept[k - 1]
    IN  kept[Len(seq)]

\* The inputs of x and every attribute, calculated from them starting with
\* empty caches.
Config(x) ==
    LET f[q \in Cells] == IF q \in Inputs THEN x[q] ELSE AttrValue(q, f)
    IN  f

Val(x, s) == x[<<s, "val">>]
Mode(x, c) == ChoiceTriValue(x, c).v

NoValues == [q \in Cells |-> None]

----------------------------------------------------------------------------
(* Writing.  x is a configuration: everything in it is calculated.          *)

\* _write_to_conf, set while tri_value is calculated.
WriteToConf(x, s) ==
    \/ x[<<s, "vis">>] # 0
    \/ /\ ChoiceOf[s] = None
       /\ \/ FirstDefault(x, Defaults[s]).v # 0
          \/ Implied(x, s).v # 0
          \/ ExprValue(x, RevDep[s]).v # 0

\* The lines of some symbols.
ConfigStrings(x, syms) == [k \in DOMAIN syms |-> <<syms[k], Val(x, syms[k])>>]

\* Mutant: only visible symbols are written.
WriteConfigVisible(x) ==
    ConfigStrings(x, Those(SymOrder, {s \in Syms : x[<<s, "vis">>] # 0 /\ Val(x, s) # 0}))

WriteConfig(x) ==
    ConfigStrings(x, Those(SymOrder, {s \in Syms : WriteToConf(x, s)}))

\* What a write that breaks off leaves of a file: its first n lines, and at
\* most a part of the next, which assigns nothing that its symbol takes.
CutAfter(file, n) == Append(SubSeq(file, 1, n), <<file[n + 1][1], None>>)

Intact(f) == f # Absent /\ \A k \in DOMAIN f : f[k][2] # None

----------------------------------------------------------------------------
(* Reading.  Assignments to symbols that do not exist are only remembered,  *)
(* and values that do not fit the type of their symbol are ignored.         *)

LoadLines(st, file) ==
    LET after[k \in 0 .. Len(file)] ==
            IF k = 0 THEN st ELSE AssignLine(after[k - 1], file[k][1], file[k][2])
    IN  after[Len(file)]

\* Loading a file into a Kconfig instance that has no user values.
LoadFresh(file) == LoadLines([env |-> NoValues, set |-> {}], file).env

Known(f) == Those(f, {line \in Seqs!ToSet(f) : line[1] \in Syms})

Accepted(f) ==
    Those(f, {line \in Seqs!ToSet(f) : line[1] \in Syms /\ line[2] \in TypeValues(line[1])})

\* menuconfig() and load_config(): a new instance without or with a file.
Loaded(f) == Config(IF f = Absent THEN NoValues ELSE LoadFresh(Accepted(f)))

\* load_config() over the current user values.
Replaced(x, f) ==
    LET st == LoadLines([env |-> x, set |-> {}], Accepted(f))
    IN  Config(Unset(st.env, Items \ st.set))

NeedsSave(x, f) ==
    \/ Known(f) # f
    \/ \E s \in Syms : IF x[<<s, "user">>] = None THEN WriteToConf(x, s)
                       ELSE Val(x, s) # x[<<s, "user">>]

\* _load_config() of the interfaces.
UnsavedAtStart(x, f) == f = Absent \/ NeedsSave(x, f)

\* set_value() of a symbol or choice.
WithValue(x, i, v) ==
    LET st == [env |-> x, set |-> {}]
    IN  Config((IF i \in Choices THEN AssignMode(st, i, v) ELSE Assign(st, i, v)).env)

----------------------------------------------------------------------------
(* User values alone: attributes are never read, so nothing is cached.      *)

InputSpec == Init /\ [][UserStep]_vars

SameValues(x, y) == \A s \in Syms : Val(x, s) = Val(y, s)

(* The configurations x that a file can bring back: *)

\* Every choice has a symbol that is not n, has the mode that it would have
\* without a user value, or has a mode that only its symbols depend on.
ModeIsInferred(x) ==
    \A c \in Choices :
        \/ \E s \in Members(c) : Val(x, s) # 0
        \/ Mode([x EXCEPT ![<<c, "user">>] = None], c) = Mode(x, c)
        \/ Dependents[c] \subseteq Members(c)

\* No default makes a symbol y that is visible as m, because an m that is
\* read as a user value does not; a select or an imply of y does.
DefaultsReturn(x) ==
    \A s \in Syms :
        /\ ChoiceOf[s] = None /\ x[<<s, "user">>] = None /\ Vis(x, s) = 1
        /\ ExprValue(x, RevDep[s]).v # 2 /\ ExprValue(x, WeakRevDep[s]).v # 2
        => FirstDefault(x, Defaults[s]).v # 2

\* The trees in which Symbol.assignable can be relied on: no symbol is both
\* selected and implied, and no symbol of a choice is either.
SelectedOrImplied ==
    \A s \in Syms : IF ChoiceOf[s] = None THEN RevDep[s] = N \/ WeakRevDep[s] = N
                    ELSE RevDep[s] = N /\ WeakRevDep[s] = N

SetItem(i, v) ==
    IF i \in Choices THEN AssignMode(State, i, v) ELSE Assign(State, i, v)

\* What attribute p was found to be, and to read.
Registered(p, now) ==
    /\ \A q \in now.r : q[1] \in {p[1], Modules} \/ p[1] \in Dependents[q[1]]
    /\ p[2] # "vis" => <<p[1], "vis">> \in now.r
    /\ p[2] = "vis" /\ p[1] \in Syms \ HasPrompt => now.v = 0
    /\ \A s \in Syms : <<s, "user">> \in now.r =>
          p[1] = s /\ env[<<s, "vis">>] \notin {None, 0}
    /\ Calculate([q \in Cells |-> IF q \in now.r THEN env[q] ELSE None], p) = now

Exclusive(mode, members, x) ==
    /\ mode = 2 =>
          /\ \A s \in members : Val(x, s) # 1
          /\ Cardinality({s \in members : Val(x, s) = 2}) =
                IF \A s \in members : x[<<s, "vis">>] = 0 THEN 0 ELSE 1
    /\ mode = 1 => \A s \in members : Val(x, s) # 2
    /\ mode = 0 => \A s \in members : Val(x, s) = 0

----------------------------------------------------------------------------
(* Properties.                                                              *)

(***************************************************************************)
(* _rec_invalidate drops enough: after any history of reads, assignments,  *)
(* resets and loads, every cached attribute is what it would be if all the *)
(* caches had been empty.                                                  *)
(***************************************************************************)
CacheCoherent ==
    \A x \in {Config(env)} : \A p \in Attributes : env[p] # None => env[p] = x[p]

(***************************************************************************)
(* _build_dep and _add_choice_deps register every item an attribute reads  *)
(* as one it depends on, MODULES excepted; the visibility of an item is    *)
(* calculated with any other of its attributes; the user value of a symbol *)
(* without a prompt is not looked at; and a cell that was not read does    *)
(* not matter. This is what makes an Evaluator in KconfigTreeProofs, here  *)
(* for the attributes of a menu tree.                                      *)
(***************************************************************************)
ReadsAreRegistered ==
    /\ \A p \in Attributes : \A now \in {Calculate(env, p)} : Registered(p, now)
    /\ \A s \in Syms : ChoiceOf[s] # None => s \in Dependents[ChoiceOf[s]]

(***************************************************************************)
(* write_config() followed by load_config() in a new instance gives every  *)
(* symbol the value it had, although default, selected and implied values  *)
(* come back as user values, the mode of a choice is not in the file, and  *)
(* the reader has to infer it.                                             *)
(***************************************************************************)
RoundTrip ==
    \A x \in {Config(env)} : \A y \in {LoadFresh(WriteConfig(x))} :
        SameValues(x, Config(y))

(***************************************************************************)
(* assignable: "values that can currently be assigned (that would be       *)
(* respected)".  Setting a symbol, or the mode of a choice, to one of its  *)
(* assignable values makes that its value, selects and implies included.   *)
(***************************************************************************)
AssignableIsRespected ==
    \A x \in {Config(env)} : \A i \in Items : \A v \in TreeValue(<<i, "asg">>, x) :
    \A y \in {Config(SetItem(i, v).env)} : ItemValue(y, i).v = v

(***************************************************************************)
(* A choice in y mode has exactly one symbol at y as soon as one of its    *)
(* symbols is visible, and none at m; in m mode none is y; in n mode all   *)
(* are n.  Choice.selection, which decides it, and the visibilities that   *)
(* gate it are cached separately.                                          *)
(***************************************************************************)
ChoiceIsExclusive ==
    \A x \in {Config(env)} : \A c \in Choices :
        Exclusive(Mode(x, c), {s \in Syms : ChoiceOf[s] = c}, x)
=============================================================================
