---------------------------- MODULE KconfigValues ----------------------------
(***************************************************************************)
(* User values, cached attributes and their invalidation in kconfiglib.py: *)
(* Symbol and Choice set_value() and unset_value(), Kconfig.unset_values() *)
(* and Kconfig.load_config().                                              *)
(*                                                                         *)
(* What an attribute is worth is left open: AttrValue(p, x) and            *)
(* AttrReads(p, x) are the value of attribute p in environment x and the   *)
(* cells read to calculate it, KconfigTree gives them for a menu tree.     *)
(***************************************************************************)
EXTENDS KconfigItems, InvalidationReach

CONSTANTS
    AttrValue(_, _), AttrReads(_, _),
    Dependents,         \* Dependents[i]: the set i._dependents
    HasPrompt,          \* symbols with a prompt on some menu node
    Given,              \* bound: values given to i by a client or file
    LoadKinds           \* bound: "merge", "replace" or both

ASSUME ValuesAssumption ==
    /\ Dependents \in [Items -> SUBSET Items]
    /\ HasPrompt \subseteq Syms
    /\ Given \in [Items -> SUBSET (0 .. 2)]
    /\ LoadKinds \subseteq {"merge", "replace"}

VARIABLES
    env,        \* the value of every cell
    wasSet,     \* items with _was_set, kept while a file is being loaded
    loading     \* "no", "merge" or "replace": load_config is running

vars == <<env, wasSet, loading>>

Init ==
    /\ env = [q \in Cells |-> None]
    /\ wasSet = {}
    /\ loading = "no"

----------------------------------------------------------------------------
(* Invalidation.                                                            *)

HasCache(x, i) == x[<<i, "vis">>] # None

\* Where _rec_invalidate gets to; RecInvalidate shows it call by call.
Reached(x, roots) == Reach(Dependents, {i \in Items : HasCache(x, i)}, roots)

\* Mutant: MODULES is an item like any other.
InvalidatedOrdinary(x, roots) == Reached(x, roots)

\* Invalidating MODULES invalidates everything.
Invalidated(x, roots) ==
    IF Modules \in Reached(x, roots) THEN Items ELSE Reached(x, roots)

RecInvalidate(x, roots) ==
    LET gone == Invalidated(x, roots)
    IN  [q \in Cells |-> IF q \in Attributes /\ q[1] \in gone THEN None ELSE x[q]]

----------------------------------------------------------------------------
(* Setters, as functions of a state st: its cells st.env and _was_set flags *)
(* st.set.  A value that does not fit the type is ignored.                  *)

Prompted(S) == S \cap (HasPrompt \cup Choices)

Assign(st, s, v) ==
    LET user == <<s, "user">>
        c    == ChoiceOf[s]
    IN  IF v = st.env[user] /\ c = None
        THEN [st EXCEPT !.set = @ \cup {s}]
        ELSE IF v \notin TypeValues(s) THEN st
        ELSE IF c # None /\ v = 2
        THEN [env |-> RecInvalidate(
                         [st.env EXCEPT ![user] = v, ![<<c, "usel">>] = s], {c}),
              set |-> st.set \cup {s, c}]
        ELSE [env |-> RecInvalidate([st.env EXCEPT ![user] = v], Prompted({s})),
              set |-> st.set \cup {s}]

AssignMode(st, c, v) ==
    LET user == <<c, "user">>
    IN  IF v = st.env[user] THEN [st EXCEPT !.set = @ \cup {c}]
        ELSE IF v \notin TypeValues(c) THEN st
        ELSE [env |-> RecInvalidate([st.env EXCEPT ![user] = v], {c}),
              set |-> st.set \cup {c}]

\* unset_value() on each of a set of items; the ones without a user value or
\* user selection are left alone.  Invalidating one item after the other
\* reaches what invalidating from all of them reaches.
HasUser(x, i) ==
    \/ x[<<i, "user">>] # None
    \/ i \in Choices /\ x[<<i, "usel">>] # None

Unset(x, S) ==
    LET T == {i \in S : HasUser(x, i)}
    IN  RecInvalidate([q \in Cells |-> IF q \in Inputs /\ q[1] \in T
                                      THEN None ELSE x[q]],
                      Prompted(T))

\* A line of a .config file: the mode of a choice follows from the values of
\* its symbols.
AssignLine(st, s, v) ==
    Assign(IF ChoiceOf[s] # None /\ v # 0 THEN AssignMode(st, ChoiceOf[s], v) ELSE st,
           s, v)

----------------------------------------------------------------------------
(* Actions.  _was_set is read only at the end of load_config(replace=True), *)
(* which clears it first: outside of it wasSet is kept empty.               *)

State == [env |-> env, set |-> wasSet]

Become(st) ==
    /\ env' = st.env
    /\ wasSet' = IF loading = "replace" THEN st.set ELSE {}
    /\ UNCHANGED loading

\* Reading an attribute calculates it, after the attributes it reads.
Read(p) ==
    /\ loading = "no"
    /\ env[p] = None
    /\ \A q \in AttrReads(p, env) \cap Attributes : env[q] # None
    /\ env' = [env EXCEPT ![p] = AttrValue(p, env)]
    /\ UNCHANGED <<wasSet, loading>>

SetValue(s, v)     == loading = "no" /\ Become(Assign(State, s, v))
SetChoice(c, v)    == loading = "no" /\ Become(AssignMode(State, c, v))
UnsetValue(i)      == loading = "no" /\ Become([env |-> Unset(env, {i}), set |-> {}])
UnsetValues        == loading = "no" /\ Become([env |-> Unset(env, Items), set |-> {}])

LoadConfig(kind) ==
    /\ loading = "no"
    /\ loading' = kind
    /\ UNCHANGED <<env, wasSet>>

LoadLine(s, v) ==
    /\ loading # "no"
    /\ v \in TypeValues(s)
    /\ Become(AssignLine(State, s, v))

\* The end of the file: with replace, what the file did not set is unset.
LoadEnds ==
    /\ loading # "no"
    /\ env' = IF loading = "replace" THEN Unset(env, Items \ wasSet) ELSE env
    /\ wasSet' = {}
    /\ loading' = "no"

\* The file cannot be decoded: the exception skips the unsetting.
LoadFails ==
    /\ loading # "no"
    /\ loading' = "no"
    /\ wasSet' = {}
    /\ UNCHANGED env

UserStep ==
    \/ \E s \in Syms : \E v \in Given[s] : SetValue(s, v)
    \/ \E c \in Choices : \E v \in Given[c] : SetChoice(c, v)
    \/ \E i \in Items : UnsetValue(i)
    \/ UnsetValues
    \/ \E kind \in LoadKinds : LoadConfig(kind)
    \/ \E s \in Syms : \E v \in Given[s] : LoadLine(s, v)
    \/ LoadEnds
    \/ LoadFails

Next == UserStep \/ \E p \in Attributes : Read(p)

Spec == Init /\ [][Next]_vars

----------------------------------------------------------------------------
(* Properties.                                                              *)

(***************************************************************************)
(* Every cell has a value of its kind, and _was_set flags are only up      *)
(* while a configuration is being replaced.                                *)
(***************************************************************************)
TypeOK ==
    /\ DOMAIN env = Cells
    /\ \A q \in Cells : env[q] \in CellValues(q) \cup {None}
    /\ wasSet \subseteq Items
    /\ loading \in {"no", "merge", "replace"}
    /\ wasSet # {} => loading = "replace"

(***************************************************************************)
(* "_cached_vis doubles as a flag that tells us whether 'item' has cached  *)
(* values": no attribute of an item is cached without its visibility.      *)
(***************************************************************************)
FlagIsSound == \A p \in Attributes : env[p] # None => HasCache(env, p[1])

(***************************************************************************)
(* The cut-off of the invalidation is safe: a cached attribute is what     *)
(* calculating it again would give, and everything it was calculated from  *)
(* is still cached, so nothing below it can go stale unnoticed.            *)
(***************************************************************************)
LocallyCoherent ==
    \A p \in Attributes : env[p] # None =>
        /\ env[p] = AttrValue(p, env)
        /\ \A q \in AttrReads(p, env) \cap Attributes : env[q] # None
=============================================================================
