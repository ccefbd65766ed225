------------------------- MODULE KconfigTreeProofs --------------------------
(***************************************************************************)
(* Proofs about the values, caches and files of kconfiglib.py.  First, for *)
(* all symbols and choices and every way of calculating attributes that is *)
(* an Evaluator: the caches never hold anything out of date.  Then, for    *)
(* every menu tree: KconfigTree's calculations are an Evaluator, a choice  *)
(* is exclusive, assignable values are respected, and a file that is       *)
(* written gives a new instance the values it was written with.  At the    *)
(* end, what the interfaces rely on: files and the nodes of the menu tree. *)
(***************************************************************************)
EXTENDS MenuNodes, WellFoundedInduction, SequenceTheorems, FiniteSetTheorems, TLAPS

----------------------------------------------------------------------------
(* What is asked of AttrValue, AttrReads and Dependents.                    *)

IsEnv(x) ==
    /\ x = [q \in Cells |-> x[q]]
    /\ \A q \in Cells : x[q] \in CellValues(q) \cup {None}

\* A calculation gives an attribute a value of its kind.
ValuesFit ==
    \A p \in Attributes : \A x : IsEnv(x) => AttrValue(p, x) \in CellValues(p)

\* The value and the course of a calculation depend on what it reads only.
ReadsDecide ==
    \A p \in Attributes : \A x, y :
        IsEnv(x) /\ (\A q \in AttrReads(p, x) : x[q] = y[q]) =>
            /\ AttrValue(p, y) = AttrValue(p, x)
            /\ AttrReads(p, y) = AttrReads(p, x)

\* _build_dep and _add_choice_deps: an item is a dependent of every other
\* item its attributes read, except for MODULES.
ReadsAreDependencies ==
    \A p \in Attributes : \A x : IsEnv(x) => \A q \in AttrReads(p, x) :
        /\ q \in Cells
        /\ q[1] = p[1] \/ q[1] = Modules \/ p[1] \in Dependents[q[1]]

\* The symbols of a choice are its dependents.
SymsDependOnChoice ==
    \A s \in Syms : ChoiceOf[s] # None => s \in Dependents[ChoiceOf[s]]

\* The visibility of an item is calculated with any other attribute.
VisibilityFirst ==
    \A p \in Attributes : \A x :
        IsEnv(x) /\ p[2] # "vis" => <<p[1], "vis">> \in AttrReads(p, x)

\* A symbol without a prompt is invisible.
NoPromptNoVisibility ==
    \A s \in Syms \ HasPrompt : \A x : IsEnv(x) => AttrValue(<<s, "vis">>, x) = 0

\* The user value of a symbol is read by its own attributes, if visible.
UserValueNeedsVisibility ==
    \A p \in Attributes, s \in Syms : \A x :
        IsEnv(x) /\ <<s, "user">> \in AttrReads(p, x) =>
            p[1] = s /\ x[<<s, "vis">>] \notin {None, 0}

Evaluator ==
    /\ ValuesFit
    /\ ReadsDecide
    /\ ReadsAreDependencies
    /\ SymsDependOnChoice
    /\ VisibilityFirst
    /\ NoPromptNoVisibility
    /\ UserValueNeedsVisibility

----------------------------------------------------------------------------
(* The inductive invariant, for an environment x.                           *)

Flagged(x) == \A p \in Attributes : x[p] # None => HasCache(x, p[1])

Coherent(x) ==
    \A p \in Attributes : x[p] # None =>
        /\ x[p] = AttrValue(p, x)
        /\ \A q \in AttrReads(p, x) \cap Attributes : x[q] # None

Hidden(x) == \A s \in Syms \ HasPrompt : x[<<s, "vis">>] \in {None, 0}

CacheInv(x) == IsEnv(x) /\ Flagged(x) /\ Coherent(x) /\ Hidden(x)

----------------------------------------------------------------------------
(* Facts about cells and about invalidation.                                *)

\* A cell is a pair of an item and a name, and names tell cells apart.
LEMMA CellForms ==
    /\ \A q \in Cells : q[1] \in Items /\ q = <<q[1], q[2]>>
    /\ \A i \in Items : <<i, "vis">> \in Attributes /\ <<i, "user">> \in Inputs
    /\ \A c \in Choices : <<c, "usel">> \in Inputs
    /\ Inputs \cap Attributes = {}
    /\ Attributes \subseteq Cells /\ Inputs \subseteq Cells
BY ItemsAssumption DEF Cells, Inputs, Attributes, Items

\* The kinds of the cells.  TypeValues and the rest leave None to the cells
\* that are not set or not calculated.
LEMMA CellKinds ==
    /\ \A i \in Items : /\ CellValues(<<i, "user">>) = TypeValues(i)
                         /\ CellValues(<<i, "vis">>) = 0 .. 2
    /\ \A s \in Syms : CellValues(<<s, "val">>) = 0 .. 2
    /\ \A c \in Choices : /\ CellValues(<<c, "usel">>) = Members(c)
                           /\ CellValues(<<c, "sel">>) = Members(c) \cup {NoSelection}
    /\ \A i \in Items : CellValues(<<i, "asg">>) = SUBSET (0 .. 2)
    /\ \A q \in Cells : None \notin CellValues(q)
<1>1. /\ \A i \in Items : /\ CellValues(<<i, "user">>) = TypeValues(i)
                           /\ CellValues(<<i, "vis">>) = 0 .. 2
      /\ \A s \in Syms : CellValues(<<s, "val">>) = 0 .. 2
      /\ \A c \in Choices : /\ CellValues(<<c, "usel">>) = Members(c)
                             /\ CellValues(<<c, "sel">>) = Members(c) \cup {NoSelection}
      /\ \A i \in Items : CellValues(<<i, "asg">>) = SUBSET (0 .. 2)
  BY DEF CellValues
<1>2. ASSUME NEW q \in Cells PROVE None \notin CellValues(q)
  <2>1. None \notin 0 .. 2 /\ None \notin Syms /\ None \notin SUBSET (0 .. 2)
    BY ItemsAssumption DEF Items
  <2>2. TypeValues(q[1]) \subseteq 0 .. 2
    BY DEF TypeValues
  <2>3. Members(q[1]) \subseteq Syms /\ NoSelection \in 0 .. 2
    BY DEF Members, NoSelection
  <2>4. q[2] \in {"user", "usel", "vis", "val", "sel", "asg"}
    BY DEF Cells, Inputs, Attributes
  <2> QED BY <2>1, <2>2, <2>3, <2>4 DEF CellValues
<1> QED BY <1>1, <1>2

\* A cell changed to what it may hold.
LEMMA SetIsEnv ==
    ASSUME NEW x, IsEnv(x), NEW q \in Cells, NEW v \in CellValues(q) \cup {None}
    PROVE  /\ IsEnv([x EXCEPT ![q] = v])
           /\ [x EXCEPT ![q] = v][q] = v
           /\ \A r \in Cells : r # q => [x EXCEPT ![q] = v][r] = x[r]
BY DEF IsEnv

\* Invalidation only drops what is cached.
LEMMA InvalidatedIsEnv ==
    ASSUME NEW y, IsEnv(y), NEW roots
    PROVE  IsEnv(RecInvalidate(y, roots))
BY DEF IsEnv, RecInvalidate

\* _rec_invalidate reaches the roots, and goes on to every dependent that has
\* a cached visibility.
LEMMA ReachedIsClosed ==
    ASSUME NEW x, NEW roots \in SUBSET Items
    PROVE  /\ roots \subseteq Reached(x, roots)
           /\ Reached(x, roots) \subseteq Items
           /\ \A i \in Reached(x, roots) : \A d \in Dependents[i] :
                 HasCache(x, d) => d \in Reached(x, roots)
<1> DEFINE flagged == {i \in Items : HasCache(x, i)}
           live == roots \cup flagged
           closed == {S \in SUBSET live : roots \subseteq S /\ Spreads(Dependents, flagged, S)}
<1>1. Reached(x, roots) = {i \in live : \A S \in closed : i \in S}
  BY DEF Reached, Reach
<1>2. roots \subseteq Reached(x, roots) /\ Reached(x, roots) \subseteq Items
  BY <1>1
<1>3. ASSUME NEW i \in Reached(x, roots), NEW d \in Dependents[i], HasCache(x, d)
      PROVE  d \in Reached(x, roots)
  <2>1. d \in flagged
    BY <1>2, <1>3, ValuesAssumption
  <2>2. ASSUME NEW S \in closed PROVE d \in S
    <3>1. i \in S
      BY <1>1
    <3>2. Spreads(Dependents, flagged, S)
      OBVIOUS
    <3> QED BY <2>1, <3>1, <3>2, <1>3 DEF Spreads
  <2> QED BY <1>1, <2>1, <2>2
<1> QED BY <1>2, <1>3

\* The same for what is invalidated, MODULES included.
LEMMA InvalidatedIsClosed ==
    ASSUME NEW x, NEW roots \in SUBSET Items
    PROVE  /\ roots \subseteq Invalidated(x, roots)
           /\ Invalidated(x, roots) \subseteq Items
           /\ Modules \in Invalidated(x, roots) => Invalidated(x, roots) = Items
           /\ \A i \in Invalidated(x, roots) : \A d \in Dependents[i] :
                 HasCache(x, d) => d \in Invalidated(x, roots)
<1>1. CASE Modules \in Reached(x, roots)
  <2>1. Invalidated(x, roots) = Items
    BY <1>1 DEF Invalidated
  <2>2. \A i \in Items : \A d \in Dependents[i] : d \in Items
    BY ValuesAssumption
  <2> QED BY <2>1, <2>2
<1>2. CASE Modules \notin Reached(x, roots)
  <2>1. Invalidated(x, roots) = Reached(x, roots)
    BY <1>2 DEF Invalidated
  <2> QED BY <2>1, <1>2, ReachedIsClosed
<1> QED BY <1>1, <1>2

\* A change of inputs y of an environment x is safe to follow with an
\* invalidation if every input cell it changed belongs to a root, is the user
\* value of a symbol without a prompt, or that of a dependent of a root.
InputsChange(x, y, roots) ==
    /\ IsEnv(y)
    /\ \A p \in Attributes : y[p] = x[p]
    /\ \A q \in Inputs : y[q] # x[q] =>
          \/ q[1] \in roots
          \/ /\ q[1] \in Syms /\ q[2] = "user"
             /\ q[1] \in HasPrompt => \E c \in roots : q[1] \in Dependents[c]

\* No cached attribute that survives the invalidation has read a cell that was
\* changed or dropped.
LEMMA SurvivorsAreUntouched ==
    ASSUME Evaluator, NEW x, NEW y, NEW roots \in SUBSET Items,
           CacheInv(x), InputsChange(x, y, roots),
           NEW p \in Attributes, x[p] # None, p[1] \notin Invalidated(y, roots),
           NEW q \in AttrReads(p, x)
    PROVE  /\ q \in Cells
           /\ RecInvalidate(y, roots)[q] = x[q]
<1> DEFINE gone == Invalidated(y, roots)
<1>1. /\ p[1] \in Items /\ p \in Cells
      /\ HasCache(x, p[1]) /\ HasCache(y, p[1])
  BY CellForms DEF CacheInv, Flagged, HasCache, InputsChange
<1>2. /\ q \in Cells /\ q[1] \in Items
      /\ q[1] = p[1] \/ q[1] = Modules \/ p[1] \in Dependents[q[1]]
  BY CellForms DEF Evaluator, ReadsAreDependencies, CacheInv
<1>3. /\ roots \subseteq gone /\ gone \subseteq Items
      /\ Modules \in gone => gone = Items
      /\ \A i \in gone : \A d \in Dependents[i] : HasCache(y, d) => d \in gone
  BY InvalidatedIsClosed
<1>4. q[1] \notin gone
  BY <1>1, <1>2, <1>3
<1>5. RecInvalidate(y, roots)[q] = y[q]
  BY <1>2, <1>4 DEF RecInvalidate
<1>6. y[q] = x[q]
  <2>1. CASE q \in Attributes
    BY <2>1 DEF InputsChange
  <2>2. CASE q \in Inputs /\ y[q] # x[q]
    <3>1. q[1] \notin roots
      BY <1>3, <1>4
    <3>2. /\ q[1] \in Syms /\ q[2] = "user"
          /\ q[1] \in HasPrompt => \E c \in roots : q[1] \in Dependents[c]
      BY <2>2, <3>1 DEF InputsChange
    <3>3. q = <<q[1], "user">>
      BY <3>2, <1>2, CellForms
    <3>4. p[1] = q[1] /\ x[<<q[1], "vis">>] \notin {None, 0}
      BY <3>2, <3>3 DEF Evaluator, UserValueNeedsVisibility, CacheInv
    <3>5. q[1] \in HasPrompt
      BY <3>2, <3>4 DEF CacheInv, Hidden
    <3>6. PICK c \in roots : q[1] \in Dependents[c]
      BY <3>2, <3>5
    <3> QED BY <3>4, <3>6, <1>1, <1>3, <1>4
  <2> QED BY <2>1, <2>2, <1>2 DEF Cells
<1> QED BY <1>2, <1>5, <1>6

\* A change of inputs, followed by the invalidation from its roots, preserves
\* the invariant.
LEMMA InvalidationIsSafe ==
    ASSUME Evaluator, NEW x, NEW y, NEW roots \in SUBSET Items,
           CacheInv(x), InputsChange(x, y, roots)
    PROVE  CacheInv(RecInvalidate(y, roots))
<1> DEFINE gone == Invalidated(y, roots)
           z == RecInvalidate(y, roots)
<1>1. IsEnv(z)
  BY InvalidatedIsEnv DEF InputsChange
<1>2. \A p \in Attributes : z[p] = IF p[1] \in gone THEN None ELSE x[p]
  BY CellForms DEF RecInvalidate, InputsChange
<1>3. Flagged(z)
  <2> SUFFICES ASSUME NEW p \in Attributes, z[p] # None
               PROVE  HasCache(z, p[1])
    BY DEF Flagged
  <2>1. p[1] \notin gone /\ x[p] # None /\ p[1] \in Items
    BY <1>2, CellForms
  <2>2. <<p[1], "vis">> \in Attributes /\ x[<<p[1], "vis">>] # None
    BY <2>1, CellForms DEF CacheInv, Flagged, HasCache
  <2>3. z[<<p[1], "vis">>] = x[<<p[1], "vis">>]
    BY <1>2, <2>1, <2>2
  <2> QED BY <2>2, <2>3 DEF HasCache
<1>4. Coherent(z)
  <2> SUFFICES ASSUME NEW p \in Attributes, z[p] # None
               PROVE  /\ z[p] = AttrValue(p, z)
                      /\ \A q \in AttrReads(p, z) \cap Attributes : z[q] # None
    BY DEF Coherent
  <2>1. p[1] \notin gone /\ x[p] # None /\ z[p] = x[p]
    BY <1>2
  <2>2. \A q \in AttrReads(p, x) : z[q] = x[q]
    BY <2>1, SurvivorsAreUntouched
  <2>3. AttrValue(p, z) = AttrValue(p, x) /\ AttrReads(p, z) = AttrReads(p, x)
    BY <2>2, <1>1 DEF Evaluator, ReadsDecide, CacheInv
  <2>4. /\ x[p] = AttrValue(p, x)
        /\ \A q \in AttrReads(p, x) \cap Attributes : x[q] # None
    BY <2>1 DEF CacheInv, Coherent
  <2> QED BY <2>1, <2>2, <2>3, <2>4
<1>5. Hidden(z)
  BY <1>2, CellForms DEF Hidden, CacheInv, Items
<1> QED BY <1>1, <1>3, <1>4, <1>5 DEF CacheInv

----------------------------------------------------------------------------
(* The setters preserve the invariant.                                      *)

IsState(st) == st = [env |-> st.env, set |-> st.set] /\ st.set \subseteq Items

\* Symbol.set_value().
LEMMA AssignIsSafe ==
    ASSUME Evaluator, NEW st, IsState(st), CacheInv(st.env), NEW s \in Syms, NEW v
    PROVE  IsState(Assign(st, s, v)) /\ CacheInv(Assign(st, s, v).env)
<1> DEFINE user == <<s, "user">>
           c == ChoiceOf[s]
           e == st.env
<1>0. /\ s \in Items /\ user \in Inputs /\ user \in Cells
      /\ c # None => c \in Choices /\ c \in Items
                      /\ <<c, "usel">> \in Inputs /\ <<c, "usel">> \in Cells
  BY CellForms, ItemsAssumption DEF Items
<1>1. CASE v = e[user] /\ c = None
  <2>1. Assign(st, s, v) = [st EXCEPT !.set = @ \cup {s}]
    BY <1>1 DEF Assign
  <2> QED BY <2>1, <1>0 DEF IsState
<1>2. CASE ~(v = e[user] /\ c = None) /\ v \notin TypeValues(s)
  <2>1. Assign(st, s, v) = st
    BY <1>2 DEF Assign
  <2> QED BY <2>1
<1>3. CASE ~(v = e[user] /\ c = None) /\ v \in TypeValues(s) /\ c # None /\ v = 2
  <2> DEFINE y == [e EXCEPT ![user] = v, ![<<c, "usel">>] = s]
  <2>1. Assign(st, s, v) = [env |-> RecInvalidate(y, {c}), set |-> st.set \cup {s, c}]
    BY <1>3 DEF Assign
  <2>2. /\ v \in CellValues(user) /\ user # <<c, "usel">>
        /\ s \in CellValues(<<c, "usel">>)
    BY <1>0, <1>3, CellKinds DEF Members
  <2>3. /\ IsEnv(y)
        /\ \A q \in Cells : q # user /\ q # <<c, "usel">> => y[q] = e[q]
    <3>1. IsEnv(e)
      BY DEF CacheInv
    <3>2. /\ y = [q \in Cells |-> y[q]] /\ y[user] = v /\ y[<<c, "usel">>] = s
          /\ \A q \in Cells : q # user /\ q # <<c, "usel">> => y[q] = e[q]
      BY <3>1, <2>2, <1>0, <1>3 DEF IsEnv
    <3> QED BY <3>1, <3>2, <2>2 DEF IsEnv
  <2>4. InputsChange(e, y, {c})
    <3>1. \A p \in Attributes : y[p] = e[p]
      BY <2>3, <1>0, <1>3, CellForms
    <3>2. ASSUME NEW q \in Inputs, y[q] # e[q]
          PROVE  \/ q[1] \in {c}
                 \/ /\ q[1] \in Syms /\ q[2] = "user"
                    /\ q[1] \in HasPrompt => \E d \in {c} : q[1] \in Dependents[d]
      <4>1. q = user \/ q = <<c, "usel">>
        BY <2>3, <3>2, CellForms
      <4>2. CASE q = user
        BY <4>2, <1>3 DEF Evaluator, SymsDependOnChoice
      <4> QED BY <4>1, <4>2
    <3> QED BY <2>3, <3>1, <3>2 DEF InputsChange
  <2>5. CacheInv(RecInvalidate(y, {c}))
    BY <2>4, <1>0, <1>3, InvalidationIsSafe
  <2> QED BY <2>1, <2>5, <1>0, <1>3 DEF IsState
<1>4. CASE ~(v = e[user] /\ c = None) /\ v \in TypeValues(s) /\ ~(c # None /\ v = 2)
  <2> DEFINE y == [e EXCEPT ![user] = v]
             roots == Prompted({s})
  <2>1. Assign(st, s, v) = [env |-> RecInvalidate(y, roots), set |-> st.set \cup {s}]
    BY <1>4 DEF Assign
  <2>2. v \in CellValues(user)
    BY <1>0, <1>4, CellKinds
  <2>3. /\ IsEnv(y)
        /\ \A q \in Cells : q # user => y[q] = e[q]
    BY <2>2, <1>0, SetIsEnv DEF CacheInv
  <2>4. roots \subseteq Items /\ (s \in HasPrompt => s \in roots)
    BY <1>0 DEF Prompted
  <2>5. InputsChange(e, y, roots)
    <3>1. \A p \in Attributes : y[p] = e[p]
      BY <2>3, <1>0, CellForms
    <3>2. ASSUME NEW q \in Inputs, y[q] # e[q]
          PROVE  \/ q[1] \in roots
                 \/ /\ q[1] \in Syms /\ q[2] = "user"
                    /\ q[1] \in HasPrompt => \E d \in roots : q[1] \in Dependents[d]
      <4>1. q = user
        BY <2>3, <3>2, CellForms
      <4> QED BY <4>1, <2>4
    <3> QED BY <2>3, <3>1, <3>2 DEF InputsChange
  <2>6. CacheInv(RecInvalidate(y, roots))
    BY <2>4, <2>5, InvalidationIsSafe
  <2> QED BY <2>1, <2>6, <1>0 DEF IsState
<1> QED BY <1>1, <1>2, <1>3, <1>4

\* Choice.set_value().
LEMMA AssignModeIsSafe ==
    ASSUME Evaluator, NEW st, IsState(st), CacheInv(st.env), NEW c \in Choices, NEW v
    PROVE  IsState(AssignMode(st, c, v)) /\ CacheInv(AssignMode(st, c, v).env)
<1> DEFINE user == <<c, "user">>
           e == st.env
           y == [e EXCEPT ![user] = v]
<1>0. c \in Items /\ user \in Inputs /\ user \in Cells
  BY CellForms DEF Items
<1>1. CASE v = e[user]
  <2>1. AssignMode(st, c, v) = [st EXCEPT !.set = @ \cup {c}]
    BY <1>1 DEF AssignMode
  <2> QED BY <2>1, <1>0 DEF IsState
<1>2. CASE v # e[user] /\ v \notin TypeValues(c)
  <2>1. AssignMode(st, c, v) = st
    BY <1>2 DEF AssignMode
  <2> QED BY <2>1
<1>3. CASE v # e[user] /\ v \in TypeValues(c)
  <2>1. AssignMode(st, c, v) = [env |-> RecInvalidate(y, {c}), set |-> st.set \cup {c}]
    BY <1>3 DEF AssignMode
  <2>2. v \in CellValues(user)
    BY <1>0, <1>3, CellKinds
  <2>3. /\ IsEnv(y)
        /\ \A q \in Cells : q # user => y[q] = e[q]
    BY <2>2, <1>0, SetIsEnv DEF CacheInv
  <2>4. InputsChange(e, y, {c})
    <3>1. \A p \in Attributes : y[p] = e[p]
      BY <2>3, <1>0, CellForms
    <3>2. \A q \in Inputs : y[q] # e[q] => q[1] \in {c}
      BY <2>3, CellForms
    <3> QED BY <2>3, <3>1, <3>2 DEF InputsChange
  <2>5. CacheInv(RecInvalidate(y, {c}))
    BY <2>4, <1>0, InvalidationIsSafe
  <2> QED BY <2>1, <2>5, <1>0 DEF IsState
<1> QED BY <1>1, <1>2, <1>3

\* unset_value() on a set of items.
LEMMA UnsetIsSafe ==
    ASSUME Evaluator, NEW x, CacheInv(x), NEW S \in SUBSET Items
    PROVE  CacheInv(Unset(x, S))
<1> DEFINE T == {i \in S : HasUser(x, i)}
           y == [q \in Cells |-> IF q \in Inputs /\ q[1] \in T THEN None ELSE x[q]]
           roots == Prompted(T)
<1>1. Unset(x, S) = RecInvalidate(y, roots)
  BY DEF Unset
<1>2. /\ IsEnv(y)
      /\ \A p \in Attributes : y[p] = x[p]
      /\ \A q \in Inputs : y[q] = IF q[1] \in T THEN None ELSE x[q]
  BY CellForms DEF IsEnv, CacheInv
<1>3. roots \subseteq Items /\ T \cap (HasPrompt \cup Choices) \subseteq roots
  BY DEF Prompted
<1>4. InputsChange(x, y, roots)
  <2>1. ASSUME NEW q \in Inputs, y[q] # x[q], q[1] \notin roots
        PROVE  q[1] \in Syms /\ q[2] = "user" /\ q[1] \notin HasPrompt
    <3>1. q[1] \in T /\ q[1] \notin Choices /\ q[1] \notin HasPrompt
      BY <1>2, <1>3, <2>1
    <3> QED BY <3>1 DEF Inputs, Items
  <2> QED BY <1>2, <2>1 DEF InputsChange
<1> QED BY <1>1, <1>3, <1>4, InvalidationIsSafe

\* Reading an attribute.
LEMMA ReadIsSafe ==
    ASSUME Evaluator, CacheInv(env), NEW p \in Attributes, Read(p)
    PROVE  CacheInv(env')
<1>1. /\ env[p] = None
      /\ \A q \in AttrReads(p, env) \cap Attributes : env[q] # None
      /\ env' = [env EXCEPT ![p] = AttrValue(p, env)]
  BY DEF Read
<1>2. IsEnv(env) /\ Flagged(env) /\ Coherent(env) /\ Hidden(env)
  BY DEF CacheInv
<1>3. /\ IsEnv(env')
      /\ env'[p] = AttrValue(p, env)
      /\ \A q \in Cells : q # p => env'[q] = env[q]
  <2>1. p \in Cells /\ AttrValue(p, env) \in CellValues(p)
    BY <1>2, CellForms DEF Evaluator, ValuesFit
  <2> QED BY <1>1, <1>2, <2>1 DEF IsEnv
<1>4. ASSUME NEW r \in Attributes, \A q \in AttrReads(r, env) \cap Attributes : env[q] # None
      PROVE  AttrValue(r, env') = AttrValue(r, env) /\ AttrReads(r, env') = AttrReads(r, env)
  <2>1. \A q \in AttrReads(r, env) : q \in Cells /\ q # p
    BY <1>1, <1>2, <1>4 DEF Evaluator, ReadsAreDependencies
  <2> QED BY <2>1, <1>2, <1>3 DEF Evaluator, ReadsDecide
<1>5. Flagged(env')
  <2> SUFFICES ASSUME NEW r \in Attributes, env'[r] # None PROVE HasCache(env', r[1])
    BY DEF Flagged
  <2>1. r[1] \in Items /\ r = <<r[1], r[2]>> /\ <<r[1], "vis">> \in Attributes
    BY CellForms
  <2>2. CASE r[2] = "vis"
    BY <2>1, <2>2 DEF HasCache
  <2>3. CASE r = p /\ r[2] # "vis"
    <3>1. <<p[1], "vis">> \in AttrReads(p, env) \cap Attributes
      BY <2>1, <2>3, <1>2 DEF Evaluator, VisibilityFirst
    <3> QED BY <3>1, <2>3, <1>1, <1>3, CellForms DEF HasCache
  <2>4. CASE r # p
    <3>1. env[r] # None
      BY <2>4, <1>3, CellForms
    <3>2. env[<<r[1], "vis">>] # None
      BY <3>1, <1>2 DEF Flagged, HasCache
    <3> QED BY <3>2, <2>1, <1>1, <1>3, CellForms DEF HasCache
  <2> QED BY <2>2, <2>3, <2>4
<1>6. Coherent(env')
  <2> SUFFICES ASSUME NEW r \in Attributes, env'[r] # None
               PROVE  /\ env'[r] = AttrValue(r, env')
                      /\ \A q \in AttrReads(r, env') \cap Attributes : env'[q] # None
    BY DEF Coherent
  <2>1. \A q \in AttrReads(r, env) \cap Attributes : env[q] # None
    BY <1>1, <1>2, <1>3, CellForms DEF Coherent
  <2>2. env'[r] = AttrValue(r, env)
    BY <1>2, <1>3, CellForms DEF Coherent
  <2>3. \A q \in AttrReads(r, env) \cap Attributes : env'[q] # None
    BY <2>1, <1>1, <1>3, CellForms
  <2> QED BY <2>1, <2>2, <2>3, <1>4
<1>7. Hidden(env')
  <2> SUFFICES ASSUME NEW s \in Syms \ HasPrompt PROVE env'[<<s, "vis">>] \in {None, 0}
    BY DEF Hidden
  <2>1. <<s, "vis">> \in Cells
    BY CellForms DEF Items
  <2>2. CASE p = <<s, "vis">>
    BY <2>2, <1>2, <1>3 DEF Evaluator, NoPromptNoVisibility
  <2>3. CASE p # <<s, "vis">>
    BY <2>1, <2>3, <1>2, <1>3 DEF Hidden
  <2> QED BY <2>2, <2>3
<1> QED BY <1>3, <1>5, <1>6, <1>7 DEF CacheInv

----------------------------------------------------------------------------
(* The theorems.                                                            *)

ValuesInv ==
    /\ CacheInv(env)
    /\ wasSet \subseteq Items
    /\ loading \in {"no", "merge", "replace"}
    /\ wasSet # {} => loading = "replace"

\* The invariant holds before anything is read or set.
LEMMA ValuesInvInit == Init => ValuesInv
<1> SUFFICES ASSUME Init PROVE ValuesInv
  OBVIOUS
<1>1. env = [q \in Cells |-> None]
  BY DEF Init
<1>2. \A q \in Cells : env[q] = None
  BY <1>1
<1>3. IsEnv(env)
  BY <1>1 DEF IsEnv
<1>4. Flagged(env) /\ Coherent(env) /\ Hidden(env)
  BY <1>2, CellForms DEF Flagged, Coherent, Hidden, Items
<1> QED BY <1>3, <1>4 DEF Init, ValuesInv, CacheInv

\* Every operation preserves the invariant.
LEMMA ValuesInvStep ==
    ASSUME Evaluator, ValuesInv, [Next]_vars
    PROVE  ValuesInv'
<1> DEFINE Frame == /\ wasSet' \subseteq Items
                    /\ loading' \in {"no", "merge", "replace"}
                    /\ wasSet' # {} => loading' = "replace"
<1>0. /\ CacheInv(env) /\ wasSet \subseteq Items
      /\ loading \in {"no", "merge", "replace"}
      /\ wasSet # {} => loading = "replace"
  BY DEF ValuesInv
<1>a. IsState(State) /\ State.env = env /\ State.set = wasSet
  BY <1>0 DEF IsState, State
<1>b. ASSUME NEW st, IsState(st), CacheInv(st.env), Become(st)
      PROVE  CacheInv(env') /\ Frame
  BY <1>b, <1>0 DEF Become, IsState
<1>1. ASSUME NEW p \in Attributes, Read(p) PROVE CacheInv(env') /\ Frame
  <2>1. CacheInv(env')
    BY <1>0, <1>1, ReadIsSafe
  <2> QED BY <2>1, <1>0, <1>1 DEF Read
<1>2. ASSUME NEW s \in Syms, NEW v \in Given[s], SetValue(s, v)
      PROVE  CacheInv(env') /\ Frame
  <2>1. IsState(Assign(State, s, v)) /\ CacheInv(Assign(State, s, v).env)
    BY <1>0, <1>a, AssignIsSafe
  <2>2. Become(Assign(State, s, v))
    BY <1>2 DEF SetValue
  <2> QED BY <2>1, <2>2, <1>b
<1>3. ASSUME NEW c \in Choices, NEW v \in Given[c], SetChoice(c, v)
      PROVE  CacheInv(env') /\ Frame
  <2>1. IsState(AssignMode(State, c, v)) /\ CacheInv(AssignMode(State, c, v).env)
    BY <1>0, <1>a, AssignModeIsSafe
  <2>2. Become(AssignMode(State, c, v))
    BY <1>3 DEF SetChoice
  <2> QED BY <2>1, <2>2, <1>b
<1>4. ASSUME NEW i \in Items, UnsetValue(i) PROVE CacheInv(env') /\ Frame
  <2> DEFINE st == [env |-> Unset(env, {i}), set |-> {}]
  <2>1. IsState(st) /\ CacheInv(st.env)
    BY <1>0, UnsetIsSafe DEF IsState
  <2>2. Become(st)
    BY <1>4 DEF UnsetValue
  <2> QED BY <2>1, <2>2, <1>b
<1>5. ASSUME UnsetValues PROVE CacheInv(env') /\ Frame
  <2> DEFINE st == [env |-> Unset(env, Items), set |-> {}]
  <2>1. IsState(st) /\ CacheInv(st.env)
    BY <1>0, UnsetIsSafe DEF IsState
  <2>2. Become(st)
    BY <1>5 DEF UnsetValues
  <2> QED BY <2>1, <2>2, <1>b
<1>6. ASSUME NEW kind \in LoadKinds, LoadConfig(kind) PROVE CacheInv(env') /\ Frame
  BY <1>0, <1>6, ValuesAssumption DEF LoadConfig
<1>7. ASSUME NEW s \in Syms, NEW v \in Given[s], LoadLine(s, v)
      PROVE  CacheInv(env') /\ Frame
  <2> DEFINE st == IF ChoiceOf[s] # None /\ v # 0
                   THEN AssignMode(State, ChoiceOf[s], v) ELSE State
  <2>1. IsState(st) /\ CacheInv(st.env)
    <3>1. ChoiceOf[s] # None => ChoiceOf[s] \in Choices
      BY ItemsAssumption
    <3> QED BY <3>1, <1>0, <1>a, AssignModeIsSafe
  <2>2. IsState(Assign(st, s, v)) /\ CacheInv(Assign(st, s, v).env)
    BY <2>1, AssignIsSafe
  <2>3. Become(Assign(st, s, v))
    BY <1>7 DEF LoadLine, AssignLine
  <2> QED BY <2>2, <2>3, <1>b
<1>8. ASSUME LoadEnds PROVE CacheInv(env') /\ Frame
  <2>1. CacheInv(Unset(env, Items \ wasSet))
    BY <1>0, UnsetIsSafe
  <2> QED BY <2>1, <1>0, <1>8 DEF LoadEnds
<1>9. ASSUME LoadFails PROVE CacheInv(env') /\ Frame
  BY <1>0, <1>9 DEF LoadFails
<1>10. ASSUME UNCHANGED vars PROVE CacheInv(env') /\ Frame
  BY <1>0, <1>10 DEF vars
<1>11. CacheInv(env') /\ Frame
  BY <1>1, <1>2, <1>3, <1>4, <1>5, <1>6, <1>7, <1>8, <1>9, <1>10 DEF Next, UserStep
<1> QED BY <1>11 DEF ValuesInv

\* The invariant gives the properties the runs check.
LEMMA ValuesInvGives == ValuesInv => TypeOK /\ FlagIsSound /\ LocallyCoherent
BY DEF ValuesInv, CacheInv, TypeOK, FlagIsSound, Flagged,
       LocallyCoherent, Coherent, IsEnv

(***************************************************************************)
(* Whatever is read, set, unset or loaded in whatever order, user values   *)
(* fit their types and a user selection is a symbol of its choice.         *)
(***************************************************************************)
THEOREM ValuesTypeCorrect == ASSUME Evaluator PROVE Spec => []TypeOK
<1>1. ValuesInv /\ [Next]_vars => ValuesInv'
  BY ValuesInvStep
<1> QED BY <1>1, ValuesInvInit, ValuesInvGives, PTL DEF Spec

(***************************************************************************)
(* The claim that the cut-off of _rec_invalidate rests on: an item whose   *)
(* _cached_vis is None has no cached value at all.                         *)
(***************************************************************************)
THEOREM FlagIsSoundThm == ASSUME Evaluator PROVE Spec => []FlagIsSound
<1>1. ValuesInv /\ [Next]_vars => ValuesInv'
  BY ValuesInvStep
<1> QED BY <1>1, ValuesInvInit, ValuesInvGives, PTL DEF Spec

(***************************************************************************)
(* No cached attribute is stale with respect to what it reads, and nothing *)
(* it reads has been dropped, for every tree and every history.            *)
(***************************************************************************)
THEOREM LocallyCoherentThm == ASSUME Evaluator PROVE Spec => []LocallyCoherent
<1>1. ValuesInv /\ [Next]_vars => ValuesInv'
  BY ValuesInvStep
<1> QED BY <1>1, ValuesInvInit, ValuesInvGives, PTL DEF Spec

----------------------------------------------------------------------------
(* From local to global: if reading cannot go round in circles, a coherent  *)
(* cache holds what a calculation from empty caches gives.                  *)

\* f has the inputs of x and all attributes calculated from them.
Calculated(f, x) ==
    /\ \A q \in Inputs : f[q] = x[q]
    /\ \A p \in Attributes : f[p] = AttrValue(p, f)

\* Order relates every attribute to those that read it.
Ordered(Order) ==
    /\ IsWellFoundedOn(Order, Attributes)
    /\ \A p \in Attributes : \A x : IsEnv(x) =>
          \A q \in AttrReads(p, x) \cap Attributes : <<q, p>> \in Order

CachedIsCalculated ==
    \A f : IsEnv(f) /\ Calculated(f, env) =>
        \A p \in Attributes : env[p] # None => env[p] = f[p]

\* One state: the first attribute, in the order of reading, that is cached
\* with another value than the calculated one cannot exist.
LEMMA CoherentIsCalculated ==
    ASSUME Evaluator, NEW Order, Ordered(Order), IsEnv(env), LocallyCoherent
    PROVE  CachedIsCalculated
<1> SUFFICES ASSUME NEW f, IsEnv(f), Calculated(f, env)
             PROVE  \A p \in Attributes : env[p] # None => env[p] = f[p]
  BY DEF CachedIsCalculated
<1> DEFINE Wrong == {p \in Attributes : env[p] # None /\ env[p] # f[p]}
<1> SUFFICES ASSUME Wrong # {} PROVE FALSE
  OBVIOUS
<1>1. PICK p \in Wrong : \A q \in Wrong : ~(<<q, p>> \in Order)
  <2>1. IsWellFoundedOn(Order, Attributes)
    BY DEF Ordered
  <2>2. Wrong \subseteq Attributes
    OBVIOUS
  <2> HIDE DEF Wrong
  <2> QED BY <2>1, <2>2, WFMin
<1>2. /\ env[p] = AttrValue(p, env)
      /\ \A q \in AttrReads(p, env) \cap Attributes : env[q] # None
  BY <1>1 DEF LocallyCoherent
<1>3. \A q \in AttrReads(p, env) : env[q] = f[q]
  <2> SUFFICES ASSUME NEW q \in AttrReads(p, env) PROVE env[q] = f[q]
    OBVIOUS
  <2>1. q \in Inputs \/ q \in Attributes
    BY <1>1 DEF Evaluator, ReadsAreDependencies, Cells
  <2>2. CASE q \in Inputs
    BY <2>2 DEF Calculated
  <2>3. CASE q \in Attributes
    <3>1. <<q, p>> \in Order
      BY <1>1, <2>3 DEF Ordered
    <3> QED BY <1>1, <1>2, <2>3, <3>1
  <2> QED BY <2>1, <2>2, <2>3
<1>4. AttrValue(p, f) = AttrValue(p, env)
  BY <1>1, <1>3 DEF Evaluator, ReadsDecide
<1> QED BY <1>1, <1>2, <1>4 DEF Calculated

(***************************************************************************)
(* _rec_invalidate is "rock solid": after any history of reads,            *)
(* assignments, resets and loads, every cached attribute has the value     *)
(* that a calculation from empty caches gives it.                          *)
(***************************************************************************)
THEOREM CachedIsCalculatedThm ==
    ASSUME Evaluator, NEW CONSTANT Order, Ordered(Order)
    PROVE  Spec => []CachedIsCalculated
<1>1. ValuesInv /\ [Next]_vars => ValuesInv'
  BY ValuesInvStep
<1>2. ValuesInv => CachedIsCalculated
  BY ValuesInvGives, CoherentIsCalculated DEF ValuesInv, CacheInv
<1> QED BY <1>1, <1>2, ValuesInvInit, PTL DEF Spec

----------------------------------------------------------------------------
(* Recursion.  F is a set of functions on S that holds every function made  *)
(* up of values that functions in F have.                                   *)

\* Each f[p] is determined by the values of f below p.
DeterminedBelow(S, F, Step, Order) ==
    \A f, g \in F, p \in S :
        (\A q \in S : <<q, p>> \in Order => f[q] = g[q]) => Step[f][p] = Step[g][p]

\* Every set of elements has one with none of the set below it.
HasLowest(S, Order) ==
    \A T \in SUBSET S : T # {} => \E p \in T : \A q \in T : <<q, p>> \notin Order

PointByPoint(S, F) ==
    /\ \A f \in F : f = [p \in S |-> f[p]]
    /\ \A h : h = [p \in S |-> h[p]] /\ (\A p \in S : \E f \in F : h[p] = f[p]) => h \in F

\* f solves the equations in D, which holds everything below its elements.
Solves(f, D, S, Step, Order) ==
    /\ D \subseteq S
    /\ \A p \in D, q \in S : <<q, p>> \in Order => q \in D
    /\ \A p \in D : f[p] = Step[f][p]

\* Two solutions agree where both are defined.
LEMMA SolutionsAgree ==
    ASSUME NEW S, NEW F, NEW Step, NEW Order,
           HasLowest(S, Order), DeterminedBelow(S, F, Step, Order),
           NEW f \in F, NEW D, Solves(f, D, S, Step, Order),
           NEW g \in F, NEW E, Solves(g, E, S, Step, Order),
           NEW p \in D \cap E
    PROVE  f[p] = g[p]
<1> DEFINE Wrong == {q \in D \cap E : f[q] # g[q]}
<1> SUFFICES ASSUME Wrong # {} PROVE FALSE
  OBVIOUS
<1>1. Wrong \in SUBSET S
  BY DEF Solves
<1>2. PICK w \in Wrong : \A q \in Wrong : <<q, w>> \notin Order
  BY <1>1 DEF HasLowest
<1>3. \A q \in S : <<q, w>> \in Order => f[q] = g[q]
  BY <1>2 DEF Solves
<1>4. Step[f][w] = Step[g][w]
  BY <1>1, <1>2, <1>3 DEF DeterminedBelow
<1> QED BY <1>2, <1>4 DEF Solves

\* A function that every element has a say in exists.
LEMMA RecursionHasSolution ==
    ASSUME NEW S, NEW F, NEW Step, NEW Order,
           F # {}, PointByPoint(S, F), \A f \in F : Step[f] \in F,
           HasLowest(S, Order), DeterminedBelow(S, F, Step, Order)
    PROVE  \E f \in F : f = Step[f]
<1> DEFINE Solved(f, p) == \E D : p \in D /\ Solves(f, D, S, Step, Order)
           U == {p \in S : \E f \in F : Solved(f, p)}
           some == CHOOSE f : f \in F
           h == [p \in S |-> IF p \in U THEN (CHOOSE f \in F : Solved(f, p))[p] ELSE some[p]]
<1>0. some \in F
  OBVIOUS
<1>1. ASSUME NEW p \in U
      PROVE  \E f \in F : Solved(f, p) /\ h[p] = f[p]
  OBVIOUS
<1>2. h \in F
  <2>1. \A p \in S : \E f \in F : h[p] = f[p]
    BY <1>0, <1>1
  <2>2. h = [p \in S |-> h[p]]
    OBVIOUS
  <2> HIDE DEF h
  <2> QED BY <2>1, <2>2 DEF PointByPoint
<1>3. Solves(h, U, S, Step, Order)
  <2> HIDE DEF h
  <2>1. ASSUME NEW p \in U, NEW f \in F, NEW D, p \in D, Solves(f, D, S, Step, Order)
        PROVE  h[p] = f[p]
    <3>1. PICK g \in F : Solved(g, p) /\ h[p] = g[p]
      BY <1>1
    <3>2. PICK E : p \in E /\ Solves(g, E, S, Step, Order)
      BY <3>1
    <3> QED BY <2>1, <3>1, <3>2, SolutionsAgree
  <2>2. ASSUME NEW p \in U
        PROVE  /\ \A q \in S : <<q, p>> \in Order => q \in U
               /\ h[p] = Step[h][p]
    <3>0. PICK f \in F : Solved(f, p)
      OBVIOUS
    <3>1. PICK D : p \in D /\ Solves(f, D, S, Step, Order)
      BY <3>0
    <3>2. D \subseteq U
      BY <3>1 DEF Solves
    <3>3. \A q \in D : h[q] = f[q]
      BY <3>1, <3>2, <2>1
    <3>4. \A q \in S : <<q, p>> \in Order => q \in D
      BY <3>1 DEF Solves
    <3>5. Step[h][p] = Step[f][p]
      BY <1>2, <3>3, <3>4 DEF DeterminedBelow
    <3>6. f[p] = Step[f][p]
      BY <3>1 DEF Solves
    <3> QED BY <3>1, <3>2, <3>3, <3>4, <3>5, <3>6
  <2> QED BY <2>2 DEF Solves
<1>4. U = S
  <2> SUFFICES ASSUME S \ U # {} PROVE FALSE
    OBVIOUS
  <2> HIDE DEF h
  <2>1. PICK p \in S \ U : \A q \in S \ U : <<q, p>> \notin Order
    BY DEF HasLowest
  <2> DEFINE k == [h EXCEPT ![p] = Step[h][p]]
  <2>2. h = [q \in S |-> h[q]] /\ Step[h] \in F
    BY <1>2 DEF PointByPoint
  <2>3. k = [q \in S |-> IF q = p THEN Step[h][p] ELSE h[q]]
    BY <2>2
  <2>4. k \in F
    <3>1. k = [q \in S |-> k[q]] /\ \A q \in S : \E f \in F : k[q] = f[q]
      BY <1>2, <2>2, <2>3
    <3> HIDE DEF k
    <3> QED BY <3>1 DEF PointByPoint
  <2>5. \A q \in U : \A r \in S : <<r, q>> \in Order => r \in U
    BY <1>3 DEF Solves
  <2>6. \A r \in S : <<r, p>> \in Order => r \in U
    BY <2>1
  <2>7. ASSUME NEW q \in U \cup {p} PROVE k[q] = Step[k][q]
    <3>1. \A r \in S : <<r, q>> \in Order => r \in U
      BY <2>5, <2>6
    <3>2. \A r \in S : <<r, q>> \in Order => k[r] = h[r]
      BY <3>1, <2>3
    <3>3. Step[k][q] = Step[h][q]
      <4>1. q \in S
        BY <1>3 DEF Solves
      <4> HIDE DEF k, U
      <4> QED BY <4>1, <3>2, <1>2, <2>4 DEF DeterminedBelow
    <3> QED BY <3>3, <2>3, <1>3 DEF Solves
  <2>8. Solves(k, U \cup {p}, S, Step, Order)
    <3> HIDE DEF k, U
    <3> U \subseteq S
      BY <1>3 DEF Solves
    <3> QED BY <2>5, <2>6, <2>7 DEF Solves
  <2>9. Solved(k, p)
    BY <2>8
  <2> HIDE DEF k
  <2>10. \E f \in F : Solved(f, p)
    BY <2>4, <2>9
  <2>11. p \notin U /\ p \in S
    BY <2>1
  <2> QED BY <2>10, <2>11
<1>5. h = Step[h]
  <2> HIDE DEF h, U
  <2>1. \A p \in S : h[p] = Step[h][p]
    BY <1>3, <1>4 DEF Solves
  <2>2. h = [p \in S |-> h[p]] /\ Step[h] = [p \in S |-> Step[h][p]]
    BY <1>2 DEF PointByPoint
  <2> QED BY <2>1, <2>2
<1> QED BY <1>2, <1>5

----------------------------------------------------------------------------
(* Calculations with values in V, and expressions.                          *)

Calcs(V) == [v : V, r : SUBSET Cells]

\* The cells that a calculation reads hold the same.
SameReads(a, x, y) == \A q \in a.r : x[q] = y[q]

\* What is cached of the visibility or value of an item is a tristate value.
LEMMA CachedTristates ==
    ASSUME NEW x, IsEnv(x)
    PROVE  /\ \A i \in Items : OrZero(x[<<i, "vis">>]) \in 0 .. 2 /\ <<i, "vis">> \in Cells
           /\ \A s \in Syms : OrZero(x[<<s, "val">>]) \in 0 .. 2 /\ <<s, "val">> \in Cells
<1>1. ASSUME NEW i \in Items
      PROVE  OrZero(x[<<i, "vis">>]) \in 0 .. 2 /\ <<i, "vis">> \in Cells
  <2>1. <<i, "vis">> \in Cells
    BY CellForms DEF Cells
  <2>2. x[<<i, "vis">>] \in CellValues(<<i, "vis">>) \cup {None}
    BY <2>1 DEF IsEnv
  <2>3. CellValues(<<i, "vis">>) = 0 .. 2
    BY CellKinds
  <2> QED BY <2>1, <2>2, <2>3 DEF OrZero
<1>2. ASSUME NEW s \in Syms
      PROVE  OrZero(x[<<s, "val">>]) \in 0 .. 2 /\ <<s, "val">> \in Cells
  <2>1. <<s, "val">> \in Cells
    BY DEF Cells, Attributes
  <2>2. x[<<s, "val">>] \in CellValues(<<s, "val">>) \cup {None}
    BY <2>1 DEF IsEnv
  <2>3. CellValues(<<s, "val">>) = 0 .. 2
    BY CellKinds
  <2> QED BY <2>1, <2>2, <2>3 DEF OrZero
<1> QED BY <1>1, <1>2

\* The value of MODULES is a tristate value that nothing but MODULES decides.
LEMMA ModulesValueIs ==
    ASSUME NEW x, IsEnv(x)
    PROVE  /\ ModulesValue(x) \in Calcs(0 .. 2)
           /\ ModulesValue(x).r = {<<Modules, "val">>}
           /\ \A y : SameReads(ModulesValue(x), x, y) => ModulesValue(y) = ModulesValue(x)
BY CachedTristates, ItemsAssumption DEF ModulesValue, Calcs, SameReads

\* The type of a choice depends on MODULES at most.
LEMMA ChoiceTypeIs ==
    ASSUME NEW x, IsEnv(x), NEW c
    PROVE  /\ ChoiceType(x, c) \in Calcs({"bool", "tristate"})
           /\ ChoiceType(x, c).r \subseteq {<<Modules, "val">>}
           /\ \A y : SameReads(ChoiceType(x, c), x, y) => ChoiceType(y, c) = ChoiceType(x, c)
BY ModulesValueIs DEF ChoiceType, TristateWith, Just, Calcs, SameReads

\* The mode asked for is decided by the choice's user value.
LEMMA WantedModeIs ==
    ASSUME NEW x, IsEnv(x), NEW c \in Choices
    PROVE  /\ WantedMode(x, c) \in 0 .. 2
           /\ <<c, "user">> \in Cells
           /\ \A y : x[<<c, "user">>] = y[<<c, "user">>] => WantedMode(y, c) = WantedMode(x, c)
<1>1. <<c, "user">> \in Cells /\ x[<<c, "user">>] \in {0, 1, 2, None}
  <2>1. c \in Items
    BY DEF Items
  <2>2. <<c, "user">> \in Cells
    BY <2>1, CellForms
  <2>3. x[<<c, "user">>] \in TypeValues(c) \cup {None}
    BY <2>1, <2>2, CellKinds DEF IsEnv
  <2> QED BY <2>2, <2>3 DEF TypeValues
<1>2. LowestMode(c) \in {0, 1}
  BY DEF LowestMode
<1> QED BY <1>1, <1>2 DEF WantedMode, Greatest

\* The mode of a choice.
LEMMA ChoiceTriValueIs ==
    ASSUME NEW x, IsEnv(x), NEW c \in Choices
    PROVE  /\ ChoiceTriValue(x, c) \in Calcs(0 .. 2)
           /\ ChoiceTriValue(x, c).r \subseteq {<<c, "user">>, <<c, "vis">>, <<Modules, "val">>}
           /\ {<<c, "user">>, <<c, "vis">>} \subseteq ChoiceTriValue(x, c).r
           /\ \A y : SameReads(ChoiceTriValue(x, c), x, y) =>
                         ChoiceTriValue(y, c) = ChoiceTriValue(x, c)
<1> DEFINE val(z) == Least(WantedMode(z, c), Vis(z, c))
           mode(z) == ModeOfType(val(z), ChoiceType(z, c))
<1>1. /\ val(x) \in 0 .. 2
      /\ <<c, "vis">> \in Cells /\ <<c, "user">> \in Cells
  BY CachedTristates, WantedModeIs DEF Least, Vis, Items
<1>2. \A z : ChoiceTriValue(z, c) =
                [v |-> mode(z).v, r |-> {<<c, "user">>, <<c, "vis">>} \cup mode(z).r]
  BY DEF ChoiceTriValue, AfterReading
<1>3. mode(x) \in Calcs(0 .. 2) /\ mode(x).r \subseteq {<<Modules, "val">>}
  BY <1>1, ChoiceTypeIs DEF ModeOfType, Just, Calcs
<1>4. ASSUME NEW y, SameReads(ChoiceTriValue(x, c), x, y) PROVE mode(y) = mode(x)
  <2>1. val(y) = val(x)
    <3>1. <<c, "user">> \in ChoiceTriValue(x, c).r /\ <<c, "vis">> \in ChoiceTriValue(x, c).r
      BY <1>2
    <3>2. x[<<c, "user">>] = y[<<c, "user">>] /\ x[<<c, "vis">>] = y[<<c, "vis">>]
      BY <3>1, <1>4 DEF SameReads
    <3>3. WantedMode(y, c) = WantedMode(x, c)
      BY <3>2, WantedModeIs
    <3> QED BY <3>2, <3>3 DEF Vis
  <2>2. SameReads(mode(x), x, y)
    BY <1>2, <1>4 DEF SameReads
  <2>3. CASE val(x) # 1
    BY <2>1, <2>3 DEF ModeOfType
  <2>4. CASE val(x) = 1
    <3>1. mode(x).r = ChoiceType(x, c).r
      BY <2>4, ChoiceTypeIs DEF ModeOfType, Calcs
    <3>2. ChoiceType(y, c) = ChoiceType(x, c)
      BY <2>2, <3>1, ChoiceTypeIs DEF SameReads
    <3> QED BY <2>1, <3>2
  <2> QED BY <2>3, <2>4
<1> HIDE DEF mode
<1> QED BY <1>1, <1>2, <1>3, <1>4, ModulesValueIs DEF Calcs

\* The value of a symbol or choice in an expression.
LEMMA ItemValueIs ==
    ASSUME NEW x, IsEnv(x), NEW i \in Items
    PROVE  /\ ItemValue(x, i) \in Calcs(0 .. 2)
           /\ \A q \in ItemValue(x, i).r : q[1] \in {i, Modules}
           /\ \A s \in Syms : <<s, "user">> \notin ItemValue(x, i).r
           /\ \A y : SameReads(ItemValue(x, i), x, y) => ItemValue(y, i) = ItemValue(x, i)
<1>1. CASE i \in Choices
  <2>1. /\ ChoiceTriValue(x, i).r \subseteq {<<i, "user">>, <<i, "vis">>, <<Modules, "val">>}
        /\ ChoiceTriValue(x, i) \in Calcs(0 .. 2)
        /\ \A y : SameReads(ChoiceTriValue(x, i), x, y) =>
                      ChoiceTriValue(y, i) = ChoiceTriValue(x, i)
    BY <1>1, ChoiceTriValueIs
  <2>2. \A z : ItemValue(z, i) = ChoiceTriValue(z, i)
    BY <1>1 DEF ItemValue
  <2>3. \A s \in Syms : s # i
    BY <1>1, ItemsAssumption
  <2> QED BY <2>1, <2>2, <2>3
<1>2. CASE i \notin Choices
  <2>1. i \in Syms
    BY <1>2 DEF Items
  <2>2. \A z : ItemValue(z, i) = [v |-> OrZero(z[<<i, "val">>]), r |-> {<<i, "val">>}]
    BY <1>2 DEF ItemValue, SymTriValue
  <2>3. /\ OrZero(x[<<i, "val">>]) \in 0 .. 2 /\ <<i, "val">> \in Cells
    BY <2>1, CachedTristates
  <2>4. ItemValue(x, i) \in Calcs(0 .. 2)
    BY <2>2, <2>3 DEF Calcs
  <2>5. ItemValue(x, i).r = {<<i, "val">>}
    BY <2>2
  <2>6. ASSUME NEW y, SameReads(ItemValue(x, i), x, y) PROVE ItemValue(y, i) = ItemValue(x, i)
    BY <2>2, <2>5, <2>6 DEF SameReads
  <2> QED BY <2>4, <2>5, <2>6
<1> QED BY <1>1, <1>2

\* The forms that an expression has.
LEMMA ExprForms ==
    ASSUME NEW e \in Exprs
    PROVE  /\ e[1] \in {"const", "item", "eq", "not", "and", "or"}
           /\ e[1] = "const" => e[2] \in 0 .. 2 /\ Parts(e) = {}
           /\ e[1] \in {"item", "eq"} => e[2] \in Items /\ Parts(e) = {}
           /\ e[1] = "not" => e[2] \in Exprs /\ Parts(e) = {e[2]}
           /\ e[1] \in {"and", "or"} =>
                 e[2] \in Exprs /\ e[3] \in Exprs /\ Parts(e) = {e[2], e[3]}
           /\ Parts(e) \subseteq Exprs
<1>1. IsExpr(e)
  BY TreeAssumption
<1> QED BY <1>1 DEF IsExpr, Parts

\* One step stays within the values of expressions.
LEMMA ValueOfFormFits ==
    ASSUME NEW x, IsEnv(x), NEW val, NEW e \in Exprs,
           \A d \in Parts(e) : val[d] \in Calcs(0 .. 2)
    PROVE  ValueOfForm(x, val, e) \in Calcs(0 .. 2)
<1>1. CASE e[1] = "const"
  BY <1>1, ExprForms DEF ValueOfForm, Just, Calcs
<1>2. CASE e[1] = "item"
  BY <1>2, ExprForms, ItemValueIs DEF ValueOfForm
<1>3. CASE e[1] = "eq"
  <2>1. ItemValue(x, e[2]) \in Calcs(0 .. 2)
    BY <1>3, ExprForms, ItemValueIs
  <2>2. ValueOfForm(x, val, e) =
          [ItemValue(x, e[2]) EXCEPT !.v = IF @ = e[3] THEN 2 ELSE 0]
    BY <1>3 DEF ValueOfForm
  <2> QED BY <2>1, <2>2 DEF Calcs
<1>4. CASE e[1] = "not"
  <2>1. val[e[2]] \in Calcs(0 .. 2)
    BY <1>4, ExprForms
  <2>2. ValueOfForm(x, val, e) = [val[e[2]] EXCEPT !.v = 2 - @]
    BY <1>4 DEF ValueOfForm
  <2> QED BY <2>1, <2>2 DEF Calcs
<1>5. CASE e[1] \in {"and", "or"}
  <2>1. val[e[2]] \in Calcs(0 .. 2) /\ val[e[3]] \in Calcs(0 .. 2)
    BY <1>5, ExprForms
  <2>2. ValueOfForm(x, val, e) \in {AndOf(val[e[2]], val[e[3]]), OrOf(val[e[2]], val[e[3]])}
    BY <1>5 DEF ValueOfForm
  <2>3. ASSUME NEW a \in Calcs(0 .. 2), NEW b \in Calcs(0 .. 2)
        PROVE  AndOf(a, b) \in Calcs(0 .. 2) /\ OrOf(a, b) \in Calcs(0 .. 2)
    BY DEF AndOf, OrOf, Both, Least, Greatest, Calcs
  <2> QED BY <2>1, <2>2, <2>3
<1> QED BY <1>1, <1>2, <1>3, <1>4, <1>5, ExprForms

\* The values of its operands decide the value of an expression.
LEMMA PartsDecide ==
    ASSUME NEW x, NEW f, NEW g, NEW e \in Exprs, \A d \in Parts(e) : f[d] = g[d]
    PROVE  ValueOfForm(x, f, e) = ValueOfForm(x, g, e)
<1>1. e[1] = "not" => f[e[2]] = g[e[2]]
  BY ExprForms
<1>2. e[1] \in {"and", "or"} => f[e[2]] = g[e[2]] /\ f[e[3]] = g[e[3]]
  BY ExprForms
<1> QED BY <1>1, <1>2, ExprForms DEF ValueOfForm

\* f gives the values of the expressions in D, operands included.
Evaluates(f, D, x) ==
    /\ D \subseteq Exprs
    /\ \A d \in D : Parts(d) \subseteq D /\ f[d] = ValueOfForm(x, f, d)

\* expr_value() calculates the values of the operands first; expressions are
\* finite, so it has a result.
LEMMA ExprValueExists ==
    ASSUME NEW x
    PROVE  \E val : val = [d \in Exprs |-> ValueOfForm(x, val, d)]
<1> DEFINE Has(f, d) == \E D : d \in D /\ Evaluates(f, D, x)
           U == {d \in Exprs : \E f : Has(f, d)}
           h == [d \in Exprs |-> (CHOOSE f : Has(f, d))[d]]
<1>1. ASSUME NEW f, NEW D, Evaluates(f, D, x), NEW d \in D PROVE h[d] = f[d]
  <2> DEFINE g == CHOOSE g : Has(g, d)
  <2>1. Has(f, d) /\ d \in Exprs
    BY <1>1 DEF Evaluates
  <2>2. Has(g, d) /\ h[d] = g[d]
    BY <2>1
  <2> HIDE DEF g, h
  <2>3. PICK E : d \in E /\ Evaluates(g, E, x)
    BY <2>2
  <2> DEFINE Wrong == {e \in D \cap E : f[e] # g[e]}
  <2>4. ASSUME Wrong # {} PROVE FALSE
    <3>1. PICK e \in Wrong : Parts(e) \cap Wrong = {}
      <4>1. Wrong \in SUBSET Exprs
        BY <1>1 DEF Evaluates
      <4> QED BY <2>4, <4>1, TreeAssumption
    <3>2. \A i \in Parts(e) : f[i] = g[i]
      BY <1>1, <2>3, <3>1 DEF Evaluates
    <3>3. e \in Exprs
      BY <1>1, <3>1 DEF Evaluates
    <3>4. ValueOfForm(x, f, e) = ValueOfForm(x, g, e)
      BY <3>2, <3>3, PartsDecide
    <3> QED BY <1>1, <2>3, <3>1, <3>4 DEF Evaluates
  <2>5. f[d] = g[d]
    BY <1>1, <2>3, <2>4
  <2> QED BY <2>2, <2>5
<1>2. Evaluates(h, U, x)
  <2> SUFFICES ASSUME NEW d \in U
               PROVE  Parts(d) \subseteq U /\ h[d] = ValueOfForm(x, h, d)
    BY DEF Evaluates
  <2>1. PICK f, D : d \in D /\ Evaluates(f, D, x)
    OBVIOUS
  <2>2. D \subseteq U
    BY <2>1 DEF Evaluates
  <2> HIDE DEF h, U
  <2>3. \A e \in D : h[e] = f[e]
    BY <1>1, <2>1
  <2>4. Parts(d) \subseteq D /\ f[d] = ValueOfForm(x, f, d) /\ d \in Exprs
    BY <2>1 DEF Evaluates
  <2>5. ValueOfForm(x, h, d) = ValueOfForm(x, f, d)
    BY <2>3, <2>4, PartsDecide
  <2> QED BY <2>1, <2>2, <2>3, <2>4, <2>5
<1>3. ASSUME U # Exprs PROVE FALSE
  <2>1. PICK d \in Exprs \ U : Parts(d) \cap (Exprs \ U) = {}
    BY <1>3, TreeAssumption
  <2>2. Parts(d) \subseteq U /\ d \notin U /\ U \subseteq Exprs
    BY <2>1, ExprForms
  <2> DEFINE k == [h EXCEPT ![d] = ValueOfForm(x, h, d)]
  <2>3. k[d] = ValueOfForm(x, h, d) /\ \A e \in U : k[e] = h[e]
    BY <2>2
  <2> HIDE DEF h, U, k
  <2>4. ASSUME NEW e \in U \cup {d}
        PROVE  Parts(e) \subseteq U /\ k[e] = ValueOfForm(x, k, e)
    <3>1. Parts(e) \subseteq U /\ e \in Exprs /\ k[e] = ValueOfForm(x, h, e)
      BY <1>2, <2>1, <2>2, <2>3 DEF Evaluates
    <3>2. ValueOfForm(x, k, e) = ValueOfForm(x, h, e)
      BY <2>3, <3>1, PartsDecide
    <3> QED BY <3>1, <3>2
  <2>5. Evaluates(k, U \cup {d}, x)
    BY <2>1, <2>2, <2>4 DEF Evaluates
  <2>6. \E f : Has(f, d)
    BY <2>5
  <2> QED BY <2>1, <2>6 DEF U
<1>4. h = [d \in Exprs |-> h[d]]
  OBVIOUS
<1> HIDE DEF h, U
<1>5. h = [d \in Exprs |-> ValueOfForm(x, h, d)]
  BY <1>2, <1>3, <1>4 DEF Evaluates
<1> QED BY <1>5

\* What expr_value() gives for each form of expression.
LEMMA ExprValueUnfolds ==
    ASSUME NEW x, NEW e \in Exprs
    PROVE  /\ e[1] = "const" => ExprValue(x, e) = Just(e[2])
           /\ e[1] = "item" => ExprValue(x, e) = ItemValue(x, e[2])
           /\ e[1] = "eq" => ExprValue(x, e) =
                 [ItemValue(x, e[2]) EXCEPT !.v = IF @ = e[3] THEN 2 ELSE 0]
           /\ e[1] = "not" => ExprValue(x, e) = [ExprValue(x, e[2]) EXCEPT !.v = 2 - @]
           /\ e[1] = "and" => ExprValue(x, e) = AndOf(ExprValue(x, e[2]), ExprValue(x, e[3]))
           /\ e[1] = "or" => ExprValue(x, e) = OrOf(ExprValue(x, e[2]), ExprValue(x, e[3]))
<1> DEFINE val == CHOOSE val : val = [d \in Exprs |-> ValueOfForm(x, val, d)]
<1>1. \A d : ExprValue(x, d) = val[d]
  BY DEF ExprValue
<1>2. val = [d \in Exprs |-> ValueOfForm(x, val, d)]
  BY ExprValueExists
<1> HIDE DEF val
<1>3. ExprValue(x, e) = ValueOfForm(x, val, e)
  BY <1>1, <1>2
<1>4. CASE e[1] \in {"const", "item", "eq"}
  BY <1>3, <1>4 DEF ValueOfForm
<1>5. CASE e[1] = "not"
  BY <1>1, <1>3, <1>5 DEF ValueOfForm
<1>6. CASE e[1] \in {"and", "or"}
  BY <1>1, <1>3, <1>6 DEF ValueOfForm
<1> QED BY <1>4, <1>5, <1>6, ExprForms

\* The value of an expression is a tristate value.
LEMMA ExprValueFits ==
    ASSUME NEW x, IsEnv(x), NEW e \in Exprs
    PROVE  ExprValue(x, e) \in Calcs(0 .. 2)
<1> DEFINE Wrong == {d \in Exprs : ExprValue(x, d) \notin Calcs(0 .. 2)}
<1> SUFFICES ASSUME Wrong # {} PROVE FALSE
  OBVIOUS
<1>1. PICK d \in Wrong : Parts(d) \cap Wrong = {}
  <2>1. Wrong \in SUBSET Exprs
    OBVIOUS
  <2> QED BY <2>1, TreeAssumption
<1> DEFINE val == [c \in Exprs |-> ExprValue(x, c)]
<1>2. \A c \in Parts(d) : val[c] \in Calcs(0 .. 2) /\ val[c] = ExprValue(x, c)
  BY <1>1, ExprForms
<1> HIDE DEF val
<1>3. ExprValue(x, d) = ValueOfForm(x, val, d)
  <2>1. CASE d[1] \in {"const", "item", "eq"}
    BY <1>1, <2>1, ExprValueUnfolds DEF ValueOfForm
  <2>2. CASE d[1] = "not"
    <3>1. val[d[2]] = ExprValue(x, d[2])
      BY <1>1, <1>2, <2>2, ExprForms
    <3> QED BY <1>1, <2>2, <3>1, ExprValueUnfolds DEF ValueOfForm
  <2>3. CASE d[1] \in {"and", "or"}
    <3>1. val[d[2]] = ExprValue(x, d[2]) /\ val[d[3]] = ExprValue(x, d[3])
      BY <1>1, <1>2, <2>3, ExprForms
    <3> QED BY <1>1, <2>3, <3>1, ExprValueUnfolds DEF ValueOfForm
  <2> QED BY <1>1, <2>1, <2>2, <2>3, ExprForms
<1>4. ValueOfForm(x, val, d) \in Calcs(0 .. 2)
  BY <1>1, <1>2, ValueOfFormFits
<1> QED BY <1>1, <1>3, <1>4

\* The operands of a calculation decide it if those of its parts do.
LEMMA AndOrDetermined ==
    ASSUME NEW x, NEW y, NEW a \in Calcs(0 .. 2), NEW b \in Calcs(0 .. 2), NEW c, NEW d,
           SameReads(a, x, y) => c = a, SameReads(b, x, y) => d = b
    PROVE  /\ SameReads(AndOf(a, b), x, y) => AndOf(c, d) = AndOf(a, b)
           /\ SameReads(OrOf(a, b), x, y) => OrOf(c, d) = OrOf(a, b)
<1>1. ASSUME SameReads(AndOf(a, b), x, y) PROVE AndOf(c, d) = AndOf(a, b)
  <2>1. CASE a.v = 0
    BY <1>1, <2>1 DEF AndOf
  <2>2. CASE a.v # 0
    <3>1. AndOf(a, b).r = a.r \cup b.r
      BY <2>2 DEF AndOf
    <3>2. c = a /\ d = b
      BY <1>1, <3>1 DEF SameReads
    <3> QED BY <3>2
  <2> QED BY <2>1, <2>2
<1>2. ASSUME SameReads(OrOf(a, b), x, y) PROVE OrOf(c, d) = OrOf(a, b)
  <2>1. CASE a.v = 2
    BY <1>2, <2>1 DEF OrOf
  <2>2. CASE a.v # 2
    <3>1. OrOf(a, b).r = a.r \cup b.r
      BY <2>2 DEF OrOf, Both
    <3>2. c = a /\ d = b
      BY <1>2, <3>1 DEF SameReads
    <3> QED BY <3>2
  <2> QED BY <2>1, <2>2
<1> QED BY <1>1, <1>2

\* What an expression reads decides its value and what it reads.
LEMMA ExprDetermined ==
    ASSUME NEW x, IsEnv(x), NEW y, NEW e \in Exprs, SameReads(ExprValue(x, e), x, y)
    PROVE  ExprValue(y, e) = ExprValue(x, e)
<1> DEFINE Wrong == {d \in Exprs : /\ SameReads(ExprValue(x, d), x, y)
                                  /\ ExprValue(y, d) # ExprValue(x, d)}
<1> SUFFICES ASSUME Wrong # {} PROVE FALSE
  OBVIOUS
<1>1. PICK d \in Wrong : Parts(d) \cap Wrong = {}
  <2>1. Wrong \in SUBSET Exprs
    OBVIOUS
  <2> QED BY <2>1, TreeAssumption
<1>2. /\ d \in Exprs /\ SameReads(ExprValue(x, d), x, y)
      /\ ExprValue(y, d) # ExprValue(x, d)
  BY <1>1
<1>3. ASSUME NEW c \in Parts(d)
      PROVE  /\ c \in Exprs
             /\ ExprValue(x, c) \in Calcs(0 .. 2)
             /\ SameReads(ExprValue(x, c), x, y) => ExprValue(y, c) = ExprValue(x, c)
  BY <1>1, ExprForms, ExprValueFits
<1> HIDE DEF Wrong
<1>4. CASE d[1] = "const"
  BY <1>2, <1>4, ExprValueUnfolds
<1>5. CASE d[1] \in {"item", "eq"}
  <2>1. ExprValue(x, d).r = ItemValue(x, d[2]).r
    BY <1>2, <1>5, ExprForms, ExprValueUnfolds, ItemValueIs DEF Calcs
  <2>2. ItemValue(y, d[2]) = ItemValue(x, d[2])
    BY <1>2, <1>5, <2>1, ExprForms, ItemValueIs DEF SameReads
  <2> QED BY <1>2, <1>5, <2>2, ExprValueUnfolds
<1>6. CASE d[1] = "not"
  <2>1. d[2] \in Parts(d)
    BY <1>2, <1>6, ExprForms
  <2>2. ExprValue(x, d).r = ExprValue(x, d[2]).r
    BY <1>2, <1>3, <1>6, <2>1, ExprValueUnfolds DEF Calcs
  <2>3. ExprValue(y, d[2]) = ExprValue(x, d[2])
    BY <1>2, <1>3, <2>1, <2>2 DEF SameReads
  <2> QED BY <1>2, <1>6, <2>3, ExprValueUnfolds
<1>7. CASE d[1] \in {"and", "or"}
  <2>1. d[2] \in Parts(d) /\ d[3] \in Parts(d)
    BY <1>2, <1>7, ExprForms
  <2> QED BY <1>2, <1>3, <1>7, <2>1, ExprValueUnfolds, AndOrDetermined
<1> QED BY <1>2, <1>4, <1>5, <1>6, <1>7, ExprForms

----------------------------------------------------------------------------
(* What is read, and what _depend_on() registers.                           *)

\* No user value of a symbol, and nothing of other items than S and MODULES.
ReadsOf(a, S) ==
    \A q \in a.r : /\ q \in Cells
                   /\ q[1] \in S \cup {Modules}
                   /\ \A s \in Syms : q # <<s, "user">>

\* A result that nothing is read for.
LEMMA JustIs ==
    ASSUME NEW V, NEW v \in V, NEW S
    PROVE  /\ Just(v) \in Calcs(V) /\ ReadsOf(Just(v), S)
           /\ Just(v).v = v /\ Just(v).r = {}
<1>1. {} \in SUBSET Cells
  OBVIOUS
<1>2. Just(v) = [v |-> v, r |-> {}]
  BY DEF Just
<1>3. Just(v) \in Calcs(V)
  BY <1>1, <1>2 DEF Calcs
<1> QED BY <1>2, <1>3 DEF ReadsOf

\* _depend_on() goes down to the operands.
LEMMA DependOnIs ==
    ASSUME NEW e \in Exprs
    PROVE  /\ DependOn(e) \subseteq Items
           /\ e[1] \in {"item", "eq"} => e[2] \in DependOn(e)
           /\ \A d \in Parts(e) : DependOn(d) \subseteq DependOn(e)
<1>1. e[1] \in {"item", "eq"} => e[2] \in Items
  BY ExprForms
<1>2. ASSUME NEW d \in Parts(e), NEW E \in ClosedExprs, e \in E PROVE d \in E
  BY <1>2 DEF ClosedExprs
<1> QED BY <1>1, <1>2 DEF DependOn

\* An expression reads the items it names.
LEMMA ExprReads ==
    ASSUME NEW x, IsEnv(x), NEW e \in Exprs
    PROVE  ReadsOf(ExprValue(x, e), DependOn(e))
<1> DEFINE Wrong == {d \in Exprs : ~ReadsOf(ExprValue(x, d), DependOn(d))}
<1> SUFFICES ASSUME Wrong # {} PROVE FALSE
  OBVIOUS
<1>1. PICK d \in Wrong : Parts(d) \cap Wrong = {}
  <2>1. Wrong \in SUBSET Exprs
    OBVIOUS
  <2> QED BY <2>1, TreeAssumption
<1>2. d \in Exprs /\ ~ReadsOf(ExprValue(x, d), DependOn(d))
  BY <1>1
<1>3. ASSUME NEW c \in Parts(d)
      PROVE  /\ ExprValue(x, c) \in Calcs(0 .. 2)
             /\ ReadsOf(ExprValue(x, c), DependOn(d))
  <2>1. c \in Exprs /\ c \notin Wrong
    BY <1>1, <1>2, ExprForms
  <2>2. DependOn(c) \subseteq DependOn(d)
    BY <1>2, DependOnIs
  <2> QED BY <2>1, <2>2, ExprValueFits DEF ReadsOf
<1> HIDE DEF Wrong
<1>4. CASE d[1] = "const"
  BY <1>2, <1>4, ExprValueUnfolds DEF ReadsOf, Just
<1>5. CASE d[1] \in {"item", "eq"}
  <2>1. d[2] \in Items /\ d[2] \in DependOn(d)
    BY <1>2, <1>5, ExprForms, DependOnIs
  <2>2. ExprValue(x, d).r = ItemValue(x, d[2]).r
    BY <1>2, <1>5, <2>1, ExprValueUnfolds, ItemValueIs DEF Calcs
  <2>3. ReadsOf(ItemValue(x, d[2]), DependOn(d))
    BY <2>1, ItemValueIs DEF ReadsOf, Calcs
  <2> QED BY <1>2, <2>2, <2>3 DEF ReadsOf
<1>6. CASE d[1] = "not"
  <2>1. d[2] \in Parts(d)
    BY <1>2, <1>6, ExprForms
  <2>2. ExprValue(x, d).r = ExprValue(x, d[2]).r
    BY <1>2, <1>3, <1>6, <2>1, ExprValueUnfolds DEF Calcs
  <2> QED BY <1>2, <1>3, <2>1, <2>2 DEF ReadsOf
<1>7. CASE d[1] \in {"and", "or"}
  <2>1. d[2] \in Parts(d) /\ d[3] \in Parts(d)
    BY <1>2, <1>7, ExprForms
  <2>2. ExprValue(x, d).r \subseteq ExprValue(x, d[2]).r \cup ExprValue(x, d[3]).r
    BY <1>2, <1>7, ExprValueUnfolds DEF AndOf, OrOf, Both
  <2> QED BY <1>2, <1>3, <2>1, <2>2 DEF ReadsOf
<1> QED BY <1>2, <1>4, <1>5, <1>6, <1>7, ExprForms

\* The items whose changes reach i, and i.
ReadBy(i) == {i} \cup {j \in Items : i \in TreeDependents[j]}

\* _build_dep() and _add_choice_deps() register what symbols and choices name.
LEMMA SymReadBy ==
    ASSUME NEW s \in Syms
    PROVE  /\ \A e \in {RevDep[s], WeakRevDep[s], DirectDep[s]} \cup PromptExprs(s)
                            \cup Values(s) \cup Conditions(s) :
                 e \in Exprs /\ DependOn(e) \subseteq ReadBy(s)
           /\ ChoiceOf[s] # None => ChoiceOf[s] \in ReadBy(s) /\ ChoiceOf[s] \in Choices
<1> DEFINE exprs == {RevDep[s], WeakRevDep[s], DirectDep[s]} \cup PromptExprs(s)
                      \cup Values(s) \cup Conditions(s)
<1>1. ASSUME NEW e \in exprs PROVE e \in Exprs
  <2>1. CASE e \in PromptExprs(s)
    <3>1. Prompts[s] \in Seq(Exprs)
      BY TreeAssumption DEF Items
    <3> QED BY <2>1, <3>1 DEF PromptExprs
  <2>2. CASE e \in Values(s) \cup Conditions(s)
    <3>1. Defaults[s] \in Seq(Exprs \X Exprs)
      BY TreeAssumption
    <3> QED BY <2>2, <3>1 DEF Values, Conditions
  <2>3. CASE e \in {RevDep[s], WeakRevDep[s], DirectDep[s]}
    BY <2>3, TreeAssumption
  <2> QED BY <2>1, <2>2, <2>3
<1>2. ASSUME NEW e \in exprs, NEW i \in DependOn(e) PROVE i \in ReadBy(s)
  <2>1. i \in Items /\ i \in SymDeps(s)
    BY <1>1, DependOnIs DEF SymDeps, AllOf
  <2> QED BY <2>1 DEF ReadBy, TreeDependents
<1>3. ChoiceOf[s] # None => ChoiceOf[s] \in ReadBy(s) /\ ChoiceOf[s] \in Choices
  <2>1. ChoiceOf[s] # None => ChoiceOf[s] \in DependOn(DirectDep[s])
    BY TreeAssumption
  <2>2. ChoiceOf[s] # None => ChoiceOf[s] \in Choices
    BY ItemsAssumption
  <2> QED BY <1>2, <2>1, <2>2
<1> QED BY <1>1, <1>2, <1>3

\* The same for a choice; _add_choice_deps() adds its symbols.
LEMMA ChoiceReadBy ==
    ASSUME NEW c \in Choices
    PROVE  /\ \A e \in PromptExprs(c) \cup Conditions(c) :
                 e \in Exprs /\ DependOn(e) \subseteq ReadBy(c)
           /\ Members(c) \subseteq ReadBy(c)
<1>0. c \in Items
  BY DEF Items
<1>1. ASSUME NEW e \in PromptExprs(c) \cup Conditions(c) PROVE e \in Exprs
  <2>1. CASE e \in PromptExprs(c)
    <3>1. Prompts[c] \in Seq(Exprs)
      BY <1>0, TreeAssumption
    <3> QED BY <2>1, <3>1 DEF PromptExprs
  <2>2. CASE e \in Conditions(c)
    <3>1. Defaults[c] \in Seq(Members(c) \X Exprs)
      BY TreeAssumption
    <3> QED BY <2>2, <3>1 DEF Conditions
  <2> QED BY <2>1, <2>2
<1>2. ASSUME NEW e \in PromptExprs(c) \cup Conditions(c), NEW i \in DependOn(e)
      PROVE  i \in ReadBy(c)
  <2>1. i \in Items /\ i \in ChoiceDeps(c)
    BY <1>1, DependOnIs DEF ChoiceDeps, AllOf
  <2> QED BY <2>1 DEF ReadBy, TreeDependents
<1>3. ASSUME NEW s \in Members(c) PROVE s \in ReadBy(c)
  <2>1. s \in {ChoiceSyms[c][k] : k \in DOMAIN ChoiceSyms[c]}
    BY TreeAssumption
  <2>2. s \in Items /\ s \in ChoiceDeps(c)
    BY <2>1 DEF ChoiceDeps, Members, Items
  <2> QED BY <2>2 DEF ReadBy, TreeDependents
<1> QED BY <1>1, <1>2, <1>3

----------------------------------------------------------------------------
(* Types.                                                                   *)

Types == {"bool", "tristate"}

\* The type of a symbol reads the mode of its choice and MODULES.
LEMMA SymTypeIs ==
    ASSUME NEW x, IsEnv(x), NEW s \in Syms
    PROVE  /\ SymType(x, s) \in Calcs(Types)
           /\ ReadsOf(SymType(x, s), ReadBy(s))
           /\ \A y : SameReads(SymType(x, s), x, y) => SymType(y, s) = SymType(x, s)
<1> DEFINE c == ChoiceOf[s]
           mode(z) == IF c = None THEN Just(0) ELSE ChoiceTriValue(z, c)
           type(z) == TristateWith(ModulesValue(z))
<1>1. CASE OrigType[s] # "tristate"
  BY <1>1 DEF SymType, Just, Calcs, Types, ReadsOf
<1>2. CASE OrigType[s] = "tristate"
  <2>1. \A z : SymType(z, s) =
                  [v |-> (IF mode(z).v = 2 THEN Just("bool") ELSE type(z)).v,
                   r |-> mode(z).r \cup (IF mode(z).v = 2 THEN Just("bool") ELSE type(z)).r]
    BY <1>2 DEF SymType, TypeInMode, AfterReading
  <2>2. /\ mode(x) \in Calcs(0 .. 2)
        /\ ReadsOf(mode(x), ReadBy(s))
        /\ \A y : SameReads(mode(x), x, y) => mode(y) = mode(x)
    <3>1. CASE c = None
      BY <3>1 DEF Just, Calcs, ReadsOf
    <3>2. CASE c # None
      <4>1. c \in Choices /\ c \in ReadBy(s) /\ c \notin Syms
        BY <3>2, SymReadBy, ItemsAssumption
      <4>2. <<Modules, "val">> \in Cells
        BY CachedTristates, ItemsAssumption
      <4>3. \A z : mode(z) = ChoiceTriValue(z, c)
        BY <3>2
      <4>4. /\ ChoiceTriValue(x, c) \in Calcs(0 .. 2)
            /\ ChoiceTriValue(x, c).r \subseteq {<<c, "user">>, <<c, "vis">>, <<Modules, "val">>}
            /\ \A y : SameReads(ChoiceTriValue(x, c), x, y) =>
                          ChoiceTriValue(y, c) = ChoiceTriValue(x, c)
        BY <4>1, ChoiceTriValueIs
      <4>5. ReadsOf(ChoiceTriValue(x, c), ReadBy(s))
        BY <4>1, <4>2, <4>4 DEF ReadsOf, Calcs
      <4> HIDE DEF mode
      <4> QED BY <4>3, <4>4, <4>5
    <3> QED BY <3>1, <3>2
  <2>3. /\ type(x) \in Calcs(Types)
        /\ ReadsOf(type(x), ReadBy(s))
        /\ \A y : SameReads(type(x), x, y) => type(y) = type(x)
    BY ModulesValueIs DEF TristateWith, Calcs, Types, ReadsOf, SameReads
  <2> HIDE DEF mode, type
  <2>4. SymType(x, s) \in Calcs(Types) /\ ReadsOf(SymType(x, s), ReadBy(s))
    BY <2>1, <2>2, <2>3 DEF Calcs, Types, ReadsOf, Just
  <2>5. ASSUME NEW y, SameReads(SymType(x, s), x, y) PROVE SymType(y, s) = SymType(x, s)
    <3>1. mode(y) = mode(x)
      BY <2>1, <2>2, <2>5 DEF SameReads
    <3>2. CASE mode(x).v = 2
      BY <2>1, <3>1, <3>2
    <3>3. CASE mode(x).v # 2
      <4>1. SymType(x, s).r = mode(x).r \cup type(x).r
        BY <2>1, <3>3
      <4>2. type(y) = type(x)
        BY <2>3, <2>5, <4>1 DEF SameReads
      <4> QED BY <2>1, <3>1, <4>2
    <3> QED BY <3>2, <3>3
  <2> QED BY <2>4, <2>5
<1> QED BY <1>1, <1>2

\* The type of an item, which decides whether m is promoted.
LEMMA TypeOfIs ==
    ASSUME NEW x, IsEnv(x), NEW i \in Items
    PROVE  /\ TypeOf(x, i) \in Calcs(Types)
           /\ ReadsOf(TypeOf(x, i), ReadBy(i))
           /\ \A y : SameReads(TypeOf(x, i), x, y) => TypeOf(y, i) = TypeOf(x, i)
<1>1. CASE i \in Choices
  BY <1>1, ChoiceTypeIs, ModulesValueIs DEF TypeOf, ReadsOf, Types, Calcs
<1>2. CASE i \notin Choices
  BY <1>2, SymTypeIs DEF TypeOf, Items
<1> QED BY <1>1, <1>2

----------------------------------------------------------------------------
(* Visibility.                                                              *)

\* The highest of some tristate values.
LEMMA HighestIs ==
    ASSUME NEW found \in SUBSET Calcs(0 .. 2)
    PROVE  /\ Highest(found) \in Calcs(0 .. 2)
           /\ \A f \in found : f.r \subseteq Highest(found).r /\ Highest(found).v >= f.v
           /\ \A q \in Highest(found).r : \E f \in found : q \in f.r
           /\ Highest(found).v # 0 => \E f \in found : f.v = Highest(found).v
<1> DEFINE V == {0} \cup {f.v : f \in found}
           top(a) == a >= 0 /\ \A f \in found : a >= f.v
<1>1. /\ V \subseteq 0 .. 2 /\ 0 \in V
      /\ \A f \in found : f.v \in V
  BY DEF Calcs
<1>2. \E a \in V : top(a)
  <2>1. ASSUME NEW a \in V, \A b \in V : a >= b PROVE top(a)
    BY <1>1, <2>1
  <2>2. \E a \in V : \A b \in V : a >= b
    <3> HIDE DEF V
    <3>1. CASE 2 \in V
      BY <1>1, <3>1
    <3>2. CASE 2 \notin V /\ 1 \in V
      BY <1>1, <3>2
    <3>3. CASE 2 \notin V /\ 1 \notin V
      <4>1. \A b \in V : b = 0
        BY <1>1, <3>3
      <4> QED BY <1>1, <4>1
    <3> QED BY <3>1, <3>2, <3>3
  <2> HIDE DEF V, top
  <2> QED BY <2>1, <2>2
<1>3. Highest(found) = [v |-> CHOOSE a \in V : top(a), r |-> UNION {f.r : f \in found}]
  BY DEF Highest
<1>4. Highest(found).v \in V /\ top(Highest(found).v)
  <2> HIDE DEF V, top
  <2> QED BY <1>2, <1>3
<1>5. UNION {f.r : f \in found} \subseteq Cells
  BY DEF Calcs
<1> QED BY <1>1, <1>3, <1>4, <1>5 DEF Calcs

\* Every prompt condition is read, so a change to any of them is noticed.
LEMMA PromptLimitIs ==
    ASSUME NEW x, IsEnv(x), NEW prompts \in Seq(Exprs), NEW S,
           \A k \in DOMAIN prompts : DependOn(prompts[k]) \subseteq S
    PROVE  /\ PromptLimit(x, prompts) \in Calcs(0 .. 2)
           /\ ReadsOf(PromptLimit(x, prompts), S)
           /\ \A y : SameReads(PromptLimit(x, prompts), x, y) =>
                 PromptLimit(y, prompts) = PromptLimit(x, prompts)
<1> DEFINE found(z) == {ExprValue(z, prompts[k]) : k \in DOMAIN prompts}
<1>1. \A k \in DOMAIN prompts : prompts[k] \in Exprs
  OBVIOUS
<1>2. found(x) \in SUBSET Calcs(0 .. 2)
  BY <1>1, ExprValueFits
<1>3. \A z : PromptLimit(z, prompts) = Highest(found(z))
  BY DEF PromptLimit
<1>4. ReadsOf(PromptLimit(x, prompts), S)
  <2> SUFFICES ASSUME NEW q \in PromptLimit(x, prompts).r
               PROVE  /\ q \in Cells /\ q[1] \in S \cup {Modules}
                      /\ \A s \in Syms : q # <<s, "user">>
    BY DEF ReadsOf
  <2>1. \E f \in found(x) : q \in f.r
    <3> HIDE DEF found
    <3> QED BY <1>2, <1>3, HighestIs
  <2>2. PICK k \in DOMAIN prompts : q \in ExprValue(x, prompts[k]).r
    BY <2>1
  <2>3. ReadsOf(ExprValue(x, prompts[k]), DependOn(prompts[k]))
    BY <1>1, ExprReads
  <2> QED BY <2>2, <2>3 DEF ReadsOf
<1>5. ASSUME NEW y, SameReads(PromptLimit(x, prompts), x, y)
      PROVE  PromptLimit(y, prompts) = PromptLimit(x, prompts)
  <2>1. ASSUME NEW k \in DOMAIN prompts
        PROVE  ExprValue(y, prompts[k]) = ExprValue(x, prompts[k])
    <3>1. ExprValue(x, prompts[k]) \in found(x)
      OBVIOUS
    <3>2. ExprValue(x, prompts[k]).r \subseteq PromptLimit(x, prompts).r
      <4> HIDE DEF found
      <4> QED BY <1>2, <1>3, <3>1, HighestIs
    <3>3. SameReads(ExprValue(x, prompts[k]), x, y)
      BY <1>5, <3>2 DEF SameReads
    <3> QED BY <1>1, <1>5, <3>3, ExprDetermined
  <2>2. found(y) = found(x)
    BY <2>1
  <2> QED BY <1>3, <2>2
<1> QED BY <1>2, <1>3, <1>4, <1>5, HighestIs

\* The mode that hides a choice symbol is read, if it is looked at.
LEMMA HiddenByModeIs ==
    ASSUME NEW x, IsEnv(x), NEW s \in Syms, ChoiceOf[s] # None, NEW vis
    PROVE  /\ HiddenByMode(x, s, vis) \in Calcs(BOOLEAN)
           /\ ReadsOf(HiddenByMode(x, s, vis), ReadBy(s))
           /\ \A y : SameReads(HiddenByMode(x, s, vis), x, y) =>
                         HiddenByMode(y, s, vis) = HiddenByMode(x, s, vis)
<1> DEFINE c == ChoiceOf[s]
           mode(z) == ChoiceTriValue(z, c)
<1>1. c \in Choices /\ c \in ReadBy(s) /\ c \notin Syms /\ <<Modules, "val">> \in Cells
  BY SymReadBy, ItemsAssumption, CachedTristates
<1>2. /\ mode(x) \in Calcs(0 .. 2)
      /\ mode(x).r \subseteq {<<c, "user">>, <<c, "vis">>, <<Modules, "val">>}
      /\ \A y : SameReads(mode(x), x, y) => mode(y) = mode(x)
  BY <1>1, ChoiceTriValueIs
<1>3. ReadsOf(mode(x), ReadBy(s))
  BY <1>1, <1>2 DEF ReadsOf, Calcs
<1>4. \/ \A z : HiddenByMode(z, s, vis) = Just(FALSE)
      \/ \A z : HiddenByMode(z, s, vis) = [mode(z) EXCEPT !.v = @ # 2]
      \/ \A z : HiddenByMode(z, s, vis) = [mode(z) EXCEPT !.v = @ = 2]
  BY DEF HiddenByMode
<1> HIDE DEF mode, c
<1>5. CASE \A z : HiddenByMode(z, s, vis) = Just(FALSE)
  <2>1. Just(FALSE) \in Calcs(BOOLEAN) /\ ReadsOf(Just(FALSE), ReadBy(s))
    BY JustIs
  <2> QED BY <1>5, <2>1
<1>6. CASE \A z : HiddenByMode(z, s, vis) = [mode(z) EXCEPT !.v = @ # 2]
  <2>1. HiddenByMode(x, s, vis) = [v |-> mode(x).v # 2, r |-> mode(x).r]
    BY <1>2, <1>6 DEF Calcs
  <2>2. HiddenByMode(x, s, vis) \in Calcs(BOOLEAN)
    BY <1>2, <2>1 DEF Calcs
  <2> QED BY <1>2, <1>3, <1>6, <2>1, <2>2 DEF ReadsOf, SameReads
<1>7. CASE \A z : HiddenByMode(z, s, vis) = [mode(z) EXCEPT !.v = @ = 2]
  <2>1. HiddenByMode(x, s, vis) = [v |-> mode(x).v = 2, r |-> mode(x).r]
    BY <1>2, <1>7 DEF Calcs
  <2>2. HiddenByMode(x, s, vis) \in Calcs(BOOLEAN)
    BY <1>2, <2>1 DEF Calcs
  <2> QED BY <1>2, <1>3, <1>7, <2>1, <2>2 DEF ReadsOf, SameReads
<1> QED BY <1>4, <1>5, <1>6, <1>7

\* _visibility().
LEMMA VisibilityIs ==
    ASSUME NEW x, IsEnv(x), NEW i \in Items
    PROVE  /\ Visibility(x, i) \in Calcs(0 .. 2)
           /\ ReadsOf(Visibility(x, i), ReadBy(i))
           /\ \A y : SameReads(Visibility(x, i), x, y) =>
                         Visibility(y, i) = Visibility(x, i)
<1> DEFINE limit(z) == PromptLimit(z, Prompts[i])
           free == i \in Choices \/ ChoiceOf[i] = None
           hidden(z, vis) == IF free THEN Just(FALSE) ELSE HiddenByMode(z, i, vis)
           type(z) == TypeOf(z, i)
           shown(z) == VisOfType(hidden(z, limit(z).v), limit(z).v, type(z))
<1>1. \A z : Visibility(z, i) = [v |-> shown(z).v, r |-> limit(z).r \cup shown(z).r]
  BY DEF Visibility, VisWithin, AfterReading
<1>2. /\ limit(x) \in Calcs(0 .. 2) /\ ReadsOf(limit(x), ReadBy(i))
      /\ \A y : SameReads(limit(x), x, y) => limit(y) = limit(x)
  <2>1. Prompts[i] \in Seq(Exprs)
    BY TreeAssumption
  <2>2. \A k \in DOMAIN Prompts[i] : DependOn(Prompts[i][k]) \subseteq ReadBy(i)
    BY SymReadBy, ChoiceReadBy DEF PromptExprs, Items
  <2> QED BY <2>1, <2>2, PromptLimitIs
<1>3. ASSUME NEW vis
      PROVE  /\ hidden(x, vis) \in Calcs(BOOLEAN) /\ ReadsOf(hidden(x, vis), ReadBy(i))
             /\ \A y : SameReads(hidden(x, vis), x, y) => hidden(y, vis) = hidden(x, vis)
  <2>1. CASE free
    BY <2>1 DEF Just, Calcs, ReadsOf
  <2>2. CASE ~free
    BY <2>2, HiddenByModeIs DEF Items
  <2> QED BY <2>1, <2>2
<1>4. /\ type(x) \in Calcs(Types) /\ ReadsOf(type(x), ReadBy(i))
      /\ \A y : SameReads(type(x), x, y) => type(y) = type(x)
  BY TypeOfIs
<1>5. \A z : shown(z) =
        [v |-> (IF hidden(z, limit(z).v).v THEN Just(0)
                ELSE IF limit(z).v # 1 THEN Just(limit(z).v)
                ELSE [type(z) EXCEPT !.v = IF @ = "tristate" THEN 1 ELSE 2]).v,
         r |-> hidden(z, limit(z).v).r \cup
               (IF hidden(z, limit(z).v).v THEN Just(0)
                ELSE IF limit(z).v # 1 THEN Just(limit(z).v)
                ELSE [type(z) EXCEPT !.v = IF @ = "tristate" THEN 1 ELSE 2]).r]
  BY DEF VisOfType, AfterReading
<1> HIDE DEF limit, hidden, type, shown
<1>6. shown(x) \in Calcs(0 .. 2) /\ ReadsOf(shown(x), ReadBy(i))
  BY <1>2, <1>3, <1>4, <1>5 DEF Just, Calcs, ReadsOf
<1>7. ASSUME NEW y, SameReads(Visibility(x, i), x, y)
      PROVE  Visibility(y, i) = Visibility(x, i)
  <2>1. limit(y) = limit(x)
    BY <1>1, <1>2, <1>7 DEF SameReads
  <2>2. SameReads(shown(x), x, y)
    BY <1>1, <1>7 DEF SameReads
  <2>3. hidden(y, limit(y).v) = hidden(x, limit(x).v)
    BY <1>3, <1>5, <2>1, <2>2 DEF SameReads
  <2>4. CASE hidden(x, limit(x).v).v \/ limit(x).v # 1
    <3>1. shown(y) = shown(x)
      BY <1>5, <2>1, <2>3, <2>4
    <3> QED BY <1>1, <2>1, <3>1
  <2>5. CASE ~hidden(x, limit(x).v).v /\ limit(x).v = 1
    <3>1. shown(x).r = hidden(x, limit(x).v).r \cup type(x).r
      BY <1>4, <1>5, <2>5 DEF Calcs
    <3>2. type(y) = type(x)
      BY <1>4, <2>2, <3>1 DEF SameReads
    <3>3. shown(y) = shown(x)
      BY <1>5, <2>1, <2>3, <3>2
    <3> QED BY <1>1, <2>1, <3>3
  <2> QED BY <2>4, <2>5
<1> QED BY <1>1, <1>2, <1>6, <1>7 DEF Calcs, ReadsOf

----------------------------------------------------------------------------
(* The first of several things.                                             *)

\* A set of numbers has a least one.
LEMMA LeastNumber ==
    ASSUME NEW K \in SUBSET Nat, K # {}
    PROVE  \E k \in K : \A j \in K : k <= j
<1> DEFINE R == {ss \in Nat \X Nat : ss[1] < ss[2]}
<1>1. IsWellFoundedOn(R, Nat)
  BY NatLessThanWellFounded DEF OpToRel
<1>2. PICK k \in K : \A j \in K : ~(<<j, k>> \in R)
  <2> HIDE DEF R
  <2> QED BY <1>1, WFMin
<1>3. ASSUME NEW j \in K PROVE k <= j
  <2>1. <<j, k>> \in Nat \X Nat /\ <<j, k>>[1] = j /\ <<j, k>>[2] = k
    OBVIOUS
  <2>2. ~(j < k)
    BY <1>2, <2>1
  <2>3. j \in Nat /\ k \in Nat
    OBVIOUS
  <2> QED BY <2>2, <2>3
<1> QED BY <1>3

DefaultsWith(g) == {[k |-> k, is |-> g[k]] : k \in DOMAIN g}

\* Those looked at, up to the first with a value that is not 0.
Tried(g) == {k \in DOMAIN g : \A h \in DOMAIN g : g[h].v # 0 => k <= h}

\* First() stops at the first value that is not 0 and reads nothing after it.
LEMMA FirstIs ==
    ASSUME NEW K \in SUBSET Nat, NEW g, DOMAIN g = K
    PROVE  /\ First(DefaultsWith(g)).v = {[k |-> k, is |-> g[k]] : k \in {h \in Tried(g) : g[h].v # 0}}
           /\ First(DefaultsWith(g)).r = UNION {g[k].r : k \in Tried(g)}
           /\ First(DefaultsWith(g)).v # {} =>
                 \E k \in K : /\ The(First(DefaultsWith(g)).v) = [k |-> k, is |-> g[k]]
                              /\ g[k].v # 0
           /\ First(DefaultsWith(g)).v = {} => \A k \in K : g[k].v = 0
<1> DEFINE found == DefaultsWith(g)
           rec(k) == [k |-> k, is |-> g[k]]
           hits == {f \in found : f.is.v # 0}
           tried == {f \in found : \A h \in hits : f.k <= h.k}
<1> DEFINE reads == UNION {f.is.r : f \in tried}
<1>1. First(found) = [v |-> hits \cap tried, r |-> reads]
  BY DEF First, UpTo
<1>2. /\ \A k \in K : rec(k) \in found /\ rec(k).k = k /\ rec(k).is = g[k]
      /\ \A f \in found : f.k \in K /\ f = rec(f.k)
  BY DEF DefaultsWith
<1> HIDE DEF found, rec
<1>3. ASSUME NEW k \in K PROVE rec(k) \in tried <=> k \in Tried(g)
  <2>1. k \in Tried(g) <=> \A h \in K : g[h].v # 0 => k <= h
    BY DEF Tried
  <2>2. rec(k) \in tried <=> \A f \in found : f.is.v # 0 => k <= f.k
    BY <1>2
  <2>3. ASSUME \A h \in K : g[h].v # 0 => k <= h, NEW f \in found, f.is.v # 0
        PROVE  k <= f.k
    <3>1. f.k \in K /\ f.is = g[f.k]
      BY <1>2
    <3> QED BY <2>3, <3>1
  <2>4. ASSUME \A f \in found : f.is.v # 0 => k <= f.k, NEW h \in K, g[h].v # 0
        PROVE  k <= h
    BY <1>2, <2>4
  <2> QED BY <2>1, <2>2, <2>3, <2>4
<1>4. Tried(g) \subseteq K
  BY DEF Tried
<1>5. hits \cap tried = {rec(k) : k \in {h \in Tried(g) : g[h].v # 0}}
  <2>1. ASSUME NEW f \in hits \cap tried PROVE f \in {rec(k) : k \in {h \in Tried(g) : g[h].v # 0}}
    <3>1. f.k \in K /\ f = rec(f.k) /\ f.is = g[f.k]
      BY <1>2
    <3> QED BY <1>3, <3>1
  <2>2. ASSUME NEW k \in Tried(g), g[k].v # 0 PROVE rec(k) \in hits \cap tried
    BY <1>2, <1>3, <1>4, <2>2
  <2> QED BY <2>1, <2>2
<1>6. reads = UNION {g[k].r : k \in Tried(g)}
  <2>1. ASSUME NEW f \in tried PROVE f.k \in Tried(g) /\ f.is = g[f.k]
    BY <1>2, <1>3
  <2>2. ASSUME NEW k \in Tried(g) PROVE rec(k) \in tried /\ rec(k).is = g[k]
    BY <1>2, <1>3, <1>4
  <2> QED BY <2>1, <2>2
<1> HIDE DEF hits, tried, reads
<1>7. /\ First(found).v = {rec(k) : k \in {h \in Tried(g) : g[h].v # 0}}
      /\ First(found).r = UNION {g[k].r : k \in Tried(g)}
  BY <1>1, <1>5, <1>6
<1>8. ASSUME First(found).v # {}
      PROVE  \E k \in K : The(First(found).v) = rec(k) /\ g[k].v # 0
  <2>1. The(First(found).v) \in First(found).v
    BY <1>8 DEF The
  <2> QED BY <1>4, <1>7, <2>1
<1>9. ASSUME First(found).v = {}, NEW k \in K, g[k].v # 0 PROVE FALSE
  <2>1. PICK j \in {h \in K : g[h].v # 0} : \A h \in {h \in K : g[h].v # 0} : j <= h
    <3>1. {h \in K : g[h].v # 0} # {} /\ {h \in K : g[h].v # 0} \in SUBSET Nat
      BY <1>9
    <3> QED BY <3>1, LeastNumber
  <2>2. j \in Tried(g) /\ g[j].v # 0
    BY <2>1 DEF Tried
  <2> QED BY <1>7, <1>9, <2>2
<1>10. First(found).v = {} => \A k \in K : g[k].v = 0
  BY <1>9
<1> QED BY <1>7, <1>8, <1>10 DEF found, rec

\* One is found if there is one.
LEMMA FirstFinds ==
    ASSUME NEW K \in SUBSET Nat, NEW g, DOMAIN g = K,
           First(DefaultsWith(g)).v = {}, NEW k \in K
    PROVE  g[k].v = 0
<1> DEFINE hits == First(DefaultsWith(g)).v
<1>1. hits = {} => \A h \in K : g[h].v = 0
  <2> HIDE DEF hits
  <2> QED BY FirstIs DEF hits
<1> QED BY <1>1

\* What has been looked at decides which one is the first.
LEMMA FirstDetermined ==
    ASSUME NEW K \in SUBSET Nat, NEW g, DOMAIN g = K,
           NEW h, DOMAIN h = K,
           \A k \in Tried(g) : h[k] = g[k]
    PROVE  First(DefaultsWith(h)) = First(DefaultsWith(g))
<1>1. Tried(g) \subseteq Tried(h)
  <2> SUFFICES ASSUME NEW k \in Tried(g), NEW j \in K, h[j].v # 0, ~(k <= j) PROVE FALSE
    BY DEF Tried
  <2>0. k \in Nat /\ j \in Nat /\ \A i \in K : g[i].v # 0 => k <= i
    BY DEF Tried
  <2>1. j \in Tried(g)
    <3>1. ASSUME NEW i \in K, g[i].v # 0 PROVE j <= i
      <4>1. i \in Nat /\ k <= i /\ ~(k <= j) /\ k \in Nat /\ j \in Nat
        BY <2>0, <3>1
      <4> QED BY <4>1
    <3> QED BY <3>1 DEF Tried
  <2> QED BY <2>0, <2>1
<1>2. Tried(h) \subseteq Tried(g)
  <2> SUFFICES ASSUME NEW k \in Tried(h), NEW j \in K, g[j].v # 0, ~(k <= j) PROVE FALSE
    BY DEF Tried
  <2>0. j \in {d \in K : g[d].v # 0} /\ {d \in K : g[d].v # 0} \in SUBSET Nat
    OBVIOUS
  <2>1. PICK i \in {d \in K : g[d].v # 0} : \A d \in {d \in K : g[d].v # 0} : i <= d
    BY <2>0, LeastNumber
  <2>2. i \in Tried(g) /\ i \in K /\ g[i].v # 0 /\ i <= j
    BY <2>1 DEF Tried
  <2>3. h[i].v # 0
    BY <2>2
  <2>4. k \in K /\ k <= i
    BY <2>2, <2>3 DEF Tried
  <2> QED BY <2>2, <2>4
<1>3. Tried(h) = Tried(g)
  BY <1>1, <1>2
<1>4. First(DefaultsWith(h)).v = First(DefaultsWith(g)).v
  <2>1. \A k \in Tried(g) : h[k] = g[k] /\ [k |-> k, is |-> h[k]] = [k |-> k, is |-> g[k]]
    OBVIOUS
  <2>2. {k \in Tried(h) : h[k].v # 0} = {k \in Tried(g) : g[k].v # 0}
    BY <1>3
  <2>3. {[k |-> k, is |-> h[k]] : k \in {d \in Tried(h) : h[d].v # 0}}
          = {[k |-> k, is |-> g[k]] : k \in {d \in Tried(g) : g[d].v # 0}}
    BY <2>1, <2>2
  <2> QED BY <2>3, FirstIs
<1>5. First(DefaultsWith(h)).r = First(DefaultsWith(g)).r
  <2>1. UNION {h[k].r : k \in Tried(h)} = UNION {g[k].r : k \in Tried(g)}
    BY <1>3
  <2> QED BY <2>1, FirstIs
<1>6. \A f : First(f) = [v |-> First(f).v, r |-> First(f).r]
  BY DEF First, UpTo
<1> QED BY <1>4, <1>5, <1>6

----------------------------------------------------------------------------
(* Values of symbols.                                                       *)

\* b is a, if what a read holds the same in y as in x.
Decided(a, b, x, y) == SameReads(a, x, y) => b = a

\* The defaults after the first that applies are not read.
LEMMA FirstDefaultIs ==
    ASSUME NEW x, IsEnv(x), NEW defaults \in Seq(Exprs \X Exprs), NEW S,
           \A k \in DOMAIN defaults : /\ DependOn(defaults[k][1]) \subseteq S
                                      /\ DependOn(defaults[k][2]) \subseteq S
    PROVE  /\ FirstDefault(x, defaults) \in Calcs(0 .. 2)
           /\ ReadsOf(FirstDefault(x, defaults), S)
           /\ \A y :
                 Decided(FirstDefault(x, defaults), FirstDefault(y, defaults), x, y)
<1> DEFINE K == DOMAIN defaults
           cond(z) == [k \in K |-> ExprValue(z, defaults[k][2])]
           first(z) == First(DefaultsWith(cond(z)))
           value(z, f) == LimitedTo(The(f.v).is.v, ExprValue(z, defaults[The(f.v).k][1]))
           rest(z, f) == IF f.v = {} THEN Just(0) ELSE value(z, f)
<1>1. \A z : FirstDefault(z, defaults) =
                [v |-> rest(z, first(z)).v, r |-> first(z).r \cup rest(z, first(z)).r]
  <2>1. \A z : DefaultsWith(cond(z)) =
                  {[k |-> k, is |-> ExprValue(z, defaults[k][2])] : k \in DOMAIN defaults}
    BY DEF DefaultsWith
  <2> QED BY <2>1 DEF FirstDefault, DefaultAt, AfterReading
<1>2. /\ K \in SUBSET Nat
      /\ \A k \in K : defaults[k][1] \in Exprs /\ defaults[k][2] \in Exprs
  OBVIOUS
<1>3. \A z : IsEnv(z) => cond(z) \in [K -> Calcs(0 .. 2)]
  BY <1>2, ExprValueFits
<1>4. /\ first(x).r = UNION {cond(x)[k].r : k \in Tried(cond(x))}
      /\ first(x).v # {} => \E k \in K : The(first(x).v) = [k |-> k, is |-> cond(x)[k]]
  <2> HIDE DEF cond
  <2> QED BY <1>2, <1>3, FirstIs
<1>5. ReadsOf(first(x), S) /\ first(x).r \subseteq Cells
  <2>1. ASSUME NEW k \in K PROVE ReadsOf(cond(x)[k], S)
    BY <1>2, ExprReads DEF ReadsOf
  <2>2. Tried(cond(x)) \subseteq K
    BY DEF Tried
  <2> HIDE DEF cond, first
  <2> QED BY <1>4, <2>1, <2>2 DEF ReadsOf
<1>6. rest(x, first(x)) \in Calcs(0 .. 2) /\ ReadsOf(rest(x, first(x)), S)
  <2>1. CASE first(x).v = {}
    <3>1. Just(0) \in Calcs(0 .. 2) /\ ReadsOf(Just(0), S)
      BY DEF Just, Calcs, ReadsOf
    <3>2. rest(x, first(x)) = Just(0)
      <4> HIDE DEF first, cond
      <4> QED BY <2>1
    <3> QED BY <3>1, <3>2
  <2>2. CASE first(x).v # {}
    <3>1. PICK k \in K : The(first(x).v) = [k |-> k, is |-> cond(x)[k]]
      BY <1>4, <2>2
    <3>2. /\ ExprValue(x, defaults[k][1]) \in Calcs(0 .. 2)
          /\ ReadsOf(ExprValue(x, defaults[k][1]), S)
      BY <1>2, ExprValueFits, ExprReads DEF ReadsOf
    <3>3. cond(x)[k].v \in 0 .. 2
      BY <1>3 DEF Calcs
    <3>4. rest(x, first(x)) = LimitedTo(cond(x)[k].v, ExprValue(x, defaults[k][1]))
      <4> HIDE DEF first, cond
      <4> QED BY <2>2, <3>1
    <3> HIDE DEF rest, first, cond
    <3> QED BY <3>2, <3>3, <3>4 DEF LimitedTo, Least, Calcs, ReadsOf
  <2> QED BY <2>1, <2>2
<1>7. ASSUME NEW y, SameReads(FirstDefault(x, defaults), x, y)
      PROVE  FirstDefault(y, defaults) = FirstDefault(x, defaults)
  <2>1. \A q \in first(x).r \cup rest(x, first(x)).r : x[q] = y[q]
    <3> HIDE DEF rest, first, cond
    <3> QED BY <1>1, <1>7 DEF SameReads
  <2>2. ASSUME NEW k \in Tried(cond(x)) PROVE cond(y)[k] = cond(x)[k]
    <3>1. k \in K
      BY DEF Tried
    <3>2. SameReads(cond(x)[k], x, y)
      <4> HIDE DEF cond, first
      <4> QED BY <1>4, <2>1 DEF SameReads
    <3> QED BY <1>2, <1>7, <3>1, <3>2, ExprDetermined
  <2>3. first(y) = first(x)
    <3>1. DOMAIN cond(x) = K /\ DOMAIN cond(y) = K
      OBVIOUS
    <3> HIDE DEF cond
    <3> QED BY <1>2, <2>2, <3>1, FirstDetermined
  <2>4. CASE first(x).v = {}
    BY <1>1, <2>3, <2>4
  <2>5. CASE first(x).v # {}
    <3>1. PICK k \in K : The(first(x).v) = [k |-> k, is |-> cond(x)[k]]
      BY <1>4, <2>5
    <3>2. ExprValue(x, defaults[k][1]) \in Calcs(0 .. 2)
      BY <1>2, ExprValueFits
    <3>3. /\ rest(x, first(x)) = LimitedTo(cond(x)[k].v, ExprValue(x, defaults[k][1]))
          /\ rest(y, first(x)) = LimitedTo(cond(x)[k].v, ExprValue(y, defaults[k][1]))
      <4> HIDE DEF first, cond
      <4> QED BY <2>5, <3>1
    <3>4. SameReads(ExprValue(x, defaults[k][1]), x, y)
      <4> HIDE DEF rest, first, cond
      <4> QED BY <2>1, <3>2, <3>3 DEF LimitedTo, Calcs, SameReads
    <3>5. ExprValue(y, defaults[k][1]) = ExprValue(x, defaults[k][1])
      BY <1>2, <1>7, <3>4, ExprDetermined
    <3> HIDE DEF rest, first, cond
    <3> QED BY <1>1, <2>3, <3>3, <3>5
  <2> QED BY <2>4, <2>5
<1> HIDE DEF rest, first, cond
<1> QED BY <1>1, <1>5, <1>6, <1>7 DEF Calcs, ReadsOf, Decided

\* What weak and direct decide, 'imply' decides.
LEMMA IfMetIs ==
    ASSUME NEW weak \in Calcs(0 .. 2), NEW direct \in Calcs(0 .. 2)
    PROVE  /\ IfMet(weak, direct) \in Calcs(0 .. 2)
           /\ IfMet(weak, direct).r \subseteq weak.r \cup direct.r
           /\ \A x, y, w, d : Decided(weak, w, x, y) /\ Decided(direct, d, x, y) =>
                 Decided(IfMet(weak, direct), IfMet(w, d), x, y)
<1>1. CASE weak.v = 0
  BY <1>1 DEF IfMet, Decided
<1>2. CASE weak.v # 0
  <2>1. IfMet(weak, direct) =
          [v |-> IF direct.v = 0 THEN 0 ELSE weak.v, r |-> weak.r \cup direct.r]
    BY <1>2 DEF IfMet
  <2>2. IfMet(weak, direct) \in Calcs(0 .. 2)
    BY <2>1 DEF Calcs
  <2>3. ASSUME NEW x, NEW y, SameReads(IfMet(weak, direct), x, y)
        PROVE  SameReads(weak, x, y) /\ SameReads(direct, x, y)
    BY <2>1, <2>3 DEF SameReads
  <2> QED BY <2>1, <2>2, <2>3 DEF Decided
<1> QED BY <1>1, <1>2

\* The direct dependencies are read only if something implies the symbol.
LEMMA ImpliedIs ==
    ASSUME NEW x, IsEnv(x), NEW s \in Syms
    PROVE  /\ Implied(x, s) \in Calcs(0 .. 2)
           /\ ReadsOf(Implied(x, s), ReadBy(s))
           /\ \A y : Decided(Implied(x, s), Implied(y, s), x, y)
<1>1. /\ WeakRevDep[s] \in Exprs /\ DependOn(WeakRevDep[s]) \subseteq ReadBy(s)
      /\ DirectDep[s] \in Exprs /\ DependOn(DirectDep[s]) \subseteq ReadBy(s)
  BY SymReadBy
<1>2. ASSUME NEW e \in {WeakRevDep[s], DirectDep[s]}
      PROVE  /\ ExprValue(x, e) \in Calcs(0 .. 2) /\ ReadsOf(ExprValue(x, e), ReadBy(s))
             /\ \A y : Decided(ExprValue(x, e), ExprValue(y, e), x, y)
  BY <1>1, ExprValueFits, ExprReads, ExprDetermined DEF ReadsOf, Decided
<1>3. \A z : Implied(z, s) = IfMet(ExprValue(z, WeakRevDep[s]), ExprValue(z, DirectDep[s]))
  BY DEF Implied
<1>4. Implied(x, s) \in Calcs(0 .. 2)
  BY <1>2, <1>3, IfMetIs
<1>5. Implied(x, s).r \subseteq ExprValue(x, WeakRevDep[s]).r \cup ExprValue(x, DirectDep[s]).r
  BY <1>2, <1>3, IfMetIs
<1>6. ReadsOf(Implied(x, s), ReadBy(s))
  BY <1>2, <1>5 DEF ReadsOf
<1>7. ASSUME NEW y PROVE Decided(Implied(x, s), Implied(y, s), x, y)
  BY <1>2, <1>3, <1>7, IfMetIs
<1> QED BY <1>4, <1>6, <1>7

\* What an attribute of s may read, when its visibility is vis: its own user
\* value only if it is visible.
ReadsOfSym(a, s, vis) ==
    \A q \in a.r : \/ q = <<s, "user">> /\ vis # 0
                   \/ /\ q \in Cells
                      /\ q[1] \in ReadBy(s) \cup {Modules}
                      /\ \A t \in Syms : q # <<t, "user">>

\* Both of two calculations are made.
LEMMA BothIs ==
    ASSUME NEW a \in Calcs(0 .. 2), NEW b \in Calcs(0 .. 2)
    PROVE  /\ Both(a, b) \in Calcs(0 .. 2)
           /\ Both(a, b).r = a.r \cup b.r
           /\ \A x, y, c, d : Decided(a, c, x, y) /\ Decided(b, d, x, y) =>
                 Decided(Both(a, b), Both(c, d), x, y)
<1>1. Both(a, b) = [v |-> Greatest(a.v, b.v), r |-> a.r \cup b.r]
  BY DEF Both
<1>2. Both(a, b) \in Calcs(0 .. 2)
  BY <1>1 DEF Greatest, Calcs
<1>3. ASSUME NEW x, NEW y, SameReads(Both(a, b), x, y)
      PROVE  SameReads(a, x, y) /\ SameReads(b, x, y)
  BY <1>1, <1>3 DEF SameReads
<1> QED BY <1>1, <1>2, <1>3 DEF Decided

\* The user value, if the symbol is visible, or else defaults and implies.
LEMMA UserOrDefaultIs ==
    ASSUME NEW x, IsEnv(x), NEW s \in Syms, NEW vis \in 0 .. 2
    PROVE  /\ UserOrDefault(x, s, vis) \in Calcs(0 .. 2)
           /\ ReadsOfSym(UserOrDefault(x, s, vis), s, vis)
           /\ \A y :
                 Decided(UserOrDefault(x, s, vis), UserOrDefault(y, s, vis), x, y)
<1> DEFINE user(z) == z[<<s, "user">>]
           rest(z) == Both(FirstDefault(z, Defaults[s]), Implied(z, s))
<1>1. /\ FirstDefault(x, Defaults[s]) \in Calcs(0 .. 2)
      /\ ReadsOf(FirstDefault(x, Defaults[s]), ReadBy(s))
      /\ \A y :
            Decided(FirstDefault(x, Defaults[s]), FirstDefault(y, Defaults[s]), x, y)
  <2>1. Defaults[s] \in Seq(Exprs \X Exprs)
    BY TreeAssumption
  <2>2. \A k \in DOMAIN Defaults[s] : /\ DependOn(Defaults[s][k][1]) \subseteq ReadBy(s)
                                      /\ DependOn(Defaults[s][k][2]) \subseteq ReadBy(s)
    BY SymReadBy DEF Values, Conditions
  <2> QED BY <2>1, <2>2, FirstDefaultIs
<1>2. rest(x) \in Calcs(0 .. 2)
  BY <1>1, ImpliedIs, BothIs
<1>3. ReadsOf(rest(x), ReadBy(s))
  <2>1. rest(x).r = FirstDefault(x, Defaults[s]).r \cup Implied(x, s).r
    BY <1>1, ImpliedIs, BothIs
  <2> HIDE DEF rest
  <2> QED BY <1>1, <2>1, ImpliedIs DEF ReadsOf
<1>4. ASSUME NEW y PROVE Decided(rest(x), rest(y), x, y)
  BY <1>1, <1>4, ImpliedIs, BothIs
<1>5. <<s, "user">> \in Cells /\ user(x) \in (0 .. 2) \cup {None}
  <2>1. <<s, "user">> \in Cells /\ CellValues(<<s, "user">>) = TypeValues(s)
    BY CellForms, CellKinds DEF Items
  <2> QED BY <2>1 DEF IsEnv, TypeValues
<1>6. \A z : UserOrDefault(z, s, vis) =
         IF vis = 0 THEN rest(z)
         ELSE AfterReading({<<s, "user">>},
                 IF user(z) # None THEN Just(Least(user(z), vis)) ELSE rest(z))
  BY DEF UserOrDefault
<1> HIDE DEF rest
<1>7. CASE vis = 0
  BY <1>2, <1>3, <1>4, <1>6, <1>7 DEF ReadsOf, ReadsOfSym
<1>8. CASE vis # 0 /\ user(x) # None
  <2>1. \A z : user(z) = user(x) =>
           UserOrDefault(z, s, vis) = [v |-> Least(user(x), vis), r |-> {<<s, "user">>}]
    BY <1>6, <1>8 DEF AfterReading, Just
  <2>2. UserOrDefault(x, s, vis) \in Calcs(0 .. 2)
    BY <1>5, <1>8, <2>1 DEF Least, Calcs
  <2>3. UserOrDefault(x, s, vis).r = {<<s, "user">>}
    BY <2>1
  <2> QED BY <1>8, <2>1, <2>2, <2>3 DEF ReadsOfSym, SameReads, Decided
<1>9. CASE vis # 0 /\ user(x) = None
  <2>1. \A z : user(z) = user(x) =>
           UserOrDefault(z, s, vis) = [v |-> rest(z).v, r |-> {<<s, "user">>} \cup rest(z).r]
    BY <1>6, <1>9 DEF AfterReading
  <2>2. UserOrDefault(x, s, vis) \in Calcs(0 .. 2)
    BY <1>2, <1>5, <2>1 DEF Calcs
  <2>3. UserOrDefault(x, s, vis).r = {<<s, "user">>} \cup rest(x).r
    BY <2>1
  <2>4. ReadsOfSym(UserOrDefault(x, s, vis), s, vis)
    BY <1>3, <1>9, <2>3 DEF ReadsOf, ReadsOfSym
  <2>5. ASSUME NEW y, SameReads(UserOrDefault(x, s, vis), x, y)
        PROVE  UserOrDefault(y, s, vis) = UserOrDefault(x, s, vis)
    <3>1. user(y) = user(x) /\ SameReads(rest(x), x, y)
      BY <2>3, <2>5 DEF SameReads
    <3>2. rest(y) = rest(x)
      BY <1>4, <2>5, <3>1 DEF Decided
    <3> QED BY <2>1, <3>1, <3>2
  <2> QED BY <2>2, <2>4, <2>5 DEF Decided
<1> QED BY <1>7, <1>8, <1>9

\* The type and what implies a symbol are read only to promote an m.
LEMMA PromotedIs ==
    ASSUME NEW val \in 0 .. 2, NEW type \in Calcs(Types), NEW weak \in Calcs(0 .. 2)
    PROVE  /\ Promoted(val, type, weak) \in Calcs(0 .. 2)
           /\ Promoted(val, type, weak).r \subseteq type.r \cup weak.r
           /\ \A x, y, t, w : Decided(type, t, x, y) /\ Decided(weak, w, x, y) =>
                 Decided(Promoted(val, type, weak), Promoted(val, t, w), x, y)
<1>1. CASE val # 1
  BY <1>1 DEF Promoted, Just, Calcs, Decided
<1>2. CASE val = 1 /\ type.v = "bool"
  <2>1. \A w : Promoted(val, type, w) = [v |-> 2, r |-> type.r]
    BY <1>2 DEF Promoted, AfterReading, Just, Calcs
  <2>2. Promoted(val, type, weak) \in Calcs(0 .. 2)
    BY <2>1 DEF Calcs
  <2> QED BY <2>1, <2>2 DEF SameReads, Decided
<1>3. CASE val = 1 /\ type.v # "bool"
  <2>1. Promoted(val, type, weak) = [v |-> IF weak.v = 2 THEN 2 ELSE 1, r |-> type.r \cup weak.r]
    BY <1>3 DEF Promoted, AfterReading, Calcs
  <2>2. Promoted(val, type, weak) \in Calcs(0 .. 2)
    BY <2>1 DEF Calcs
  <2>3. ASSUME NEW x, NEW y, SameReads(Promoted(val, type, weak), x, y)
        PROVE  SameReads(type, x, y) /\ SameReads(weak, x, y)
    BY <2>1, <2>3 DEF SameReads
  <2> QED BY <2>1, <2>2, <2>3 DEF Decided
<1> QED BY <1>1, <1>2, <1>3

\* The selects, the type and 'imply', for a base value.
LEMMA WithSelectIs ==
    ASSUME NEW base \in Calcs(0 .. 2), NEW sel \in Calcs(0 .. 2), NEW direct \in Calcs(0 .. 2),
           NEW type \in Calcs(Types), NEW weak \in Calcs(0 .. 2)
    PROVE  /\ WithSelect(base, sel, direct, type, weak) \in Calcs(0 .. 2)
           /\ WithSelect(base, sel, direct, type, weak).r \subseteq
                 base.r \cup sel.r \cup direct.r \cup type.r \cup weak.r
           /\ \A x, y, b, s, d, t, w :
                 /\ Decided(base, b, x, y) /\ Decided(sel, s, x, y) /\ Decided(direct, d, x, y)
                 /\ Decided(type, t, x, y) /\ Decided(weak, w, x, y)
                 => Decided(WithSelect(base, sel, direct, type, weak),
                            WithSelect(b, s, d, t, w), x, y)
<1> DEFINE val == Greatest(base.v, sel.v)
           promoted(t, w) == Promoted(val, t, w)
           warned(d) == IF sel.v = 0 THEN {} ELSE d.r
<1>1. \A d, t, w : WithSelect(base, sel, d, t, w) =
          [v |-> promoted(t, w).v, r |-> (base.r \cup sel.r \cup warned(d)) \cup promoted(t, w).r]
  BY DEF WithSelect, AfterReading
<1>2. val \in 0 .. 2
  BY DEF Greatest, Calcs
<1>3. promoted(type, weak) \in Calcs(0 .. 2) /\ promoted(type, weak).r \subseteq type.r \cup weak.r
  BY <1>2, PromotedIs
<1>4. warned(direct) \subseteq direct.r /\ warned(direct) \subseteq Cells
  BY DEF Calcs
<1>5. ASSUME NEW x, NEW y, NEW b, NEW s, NEW d, NEW t, NEW w,
             Decided(base, b, x, y), Decided(sel, s, x, y), Decided(direct, d, x, y),
             Decided(type, t, x, y), Decided(weak, w, x, y),
             SameReads(WithSelect(base, sel, direct, type, weak), x, y)
      PROVE  WithSelect(b, s, d, t, w) = WithSelect(base, sel, direct, type, weak)
  <2>1. Decided(promoted(type, weak), promoted(t, w), x, y)
    BY <1>2, <1>5, PromotedIs
  <2> HIDE DEF promoted
  <2>2. \A q \in base.r \cup sel.r \cup warned(direct) \cup promoted(type, weak).r : x[q] = y[q]
    BY <1>1, <1>5 DEF SameReads
  <2>3. b = base /\ s = sel /\ promoted(t, w) = promoted(type, weak)
    BY <1>5, <2>1, <2>2 DEF Decided, SameReads
  <2>4. warned(d) = warned(direct)
    BY <1>5, <2>2 DEF Decided, SameReads
  <2> HIDE DEF warned
  <2>5. WithSelect(b, s, d, t, w) = WithSelect(base, sel, d, t, w)
    BY <2>3
  <2>6. /\ WithSelect(base, sel, d, t, w) =
              [v |-> promoted(t, w).v,
               r |-> (base.r \cup sel.r \cup warned(d)) \cup promoted(t, w).r]
        /\ WithSelect(base, sel, direct, type, weak) =
              [v |-> promoted(type, weak).v,
               r |-> (base.r \cup sel.r \cup warned(direct)) \cup promoted(type, weak).r]
    BY <1>1
  <2> QED BY <2>3, <2>4, <2>5, <2>6
<1> HIDE DEF promoted, warned
<1>6. WithSelect(base, sel, direct, type, weak) \in Calcs(0 .. 2)
  BY <1>1, <1>3, <1>4 DEF Calcs
<1>7. WithSelect(base, sel, direct, type, weak).r \subseteq
          base.r \cup sel.r \cup direct.r \cup type.r \cup weak.r
  BY <1>1, <1>3, <1>4
<1> QED BY <1>5, <1>6, <1>7 DEF Decided

\* The tri_value of a symbol outside choices, selects and implies included.
LEMMA PlainValueIs ==
    ASSUME NEW x, IsEnv(x), NEW s \in Syms, NEW vis \in 0 .. 2
    PROVE  /\ PlainValue(x, s, vis) \in Calcs(0 .. 2)
           /\ ReadsOfSym(PlainValue(x, s, vis), s, vis)
           /\ \A y : Decided(PlainValue(x, s, vis), PlainValue(y, s, vis), x, y)
<1>1. ASSUME NEW e \in {RevDep[s], WeakRevDep[s], DirectDep[s]}
      PROVE  /\ ExprValue(x, e) \in Calcs(0 .. 2) /\ ReadsOf(ExprValue(x, e), ReadBy(s))
             /\ \A y : Decided(ExprValue(x, e), ExprValue(y, e), x, y)
  BY SymReadBy, ExprValueFits, ExprReads, ExprDetermined DEF ReadsOf, Decided
<1> DEFINE base(z) == UserOrDefault(z, s, vis)
           sel(z) == ExprValue(z, RevDep[s])
           direct(z) == ExprValue(z, DirectDep[s])
           type(z) == SymType(z, s)
           weak(z) == ExprValue(z, WeakRevDep[s])
<1>2. /\ base(x) \in Calcs(0 .. 2) /\ sel(x) \in Calcs(0 .. 2) /\ direct(x) \in Calcs(0 .. 2)
      /\ type(x) \in Calcs(Types) /\ weak(x) \in Calcs(0 .. 2)
  BY <1>1, UserOrDefaultIs, SymTypeIs
<1>3. /\ ReadsOfSym(base(x), s, vis) /\ ReadsOf(sel(x), ReadBy(s))
      /\ ReadsOf(direct(x), ReadBy(s)) /\ ReadsOf(type(x), ReadBy(s))
      /\ ReadsOf(weak(x), ReadBy(s))
  BY <1>1, UserOrDefaultIs, SymTypeIs
<1>4. ASSUME NEW y
      PROVE  /\ Decided(base(x), base(y), x, y) /\ Decided(sel(x), sel(y), x, y)
             /\ Decided(direct(x), direct(y), x, y) /\ Decided(type(x), type(y), x, y)
             /\ Decided(weak(x), weak(y), x, y)
  <2>1. Decided(base(x), base(y), x, y)
    BY <1>4, UserOrDefaultIs
  <2>2. Decided(type(x), type(y), x, y)
    BY <1>4, SymTypeIs DEF Decided
  <2> QED BY <1>1, <1>4, <2>1, <2>2
<1>5. \A z : PlainValue(z, s, vis) = WithSelect(base(z), sel(z), direct(z), type(z), weak(z))
  BY DEF PlainValue
<1> HIDE DEF base, sel, direct, type, weak
<1>6. PlainValue(x, s, vis) \in Calcs(0 .. 2)
  BY <1>2, <1>5, WithSelectIs
<1>7. PlainValue(x, s, vis).r \subseteq
          base(x).r \cup sel(x).r \cup direct(x).r \cup type(x).r \cup weak(x).r
  BY <1>2, <1>5, WithSelectIs
<1>8. ReadsOfSym(PlainValue(x, s, vis), s, vis)
  BY <1>3, <1>7 DEF ReadsOf, ReadsOfSym
<1>9. ASSUME NEW y PROVE Decided(PlainValue(x, s, vis), PlainValue(y, s, vis), x, y)
  BY <1>2, <1>4, <1>5, <1>9, WithSelectIs
<1> QED BY <1>6, <1>8, <1>9

\* The value of a choice symbol: the selection of the choice decides in y mode,
\* the user value of the symbol in m mode.
LEMMA ChoiceSymValueIs ==
    ASSUME NEW x, IsEnv(x), NEW s \in Syms, ChoiceOf[s] # None, NEW vis \in 0 .. 2
    PROVE  /\ ChoiceSymValue(x, s, vis) \in Calcs(0 .. 2)
           /\ ReadsOfSym(ChoiceSymValue(x, s, vis), s, vis)
           /\ \A y :
                 Decided(ChoiceSymValue(x, s, vis), ChoiceSymValue(y, s, vis), x, y)
<1> DEFINE sel == <<ChoiceOf[s], "sel">>
           user == <<s, "user">>
<1>1. /\ sel \in Cells /\ sel[1] \in ReadBy(s) /\ \A t \in Syms : sel # <<t, "user">>
      /\ user \in Cells
  <2>1. ChoiceOf[s] \in ReadBy(s) /\ ChoiceOf[s] \in Choices
    BY SymReadBy
  <2>2. user \in Cells
    BY CellForms DEF Items
  <2> QED BY <2>1, <2>2 DEF Cells, Attributes
<1>2. CASE vis = 0
  BY <1>2 DEF ChoiceSymValue, Just, Calcs, ReadsOfSym, Decided
<1>3. CASE vis = 1
  <2>1. \A z : ChoiceSymValue(z, s, vis) =
                  [v |-> IF z[user] \in {None, 0} THEN 0 ELSE 1, r |-> {user}]
    BY <1>3 DEF ChoiceSymValue
  <2>2. ChoiceSymValue(x, s, vis) \in Calcs(0 .. 2)
    BY <1>1, <2>1 DEF Calcs
  <2>3. ChoiceSymValue(x, s, vis).r = {user}
    BY <2>1
  <2>4. ReadsOfSym(ChoiceSymValue(x, s, vis), s, vis)
    BY <1>3, <2>3 DEF ReadsOfSym
  <2>5. ASSUME NEW y, SameReads(ChoiceSymValue(x, s, vis), x, y)
        PROVE  ChoiceSymValue(y, s, vis) = ChoiceSymValue(x, s, vis)
    <3>1. x[user] = y[user]
      BY <2>3, <2>5 DEF SameReads
    <3> QED BY <2>1, <3>1
  <2> QED BY <2>2, <2>4, <2>5 DEF Decided
<1>4. CASE vis = 2
  <2>1. \A z : ChoiceSymValue(z, s, vis) = [v |-> IF z[sel] = s THEN 2 ELSE 0, r |-> {sel}]
    BY <1>4 DEF ChoiceSymValue
  <2> HIDE DEF sel
  <2>2. ChoiceSymValue(x, s, vis) \in Calcs(0 .. 2)
    BY <1>1, <2>1 DEF Calcs
  <2>3. ChoiceSymValue(x, s, vis).r = {sel}
    BY <2>1
  <2> QED BY <1>1, <2>1, <2>2, <2>3 DEF ReadsOfSym, Decided, SameReads
<1> QED BY <1>2, <1>3, <1>4

\* Symbol.tri_value.
LEMMA SymValueIs ==
    ASSUME NEW x, IsEnv(x), NEW s \in Syms
    PROVE  /\ SymValue(x, s) \in Calcs(0 .. 2)
           /\ ReadsOfSym(SymValue(x, s), s, Vis(x, s))
           /\ <<s, "vis">> \in SymValue(x, s).r
           /\ \A y : Decided(SymValue(x, s), SymValue(y, s), x, y)
<1> DEFINE rest(z, vis) == IF ChoiceOf[s] = None THEN PlainValue(z, s, vis)
                           ELSE ChoiceSymValue(z, s, vis)
<1>1. \A z : SymValue(z, s) = [v |-> rest(z, Vis(z, s)).v,
                               r |-> {<<s, "vis">>} \cup rest(z, Vis(z, s)).r]
  BY DEF SymValue, AfterReading
<1>2. Vis(x, s) \in 0 .. 2 /\ <<s, "vis">> \in Cells /\ s \in ReadBy(s)
  BY CachedTristates DEF Vis, Items, ReadBy
<1>3. /\ rest(x, Vis(x, s)) \in Calcs(0 .. 2)
      /\ ReadsOfSym(rest(x, Vis(x, s)), s, Vis(x, s))
      /\ \A y : Decided(rest(x, Vis(x, s)), rest(y, Vis(x, s)), x, y)
  BY <1>2, PlainValueIs, ChoiceSymValueIs
<1> HIDE DEF rest
<1>4. SymValue(x, s) \in Calcs(0 .. 2)
  BY <1>1, <1>2, <1>3 DEF Calcs
<1>5. ReadsOfSym(SymValue(x, s), s, Vis(x, s)) /\ <<s, "vis">> \in SymValue(x, s).r
  BY <1>1, <1>2, <1>3 DEF ReadsOfSym
<1>6. ASSUME NEW y, SameReads(SymValue(x, s), x, y)
      PROVE  SymValue(y, s) = SymValue(x, s)
  <2>1. Vis(y, s) = Vis(x, s)
    BY <1>5, <1>6 DEF SameReads, Vis
  <2>2. SameReads(rest(x, Vis(x, s)), x, y)
    BY <1>1, <1>6 DEF SameReads
  <2>3. rest(y, Vis(x, s)) = rest(x, Vis(x, s))
    BY <1>3, <1>6, <2>2 DEF Decided
  <2> QED BY <1>1, <2>1, <2>3
<1> QED BY <1>4, <1>5, <1>6 DEF Decided

----------------------------------------------------------------------------
(* Assignable values.                                                       *)

\* Assignable values are tristate values.
LEMMA FromToIs ==
    ASSUME NEW sel, NEW vis, NEW weak \in Calcs(0 .. 2)
    PROVE  /\ FromTo(sel, vis, weak) \in Calcs(SUBSET (0 .. 2))
           /\ FromTo(sel, vis, weak).r = weak.r
<1> DEFINE values == {v \in 0 .. 2 : v >= sel /\ (v # 1 \/ weak.v # 2) /\ (v <= vis \/ weak.v = 2)}
<1>1. FromTo(sel, vis, weak) = [v |-> values, r |-> weak.r]
  BY DEF FromTo, Calcs
<1>2. values \in SUBSET (0 .. 2)
  OBVIOUS
<1> HIDE DEF values
<1> QED BY <1>1, <1>2 DEF Calcs

\* What implies a symbol is read only for an m that is not promoted anyway.
LEMMA AssignableOfTypeIs ==
    ASSUME NEW sel, NEW vis, NEW type \in Calcs(Types), NEW weak \in Calcs(0 .. 2)
    PROVE  /\ AssignableOfType(sel, vis, type, weak) \in Calcs(SUBSET (0 .. 2))
           /\ AssignableOfType(sel, vis, type, weak).r \subseteq type.r \cup weak.r
           /\ \A x, y, t, w : Decided(type, t, x, y) /\ Decided(weak, w, x, y) =>
                 Decided(AssignableOfType(sel, vis, type, weak), AssignableOfType(sel, vis, t, w), x, y)
<1> DEFINE top(t, w) == IF t.v = "bool" THEN Just(2) ELSE w
           rest(t, w) == FromTo(sel, vis, top(t, w))
<1>1. \A t, w : AssignableOfType(sel, vis, t, w) =
                   [v |-> rest(t, w).v, r |-> t.r \cup rest(t, w).r]
  BY DEF AssignableOfType, AfterReading
<1>2. top(type, weak) \in Calcs(0 .. 2) /\ top(type, weak).r \subseteq weak.r
  BY DEF Just, Calcs
<1>3. rest(type, weak) \in Calcs(SUBSET (0 .. 2)) /\ rest(type, weak).r = top(type, weak).r
  <2> HIDE DEF top
  <2> QED BY <1>2, FromToIs
<1>4. ASSUME NEW x, NEW y, NEW t, NEW w, Decided(type, t, x, y), Decided(weak, w, x, y),
             SameReads(AssignableOfType(sel, vis, type, weak), x, y)
      PROVE  AssignableOfType(sel, vis, t, w) = AssignableOfType(sel, vis, type, weak)
  <2>1. \A q \in type.r \cup top(type, weak).r : x[q] = y[q]
    <3> HIDE DEF top, rest
    <3> QED BY <1>1, <1>3, <1>4 DEF SameReads
  <2>2. t = type
    BY <1>4, <2>1 DEF Decided, SameReads
  <2>3. top(t, w) = top(type, weak)
    BY <1>4, <2>1, <2>2 DEF Decided, SameReads
  <2> HIDE DEF top
  <2>4. rest(t, w) = rest(type, weak)
    BY <2>3
  <2> HIDE DEF rest
  <2>5. /\ AssignableOfType(sel, vis, t, w) = [v |-> rest(t, w).v, r |-> t.r \cup rest(t, w).r]
        /\ AssignableOfType(sel, vis, type, weak) =
              [v |-> rest(type, weak).v, r |-> type.r \cup rest(type, weak).r]
    BY <1>1
  <2> QED BY <2>2, <2>4, <2>5
<1> HIDE DEF rest, top
<1>5. AssignableOfType(sel, vis, type, weak) \in Calcs(SUBSET (0 .. 2))
  BY <1>1, <1>3 DEF Calcs
<1>6. AssignableOfType(sel, vis, type, weak).r \subseteq type.r \cup weak.r
  BY <1>1, <1>2, <1>3
<1> QED BY <1>4, <1>5, <1>6 DEF Decided

\* Symbol.assignable.
LEMMA SymAssignableIs ==
    ASSUME NEW x, IsEnv(x), NEW s \in Syms
    PROVE  /\ SymAssignable(x, s) \in Calcs(SUBSET (0 .. 2))
           /\ ReadsOf(SymAssignable(x, s), ReadBy(s))
           /\ <<s, "vis">> \in SymAssignable(x, s).r
           /\ \A y : Decided(SymAssignable(x, s), SymAssignable(y, s), x, y)
<1> DEFINE vis == Vis(x, s)
           sel(z) == ExprValue(z, RevDep[s])
           type(z) == IF vis = 1 THEN Just("tristate") ELSE SymType(z, s)
           weak(z) == ExprValue(z, WeakRevDep[s])
           rest(z) == IF (vis = 2 /\ ChoiceOf[s] # None) \/ sel(z).v = 2 THEN Just({2})
                      ELSE IF sel(z).v = 1 /\ vis = 1 THEN Just({1})
                      ELSE AssignableOfType(sel(z).v, vis, type(z), weak(z))
           own == {<<s, "vis">>}
<1>1. \A z : Vis(z, s) = vis /\ vis # 0 =>
         SymAssignable(z, s) = [v |-> rest(z).v, r |-> own \cup (sel(z).r \cup rest(z).r)]
  BY DEF SymAssignable, AssignableFrom, AfterReading
<1>2. \A z : Vis(z, s) = vis /\ vis = 0 => SymAssignable(z, s) = [v |-> {}, r |-> own]
  BY DEF SymAssignable, AfterReading, Just
<1>3. /\ vis \in 0 .. 2 /\ own \subseteq Cells /\ s \in ReadBy(s)
      /\ \A t \in Syms : <<s, "vis">> # <<t, "user">>
  BY CachedTristates DEF Vis, Items, ReadBy
<1>4. ASSUME NEW e \in {RevDep[s], WeakRevDep[s]}
      PROVE  /\ ExprValue(x, e) \in Calcs(0 .. 2) /\ ReadsOf(ExprValue(x, e), ReadBy(s))
             /\ \A y : Decided(ExprValue(x, e), ExprValue(y, e), x, y)
  BY SymReadBy, ExprValueFits, ExprReads, ExprDetermined DEF ReadsOf, Decided
<1>5. /\ type(x) \in Calcs(Types) /\ ReadsOf(type(x), ReadBy(s))
      /\ \A y : Decided(type(x), type(y), x, y)
  <2>1. CASE vis = 1
    <3>1. Just("tristate") \in Calcs(Types) /\ ReadsOf(Just("tristate"), ReadBy(s))
      BY DEF Just, Calcs, Types, ReadsOf
    <3>2. \A z : type(z) = Just("tristate")
      BY <2>1
    <3> QED BY <3>1, <3>2 DEF Decided
  <2>2. CASE vis # 1
    <3>1. \A z : type(z) = SymType(z, s)
      BY <2>2
    <3> QED BY <3>1, SymTypeIs DEF Decided
  <2> QED BY <2>1, <2>2
<1>6. \A z, y : Vis(z, s) = Vis(y, s) <=> OrZero(z[<<s, "vis">>]) = OrZero(y[<<s, "vis">>])
  BY DEF Vis
<1> HIDE DEF sel, type, weak, vis
<1>7. /\ sel(x) \in Calcs(0 .. 2) /\ ReadsOf(sel(x), ReadBy(s))
      /\ weak(x) \in Calcs(0 .. 2) /\ ReadsOf(weak(x), ReadBy(s))
      /\ \A y : Decided(sel(x), sel(y), x, y) /\ Decided(weak(x), weak(y), x, y)
  BY <1>4 DEF sel, weak
<1> DEFINE ofType(z) == AssignableOfType(sel(x).v, vis, type(z), weak(z))
<1>8. /\ ofType(x) \in Calcs(SUBSET (0 .. 2))
      /\ ofType(x).r \subseteq type(x).r \cup weak(x).r
      /\ \A y : Decided(ofType(x), ofType(y), x, y)
  BY <1>5, <1>7, AssignableOfTypeIs
<1>9. \/ \A z : sel(z) = sel(x) => rest(z) = Just({2})
      \/ \A z : sel(z) = sel(x) => rest(z) = Just({1})
      \/ \A z : sel(z) = sel(x) => rest(z) = ofType(z)
  OBVIOUS
<1> HIDE DEF rest, ofType
<1>10. /\ rest(x) \in Calcs(SUBSET (0 .. 2)) /\ ReadsOf(rest(x), ReadBy(s))
       /\ \A y : sel(y) = sel(x) => Decided(rest(x), rest(y), x, y)
  <2>1. ASSUME NEW n \in {1, 2}
        PROVE  Just({n}) \in Calcs(SUBSET (0 .. 2)) /\ ReadsOf(Just({n}), ReadBy(s))
    <3>1. {n} \in SUBSET (0 .. 2) /\ {} \in SUBSET Cells
      OBVIOUS
    <3>2. Just({n}) = [v |-> {n}, r |-> {}]
      BY DEF Just
    <3> QED BY <3>1, <3>2 DEF Calcs, ReadsOf
  <2>2. ASSUME NEW n \in {1, 2}, \A z : sel(z) = sel(x) => rest(z) = Just({n})
        PROVE  /\ rest(x) \in Calcs(SUBSET (0 .. 2)) /\ ReadsOf(rest(x), ReadBy(s))
               /\ \A y : sel(y) = sel(x) => Decided(rest(x), rest(y), x, y)
    BY <2>1, <2>2 DEF Decided
  <2>3. CASE \A z : sel(z) = sel(x) => rest(z) = ofType(z)
    <3>1. ReadsOf(ofType(x), ReadBy(s))
      BY <1>5, <1>7, <1>8 DEF ReadsOf
    <3> QED BY <1>8, <2>3, <3>1 DEF Decided
  <2> QED BY <1>9, <2>2, <2>3
<1>11. CASE vis = 0
  <2>1. SymAssignable(x, s) \in Calcs(SUBSET (0 .. 2))
    BY <1>2, <1>3, <1>11 DEF Calcs, vis
  <2>2. SymAssignable(x, s).r = own
    BY <1>2, <1>11 DEF vis
  <2>3. ReadsOf(SymAssignable(x, s), ReadBy(s))
    BY <1>3, <2>2 DEF ReadsOf
  <2>4. ASSUME NEW y, SameReads(SymAssignable(x, s), x, y)
        PROVE  SymAssignable(y, s) = SymAssignable(x, s)
    <3>1. Vis(y, s) = vis
      BY <2>2, <2>4, <1>6 DEF SameReads, vis
    <3> QED BY <1>2, <1>11, <3>1 DEF vis
  <2> QED BY <2>1, <2>2, <2>3, <2>4 DEF Decided
<1>12. CASE vis # 0
  <2>1. SymAssignable(x, s) = [v |-> rest(x).v, r |-> own \cup (sel(x).r \cup rest(x).r)]
    BY <1>1, <1>12 DEF vis
  <2>2. SymAssignable(x, s) \in Calcs(SUBSET (0 .. 2))
    <3> HIDE DEF own
    <3> QED BY <1>3, <1>7, <1>10, <2>1 DEF Calcs
  <2>3. ReadsOf(SymAssignable(x, s), ReadBy(s))
    BY <1>3, <1>7, <1>10, <2>1 DEF ReadsOf
  <2>4. ASSUME NEW y, SameReads(SymAssignable(x, s), x, y)
        PROVE  SymAssignable(y, s) = SymAssignable(x, s)
    <3>1. /\ x[<<s, "vis">>] = y[<<s, "vis">>]
          /\ SameReads(sel(x), x, y) /\ SameReads(rest(x), x, y)
      BY <2>1, <2>4 DEF SameReads
    <3>2. Vis(y, s) = vis
      BY <3>1, <1>6 DEF vis
    <3>3. sel(y) = sel(x)
      BY <1>7, <2>4, <3>1 DEF Decided
    <3>4. rest(y) = rest(x)
      BY <1>10, <2>4, <3>1, <3>3 DEF Decided
    <3>5. SymAssignable(y, s) = [v |-> rest(y).v, r |-> own \cup (sel(y).r \cup rest(y).r)]
      BY <1>1, <1>12, <3>2
    <3> QED BY <2>1, <3>3, <3>4, <3>5
  <2>5. <<s, "vis">> \in SymAssignable(x, s).r
    BY <2>1
  <2> QED BY <2>2, <2>3, <2>4, <2>5 DEF Decided
<1> QED BY <1>11, <1>12

\* Choice.assignable.
LEMMA ChoiceAssignableIs ==
    ASSUME NEW x, IsEnv(x), NEW c \in Choices
    PROVE  /\ ChoiceAssignable(x, c) \in Calcs(SUBSET (0 .. 2))
           /\ ReadsOf(ChoiceAssignable(x, c), ReadBy(c))
           /\ <<c, "vis">> \in ChoiceAssignable(x, c).r
           /\ \A y : Decided(ChoiceAssignable(x, c), ChoiceAssignable(y, c), x, y)
<1> DEFINE own == {<<c, "vis">>}
           type(z) == IF Vis(z, c) = 1 THEN Just("tristate") ELSE ChoiceType(z, c)
           values(z) == {v \in 0 .. Vis(z, c) :
                            (v = 0 => IsOptional[c]) /\ (v = 1 => type(z).v = "tristate")}
<1>2. /\ c \in Items /\ Vis(x, c) \in 0 .. 2 /\ own \subseteq Cells /\ c \in ReadBy(c)
      /\ <<Modules, "val">> \in Cells
      /\ \A t \in Syms : <<c, "vis">> # <<t, "user">>
  BY CachedTristates, ItemsAssumption DEF Vis, Items, ReadBy
<1>3. /\ type(x) \in Calcs(Types) /\ type(x).r \subseteq {<<Modules, "val">>}
      /\ \A y : Vis(y, c) = Vis(x, c) => Decided(type(x), type(y), x, y)
  <2>1. CASE Vis(x, c) = 1
    BY <2>1 DEF Just, Calcs, Types, Decided
  <2>2. CASE Vis(x, c) # 1
    <3>1. \A z : Vis(z, c) = Vis(x, c) => type(z) = ChoiceType(z, c)
      BY <2>2
    <3> HIDE DEF type
    <3> QED BY <3>1, ChoiceTypeIs DEF Decided, Types
  <2> QED BY <2>1, <2>2
<1>4. ASSUME NEW z, Vis(z, c) # 0, type(z) \in Calcs(Types)
      PROVE  ChoiceAssignable(z, c) = [v |-> values(z), r |-> own \cup type(z).r]
  <2>1. ChoiceAssignable(z, c) = AfterReading(own, ModesOfType(c, Vis(z, c), type(z)))
    BY <1>4 DEF ChoiceAssignable
  <2>2. ModesOfType(c, Vis(z, c), type(z)) = [type(z) EXCEPT !.v = values(z)]
    <3> HIDE DEF type
    <3> QED BY <1>4 DEF ModesOfType, Calcs
  <2> HIDE DEF type, values
  <2> QED BY <1>4, <2>1, <2>2 DEF AfterReading, Calcs
<1>5. \A z : Vis(z, c) = 0 => ChoiceAssignable(z, c) = [v |-> {}, r |-> own]
  BY DEF ChoiceAssignable, AfterReading, Just
<1>6. values(x) \in SUBSET (0 .. 2)
  BY <1>2
<1>7. \A y : Vis(y, c) = Vis(x, c) /\ type(y) = type(x) => values(y) = values(x)
  OBVIOUS
<1> HIDE DEF type, values
<1>8. /\ ChoiceAssignable(x, c) \in Calcs(SUBSET (0 .. 2))
      /\ ReadsOf(ChoiceAssignable(x, c), ReadBy(c))
      /\ <<c, "vis">> \in ChoiceAssignable(x, c).r
  <2>1. CASE Vis(x, c) = 0
    BY <1>2, <1>5, <2>1 DEF Calcs, ReadsOf
  <2>2. CASE Vis(x, c) # 0
    <3>1. ChoiceAssignable(x, c) = [v |-> values(x), r |-> own \cup type(x).r]
      BY <1>3, <1>4, <2>2
    <3>2. ChoiceAssignable(x, c) \in Calcs(SUBSET (0 .. 2))
      <4>1. own \cup type(x).r \in SUBSET Cells
        BY <1>2, <1>3
      <4> HIDE DEF own
      <4> QED BY <1>6, <3>1, <4>1 DEF Calcs
    <3> QED BY <1>2, <1>3, <3>1, <3>2 DEF ReadsOf
  <2> QED BY <2>1, <2>2
<1>9. ASSUME NEW y, SameReads(ChoiceAssignable(x, c), x, y)
      PROVE  ChoiceAssignable(y, c) = ChoiceAssignable(x, c)
  <2>1. Vis(y, c) = Vis(x, c)
    BY <1>8, <1>9 DEF SameReads, Vis
  <2>2. CASE Vis(x, c) = 0
    BY <1>5, <2>1, <2>2
  <2>3. CASE Vis(x, c) # 0
    <3>1. ChoiceAssignable(x, c) = [v |-> values(x), r |-> own \cup type(x).r]
      BY <1>3, <1>4, <2>3
    <3>2. SameReads(type(x), x, y)
      BY <1>9, <3>1 DEF SameReads
    <3>3. type(y) = type(x)
      BY <1>3, <2>1, <3>2 DEF Decided
    <3>4. ChoiceAssignable(y, c) = [v |-> values(y), r |-> own \cup type(y).r]
      BY <1>3, <1>4, <2>1, <2>3, <3>3
    <3> QED BY <1>7, <2>1, <3>1, <3>3, <3>4
  <2> QED BY <2>2, <2>3
<1> QED BY <1>8, <1>9 DEF Decided

----------------------------------------------------------------------------
(* The selection of a choice.                                               *)

\* Y names no item.
LEMMA YNamesNothing == DependOn(Y) = {} /\ \A x : IsEnv(x) => ExprValue(x, Y) = Just(2)
<1>1. Y \in Exprs /\ Y[1] = "const" /\ Y[2] = 2 /\ Parts(Y) = {}
  BY TreeAssumption DEF Y, Parts
<1>2. {Y} \in ClosedExprs
  BY <1>1 DEF ClosedExprs
<1>3. ASSUME NEW i \in DependOn(Y) PROVE FALSE
  <2>1. \E d \in {Y} : d[1] \in {"item", "eq"} /\ d[2] = i
    BY <1>2 DEF DependOn
  <2> QED BY <1>1, <2>1
<1>4. ASSUME NEW x, IsEnv(x) PROVE ExprValue(x, Y) = Just(2)
  BY <1>1, <1>4, ExprValueUnfolds, ExprValueFits
<1> QED BY <1>3, <1>4

\* The candidates are the defaults and the symbols of the choice.
LEMMA CandidatesIs ==
    ASSUME NEW c \in Choices
    PROVE  /\ Candidates(c) \in Seq(Members(c) \X Exprs)
           /\ \A k \in DOMAIN Candidates(c) :
                 /\ Candidates(c)[k][1] \in Members(c)
                 /\ Candidates(c)[k][2] \in Exprs
                 /\ DependOn(Candidates(c)[k][2]) \subseteq ReadBy(c)
           /\ \A s \in Members(c) : \E k \in DOMAIN Candidates(c) : Candidates(c)[k] = <<s, Y>>
<1> DEFINE syms == [k \in DOMAIN ChoiceSyms[c] |-> <<ChoiceSyms[c][k], Y>>]
           M == Len(Defaults[c])
<1>1. /\ Defaults[c] \in Seq(Members(c) \X Exprs) /\ ChoiceSyms[c] \in Seq(Members(c))
      /\ Y \in Exprs
  BY TreeAssumption
<1>2. syms \in Seq(Members(c) \X Exprs) /\ Len(syms) = Len(ChoiceSyms[c])
  BY <1>1
<1>3. Candidates(c) = Defaults[c] \o syms
  BY DEF Candidates
<1> HIDE DEF syms
<1>4. /\ M \in Nat /\ DOMAIN Defaults[c] = 1 .. M
      /\ Len(syms) \in Nat /\ DOMAIN ChoiceSyms[c] = 1 .. Len(syms)
  BY <1>1, <1>2
<1>5. /\ Candidates(c) \in Seq(Members(c) \X Exprs)
      /\ DOMAIN Candidates(c) = 1 .. M + Len(syms)
      /\ \A k \in 1 .. M + Len(syms) :
            Candidates(c)[k] = IF k <= M THEN Defaults[c][k] ELSE syms[k - M]
  <2>1. /\ Candidates(c) \in Seq(Members(c) \X Exprs)
        /\ Len(Candidates(c)) = M + Len(syms)
        /\ \A k \in 1 .. M + Len(syms) :
              Candidates(c)[k] = IF k <= M THEN Defaults[c][k] ELSE syms[k - M]
    <3> DEFINE T == Members(c) \X Exprs
    <3>1. Defaults[c] \in Seq(T) /\ syms \in Seq(T)
      BY <1>1, <1>2
    <3> HIDE DEF T
    <3>2. /\ Defaults[c] \o syms \in Seq(T)
          /\ Len(Defaults[c] \o syms) = M + Len(syms)
          /\ \A k \in 1 .. M + Len(syms) :
                (Defaults[c] \o syms)[k] = IF k <= M THEN Defaults[c][k] ELSE syms[k - M]
      BY <3>1, ConcatProperties
    <3> QED BY <1>3, <3>2 DEF T
  <2> QED BY <2>1
<1>6. ASSUME NEW k \in DOMAIN Candidates(c) PROVE DependOn(Candidates(c)[k][2]) \subseteq ReadBy(c)
  <2> k \in 1 .. M + Len(syms)
    BY <1>5
  <2>1. CASE k <= M
    <3>1. k \in DOMAIN Defaults[c] /\ Candidates(c)[k] = Defaults[c][k]
      BY <1>4, <1>5, <2>1
    <3> QED BY <3>1, ChoiceReadBy DEF Conditions
  <2>2. CASE ~(k <= M)
    <3>1. k - M \in DOMAIN ChoiceSyms[c] /\ Candidates(c)[k] = syms[k - M]
      BY <1>4, <1>5, <2>2
    <3>2. Candidates(c)[k][2] = Y
      BY <3>1 DEF syms
    <3> QED BY <3>2, YNamesNothing
  <2> QED BY <2>1, <2>2
<1>7. ASSUME NEW s \in Members(c) PROVE \E k \in DOMAIN Candidates(c) : Candidates(c)[k] = <<s, Y>>
  <2>1. PICK k \in DOMAIN ChoiceSyms[c] : ChoiceSyms[c][k] = s
    BY TreeAssumption
  <2>2. syms[k] = <<s, Y>> /\ k \in 1 .. Len(syms)
    BY <1>4, <2>1 DEF syms
  <2>3. k + M \in 1 .. M + Len(syms) /\ ~(k + M <= M) /\ (k + M) - M = k
    BY <1>4, <2>2
  <2>4. k + M \in DOMAIN Candidates(c) /\ Candidates(c)[k + M] = syms[k]
    BY <1>5, <2>3
  <2> QED BY <2>2, <2>4
<1>8. ASSUME NEW k \in DOMAIN Candidates(c)
      PROVE  Candidates(c)[k][1] \in Members(c) /\ Candidates(c)[k][2] \in Exprs
  BY <1>5
<1> QED BY <1>5, <1>6, <1>7, <1>8

\* The visibility of a candidate is read only if its condition holds.
LEMMA CandidateIfIs ==
    ASSUME NEW x, IsEnv(x), NEW c \in Choices, NEW s \in Members(c), NEW cond \in Calcs(0 .. 2),
           ReadsOf(cond, ReadBy(c))
    PROVE  /\ CandidateIf(x, s, cond) \in Calcs(0 .. 2)
           /\ ReadsOf(CandidateIf(x, s, cond), ReadBy(c))
           /\ \A y, d : Decided(cond, d, x, y) =>
                 Decided(CandidateIf(x, s, cond), CandidateIf(y, s, d), x, y)
<1>1. CASE cond.v = 0
  BY <1>1 DEF CandidateIf, Decided
<1>2. CASE cond.v # 0
  <2>1. \A z : CandidateIf(z, s, cond) = [v |-> Vis(z, s), r |-> cond.r \cup {<<s, "vis">>}]
    BY <1>2 DEF CandidateIf
  <2>2. Vis(x, s) \in 0 .. 2 /\ <<s, "vis">> \in Cells /\ s \in ReadBy(c)
    BY CachedTristates, ChoiceReadBy DEF Vis, Items, Members
  <2>3. CandidateIf(x, s, cond) \in Calcs(0 .. 2)
    BY <2>1, <2>2 DEF Calcs
  <2>4. ReadsOf(CandidateIf(x, s, cond), ReadBy(c))
    BY <2>1, <2>2 DEF ReadsOf
  <2>5. ASSUME NEW y, SameReads(CandidateIf(x, s, cond), x, y)
        PROVE  SameReads(cond, x, y) /\ Vis(y, s) = Vis(x, s)
    BY <2>1, <2>5 DEF SameReads, Vis
  <2> QED BY <2>1, <2>3, <2>4, <2>5 DEF Decided
<1> QED BY <1>1, <1>2

\* _selection_from_defaults() gives a visible symbol of the choice, if there
\* is one.
LEMMA SelectionFromDefaultsIs ==
    ASSUME NEW x, IsEnv(x), NEW c \in Choices
    PROVE  /\ SelectionFromDefaults(x, c) \in Calcs(Members(c) \cup {NoSelection})
           /\ ReadsOf(SelectionFromDefaults(x, c), ReadBy(c))
           /\ \A y :
                 Decided(SelectionFromDefaults(x, c), SelectionFromDefaults(y, c), x, y)
           /\ \/ /\ SelectionFromDefaults(x, c).v \in Members(c)
                 /\ Vis(x, SelectionFromDefaults(x, c).v) # 0
              \/ \A s \in Members(c) : Vis(x, s) = 0
<1> DEFINE K == DOMAIN Candidates(c)
           sym(k) == Candidates(c)[k][1]
           cond(z, k) == ExprValue(z, Candidates(c)[k][2])
           cand(z) == [k \in K |-> CandidateIf(z, sym(k), cond(z, k))]
           first(z) == First(DefaultsWith(cand(z)))
           pick(f) == IF f.v = {} THEN NoSelection ELSE sym(The(f.v).k)
<1>1. \A z : SelectionFromDefaults(z, c) = [v |-> pick(first(z)), r |-> first(z).r]
  <2>1. \A z : DefaultsWith(cand(z)) =
           {[k |-> k, is |-> CandidateIf(z, Candidates(c)[k][1], ExprValue(z, Candidates(c)[k][2]))] :
               k \in DOMAIN Candidates(c)}
    BY DEF DefaultsWith
  <2>2. \A z : SelectionFromDefaults(z, c) = SelectionAt(c, first(z))
    BY <2>1 DEF SelectionFromDefaults
  <2>3. \A f : SelectionAt(c, f) = [f EXCEPT !.v = pick(f)]
    BY DEF SelectionAt
  <2>4. \A z : first(z) = [v |-> first(z).v, r |-> first(z).r]
    BY DEF First, UpTo
  <2> HIDE DEF pick, first
  <2>5. \A z : [first(z) EXCEPT !.v = pick(first(z))] = [v |-> pick(first(z)), r |-> first(z).r]
    BY <2>4
  <2> QED BY <2>2, <2>3, <2>5
<1>2. /\ K \in SUBSET Nat
      /\ \A k \in K : /\ sym(k) \in Members(c) /\ Candidates(c)[k][2] \in Exprs
                      /\ DependOn(Candidates(c)[k][2]) \subseteq ReadBy(c)
  <2>1. Candidates(c) \in Seq(Members(c) \X Exprs)
    BY CandidatesIs
  <2>2. K \in SUBSET Nat
    BY <2>1
  <2> QED BY <2>2, CandidatesIs
<1>3. ASSUME NEW k \in K
      PROVE  /\ cond(x, k) \in Calcs(0 .. 2) /\ ReadsOf(cond(x, k), ReadBy(c))
             /\ \A y : Decided(cond(x, k), cond(y, k), x, y)
  BY <1>2, ExprValueFits, ExprReads, ExprDetermined DEF ReadsOf, Decided
<1>4. ASSUME NEW k \in K
      PROVE  /\ cand(x)[k] \in Calcs(0 .. 2) /\ ReadsOf(cand(x)[k], ReadBy(c))
             /\ \A y : Decided(cand(x)[k], cand(y)[k], x, y)
  <2> HIDE DEF cond, sym
  <2> QED BY <1>2, <1>3, CandidateIfIs
<1>5. \A z : DOMAIN cand(z) = K
  OBVIOUS
<1>6. ASSUME NEW k \in K, cand(x)[k].v # 0 PROVE Vis(x, sym(k)) # 0
  <2> HIDE DEF cond, sym
  <2> QED BY <1>6 DEF CandidateIf
<1>7. ASSUME NEW s \in Members(c) PROVE \E k \in K : cand(x)[k].v = Vis(x, s)
  <2>1. PICK k \in K : Candidates(c)[k] = <<s, Y>>
    BY CandidatesIs
  <2>2. sym(k) = s /\ cond(x, k) = Just(2)
    BY <2>1, YNamesNothing
  <2> HIDE DEF cond, sym
  <2> QED BY <2>2 DEF CandidateIf, Just
<1> HIDE DEF cand, cond
<1>8. /\ first(x).r = UNION {cand(x)[k].r : k \in Tried(cand(x))}
      /\ first(x).v # {} =>
            \E k \in K : The(first(x).v) = [k |-> k, is |-> cand(x)[k]] /\ cand(x)[k].v # 0
      /\ first(x).v = {} => \A k \in K : cand(x)[k].v = 0
  <2>1. K \in SUBSET Nat /\ DOMAIN cand(x) = K
    BY <1>2, <1>5
  <2> DEFINE g == cand(x)
  <2> HIDE DEF K, g
  <2>2. DOMAIN g = K
    BY <2>1 DEF g
  <2>3. /\ First(DefaultsWith(g)).r = UNION {g[k].r : k \in Tried(g)}
        /\ First(DefaultsWith(g)).v # {} =>
              \E k \in K : The(First(DefaultsWith(g)).v) = [k |-> k, is |-> g[k]] /\ g[k].v # 0
        /\ First(DefaultsWith(g)).v = {} => \A k \in K : g[k].v = 0
    <3>1. K \in SUBSET Nat
      BY <2>1
    <3>2. First(DefaultsWith(g)).r = UNION {g[k].r : k \in Tried(g)}
      BY <2>2, <3>1, FirstIs
    <3>3. First(DefaultsWith(g)).v # {} =>
             \E k \in K : The(First(DefaultsWith(g)).v) = [k |-> k, is |-> g[k]] /\ g[k].v # 0
      BY <2>2, <3>1, FirstIs
    <3>4. ASSUME First(DefaultsWith(g)).v = {}, NEW k \in K PROVE g[k].v = 0
      BY <2>2, <3>1, <3>4, FirstFinds
    <3> QED BY <3>2, <3>3, <3>4
  <2> QED BY <2>3 DEF g
<1>9. ReadsOf(first(x), ReadBy(c)) /\ first(x).r \subseteq Cells
  <2>1. Tried(cand(x)) \subseteq K
    BY <1>5 DEF Tried
  <2> HIDE DEF first
  <2> QED BY <1>4, <1>8, <2>1 DEF ReadsOf
<1>10. ASSUME NEW y, SameReads(first(x), x, y) PROVE first(y) = first(x)
  <2>1. ASSUME NEW k \in Tried(cand(x)) PROVE cand(y)[k] = cand(x)[k]
    <3>1. k \in K
      BY <1>5 DEF Tried
    <3>2. SameReads(cand(x)[k], x, y)
      <4> HIDE DEF first
      <4> QED BY <1>8, <1>10 DEF SameReads
    <3> QED BY <1>4, <1>10, <3>1, <3>2 DEF Decided
  <2> DEFINE g == cand(x)
             h == cand(y)
  <2>2. K \in SUBSET Nat /\ DOMAIN g = K /\ DOMAIN h = K
    BY <1>2, <1>5
  <2> HIDE DEF K, g, h
  <2>3. \A k \in Tried(g) : h[k] = g[k]
    BY <2>1 DEF g, h
  <2>4. First(DefaultsWith(h)) = First(DefaultsWith(g))
    BY <2>2, <2>3, FirstDetermined
  <2> QED BY <2>4 DEF g, h
<1> HIDE DEF first
<1>11. CASE first(x).v = {}
  <2>1. pick(first(x)) = NoSelection
    BY <1>11
  <2>2. \A s \in Members(c) : Vis(x, s) = 0
    BY <1>7, <1>8, <1>11
  <2> HIDE DEF pick
  <2>3. SelectionFromDefaults(x, c) \in Calcs(Members(c) \cup {NoSelection})
    BY <1>1, <1>9, <2>1 DEF Calcs
  <2>4. \A y : Decided(SelectionFromDefaults(x, c), SelectionFromDefaults(y, c), x, y)
    BY <1>1, <1>10 DEF Decided, SameReads
  <2> QED BY <1>1, <1>9, <2>2, <2>3, <2>4 DEF ReadsOf
<1>12. CASE first(x).v # {}
  <2>1. PICK k \in K : The(first(x).v) = [k |-> k, is |-> cand(x)[k]] /\ cand(x)[k].v # 0
    BY <1>8, <1>12
  <2>2. pick(first(x)) = sym(k)
    BY <1>12, <2>1
  <2>3. sym(k) \in Members(c) /\ Vis(x, sym(k)) # 0
    BY <1>2, <1>6, <2>1
  <2> HIDE DEF pick, sym
  <2>4. SelectionFromDefaults(x, c) \in Calcs(Members(c) \cup {NoSelection})
    BY <1>1, <1>9, <2>2, <2>3 DEF Calcs
  <2>5. \A y : Decided(SelectionFromDefaults(x, c), SelectionFromDefaults(y, c), x, y)
    BY <1>1, <1>10 DEF Decided, SameReads
  <2> QED BY <1>1, <1>9, <2>2, <2>3, <2>4, <2>5 DEF ReadsOf
<1> QED BY <1>11, <1>12

\* The mode of a choice, as one of its attributes or of its symbols reads it.
LEMMA ModeReads ==
    ASSUME NEW x, IsEnv(x), NEW c \in Choices, NEW S, c \in S
    PROVE  ReadsOf(ChoiceTriValue(x, c), S)
<1>1. /\ <<c, "user">> \in Cells /\ <<c, "vis">> \in Cells /\ <<Modules, "val">> \in Cells
      /\ c \notin Syms
  BY CellForms, ItemsAssumption, CachedTristates DEF Items
<1>2. ChoiceTriValue(x, c).r \subseteq {<<c, "user">>, <<c, "vis">>, <<Modules, "val">>}
  BY ChoiceTriValueIs
<1> QED BY <1>1, <1>2 DEF ReadsOf

\* A choice has a visible symbol of its own selected, or no visible symbol.
SelectsVisible(x, c, s) ==
    \/ s \in Members(c) /\ Vis(x, s) # 0
    \/ \A m \in Members(c) : Vis(x, m) = 0

\* The user's selection counts if it is visible, else the defaults decide.
LEMMA UserSelectionIs ==
    ASSUME NEW x, IsEnv(x), NEW c \in Choices, NEW u \in Members(c) \cup {None}
    PROVE  /\ UserSelection(x, c, u) \in Calcs(Members(c) \cup {NoSelection})
           /\ ReadsOf(UserSelection(x, c, u), ReadBy(c))
           /\ \A y : Decided(UserSelection(x, c, u), UserSelection(y, c, u), x, y)
           /\ SelectsVisible(x, c, UserSelection(x, c, u).v)
<1> DEFINE default(z) == SelectionFromDefaults(z, c)
<1>1. /\ default(x) \in Calcs(Members(c) \cup {NoSelection})
      /\ ReadsOf(default(x), ReadBy(c))
      /\ \A y : Decided(default(x), default(y), x, y)
      /\ SelectsVisible(x, c, default(x).v)
  BY SelectionFromDefaultsIs DEF SelectsVisible
<1>2. CASE u = None
  <2>1. \A z : UserSelection(z, c, u) = default(z)
    BY <1>2 DEF UserSelection
  <2> HIDE DEF default
  <2> QED BY <1>1, <2>1
<1>3. CASE u # None
  <2>1. u \in Members(c) /\ <<u, "vis">> \in Cells /\ u \in ReadBy(c)
    BY <1>3, CachedTristates, ChoiceReadBy DEF Members, Items
  <2>2. \A z : UserSelection(z, c, u) =
           [v |-> IF Vis(z, u) # 0 THEN u ELSE default(z).v,
            r |-> {<<u, "vis">>} \cup (IF Vis(z, u) # 0 THEN {} ELSE default(z).r)]
    BY <1>3 DEF UserSelection, AfterReading, Just
  <2> HIDE DEF default
  <2>3. CASE Vis(x, u) # 0
    <3>1. UserSelection(x, c, u) = [v |-> u, r |-> {<<u, "vis">>}]
      BY <2>2, <2>3
    <3>2. UserSelection(x, c, u) \in Calcs(Members(c) \cup {NoSelection})
      BY <2>1, <3>1 DEF Calcs
    <3>3. ReadsOf(UserSelection(x, c, u), ReadBy(c))
      BY <2>1, <3>1 DEF ReadsOf
    <3>4. ASSUME NEW y, SameReads(UserSelection(x, c, u), x, y)
          PROVE  UserSelection(y, c, u) = UserSelection(x, c, u)
      <4>1. Vis(y, u) = Vis(x, u)
        BY <3>1, <3>4 DEF SameReads, Vis
      <4> QED BY <2>2, <2>3, <3>1, <4>1
    <3>5. SelectsVisible(x, c, UserSelection(x, c, u).v)
      BY <2>1, <2>3, <3>1 DEF SelectsVisible
    <3> QED BY <3>2, <3>3, <3>4, <3>5 DEF Decided
  <2>4. CASE Vis(x, u) = 0
    <3>1. UserSelection(x, c, u) = [v |-> default(x).v, r |-> {<<u, "vis">>} \cup default(x).r]
      BY <2>2, <2>4
    <3>2. UserSelection(x, c, u) \in Calcs(Members(c) \cup {NoSelection})
      BY <1>1, <2>1, <3>1 DEF Calcs
    <3>3. ReadsOf(UserSelection(x, c, u), ReadBy(c))
      BY <1>1, <2>1, <3>1 DEF ReadsOf
    <3>4. ASSUME NEW y, SameReads(UserSelection(x, c, u), x, y)
          PROVE  UserSelection(y, c, u) = UserSelection(x, c, u)
      <4>1. Vis(y, u) = Vis(x, u)
        BY <3>1, <3>4 DEF SameReads, Vis
      <4>2. default(y) = default(x)
        BY <1>1, <3>1, <3>4 DEF Decided, SameReads
      <4> QED BY <2>2, <2>4, <3>1, <4>1, <4>2
    <3>5. SelectsVisible(x, c, UserSelection(x, c, u).v)
      BY <1>1, <3>1
    <3> QED BY <3>2, <3>3, <3>4, <3>5 DEF Decided
  <2> QED BY <2>3, <2>4
<1> QED BY <1>2, <1>3

\* Choice.selection.
LEMMA SelectionIs ==
    ASSUME NEW x, IsEnv(x), NEW c \in Choices
    PROVE  /\ Selection(x, c) \in Calcs(Members(c) \cup {NoSelection})
           /\ ReadsOf(Selection(x, c), ReadBy(c))
           /\ <<c, "vis">> \in Selection(x, c).r
           /\ \A y : Decided(Selection(x, c), Selection(y, c), x, y)
           /\ IF ChoiceTriValue(x, c).v = 2 THEN SelectsVisible(x, c, Selection(x, c).v)
              ELSE Selection(x, c).v = NoSelection
<1> DEFINE mode(z) == ChoiceTriValue(z, c)
           usel == <<c, "usel">>
           user(z, u) == UserSelection(z, c, u)
<1>1. /\ mode(x) \in Calcs(0 .. 2) /\ ReadsOf(mode(x), ReadBy(c)) /\ <<c, "vis">> \in mode(x).r
      /\ \A y : Decided(mode(x), mode(y), x, y)
  <2>1. c \in ReadBy(c)
    BY DEF ReadBy
  <2> QED BY <2>1, ChoiceTriValueIs, ModeReads DEF Decided
<1>2. /\ usel \in Cells /\ x[usel] \in Members(c) \cup {None}
      /\ usel[1] \in ReadBy(c) /\ \A s \in Syms : usel # <<s, "user">>
  <2>1. usel \in Cells /\ CellValues(usel) = Members(c)
    BY CellForms, CellKinds
  <2> QED BY <2>1 DEF IsEnv, ReadBy
<1>3. /\ user(x, x[usel]) \in Calcs(Members(c) \cup {NoSelection})
      /\ ReadsOf(user(x, x[usel]), ReadBy(c))
      /\ \A y : Decided(user(x, x[usel]), user(y, x[usel]), x, y)
      /\ SelectsVisible(x, c, user(x, x[usel]).v)
  BY <1>2, UserSelectionIs
<1>4. \A z : Selection(z, c) =
         [v |-> IF mode(z).v # 2 THEN NoSelection ELSE user(z, z[usel]).v,
          r |-> mode(z).r \cup (IF mode(z).v # 2 THEN {} ELSE {usel} \cup user(z, z[usel]).r)]
  BY DEF Selection, SelectionInMode, AfterReading, Just
<1> HIDE DEF mode, user
<1>5. CASE mode(x).v # 2
  <2>1. Selection(x, c) = [v |-> NoSelection, r |-> mode(x).r]
    BY <1>4, <1>5
  <2>2. Selection(x, c) \in Calcs(Members(c) \cup {NoSelection})
    BY <1>1, <2>1 DEF Calcs
  <2>3. ReadsOf(Selection(x, c), ReadBy(c)) /\ <<c, "vis">> \in Selection(x, c).r
    BY <1>1, <2>1 DEF ReadsOf
  <2>4. ASSUME NEW y, SameReads(Selection(x, c), x, y) PROVE Selection(y, c) = Selection(x, c)
    <3>1. mode(y) = mode(x)
      BY <1>1, <2>1, <2>4 DEF Decided, SameReads
    <3> QED BY <1>4, <1>5, <2>1, <3>1
  <2> QED BY <1>5, <2>1, <2>2, <2>3, <2>4 DEF Decided, mode
<1>6. CASE mode(x).v = 2
  <2> HIDE DEF usel
  <2>1. Selection(x, c) = [v |-> user(x, x[usel]).v,
                           r |-> mode(x).r \cup ({usel} \cup user(x, x[usel]).r)]
    BY <1>4, <1>6
  <2>2. Selection(x, c) \in Calcs(Members(c) \cup {NoSelection})
    BY <1>1, <1>2, <1>3, <2>1 DEF Calcs
  <2>3. ReadsOf(Selection(x, c), ReadBy(c)) /\ <<c, "vis">> \in Selection(x, c).r
    BY <1>1, <1>2, <1>3, <2>1 DEF ReadsOf
  <2>4. ASSUME NEW y, SameReads(Selection(x, c), x, y)
        PROVE  Selection(y, c) = Selection(x, c)
    <3>1. mode(y) = mode(x) /\ y[usel] = x[usel]
      BY <1>1, <2>1, <2>4 DEF Decided, SameReads
    <3>2. user(y, x[usel]) = user(x, x[usel])
      BY <1>3, <2>1, <2>4 DEF Decided, SameReads
    <3> QED BY <1>4, <1>6, <2>1, <3>1, <3>2
  <2>5. SelectsVisible(x, c, Selection(x, c).v)
    BY <1>3, <2>1
  <2> QED BY <1>6, <2>2, <2>3, <2>4, <2>5 DEF Decided, mode
<1> QED BY <1>5, <1>6

----------------------------------------------------------------------------
(* All attributes.                                                          *)

\* What Evaluator needs to know of the calculation a of p in x.
Registers(a, p, x) ==
    /\ a \in Calcs(CellValues(p))
    /\ \A q \in a.r : q[1] \in ReadBy(p[1]) \cup {Modules}
    /\ p[2] # "vis" => <<p[1], "vis">> \in a.r
    /\ \A s \in Syms : <<s, "user">> \in a.r =>
          p[1] = s /\ x[<<s, "vis">>] \notin {None, 0}

\* The calculation of every attribute registers what it reads and is decided
\* by it.
LEMMA CalculateIs ==
    ASSUME NEW x, IsEnv(x), NEW p \in Attributes
    PROVE  /\ Registers(Calculate(x, p), p, x)
           /\ \A y : Decided(Calculate(x, p), Calculate(y, p), x, y)
<1>1. CASE p \in Items \X {"vis"}
  <2>1. PICK i \in Items : p = <<i, "vis">>
    BY <1>1
  <2>2. \A z : Calculate(z, p) = Visibility(z, i)
    BY <2>1 DEF Calculate
  <2>3. CellValues(p) = 0 .. 2
    BY <2>1, CellKinds
  <2>4. /\ Visibility(x, i) \in Calcs(0 .. 2) /\ ReadsOf(Visibility(x, i), ReadBy(i))
        /\ \A y : Decided(Visibility(x, i), Visibility(y, i), x, y)
    BY VisibilityIs DEF Decided
  <2> QED BY <2>1, <2>2, <2>3, <2>4 DEF Registers, ReadsOf
<1>2. CASE p \in Syms \X {"val"}
  <2>1. PICK s \in Syms : p = <<s, "val">>
    BY <1>2
  <2>2. \A z : Calculate(z, p) = SymValue(z, s)
    BY <2>1 DEF Calculate
  <2>3. CellValues(p) = 0 .. 2
    BY <2>1, CellKinds
  <2>4. /\ SymValue(x, s) \in Calcs(0 .. 2) /\ <<s, "vis">> \in SymValue(x, s).r
        /\ ReadsOfSym(SymValue(x, s), s, Vis(x, s))
        /\ \A y : Decided(SymValue(x, s), SymValue(y, s), x, y)
    BY SymValueIs
  <2>5. Vis(x, s) # 0 => x[<<s, "vis">>] \notin {None, 0}
    BY DEF Vis, OrZero
  <2>6. ASSUME NEW q \in SymValue(x, s).r PROVE q[1] \in ReadBy(s) \cup {Modules}
    BY <2>4 DEF ReadsOfSym, ReadBy
  <2>7. ASSUME NEW t \in Syms, <<t, "user">> \in SymValue(x, s).r
        PROVE  s = t /\ x[<<t, "vis">>] \notin {None, 0}
    BY <2>4, <2>5, <2>7 DEF ReadsOfSym
  <2> QED BY <2>1, <2>2, <2>3, <2>4, <2>6, <2>7 DEF Registers
<1>3. CASE p \in Choices \X {"sel"}
  <2>1. PICK c \in Choices : p = <<c, "sel">>
    BY <1>3
  <2>2. \A z : Calculate(z, p) = Selection(z, c)
    BY <2>1 DEF Calculate
  <2>3. CellValues(p) = Members(c) \cup {NoSelection}
    BY <2>1, CellKinds
  <2>4. /\ Selection(x, c) \in Calcs(Members(c) \cup {NoSelection})
        /\ ReadsOf(Selection(x, c), ReadBy(c)) /\ <<c, "vis">> \in Selection(x, c).r
        /\ \A y : Decided(Selection(x, c), Selection(y, c), x, y)
    BY SelectionIs
  <2> QED BY <2>1, <2>2, <2>3, <2>4 DEF Registers, ReadsOf
<1>4. CASE p \in Observed \X {"asg"}
  <2>1. PICK i \in Items : p = <<i, "asg">>
    BY <1>4, ItemsAssumption
  <2> DEFINE asg(z) == IF i \in Choices THEN ChoiceAssignable(z, i) ELSE SymAssignable(z, i)
  <2>2. \A z : Calculate(z, p) = asg(z)
    BY <2>1 DEF Calculate
  <2>3. CellValues(p) = SUBSET (0 .. 2)
    BY <2>1, CellKinds
  <2>4. /\ asg(x) \in Calcs(SUBSET (0 .. 2))
        /\ ReadsOf(asg(x), ReadBy(i)) /\ <<i, "vis">> \in asg(x).r
        /\ \A y : Decided(asg(x), asg(y), x, y)
    BY SymAssignableIs, ChoiceAssignableIs DEF Items
  <2> HIDE DEF asg
  <2> QED BY <2>1, <2>2, <2>3, <2>4 DEF Registers, ReadsOf
<1> QED BY <1>1, <1>2, <1>3, <1>4 DEF Attributes

\* AttrValue, AttrReads, Dependents and HasPrompt are those of the menu tree.
IsTree ==
    /\ \A p \in Attributes : \A x : AttrValue(p, x) = TreeValue(p, x)
                                     /\ AttrReads(p, x) = TreeReads(p, x)
    /\ Dependents = TreeDependents
    /\ HasPrompt = {s \in Syms : Prompts[s] # <<>>}

\* Without a prompt there is nothing to be visible for.
LEMMA NoPromptMeansHidden ==
    ASSUME NEW x, IsEnv(x), NEW s \in Syms, Prompts[s] = <<>>
    PROVE  Visibility(x, s).v = 0
<1>1. Highest({}) \in Calcs(0 .. 2) /\ Highest({}).v = 0
  BY HighestIs
<1>2. PromptLimit(x, Prompts[s]) = Highest({})
  <2>1. {ExprValue(x, Prompts[s][k]) : k \in DOMAIN Prompts[s]} = {}
    OBVIOUS
  <2> QED BY <2>1 DEF PromptLimit
<1>3. \A hidden, type : VisOfType(hidden, 0, type).v = 0
  BY DEF VisOfType, AfterReading, Just
<1> QED BY <1>1, <1>2, <1>3 DEF Visibility, VisWithin, AfterReading

\* The calculations of kconfiglib.py, for every menu tree, have what the
\* invalidation of caches relies on.
THEOREM TreeIsAnEvaluator == ASSUME IsTree PROVE Evaluator
<1>1. ASSUME NEW p \in Attributes, NEW x
      PROVE  /\ AttrValue(p, x) = Calculate(x, p).v
             /\ AttrReads(p, x) = Calculate(x, p).r
  BY <1>1 DEF IsTree, TreeValue, TreeReads
<1>2. ASSUME NEW p \in Attributes, NEW x, IsEnv(x)
      PROVE  /\ AttrValue(p, x) \in CellValues(p)
             /\ \A q \in AttrReads(p, x) : q \in Cells /\ q[1] \in ReadBy(p[1]) \cup {Modules}
             /\ p[2] # "vis" => <<p[1], "vis">> \in AttrReads(p, x)
             /\ \A s \in Syms : <<s, "user">> \in AttrReads(p, x) =>
                   p[1] = s /\ x[<<s, "vis">>] \notin {None, 0}
  BY <1>1, <1>2, CalculateIs DEF Registers, Calcs
<1>3. ReadsDecide
  <2> SUFFICES ASSUME NEW p \in Attributes, NEW x, NEW y, IsEnv(x),
                      \A q \in AttrReads(p, x) : x[q] = y[q]
               PROVE  AttrValue(p, y) = AttrValue(p, x) /\ AttrReads(p, y) = AttrReads(p, x)
    BY DEF ReadsDecide
  <2>1. Calculate(y, p) = Calculate(x, p)
    <3>1. Decided(Calculate(x, p), Calculate(y, p), x, y)
      BY CalculateIs
    <3>2. SameReads(Calculate(x, p), x, y)
      BY <1>1 DEF SameReads
    <3> QED BY <3>1, <3>2 DEF Decided
  <2> QED BY <1>1, <2>1
<1>4. ReadsAreDependencies
  <2> SUFFICES ASSUME NEW p \in Attributes, NEW x, IsEnv(x), NEW q \in AttrReads(p, x)
               PROVE  /\ q \in Cells
                      /\ q[1] = p[1] \/ q[1] = Modules \/ p[1] \in Dependents[q[1]]
    BY DEF ReadsAreDependencies
  <2>1. q \in Cells /\ q[1] \in ReadBy(p[1]) \cup {Modules}
    BY <1>2
  <2> QED BY <2>1 DEF ReadBy, IsTree
<1>5. SymsDependOnChoice
  <2> SUFFICES ASSUME NEW s \in Syms, ChoiceOf[s] # None
               PROVE  s \in Dependents[ChoiceOf[s]]
    BY DEF SymsDependOnChoice
  <2>1. ChoiceOf[s] \in ReadBy(s) /\ ChoiceOf[s] # s
    BY SymReadBy, ItemsAssumption
  <2> QED BY <2>1 DEF ReadBy, IsTree
<1>6. VisibilityFirst
  BY <1>2 DEF VisibilityFirst
<1>7. NoPromptNoVisibility
  <2> SUFFICES ASSUME NEW s \in Syms \ HasPrompt, NEW x, IsEnv(x)
               PROVE  AttrValue(<<s, "vis">>, x) = 0
    BY DEF NoPromptNoVisibility
  <2>1. Prompts[s] = <<>> /\ <<s, "vis">> \in Attributes
    BY CellForms DEF IsTree, Items
  <2>2. Calculate(x, <<s, "vis">>) = Visibility(x, s)
    BY DEF Calculate
  <2> QED BY <1>1, <2>1, <2>2, NoPromptMeansHidden
<1>8. UserValueNeedsVisibility
  BY <1>2 DEF UserValueNeedsVisibility
<1>9. ValuesFit
  BY <1>2 DEF ValuesFit
<1> QED BY <1>3, <1>4, <1>5, <1>6, <1>7, <1>8, <1>9 DEF Evaluator

----------------------------------------------------------------------------
(* Dependencies.                                                            *)

\* The calculation of one attribute registers what it reads, and leaves out
\* nothing that matters.
LEMMA OneIsRegistered ==
    ASSUME IsTree, IsEnv(env), NEW p \in Attributes
    PROVE  Registered(p, Calculate(env, p))
<1> DEFINE now == Calculate(env, p)
           only == [q \in Cells |-> IF q \in now.r THEN env[q] ELSE None]
<1>1. /\ Registers(now, p, env)
      /\ \A y : Decided(now, Calculate(y, p), env, y)
  BY CalculateIs
<1>2. AttrReads(p, env) = now.r /\ AttrValue(p, env) = now.v
  BY DEF IsTree, TreeReads, TreeValue
<1>3. Evaluator
  BY TreeIsAnEvaluator
<1>4. now.r \subseteq Cells
  BY <1>1 DEF Registers, Calcs
<1> HIDE DEF now
<1>5. \A q \in now.r : q[1] \in {p[1], Modules} \/ p[1] \in Dependents[q[1]]
  BY <1>2, <1>3 DEF Evaluator, ReadsAreDependencies
<1>6. p[2] = "vis" /\ p[1] \in Syms \ HasPrompt => now.v = 0
  <2> SUFFICES ASSUME p[2] = "vis", p[1] \in Syms \ HasPrompt PROVE now.v = 0
    OBVIOUS
  <2>1. p = <<p[1], "vis">>
    BY CellForms
  <2> QED BY <1>2, <1>3, <2>1 DEF Evaluator, NoPromptNoVisibility
<1>7. Calculate(only, p) = now
  <2>1. SameReads(now, env, only)
    BY <1>4 DEF SameReads
  <2> HIDE DEF only
  <2> QED BY <1>1, <2>1 DEF Decided
<1> QED BY <1>1, <1>5, <1>6, <1>7 DEF Registered, Registers, now

(***************************************************************************)
(* _build_dep() and _add_choice_deps() register every item an attribute    *)
(* reads, for every menu tree, and a cell that was not read, short-circuits*)
(* included, does not matter to the value or to what is read.              *)
(***************************************************************************)
THEOREM ReadsAreRegisteredThm == ASSUME IsTree PROVE Spec => []ReadsAreRegistered
<1>1. Evaluator
  BY TreeIsAnEvaluator
<1>2. ValuesInv => ReadsAreRegistered
  <2> SUFFICES ASSUME ValuesInv PROVE ReadsAreRegistered
    OBVIOUS
  <2>1. IsEnv(env)
    BY DEF ValuesInv, CacheInv
  <2>2. \A s \in Syms : ChoiceOf[s] # None => s \in Dependents[ChoiceOf[s]]
    BY <1>1 DEF Evaluator, SymsDependOnChoice
  <2> QED BY <2>1, <2>2, OneIsRegistered DEF ReadsAreRegistered
<1>3. ValuesInv /\ [Next]_vars => ValuesInv'
  BY <1>1, ValuesInvStep
<1> QED BY <1>2, <1>3, ValuesInvInit, PTL DEF Spec

----------------------------------------------------------------------------
(* Calculating from empty caches.                                           *)

\* What Config() makes of f.
ConfigStep(x, f) == [q \in Cells |-> IF q \in Inputs THEN x[q] ELSE AttrValue(q, f)]

\* Inputs come first, then attributes in the order of reading.
LowerCells(Order) ==
    {pair \in Cells \X Attributes :
        pair[1] \in Inputs \/ (pair[1] \in Attributes /\ pair \in Order)}

\* If reading cannot go round in circles, the attributes can be calculated.
LEMMA ConfigExists ==
    ASSUME Evaluator, NEW Order, Ordered(Order), NEW x, IsEnv(x)
    PROVE  \E f : IsEnv(f) /\ f = ConfigStep(x, f)
<1> DEFINE Universe == UNION {CellValues(q) \cup {None} : q \in Cells}
           F == {f \in [Cells -> Universe] : IsEnv(f)}
           Step == [f \in F |-> ConfigStep(x, f)]
           Lower == LowerCells(Order)
<1>1. \A f : IsEnv(f) => f \in F
  BY DEF IsEnv
<1>2. \A f \in F : IsEnv(f)
  OBVIOUS
<1>3. \A f \in F : Step[f] = ConfigStep(x, f)
  OBVIOUS
<1> HIDE DEF F, Step
<1>4. F # {}
  BY <1>1
<1>5. PointByPoint(Cells, F)
  <2>1. \A f \in F : f = [q \in Cells |-> f[q]]
    BY <1>2 DEF IsEnv
  <2>2. ASSUME NEW h, h = [q \in Cells |-> h[q]], \A q \in Cells : \E f \in F : h[q] = f[q]
        PROVE  h \in F
    <3>1. ASSUME NEW q \in Cells PROVE h[q] \in CellValues(q) \cup {None}
      BY <1>2, <2>2 DEF IsEnv
    <3>2. IsEnv(h)
      BY <2>2, <3>1 DEF IsEnv
    <3> QED BY <1>1, <3>2
  <2> QED BY <2>1, <2>2 DEF PointByPoint
<1>6. ASSUME NEW f \in F PROVE Step[f] \in F
  <2>1. ASSUME NEW q \in Cells PROVE ConfigStep(x, f)[q] \in CellValues(q) \cup {None}
    <3>1. CASE q \in Inputs
      BY <3>1 DEF ConfigStep, IsEnv
    <3>2. CASE q \notin Inputs
      <4>1. q \in Attributes
        BY <3>2 DEF Cells
      <4>2. AttrValue(q, f) \in CellValues(q)
        BY <1>2, <4>1 DEF Evaluator, ValuesFit
      <4> QED BY <3>2, <4>2 DEF ConfigStep
    <3> QED BY <3>1, <3>2
  <2>2. ConfigStep(x, f) = [q \in Cells |-> ConfigStep(x, f)[q]]
    BY DEF ConfigStep
  <2>3. IsEnv(ConfigStep(x, f))
    BY <2>1, <2>2 DEF IsEnv
  <2> QED BY <1>1, <1>3, <2>3
<1>7. HasLowest(Cells, Lower)
  <2> SUFFICES ASSUME NEW T \in SUBSET Cells, T # {}
               PROVE  \E p \in T : \A q \in T : <<q, p>> \notin Lower
    BY DEF HasLowest
  <2>1. CASE T \cap Inputs # {}
    <3>1. PICK p \in T : p \in Inputs
      BY <2>1
    <3>2. p \notin Attributes
      BY <3>1, CellForms
    <3> QED BY <3>1, <3>2 DEF LowerCells
  <2>2. CASE T \cap Inputs = {}
    <3>1. T \subseteq Attributes
      BY <2>2 DEF Cells
    <3>2. PICK p \in T : \A q \in T : ~(<<q, p>> \in Order)
      BY <3>1, WFMin DEF Ordered
    <3>3. ASSUME NEW q \in T PROVE <<q, p>> \notin Lower
      BY <2>2, <3>2 DEF LowerCells
    <3> QED BY <3>3
  <2> QED BY <2>1, <2>2
<1>8. DeterminedBelow(Cells, F, Step, Lower)
  <2> SUFFICES ASSUME NEW f \in F, NEW g \in F, NEW p \in Cells,
                      \A q \in Cells : <<q, p>> \in Lower => f[q] = g[q]
               PROVE  Step[f][p] = Step[g][p]
    BY DEF DeterminedBelow
  <2>1. CASE p \in Inputs
    BY <1>3, <2>1 DEF ConfigStep
  <2>2. CASE p \notin Inputs
    <3>1. p \in Attributes
      BY <2>2 DEF Cells
    <3>2. ASSUME NEW q \in AttrReads(p, f) PROVE f[q] = g[q]
      <4>1. q \in Cells
        BY <1>2, <3>1 DEF Evaluator, ReadsAreDependencies
      <4>2. q \in Inputs \/ (q \in Attributes /\ <<q, p>> \in Order)
        BY <1>2, <3>1, <4>1 DEF Ordered, Cells
      <4>3. <<q, p>> \in Lower
        BY <3>1, <4>1, <4>2 DEF LowerCells
      <4> QED BY <4>1, <4>3
    <3>3. AttrValue(p, g) = AttrValue(p, f)
      BY <1>2, <3>1, <3>2 DEF Evaluator, ReadsDecide
    <3>4. Step[f][p] = AttrValue(p, f) /\ Step[g][p] = AttrValue(p, g)
      <4>1. \A h : ConfigStep(x, h)[p] = AttrValue(p, h)
        BY <2>2 DEF ConfigStep
      <4> QED BY <1>3, <4>1
    <3> QED BY <3>3, <3>4
  <2> QED BY <2>1, <2>2
<1>9. \E f \in F : f = Step[f]
  <2> HIDE DEF Lower
  <2> QED BY <1>4, <1>5, <1>6, <1>7, <1>8, RecursionHasSolution
<1> QED BY <1>2, <1>3, <1>9

\* Config() finds the only solution there is.
LEMMA ConfigIs ==
    ASSUME Evaluator, NEW Order, Ordered(Order), NEW x, IsEnv(x)
    PROVE  IsEnv(Config(x)) /\ Calculated(Config(x), x)
<1>1. PICK f : IsEnv(f) /\ f = ConfigStep(x, f)
  BY ConfigExists
<1>2. Config(x) = ConfigStep(x, Config(x))
  <2>1. Config(x) = CHOOSE h : h = ConfigStep(x, h)
    BY DEF Config, ConfigStep
  <2>2. \E h : h = ConfigStep(x, h)
    BY <1>1
  <2> QED BY <2>1, <2>2
<1> DEFINE g == Config(x)
           Wrong == {p \in Attributes : f[p] # g[p]}
<1>3. \A q \in Inputs : f[q] = x[q] /\ g[q] = x[q]
  BY <1>1, <1>2, CellForms DEF ConfigStep
<1>4. \A p \in Attributes : f[p] = AttrValue(p, f) /\ g[p] = AttrValue(p, g)
  BY <1>1, <1>2, CellForms DEF ConfigStep
<1> HIDE DEF g
<1>5. ASSUME Wrong # {} PROVE FALSE
  <2>1. PICK p \in Wrong : \A q \in Wrong : ~(<<q, p>> \in Order)
    <3>1. Wrong \subseteq Attributes
      OBVIOUS
    <3> HIDE DEF Wrong
    <3> QED BY <1>5, <3>1, WFMin DEF Ordered
  <2>2. ASSUME NEW q \in AttrReads(p, f) PROVE f[q] = g[q]
    <3>1. q \in Inputs \/ q \in Attributes
      BY <1>1, <2>1 DEF Evaluator, ReadsAreDependencies, Cells
    <3>2. q \in Attributes => <<q, p>> \in Order
      BY <1>1, <2>1 DEF Ordered
    <3> QED BY <1>3, <2>1, <3>1, <3>2
  <2>3. AttrValue(p, g) = AttrValue(p, f)
    BY <1>1, <2>1, <2>2 DEF Evaluator, ReadsDecide
  <2> QED BY <1>4, <2>1, <2>3
<1>6. f = g
  <2>1. f = [q \in Cells |-> f[q]] /\ g = [q \in Cells |-> g[q]]
    BY <1>1, <1>2 DEF ConfigStep, g
  <2>2. \A q \in Cells : f[q] = g[q]
    BY <1>3, <1>5 DEF Cells
  <2> QED BY <2>1, <2>2
<1>7. IsEnv(g)
  BY <1>1, <1>6
<1> QED BY <1>3, <1>4, <1>7 DEF Calculated, g

(***************************************************************************)
(* _rec_invalidate drops enough, for every menu tree in which reading      *)
(* cannot go round in circles: every cached attribute is what it would be  *)
(* if all the caches had been empty.                                       *)
(***************************************************************************)
THEOREM CacheCoherentThm ==
    ASSUME IsTree, NEW CONSTANT Order, Ordered(Order)
    PROVE  Spec => []CacheCoherent
<1>1. Evaluator
  BY TreeIsAnEvaluator
<1>2. ValuesInv => CacheCoherent
  <2> SUFFICES ASSUME ValuesInv PROVE CacheCoherent
    OBVIOUS
  <2>1. IsEnv(env) /\ LocallyCoherent
    BY ValuesInvGives DEF ValuesInv, CacheInv
  <2>2. IsEnv(Config(env)) /\ Calculated(Config(env), env)
    BY <1>1, <2>1, ConfigIs
  <2>3. CachedIsCalculated
    BY <1>1, <2>1, CoherentIsCalculated
  <2> QED BY <2>2, <2>3 DEF CachedIsCalculated, CacheCoherent
<1>3. ValuesInv /\ [Next]_vars => ValuesInv'
  BY <1>1, ValuesInvStep
<1> QED BY <1>2, <1>3, ValuesInvInit, PTL DEF Spec

----------------------------------------------------------------------------
(* Choices.                                                                 *)

\* What is joined with && limits the value of the whole.
LEMMA ConjunctsLimit ==
    ASSUME NEW x, IsEnv(x), NEW e \in Exprs, NEW d \in Conjuncts(e)
    PROVE  d \in Exprs /\ ExprValue(x, e).v <= ExprValue(x, d).v
<1> DEFINE E == {f \in Exprs : ExprValue(x, e).v <= ExprValue(x, f).v}
<1>1. \A f \in Exprs : ExprValue(x, f).v \in 0 .. 2
  BY ExprValueFits DEF Calcs
<1>2. ASSUME NEW f \in E, f[1] = "and" PROVE Parts(f) \subseteq E
  <2>1. f[2] \in Exprs /\ f[3] \in Exprs /\ Parts(f) = {f[2], f[3]}
    BY <1>2, ExprForms
  <2>2. ExprValue(x, f) = AndOf(ExprValue(x, f[2]), ExprValue(x, f[3]))
    BY <1>2, ExprValueUnfolds
  <2>3. \A a, b : /\ a.v \in 0 .. 2 /\ b.v \in 0 .. 2
                  => AndOf(a, b).v <= a.v /\ AndOf(a, b).v <= b.v
    BY DEF AndOf, Least
  <2>4. /\ ExprValue(x, f).v <= ExprValue(x, f[2]).v
        /\ ExprValue(x, f).v <= ExprValue(x, f[3]).v
    BY <1>1, <2>1, <2>2, <2>3
  <2>5. ExprValue(x, e).v <= ExprValue(x, f).v
    OBVIOUS
  <2> QED BY <1>1, <2>1, <2>4, <2>5
<1>3. E \in AndClosed
  BY <1>2 DEF AndClosed
<1>4. e \in E
  BY <1>1
<1> HIDE DEF E
<1>5. d \in Exprs /\ d \in E
  BY <1>3, <1>4 DEF Conjuncts
<1> QED BY <1>5 DEF E

\* _propagate_deps(): the prompts of a choice symbol are limited by the mode.
LEMMA ModeLimitsPrompts ==
    ASSUME NEW x, IsEnv(x), NEW s \in Syms, ChoiceOf[s] # None
    PROVE  PromptLimit(x, Prompts[s]).v <= Mode(x, ChoiceOf[s])
<1> DEFINE c == ChoiceOf[s]
           found == {ExprValue(x, Prompts[s][k]) : k \in DOMAIN Prompts[s]}
           limit == Highest(found)
<1>1. c \in Choices /\ Mode(x, c) \in 0 .. 2
  BY ItemsAssumption, ChoiceTriValueIs DEF Mode, Calcs
<1>2. \A k \in DOMAIN Prompts[s] : Prompts[s][k] \in Exprs
  <2>1. Prompts[s] \in Seq(Exprs)
    BY TreeAssumption DEF Items
  <2> QED BY <2>1
<1>3. found \in SUBSET Calcs(0 .. 2)
  BY <1>2, ExprValueFits
<1>4. ASSUME NEW k \in DOMAIN Prompts[s]
      PROVE  ExprValue(x, Prompts[s][k]).v <= Mode(x, c)
  <2>1. PICK d \in {N, <<"item", c>>} : d \in Conjuncts(Prompts[s][k])
    <3>1. {N, <<"item", c>>} \cap Conjuncts(Prompts[s][k]) # {}
      BY TreeAssumption
    <3> QED BY <3>1
  <2>2. d \in Exprs /\ ExprValue(x, Prompts[s][k]).v <= ExprValue(x, d).v
    BY <1>2, <2>1, ConjunctsLimit
  <2>3. ExprValue(x, d).v <= Mode(x, c)
    <3>1. CASE d = N
      <4>1. ExprValue(x, N) = Just(0)
        BY <2>2, <3>1, ExprValueUnfolds DEF N
      <4> QED BY <1>1, <3>1, <4>1 DEF Just
    <3>2. CASE d = <<"item", c>>
      <4>1. ExprValue(x, d) = ItemValue(x, c)
        BY <2>2, <3>2, ExprValueUnfolds
      <4> QED BY <1>1, <4>1 DEF ItemValue, Mode
    <3> QED BY <2>1, <3>1, <3>2
  <2>4. ExprValue(x, Prompts[s][k]).v \in 0 .. 2 /\ ExprValue(x, d).v \in 0 .. 2
    BY <1>2, <2>2, ExprValueFits DEF Calcs
  <2> QED BY <1>1, <2>2, <2>3, <2>4
<1>5. limit.v \in 0 .. 2 /\ (limit.v # 0 => \E f \in found : f.v = limit.v)
  <2> HIDE DEF found
  <2> QED BY <1>3, HighestIs DEF Calcs
<1>6. limit.v <= Mode(x, c)
  <2>1. CASE limit.v = 0
    BY <1>1, <2>1
  <2>2. CASE limit.v # 0
    <3> HIDE DEF limit
    <3> QED BY <1>4, <1>5, <2>2
  <2> QED BY <2>1, <2>2
<1> QED BY <1>6 DEF PromptLimit

\* In y mode no symbol of a choice can be m, and in n mode none is visible.
LEMMA ModeDecidesVisibility ==
    ASSUME NEW x, IsEnv(x), NEW s \in Syms, ChoiceOf[s] # None
    PROVE  /\ Mode(x, ChoiceOf[s]) = 2 => Visibility(x, s).v \in {0, 2}
           /\ Mode(x, ChoiceOf[s]) = 0 => Visibility(x, s).v = 0
<1> DEFINE c == ChoiceOf[s]
           limit == PromptLimit(x, Prompts[s]).v
           hidden == HiddenByMode(x, s, limit).v
           type == TypeOf(x, s).v
<1>0. s \notin Choices /\ s \in Items /\ c \in Choices
  BY ItemsAssumption DEF Items
<1>1. Visibility(x, s).v =
         IF hidden THEN 0 ELSE IF limit # 1 THEN limit
         ELSE IF type = "tristate" THEN 1 ELSE 2
  <2>1. TypeOf(x, s) \in Calcs(Types)
    BY <1>0, TypeOfIs
  <2> QED BY <1>0, <2>1 DEF Visibility, VisWithin, VisOfType, AfterReading, Just, Calcs
<1>2. limit \in 0 .. 2 /\ limit <= Mode(x, c) /\ Mode(x, c) \in 0 .. 2
  <2>1. Prompts[s] \in Seq(Exprs)
    BY <1>0, TreeAssumption
  <2>2. \A k \in DOMAIN Prompts[s] : DependOn(Prompts[s][k]) \subseteq ReadBy(s)
    BY SymReadBy DEF PromptExprs
  <2>3. PromptLimit(x, Prompts[s]) \in Calcs(0 .. 2)
    BY <2>1, <2>2, PromptLimitIs
  <2> QED BY <1>0, <2>3, ModeLimitsPrompts, ChoiceTriValueIs DEF Calcs, Mode
<1>3. ASSUME Mode(x, c) = 2, OrigType[s] = "tristate", limit = 1 PROVE hidden
  <2>1. ChoiceTriValue(x, c) \in Calcs(0 .. 2)
    BY <1>0, ChoiceTriValueIs
  <2>2. HiddenByMode(x, s, limit) = [ChoiceTriValue(x, c) EXCEPT !.v = @ = 2]
    BY <1>3 DEF HiddenByMode
  <2> QED BY <1>3, <2>1, <2>2 DEF Calcs, Mode
<1>4. OrigType[s] # "tristate" => type = "bool"
  BY <1>0 DEF TypeOf, SymType, Just
<1> HIDE DEF limit, hidden, type
<1> QED BY <1>1, <1>2, <1>3, <1>4

\* The attributes of the symbols of a choice in a configuration.
LEMMA ChoiceSymsAre ==
    ASSUME IsTree, NEW x, IsEnv(x), NEW i, Calculated(x, i), NEW s \in Syms, ChoiceOf[s] # None
    PROVE  /\ x[<<s, "vis">>] = Visibility(x, s).v /\ x[<<s, "vis">>] \in 0 .. 2
           /\ Vis(x, s) = x[<<s, "vis">>]
           /\ Val(x, s) = ChoiceSymValue(x, s, Vis(x, s)).v
           /\ x[<<ChoiceOf[s], "sel">>] = Selection(x, ChoiceOf[s]).v
<1>0. /\ <<s, "vis">> \in Attributes /\ <<s, "val">> \in Attributes
      /\ <<ChoiceOf[s], "sel">> \in Attributes
      /\ s \in Items /\ ChoiceOf[s] \in Choices
  BY ItemsAssumption DEF Attributes, Items
<1>1. \A p \in Attributes : x[p] = Calculate(x, p).v
  BY DEF Calculated, IsTree, TreeValue
<1>2. x[<<s, "vis">>] = Visibility(x, s).v
  BY <1>0, <1>1 DEF Calculate
<1>3. Visibility(x, s).v \in 0 .. 2
  BY <1>0, VisibilityIs DEF Calcs
<1>4. Vis(x, s) = x[<<s, "vis">>]
  <2>1. None \notin 0 .. 2
    BY ItemsAssumption
  <2> QED BY <1>2, <1>3, <2>1 DEF Vis, OrZero
<1>5. x[<<s, "val">>] = SymValue(x, s).v
  BY <1>0, <1>1 DEF Calculate
<1>6. SymValue(x, s).v = ChoiceSymValue(x, s, Vis(x, s)).v
  BY DEF SymValue, AfterReading
<1>7. x[<<ChoiceOf[s], "sel">>] = Selection(x, ChoiceOf[s]).v
  BY <1>0, <1>1 DEF Calculate
<1> QED BY <1>2, <1>3, <1>4, <1>5, <1>6, <1>7 DEF Val

\* In any configuration, every choice is exclusive.
LEMMA ConfigurationIsExclusive ==
    ASSUME IsTree, NEW x, IsEnv(x), NEW i, Calculated(x, i), NEW c \in Choices
    PROVE  Exclusive(Mode(x, c), Members(c), x)
<1> DEFINE sel == Selection(x, c).v
           atY == {s \in Members(c) : Val(x, s) = 2}
<1>0. /\ \A s \in Members(c) : s \in Syms /\ ChoiceOf[s] = c /\ ChoiceOf[s] # None
      /\ NoSelection \notin Members(c)
  BY ItemsAssumption DEF Members, Items
<1>1. ASSUME NEW s \in Members(c)
      PROVE  /\ x[<<s, "vis">>] \in 0 .. 2 /\ Vis(x, s) = x[<<s, "vis">>]
             /\ x[<<s, "vis">>] = 0 => Val(x, s) = 0
             /\ x[<<s, "vis">>] = 1 => Val(x, s) \in {0, 1}
             /\ x[<<s, "vis">>] = 2 => Val(x, s) = IF sel = s THEN 2 ELSE 0
             /\ Mode(x, c) = 2 => x[<<s, "vis">>] # 1
             /\ Mode(x, c) = 0 => x[<<s, "vis">>] = 0
  <2>1. /\ x[<<s, "vis">>] = Visibility(x, s).v /\ x[<<s, "vis">>] \in 0 .. 2
        /\ Vis(x, s) = x[<<s, "vis">>]
        /\ Val(x, s) = ChoiceSymValue(x, s, Vis(x, s)).v
        /\ x[<<c, "sel">>] = sel
    BY <1>0, ChoiceSymsAre
  <2>2. /\ Mode(x, c) = 2 => Visibility(x, s).v \in {0, 2}
        /\ Mode(x, c) = 0 => Visibility(x, s).v = 0
    BY <1>0, ModeDecidesVisibility
  <2>3. /\ ChoiceSymValue(x, s, 0).v = 0
        /\ ChoiceSymValue(x, s, 1).v \in {0, 1}
        /\ ChoiceSymValue(x, s, 2).v = IF x[<<c, "sel">>] = s THEN 2 ELSE 0
    BY <1>0 DEF ChoiceSymValue, Just
  <2> HIDE DEF sel
  <2> QED BY <2>1, <2>2, <2>3
<1>2. /\ Mode(x, c) = 2 => SelectsVisible(x, c, sel)
      /\ Mode(x, c) # 2 => sel = NoSelection
  BY SelectionIs DEF Mode
<1> HIDE DEF sel
<1>3. ASSUME Mode(x, c) = 0, NEW s \in Members(c) PROVE Val(x, s) = 0
  BY <1>1, <1>3
<1>4. ASSUME NEW s \in Members(c)
      PROVE  /\ Val(x, s) = 2 => s = sel
             /\ x[<<s, "vis">>] = 0 => Val(x, s) = 0
             /\ s = sel /\ x[<<s, "vis">>] = 2 => Val(x, s) = 2
             /\ Mode(x, c) = 2 => Val(x, s) # 1 /\ x[<<s, "vis">>] \in {0, 2}
             /\ Vis(x, s) = x[<<s, "vis">>]
  <2>1. x[<<s, "vis">>] \in {0, 1, 2}
    BY <1>1
  <2>2. CASE x[<<s, "vis">>] = 0
    BY <1>1, <2>2
  <2>3. CASE x[<<s, "vis">>] = 1
    BY <1>1, <2>3
  <2>4. CASE x[<<s, "vis">>] = 2
    BY <1>1, <2>4
  <2> QED BY <2>1, <2>2, <2>3, <2>4
<1>5. ASSUME Mode(x, c) = 1, NEW s \in Members(c) PROVE Val(x, s) # 2
  BY <1>0, <1>2, <1>4, <1>5
<1>6. ASSUME Mode(x, c) = 2
      PROVE  Cardinality(atY) = IF \A s \in Members(c) : x[<<s, "vis">>] = 0 THEN 0 ELSE 1
  <2>1. CASE \A s \in Members(c) : x[<<s, "vis">>] = 0
    <3>1. atY = {}
      <4>1. ASSUME NEW s \in Members(c) PROVE Val(x, s) = 0
        BY <1>4, <2>1
      <4> QED BY <4>1
    <3> QED BY <2>1, <3>1, FS_EmptySet
  <2>2. CASE ~ \A s \in Members(c) : x[<<s, "vis">>] = 0
    <3>1. sel \in Members(c) /\ x[<<sel, "vis">>] # 0
      BY <1>2, <1>4, <1>6, <2>2 DEF SelectsVisible
    <3>2. x[<<sel, "vis">>] = 2 /\ Val(x, sel) = 2
      BY <1>4, <1>6, <3>1
    <3>3. ASSUME NEW s \in Members(c), Val(x, s) = 2 PROVE s = sel
      BY <1>4, <3>3
    <3>4. atY = {sel}
      BY <3>1, <3>2, <3>3
    <3> HIDE DEF atY
    <3>5. Cardinality(atY) = 1
      BY <3>4, FS_Singleton
    <3> QED BY <2>2, <3>5
  <2> QED BY <2>1, <2>2
<1>7. ASSUME Mode(x, c) = 2, NEW s \in Members(c) PROVE Val(x, s) # 1
  BY <1>4, <1>7
<1> QED BY <1>3, <1>5, <1>6, <1>7 DEF Exclusive

(***************************************************************************)
(* Whatever the user sets, selects, resets or loads, a choice in y mode    *)
(* has exactly one symbol at y as soon as one of its symbols is visible,   *)
(* and none at m; in m mode none is y; in n mode all are n.  For every     *)
(* menu tree in which reading cannot go round in circles.                  *)
(***************************************************************************)
THEOREM ChoiceIsExclusiveThm ==
    ASSUME IsTree, NEW CONSTANT Order, Ordered(Order)
    PROVE  Spec => []ChoiceIsExclusive
<1>1. Evaluator
  BY TreeIsAnEvaluator
<1>2. ValuesInv => ChoiceIsExclusive
  <2> SUFFICES ASSUME ValuesInv, NEW c \in Choices
               PROVE  Exclusive(Mode(Config(env), c), Members(c), Config(env))
    BY DEF ChoiceIsExclusive, Members
  <2>1. IsEnv(env)
    BY DEF ValuesInv, CacheInv
  <2>2. IsEnv(Config(env)) /\ Calculated(Config(env), env)
    BY <1>1, <2>1, ConfigIs
  <2> QED BY <2>2, ConfigurationIsExclusive
<1>3. ValuesInv /\ [Next]_vars => ValuesInv'
  BY <1>1, ValuesInvStep
<1> QED BY <1>2, <1>3, ValuesInvInit, PTL DEF Spec

----------------------------------------------------------------------------
(* Reading modes.                                                           *)

\* The user value of a choice is read with all that decides its mode, and its
\* user selection is not read.
Whole(r, x) ==
    \A c \in Choices : /\ <<c, "user">> \in r => ChoiceTriValue(x, c).r \subseteq r
                       /\ <<c, "usel">> \notin r

\* The cells that some calculations read.
LEMMA UnionIsWhole ==
    ASSUME NEW x, NEW R, \A r \in R : Whole(r, x)
    PROVE  Whole(UNION R, x)
BY DEF Whole

\* MODULES, modes, and the values of items.
LEMMA ItemIsWhole ==
    ASSUME NEW x, IsEnv(x)
    PROVE  /\ Whole(ModulesValue(x).r, x)
           /\ \A c \in Choices : Whole(ChoiceType(x, c).r, x) /\ Whole(ChoiceTriValue(x, c).r, x)
           /\ \A i \in Items : Whole(ItemValue(x, i).r, x)
<1>1. Whole(ModulesValue(x).r, x) /\ Modules \in Items
  BY ItemsAssumption, ModulesValueIs DEF Items, Whole
<1>2. ASSUME NEW c \in Choices
      PROVE  Whole(ChoiceType(x, c).r, x) /\ Whole(ChoiceTriValue(x, c).r, x)
  <2>1. ChoiceType(x, c).r \subseteq {<<Modules, "val">>}
    BY ChoiceTypeIs
  <2>2. Whole(ChoiceType(x, c).r, x)
    BY <2>1 DEF Whole
  <2>3. ChoiceTriValue(x, c).r \subseteq {<<c, "user">>, <<c, "vis">>, <<Modules, "val">>}
    BY ChoiceTriValueIs
  <2>4. ASSUME NEW d \in Choices, <<d, "user">> \in ChoiceTriValue(x, c).r PROVE d = c
    BY <2>3, <2>4
  <2>5. \A d \in Choices : <<d, "usel">> \notin ChoiceTriValue(x, c).r
    BY <2>3
  <2> QED BY <2>2, <2>4, <2>5 DEF Whole
<1>3. ASSUME NEW s \in Syms PROVE Whole(SymTriValue(x, s).r, x)
  <2>1. SymTriValue(x, s).r = {<<s, "val">>}
    BY DEF SymTriValue
  <2> QED BY <2>1 DEF Whole
<1> QED BY <1>1, <1>2, <1>3 DEF ItemValue, Items

\* Expressions.
LEMMA ExprIsWhole ==
    ASSUME NEW x, IsEnv(x), NEW e \in Exprs
    PROVE  Whole(ExprValue(x, e).r, x)
<1> DEFINE Wrong == {d \in Exprs : ~Whole(ExprValue(x, d).r, x)}
<1> SUFFICES ASSUME Wrong # {} PROVE FALSE
  OBVIOUS
<1>1. PICK d \in Wrong : Parts(d) \cap Wrong = {}
  <2>1. Wrong \in SUBSET Exprs
    OBVIOUS
  <2> QED BY <2>1, TreeAssumption
<1>2. d \in Exprs /\ ~Whole(ExprValue(x, d).r, x)
  BY <1>1
<1>3. ASSUME NEW c \in Parts(d)
      PROVE  ExprValue(x, c) \in Calcs(0 .. 2) /\ Whole(ExprValue(x, c).r, x)
  <2>1. c \in Exprs /\ c \notin Wrong
    BY <1>1, <1>2, ExprForms
  <2> QED BY <2>1, ExprValueFits
<1> HIDE DEF Wrong
<1>4. CASE d[1] = "const"
  BY <1>2, <1>4, ExprValueUnfolds DEF Just, Whole
<1>5. CASE d[1] \in {"item", "eq"}
  <2>1. d[2] \in Items
    BY <1>2, <1>5, ExprForms
  <2>2. ExprValue(x, d).r = ItemValue(x, d[2]).r
    BY <1>2, <1>5, <2>1, ExprValueUnfolds, ItemValueIs DEF Calcs
  <2> QED BY <1>2, <2>1, <2>2, ItemIsWhole
<1>6. CASE d[1] = "not"
  <2>1. d[2] \in Parts(d)
    BY <1>2, <1>6, ExprForms
  <2>2. ExprValue(x, d).r = ExprValue(x, d[2]).r
    BY <1>2, <1>3, <1>6, <2>1, ExprValueUnfolds DEF Calcs
  <2> QED BY <1>2, <1>3, <2>1, <2>2
<1>7. CASE d[1] \in {"and", "or"}
  <2>1. d[2] \in Parts(d) /\ d[3] \in Parts(d)
    BY <1>2, <1>7, ExprForms
  <2>2. \/ ExprValue(x, d).r = ExprValue(x, d[2]).r
        \/ ExprValue(x, d).r = ExprValue(x, d[2]).r \cup ExprValue(x, d[3]).r
    BY <1>2, <1>7, ExprValueUnfolds DEF AndOf, OrOf, Both
  <2> QED BY <1>2, <1>3, <2>1, <2>2 DEF Whole
<1> QED BY <1>2, <1>4, <1>5, <1>6, <1>7, ExprForms

\* Types.
LEMMA TypeIsWhole ==
    ASSUME NEW x, IsEnv(x), NEW i \in Items
    PROVE  Whole(TypeOf(x, i).r, x)
<1>1. CASE i \in Choices
  BY <1>1, ItemIsWhole DEF TypeOf
<1>2. CASE i \notin Choices
  <2> DEFINE c == ChoiceOf[i]
             mode == IF c = None THEN Just(0) ELSE ChoiceTriValue(x, c)
             type == TristateWith(ModulesValue(x))
  <2>1. i \in Syms /\ TypeOf(x, i) = SymType(x, i)
    BY <1>2 DEF TypeOf, Items
  <2>2. Whole(mode.r, x)
    BY <2>1, ItemIsWhole, ItemsAssumption DEF Just, Whole
  <2>3. Whole(type.r, x)
    BY ItemIsWhole, ModulesValueIs DEF TristateWith, Calcs
  <2> HIDE DEF mode, type
  <2>4. \/ SymType(x, i).r = {}
        \/ SymType(x, i).r = mode.r \cup {}
        \/ SymType(x, i).r = mode.r \cup type.r
    BY DEF SymType, TypeInMode, AfterReading, Just, mode, type
  <2> QED BY <2>1, <2>2, <2>3, <2>4 DEF Whole
<1> QED BY <1>1, <1>2

\* Visibilities.
LEMMA VisibilityIsWhole ==
    ASSUME NEW x, IsEnv(x), NEW i \in Items
    PROVE  Whole(Visibility(x, i).r, x)
<1> DEFINE found == {ExprValue(x, Prompts[i][k]) : k \in DOMAIN Prompts[i]}
           limit == PromptLimit(x, Prompts[i])
           hidden == IF i \in Choices \/ ChoiceOf[i] = None THEN Just(FALSE)
                     ELSE HiddenByMode(x, i, limit.v)
           type == TypeOf(x, i)
           shown == VisOfType(hidden, limit.v, type)
<1>1. Whole(limit.r, x)
  <2>1. Prompts[i] \in Seq(Exprs)
    BY TreeAssumption
  <2>2. \A r \in {f.r : f \in found} : Whole(r, x)
    BY <2>1, ExprIsWhole
  <2>3. limit.r = UNION {f.r : f \in found}
    BY DEF PromptLimit, Highest
  <2> HIDE DEF found, limit
  <2> QED BY <2>2, <2>3, UnionIsWhole
<1>2. Whole(hidden.r, x)
  <2>1. CASE i \in Choices \/ ChoiceOf[i] = None
    BY <2>1 DEF Just, Whole
  <2>2. CASE ~(i \in Choices \/ ChoiceOf[i] = None)
    <3>1. ChoiceOf[i] \in Choices
      BY <2>2, ItemsAssumption DEF Items
    <3>2. ChoiceTriValue(x, ChoiceOf[i]) \in Calcs(0 .. 2)
      BY <3>1, ChoiceTriValueIs
    <3>3. \/ HiddenByMode(x, i, limit.v).r = {}
          \/ HiddenByMode(x, i, limit.v).r = ChoiceTriValue(x, ChoiceOf[i]).r
      BY <3>2 DEF HiddenByMode, Just, Calcs
    <3> QED BY <2>2, <3>1, <3>3, ItemIsWhole DEF Whole
  <2> QED BY <2>1, <2>2
<1>3. Whole(type.r, x) /\ type \in Calcs(Types)
  BY TypeIsWhole, TypeOfIs
<1>4. Visibility(x, i).r = limit.r \cup shown.r
  BY DEF Visibility, VisWithin, AfterReading
<1> HIDE DEF limit, hidden, type
<1>5. shown.r = hidden.r \cup {} \/ shown.r = hidden.r \cup type.r
  BY <1>3 DEF VisOfType, AfterReading, Just, Calcs
<1> HIDE DEF shown
<1> QED BY <1>1, <1>2, <1>3, <1>4, <1>5 DEF Whole

\* Defaults.
LEMMA DefaultIsWhole ==
    ASSUME NEW x, IsEnv(x), NEW defaults \in Seq(Exprs \X Exprs)
    PROVE  Whole(FirstDefault(x, defaults).r, x)
<1> DEFINE K == DOMAIN defaults
           cond == [k \in K |-> ExprValue(x, defaults[k][2])]
           first == First(DefaultsWith(cond))
           at == The(first.v).k
<1>1. /\ K \in SUBSET Nat
      /\ \A k \in K : defaults[k][1] \in Exprs /\ defaults[k][2] \in Exprs
  OBVIOUS
<1>2. \A k \in K : Whole(cond[k].r, x)
  BY <1>1, ExprIsWhole
<1>3. /\ first.r = UNION {cond[k].r : k \in Tried(cond)}
      /\ first.v # {} => at \in K
  <2> DEFINE g == cond
  <2>1. DOMAIN g = K
    OBVIOUS
  <2> HIDE DEF g, K
  <2>2. /\ First(DefaultsWith(g)).r = UNION {g[k].r : k \in Tried(g)}
        /\ First(DefaultsWith(g)).v # {} => The(First(DefaultsWith(g)).v).k \in K
    <3>1. K \in SUBSET Nat
      BY <1>1
    <3>2. First(DefaultsWith(g)).r = UNION {g[k].r : k \in Tried(g)}
      BY <2>1, <3>1, FirstIs
    <3>3. First(DefaultsWith(g)).v # {} =>
             \E k \in K : The(First(DefaultsWith(g)).v) = [k |-> k, is |-> g[k]] /\ g[k].v # 0
      BY <2>1, <3>1, FirstIs
    <3>4. First(DefaultsWith(g)).v # {} => The(First(DefaultsWith(g)).v).k \in K
      <4> SUFFICES ASSUME First(DefaultsWith(g)).v # {}
                   PROVE  The(First(DefaultsWith(g)).v).k \in K
        OBVIOUS
      <4>1. PICK k \in K : The(First(DefaultsWith(g)).v) = [k |-> k, is |-> g[k]]
        BY <3>3
      <4> QED BY <4>1
    <3> QED BY <3>2, <3>4
  <2> QED BY <2>2 DEF g
<1>4. Whole(first.r, x)
  <2>1. \A r \in {cond[k].r : k \in Tried(cond)} : Whole(r, x)
    BY <1>2 DEF Tried
  <2> HIDE DEF first, cond
  <2> QED BY <1>3, <2>1, UnionIsWhole
<1>5. FirstDefault(x, defaults) = DefaultAt(x, defaults, first)
  <2>1. DefaultsWith(cond) =
           {[k |-> k, is |-> ExprValue(x, defaults[k][2])] : k \in DOMAIN defaults}
    BY DEF DefaultsWith
  <2> QED BY <2>1 DEF FirstDefault
<1> HIDE DEF first
<1>6. CASE first.v = {}
  <2>1. FirstDefault(x, defaults).r = first.r
    BY <1>5, <1>6 DEF DefaultAt, AfterReading, Just
  <2> QED BY <1>4, <2>1
<1>7. CASE first.v # {}
  <2>1. defaults[at][1] \in Exprs
    BY <1>1, <1>3, <1>7
  <2> HIDE DEF at
  <2>2. Whole(ExprValue(x, defaults[at][1]).r, x) /\ ExprValue(x, defaults[at][1]) \in Calcs(0 .. 2)
    BY <2>1, ExprIsWhole, ExprValueFits
  <2>3. FirstDefault(x, defaults).r = first.r \cup ExprValue(x, defaults[at][1]).r
    BY <1>5, <1>7, <2>2 DEF DefaultAt, AfterReading, LimitedTo, Calcs, at
  <2> QED BY <1>4, <2>2, <2>3 DEF Whole
<1> QED BY <1>6, <1>7

\* What the value of a symbol reads is whole, too; the user value is read by
\* nothing else.
LEMMA SymValueIsWhole ==
    ASSUME NEW x, IsEnv(x), NEW s \in Syms
    PROVE  Whole(SymValue(x, s).r, x)
<1> DEFINE default == FirstDefault(x, Defaults[s])
           weak == ExprValue(x, WeakRevDep[s])
           direct == ExprValue(x, DirectDep[s])
           sel == ExprValue(x, RevDep[s])
           type == SymType(x, s)
           vis == Vis(x, s)
           user == {<<s, "user">>}
           implied == Implied(x, s)
           base == UserOrDefault(x, s, vis)
           rest == Both(default, implied)
           promoted == Promoted(Greatest(base.v, sel.v), type, weak)
           plain == PlainValue(x, s, vis)
           sym == ChoiceSymValue(x, s, vis)
<1>1. /\ Whole(default.r, x) /\ Whole(weak.r, x) /\ Whole(direct.r, x) /\ Whole(sel.r, x)
      /\ Whole(type.r, x)
  <2>1. s \in Items /\ TypeOf(x, s) = type
    BY ItemsAssumption DEF TypeOf, Items
  <2> QED BY <2>1, TreeAssumption, DefaultIsWhole, ExprIsWhole, TypeIsWhole
<1>2. weak \in Calcs(0 .. 2)
  BY TreeAssumption, ExprValueFits
<1>3. /\ Whole(user, x) /\ Whole({<<s, "vis">>}, x) /\ Whole({}, x)
      /\ ChoiceOf[s] # None => Whole({<<ChoiceOf[s], "sel">>}, x)
  BY ItemsAssumption DEF Whole
<1>4. Whole(implied.r, x)
  <2>1. implied.r = weak.r \/ implied.r = weak.r \cup direct.r
    BY DEF Implied, IfMet
  <2> HIDE DEF implied, weak, direct
  <2> QED BY <1>1, <2>1 DEF Whole
<1>5. Whole(rest.r, x)
  <2>1. rest.r = default.r \cup implied.r
    BY DEF Both
  <2> HIDE DEF rest, default, implied
  <2> QED BY <1>1, <1>4, <2>1 DEF Whole
<1>6. Whole(base.r, x)
  <2>1. base.r = rest.r \/ base.r = user \/ base.r = user \cup rest.r
    BY DEF UserOrDefault, AfterReading, Just
  <2> HIDE DEF base, rest, user
  <2> QED BY <1>3, <1>5, <2>1 DEF Whole
<1>7. Whole(promoted.r, x)
  <2>1. promoted.r = {} \/ promoted.r = type.r \/ promoted.r = type.r \cup weak.r
    <3> HIDE DEF base, sel, type, weak
    <3> QED BY <1>2 DEF Promoted, AfterReading, Just, Calcs
  <2> HIDE DEF promoted, type, weak
  <2> QED BY <1>1, <1>3, <2>1 DEF Whole
<1>8. Whole(plain.r, x)
  <2>1. plain.r = base.r \cup sel.r \cup (IF sel.v = 0 THEN {} ELSE direct.r) \cup promoted.r
    BY DEF PlainValue, WithSelect, AfterReading
  <2> HIDE DEF plain, base, sel, direct, promoted
  <2> QED BY <1>1, <1>6, <1>7, <2>1 DEF Whole
<1>9. ChoiceOf[s] # None => Whole(sym.r, x)
  <2>1. sym.r = {} \/ sym.r = user \/ sym.r = {<<ChoiceOf[s], "sel">>}
    BY DEF ChoiceSymValue, Just
  <2> HIDE DEF sym, user
  <2> QED BY <1>3, <2>1
<1>10. /\ ChoiceOf[s] = None => SymValue(x, s).r = {<<s, "vis">>} \cup plain.r
       /\ ChoiceOf[s] # None => SymValue(x, s).r = {<<s, "vis">>} \cup sym.r
  BY DEF SymValue, AfterReading
<1> HIDE DEF plain, sym
<1> QED BY <1>3, <1>8, <1>9, <1>10 DEF Whole

\* Assignable values.
LEMMA AssignableIsWhole ==
    ASSUME NEW x, IsEnv(x)
    PROVE  /\ \A s \in Syms : Whole(SymAssignable(x, s).r, x)
           /\ \A c \in Choices : Whole(ChoiceAssignable(x, c).r, x)
<1>1. ASSUME NEW s \in Syms PROVE Whole(SymAssignable(x, s).r, x)
  <2> DEFINE vis == Vis(x, s)
             sel == ExprValue(x, RevDep[s])
             weak == ExprValue(x, WeakRevDep[s])
             type == IF vis = 1 THEN Just("tristate") ELSE SymType(x, s)
             values == AssignableOfType(sel.v, vis, type, weak)
             rest == AssignableFrom(x, s, vis, sel)
  <2>1. /\ Whole(weak.r, x) /\ Whole(sel.r, x) /\ Whole(SymType(x, s).r, x)
        /\ weak \in Calcs(0 .. 2)
    <3>1. s \in Items /\ TypeOf(x, s) = SymType(x, s)
      BY ItemsAssumption DEF TypeOf, Items
    <3> QED BY <3>1, TreeAssumption, ExprIsWhole, TypeIsWhole, ExprValueFits
  <2>2. Whole({<<s, "vis">>}, x) /\ Whole({}, x)
    BY DEF Whole
  <2>3. Whole(type.r, x)
    BY <2>1, <2>2 DEF Just
  <2>4. values.r = type.r \/ values.r = type.r \cup weak.r
    <3> HIDE DEF type
    <3>1. \A a : a \in Calcs(0 .. 2) => FromTo(sel.v, vis, a).r = a.r
      BY FromToIs
    <3>2. Just(2) \in Calcs(0 .. 2) /\ Just(2).r = {}
      BY JustIs
    <3> HIDE DEF weak, sel, vis
    <3>3. values.r = type.r \cup FromTo(sel.v, vis, IF type.v = "bool" THEN Just(2) ELSE weak).r
      BY DEF AssignableOfType, AfterReading
    <3> HIDE DEF values
    <3>4. CASE type.v = "bool"
      BY <3>1, <3>2, <3>3, <3>4
    <3>5. CASE type.v # "bool"
      BY <2>1, <3>1, <3>3, <3>5
    <3> QED BY <3>4, <3>5
  <2>5. rest.r = sel.r \/ rest.r = sel.r \cup values.r
    BY DEF AssignableFrom, AfterReading, Just
  <2>6. \/ SymAssignable(x, s).r = {<<s, "vis">>}
        \/ SymAssignable(x, s).r = {<<s, "vis">>} \cup rest.r
    BY DEF SymAssignable, AfterReading, Just
  <2> HIDE DEF type, weak, sel, values, rest
  <2> QED BY <2>1, <2>2, <2>3, <2>4, <2>5, <2>6 DEF Whole
<1>2. ASSUME NEW c \in Choices PROVE Whole(ChoiceAssignable(x, c).r, x)
  <2> DEFINE type == IF Vis(x, c) = 1 THEN Just("tristate") ELSE ChoiceType(x, c)
  <2>1. Whole(type.r, x) /\ type.r \subseteq {<<Modules, "val">>}
    BY ItemIsWhole, ChoiceTypeIs DEF Just, Whole
  <2>2. type \in Calcs(Types)
    BY ChoiceTypeIs, JustIs DEF Types
  <2>3. Whole({<<c, "vis">>}, x)
    BY DEF Whole
  <2>4. ModesOfType(c, Vis(x, c), type).r = type.r
    <3> HIDE DEF type
    <3> QED BY <2>2 DEF ModesOfType, Calcs
  <2>5. \/ ChoiceAssignable(x, c).r = {<<c, "vis">>}
        \/ ChoiceAssignable(x, c).r = {<<c, "vis">>} \cup ModesOfType(c, Vis(x, c), type).r
    BY DEF ChoiceAssignable, AfterReading, Just
  <2> HIDE DEF type
  <2> QED BY <2>1, <2>3, <2>4, <2>5 DEF Whole
<1> QED BY <1>1, <1>2

\* The symbols that are candidates by default.
LEMMA DefaultSelectionIsWhole ==
    ASSUME NEW x, IsEnv(x), NEW c \in Choices
    PROVE  Whole(SelectionFromDefaults(x, c).r, x)
<1> DEFINE K == DOMAIN Candidates(c)
           cond(k) == ExprValue(x, Candidates(c)[k][2])
           cand == [k \in K |-> CandidateIf(x, Candidates(c)[k][1], cond(k))]
           default == SelectionFromDefaults(x, c)
<1>1. ASSUME NEW k \in K PROVE Whole(cand[k].r, x)
  <2>1. /\ Candidates(c)[k][1] \in Syms /\ Candidates(c)[k][2] \in Exprs
    BY CandidatesIs DEF Members
  <2>2. Whole(cond(k).r, x) /\ Whole({<<Candidates(c)[k][1], "vis">>}, x)
    BY <2>1, ExprIsWhole DEF Whole
  <2> HIDE DEF cond
  <2>3. \/ cand[k].r = cond(k).r
        \/ cand[k].r = cond(k).r \cup {<<Candidates(c)[k][1], "vis">>}
    BY DEF CandidateIf
  <2> HIDE DEF cand
  <2> QED BY <2>2, <2>3 DEF Whole
<1>2. default.r = First(DefaultsWith(cand)).r
  <2>1. DefaultsWith(cand) =
           {[k |-> k, is |-> CandidateIf(x, Candidates(c)[k][1], ExprValue(x, Candidates(c)[k][2]))] :
               k \in DOMAIN Candidates(c)}
    BY DEF DefaultsWith
  <2>2. \A f : First(f) = [v |-> First(f).v, r |-> First(f).r]
    BY DEF First, UpTo
  <2>3. default = SelectionAt(c, First(DefaultsWith(cand)))
    BY <2>1 DEF SelectionFromDefaults
  <2> HIDE DEF cand, default
  <2> QED BY <2>2, <2>3 DEF SelectionAt
<1>3. K \in SUBSET Nat /\ DOMAIN cand = K
  BY CandidatesIs
<1> DEFINE g == cand
<1>4. \A k \in K : Whole(g[k].r, x)
  BY <1>1
<1> HIDE DEF g, K
<1>5. DOMAIN g = K /\ K \in SUBSET Nat
  BY <1>3 DEF g
<1>6. First(DefaultsWith(g)).r = UNION {g[k].r : k \in Tried(g)}
  BY <1>5, FirstIs
<1>7. \A r \in {g[k].r : k \in Tried(g)} : Whole(r, x)
  BY <1>4, <1>5 DEF Tried
<1>8. Whole(First(DefaultsWith(g)).r, x)
  BY <1>6, <1>7, UnionIsWhole
<1> QED BY <1>2, <1>8 DEF g

\* Selections, apart from the user selection that is looked at.
LEMMA SelectionIsWhole ==
    ASSUME NEW x, IsEnv(x), NEW c \in Choices
    PROVE  \E r : Whole(r, x) /\ Selection(x, c).r \in {r, r \cup {<<c, "usel">>}}
<1> DEFINE mode == ChoiceTriValue(x, c)
           u == x[<<c, "usel">>]
           default == SelectionFromDefaults(x, c)
           user == UserSelection(x, c, u)
<1>1. Whole(mode.r, x)
  BY ItemIsWhole
<1>2. Whole(default.r, x)
  BY DefaultSelectionIsWhole
<1>3. u \in Members(c) \cup {None} /\ <<c, "usel">> \in Cells
  <2>1. <<c, "usel">> \in Cells /\ CellValues(<<c, "usel">>) = Members(c)
    BY CellForms, CellKinds
  <2> QED BY <2>1 DEF IsEnv
<1> HIDE DEF default, u
<1>4. Whole(user.r, x)
  <2>1. CASE u = None
    BY <1>2, <2>1 DEF UserSelection, default
  <2>2. CASE u # None
    <3>1. Whole({<<u, "vis">>}, x)
      BY <1>3, <2>2 DEF Whole, Members
    <3>2. user.r = {<<u, "vis">>} \/ user.r = {<<u, "vis">>} \cup default.r
      BY <2>2 DEF UserSelection, AfterReading, Just, default
    <3> HIDE DEF user
    <3> QED BY <1>2, <3>1, <3>2 DEF Whole
  <2> QED BY <2>1, <2>2
<1>5. Selection(x, c).r = IF mode.v # 2 THEN mode.r ELSE mode.r \cup ({<<c, "usel">>} \cup user.r)
  BY DEF Selection, SelectionInMode, AfterReading, Just, u
<1> HIDE DEF mode, user
<1>6. CASE mode.v # 2
  BY <1>1, <1>5, <1>6
<1>7. CASE mode.v = 2
  <2> DEFINE r == mode.r \cup user.r
  <2>1. Whole(r, x)
    BY <1>1, <1>4 DEF Whole
  <2>2. Selection(x, c).r = r \cup {<<c, "usel">>}
    BY <1>5, <1>7
  <2> HIDE DEF r
  <2> QED BY <2>1, <2>2
<1> QED BY <1>6, <1>7

\* Who reads user values.
LEMMA UserValueReaders ==
    ASSUME NEW x, IsEnv(x), NEW p \in Attributes
    PROVE  /\ \A s \in Syms : <<s, "user">> \in Calculate(x, p).r => p = <<s, "val">>
           /\ \A c \in Choices :
                 /\ <<c, "user">> \in Calculate(x, p).r =>
                       ChoiceTriValue(x, c).r \subseteq Calculate(x, p).r
                 /\ <<c, "usel">> \in Calculate(x, p).r => p = <<c, "sel">>
<1>1. CASE p \in Items \X {"vis"}
  <2>1. PICK i \in Items : p = <<i, "vis">>
    BY <1>1
  <2>2. Calculate(x, p) = Visibility(x, i)
    BY <2>1 DEF Calculate
  <2> QED BY <2>2, VisibilityIs, VisibilityIsWhole DEF ReadsOf, Whole
<1>2. CASE p \in Syms \X {"val"}
  <2>1. PICK s \in Syms : p = <<s, "val">>
    BY <1>2
  <2>2. Calculate(x, p) = SymValue(x, s)
    BY <2>1 DEF Calculate
  <2>3. \A t \in Syms : <<t, "user">> \in SymValue(x, s).r => t = s
    BY SymValueIs DEF ReadsOfSym
  <2> QED BY <2>1, <2>2, <2>3, SymValueIsWhole DEF Whole
<1>3. CASE p \in Choices \X {"sel"}
  <2>1. PICK c \in Choices : p = <<c, "sel">>
    BY <1>3
  <2>2. Calculate(x, p) = Selection(x, c)
    BY <2>1 DEF Calculate
  <2>3. PICK r : Whole(r, x) /\ Selection(x, c).r \in {r, r \cup {<<c, "usel">>}}
    BY SelectionIsWhole
  <2>4. \A s \in Syms : <<s, "user">> \notin Selection(x, c).r
    <3>1. ReadsOf(Selection(x, c), ReadBy(c))
      BY SelectionIs
    <3> QED BY <3>1 DEF ReadsOf
  <2> QED BY <2>1, <2>2, <2>3, <2>4 DEF Whole
<1>4. CASE p \in Observed \X {"asg"}
  <2>1. PICK i \in Items : p = <<i, "asg">>
    BY <1>4, ItemsAssumption
  <2>2. Calculate(x, p) = IF i \in Choices THEN ChoiceAssignable(x, i) ELSE SymAssignable(x, i)
    BY <2>1 DEF Calculate
  <2>3. CASE i \in Choices
    BY <2>2, <2>3, ChoiceAssignableIs, AssignableIsWhole DEF ReadsOf, Whole
  <2>4. CASE i \notin Choices
    BY <2>2, <2>4, SymAssignableIs, AssignableIsWhole DEF ReadsOf, Whole, Items
  <2> QED BY <2>3, <2>4
<1> QED BY <1>1, <1>2, <1>3, <1>4 DEF Attributes

----------------------------------------------------------------------------
(* What an assignment leaves alone.                                         *)

\* p0 and the attributes that come before it in the order of reading.
UpToAttr(Order, p0) ==
    {q \in Attributes : q = p0 \/ <<q, p0>> \in TransitiveClosureOn(Order, Attributes)}

\* The attributes up to p0 read only each other, and none of them reads p0.
LEMMA UpToAttrIs ==
    ASSUME IsTree, NEW Order, Ordered(Order), NEW p0 \in Attributes
    PROVE  /\ p0 \in UpToAttr(Order, p0) /\ UpToAttr(Order, p0) \subseteq Attributes
           /\ \A p \in UpToAttr(Order, p0) : \A z : IsEnv(z) =>
                 /\ Calculate(z, p).r \cap Attributes \subseteq UpToAttr(Order, p0)
                 /\ p0 \notin Calculate(z, p).r
<1> DEFINE R == TransitiveClosureOn(Order, Attributes)
<1>1. /\ Order \cap Attributes \X Attributes \subseteq R
      /\ IsTransitivelyClosedOn(R, Attributes)
  BY TransitiveClosureThm
<1>2. IsWellFoundedOn(R, Attributes)
  BY TransitiveClosureWF DEF Ordered
<1>3. <<p0, p0>> \notin R
  BY <1>2, WellFoundedIsIrreflexive
<1>4. ASSUME NEW p \in UpToAttr(Order, p0), NEW z, IsEnv(z),
             NEW q \in Calculate(z, p).r \cap Attributes
      PROVE  <<q, p0>> \in R
  <2>1. p \in Attributes /\ q \in Attributes
    BY DEF UpToAttr
  <2>2. <<q, p>> \in Order
    BY <1>4, <2>1 DEF Ordered, IsTree, TreeReads
  <2>3. <<q, p>> \in R
    BY <1>1, <2>1, <2>2
  <2>4. p = p0 \/ <<p, p0>> \in R
    BY DEF UpToAttr
  <2> HIDE DEF R
  <2> QED BY <1>1, <2>1, <2>3, <2>4 DEF IsTransitivelyClosedOn
<1> QED BY <1>3, <1>4 DEF UpToAttr

\* Two configurations agree on attributes that read only each other, and no
\* input in which the configurations differ.
LEMMA Untouched ==
    ASSUME IsTree, NEW Order, Ordered(Order),
           NEW x, IsEnv(x), NEW i, Calculated(x, i),
           NEW y, IsEnv(y), NEW j, Calculated(y, j),
           NEW T \in SUBSET Attributes,
           \A p \in T : \A q \in Calculate(y, p).r :
               (q \in Attributes /\ q \in T) \/ (q \in Inputs /\ x[q] = y[q])
    PROVE  \A p \in T : x[p] = y[p]
<1> DEFINE Wrong == {p \in T : x[p] # y[p]}
<1> SUFFICES ASSUME Wrong # {} PROVE FALSE
  OBVIOUS
<1>1. PICK p \in Wrong : \A q \in Wrong : ~(<<q, p>> \in Order)
  <2>1. Wrong \subseteq Attributes
    OBVIOUS
  <2> HIDE DEF Wrong
  <2> QED BY <2>1, WFMin DEF Ordered
<1>2. p \in Attributes /\ p \in T /\ x[p] # y[p]
  BY <1>1
<1>3. ASSUME NEW q \in Calculate(y, p).r PROVE y[q] = x[q]
  <2>1. q \in Attributes => <<q, p>> \in Order
    BY <1>2 DEF Ordered, IsTree, TreeReads
  <2> QED BY <1>1, <1>2, <2>1
<1>4. Calculate(x, p) = Calculate(y, p)
  BY <1>2, <1>3, CalculateIs DEF Decided, SameReads
<1> QED BY <1>2, <1>4 DEF Calculated, IsTree, TreeValue

\* The same up to p0, with or without it, if the changed inputs are not read.
LEMMA AgreeUpTo ==
    ASSUME IsTree, NEW Order, Ordered(Order),
           NEW x, IsEnv(x), NEW i, Calculated(x, i),
           NEW y, IsEnv(y), NEW j, Calculated(y, j),
           NEW p0 \in Attributes, NEW T \in {UpToAttr(Order, p0), UpToAttr(Order, p0) \ {p0}},
           \A q \in Inputs : x[q] # y[q] => \A p \in T : q \notin Calculate(y, p).r
    PROVE  \A p \in T : x[p] = y[p]
<1>1. /\ UpToAttr(Order, p0) \subseteq Attributes
      /\ \A p \in UpToAttr(Order, p0) :
            /\ Calculate(y, p).r \cap Attributes \subseteq UpToAttr(Order, p0)
            /\ p0 \notin Calculate(y, p).r
  BY UpToAttrIs
<1>2. T \in SUBSET Attributes
  BY <1>1
<1>3. ASSUME NEW p \in T, NEW q \in Calculate(y, p).r
      PROVE  (q \in Attributes /\ q \in T) \/ (q \in Inputs /\ x[q] = y[q])
  <2>1. q \in Cells
    BY <1>2, CalculateIs DEF Registers, Calcs
  <2>2. CASE q \in Attributes
    BY <1>1, <2>2
  <2>3. CASE q \in Inputs
    BY <2>3
  <2> QED BY <2>1, <2>2, <2>3 DEF Cells
<1> QED BY <1>2, <1>3, Untouched

\* Setting the value of a symbol changes its user value, and the user selection
\* of its choice if the value is y.
LEMMA AssignInputs ==
    ASSUME NEW st, NEW s \in Syms, NEW v \in TypeValues(s), NEW q \in Inputs,
           st.env = [r \in Cells |-> st.env[r]]
    PROVE  Assign(st, s, v).env[q] =
              IF q = <<s, "user">> THEN v
              ELSE IF ChoiceOf[s] # None /\ v = 2 /\ q = <<ChoiceOf[s], "usel">> THEN s
              ELSE st.env[q]
<1> DEFINE user == <<s, "user">>
           c == ChoiceOf[s]
           one == [st.env EXCEPT ![user] = v]
           both == [st.env EXCEPT ![user] = v, ![<<c, "usel">>] = s]
<1>1. q \in Cells /\ q \notin Attributes
  BY CellForms
<1>2. \A y, roots : RecInvalidate(y, roots)[q] = y[q]
  BY <1>1 DEF RecInvalidate
<1>3. /\ one[q] = IF q = user THEN v ELSE st.env[q]
      /\ both[q] = IF q = <<c, "usel">> THEN s ELSE IF q = user THEN v ELSE st.env[q]
      /\ user # <<c, "usel">>
  <2> DEFINE e == st.env
  <2>1. e = [r \in Cells |-> e[r]]
    OBVIOUS
  <2> HIDE DEF e
  <2>2. [e EXCEPT ![user] = v][q] = IF q = user THEN v ELSE e[q]
    BY <1>1, <2>1
  <2>3. [e EXCEPT ![user] = v, ![<<c, "usel">>] = s][q] =
           IF q = <<c, "usel">> THEN s ELSE IF q = user THEN v ELSE e[q]
    BY <1>1, <2>1
  <2> QED BY <2>2, <2>3 DEF e
<1>4. CASE v = st.env[user] /\ c = None
  <2>1. Assign(st, s, v).env = st.env
    <3>1. Assign(st, s, v) = [st EXCEPT !.set = @ \cup {s}]
      BY <1>4 DEF Assign
    <3> QED BY <3>1
  <2> QED BY <1>4, <2>1
<1>5. CASE ~(v = st.env[user] /\ c = None) /\ c # None /\ v = 2
  <2>1. Assign(st, s, v).env = RecInvalidate(both, {c})
    BY <1>5 DEF Assign
  <2> HIDE DEF both
  <2> QED BY <1>2, <1>3, <1>5, <2>1
<1>6. CASE ~(v = st.env[user] /\ c = None) /\ ~(c # None /\ v = 2)
  <2>1. Assign(st, s, v).env = RecInvalidate(one, Prompted({s}))
    BY <1>6 DEF Assign
  <2> HIDE DEF one
  <2> QED BY <1>2, <1>3, <1>6, <2>1
<1> QED BY <1>4, <1>5, <1>6

\* Setting the mode of a choice changes its user value.
LEMMA AssignModeInputs ==
    ASSUME NEW st, NEW c \in Choices, NEW v \in TypeValues(c), NEW q \in Inputs,
           st.env = [r \in Cells |-> st.env[r]]
    PROVE  AssignMode(st, c, v).env[q] = IF q = <<c, "user">> THEN v ELSE st.env[q]
<1> DEFINE user == <<c, "user">>
           one == [st.env EXCEPT ![user] = v]
<1>1. q \in Cells /\ q \notin Attributes
  BY CellForms
<1>2. \A y, roots : RecInvalidate(y, roots)[q] = y[q]
  BY <1>1 DEF RecInvalidate
<1>3. one[q] = IF q = user THEN v ELSE st.env[q]
  <2> DEFINE e == st.env
  <2>1. e = [r \in Cells |-> e[r]]
    OBVIOUS
  <2> HIDE DEF e
  <2>2. [e EXCEPT ![user] = v][q] = IF q = user THEN v ELSE e[q]
    BY <1>1, <2>1
  <2> QED BY <2>2 DEF e
<1>4. CASE v = st.env[user]
  <2>1. AssignMode(st, c, v).env = st.env
    <3>1. AssignMode(st, c, v) = [st EXCEPT !.set = @ \cup {c}]
      BY <1>4 DEF AssignMode
    <3> QED BY <3>1
  <2> QED BY <1>4, <2>1
<1>5. CASE v # st.env[user]
  <2>1. AssignMode(st, c, v).env = RecInvalidate(one, {c})
    BY <1>5 DEF AssignMode
  <2> HIDE DEF one
  <2> QED BY <1>2, <1>3, <2>1
<1> QED BY <1>4, <1>5

----------------------------------------------------------------------------
(* What a visibility of m or y says.                                        *)

\* The visibility of an item in terms of its prompts, mode and type.
LEMMA VisibilityUnfolds ==
    ASSUME NEW x, IsEnv(x), NEW i \in Items
    PROVE  LET limit  == PromptLimit(x, Prompts[i]).v
               hidden == /\ ~(i \in Choices \/ ChoiceOf[i] = None)
                         /\ HiddenByMode(x, i, limit).v
           IN  /\ limit \in 0 .. 2
               /\ Visibility(x, i).v =
                     IF hidden THEN 0 ELSE IF limit # 1 THEN limit
                     ELSE IF TypeOf(x, i).v = "tristate" THEN 1 ELSE 2
<1> DEFINE limit == PromptLimit(x, Prompts[i])
           hiding == IF i \in Choices \/ ChoiceOf[i] = None THEN Just(FALSE)
                     ELSE HiddenByMode(x, i, limit.v)
<1>1. TypeOf(x, i) \in Calcs(Types)
  BY TypeOfIs
<1>2. limit.v \in 0 .. 2
  <2>1. Prompts[i] \in Seq(Exprs)
    BY TreeAssumption
  <2>2. \A k \in DOMAIN Prompts[i] : DependOn(Prompts[i][k]) \subseteq Items
    BY <2>1, DependOnIs
  <2>3. PromptLimit(x, Prompts[i]) \in Calcs(0 .. 2)
    BY <2>1, <2>2, PromptLimitIs
  <2> QED BY <2>3 DEF Calcs
<1>3. Visibility(x, i).v =
         IF hiding.v THEN 0 ELSE IF limit.v # 1 THEN limit.v
         ELSE IF TypeOf(x, i).v = "tristate" THEN 1 ELSE 2
  <2> HIDE DEF hiding
  <2>1. Visibility(x, i).v = VisOfType(hiding, limit.v, TypeOf(x, i)).v
    BY DEF Visibility, VisWithin, AfterReading, hiding
  <2> HIDE DEF limit
  <2> QED BY <1>1, <2>1 DEF VisOfType, AfterReading, Just, Calcs
<1>4. hiding.v = (~(i \in Choices \/ ChoiceOf[i] = None) /\ HiddenByMode(x, i, limit.v).v)
  <2>1. CASE i \in Choices \/ ChoiceOf[i] = None
    BY <2>1 DEF Just
  <2>2. CASE ~(i \in Choices \/ ChoiceOf[i] = None)
    <3>1. i \in Syms
      BY <2>2 DEF Items
    <3>2. HiddenByMode(x, i, limit.v).v \in BOOLEAN
      BY <2>2, <3>1, HiddenByModeIs DEF Calcs
    <3> QED BY <2>2, <3>2
  <2> QED BY <2>1, <2>2
<1> HIDE DEF hiding, limit
<1> QED BY <1>2, <1>3, <1>4 DEF limit

\* The m of a bool becomes y, so that only a tristate is visible as m.
LEMMA MIsForTristates ==
    ASSUME NEW x, IsEnv(x), NEW i \in Items, Visibility(x, i).v = 1
    PROVE  TypeOf(x, i).v = "tristate" /\ OrigType[i] = "tristate"
<1>1. TypeOf(x, i).v = "tristate"
  BY VisibilityUnfolds
<1>2. OrigType[i] # "tristate" => TypeOf(x, i).v = "bool"
  BY DEF TypeOf, SymType, ChoiceType, Just
<1> QED BY <1>1, <1>2

\* A choice has a mode of m only if it is a tristate with MODULES.
LEMMA ModesAre ==
    ASSUME NEW x, IsEnv(x), NEW c \in Choices
    PROVE  /\ Mode(x, c) \in 0 .. 2
           /\ Mode(x, c) = 1 => ChoiceType(x, c).v = "tristate"
           /\ ChoiceType(x, c).v =
                 IF OrigType[c] = "tristate" /\ ModulesValue(x).v # 0 THEN "tristate" ELSE "bool"
<1>1. ModulesValue(x) \in Calcs(0 .. 2) /\ ChoiceType(x, c) \in Calcs(Types)
  BY ModulesValueIs, ChoiceTypeIs DEF Types
<1>2. ChoiceType(x, c).v =
         IF OrigType[c] = "tristate" /\ ModulesValue(x).v # 0 THEN "tristate" ELSE "bool"
  BY <1>1 DEF ChoiceType, TristateWith, Just, Calcs
<1>3. Mode(x, c) \in 0 .. 2
  BY ChoiceTriValueIs DEF Mode, Calcs
<1>4. Mode(x, c) = ModeOfType(Least(WantedMode(x, c), Vis(x, c)), ChoiceType(x, c)).v
  BY DEF Mode, ChoiceTriValue, AfterReading
<1>5. \A val, type : type \in Calcs(Types) /\ ModeOfType(val, type).v = 1 => type.v = "tristate"
  <2> SUFFICES ASSUME NEW val, NEW type \in Calcs(Types), ModeOfType(val, type).v = 1
               PROVE  type.v = "tristate"
    OBVIOUS
  <2>1. val = 1
    BY DEF ModeOfType, Just
  <2> QED BY <2>1 DEF ModeOfType, Calcs, Types
<1> QED BY <1>1, <1>2, <1>3, <1>4, <1>5

\* A symbol of a choice is visible as y in y mode only.
LEMMA YNeedsYMode ==
    ASSUME NEW x, IsEnv(x), NEW s \in Syms, ChoiceOf[s] # None, Visibility(x, s).v = 2
    PROVE  Mode(x, ChoiceOf[s]) = 2
<1> DEFINE c == ChoiceOf[s]
           limit == PromptLimit(x, Prompts[s]).v
           hidden == HiddenByMode(x, s, limit).v
<1>0. s \in Items /\ s \notin Choices /\ c \in Choices
  BY ItemsAssumption DEF Items
<1>1. /\ limit \in 0 .. 2 /\ ~hidden
      /\ limit = 2 \/ (limit = 1 /\ TypeOf(x, s).v # "tristate")
  BY <1>0, VisibilityUnfolds
<1>2. limit <= Mode(x, c)
  BY ModeLimitsPrompts
<1>3. /\ Mode(x, c) \in 0 .. 2
      /\ Mode(x, c) = 1 => OrigType[c] = "tristate" /\ ModulesValue(x).v # 0
  BY <1>0, ModesAre
<1>4. ChoiceTriValue(x, c) \in Calcs(0 .. 2) /\ ModulesValue(x) \in Calcs(0 .. 2)
  BY <1>0, ChoiceTriValueIs, ModulesValueIs
<1>5. ASSUME Mode(x, c) = 1 PROVE FALSE
  <2>1. OrigType[s] # "tristate" => hidden
    <3> SUFFICES ASSUME OrigType[s] # "tristate" PROVE hidden
      OBVIOUS
    <3>1. HiddenByMode(x, s, limit) = [ChoiceTriValue(x, c) EXCEPT !.v = @ # 2]
      BY <1>3, <1>5 DEF HiddenByMode
    <3>2. (ChoiceTriValue(x, c).v # 2) = TRUE
      BY <1>5 DEF Mode
    <3>3. HiddenByMode(x, s, limit) = [ChoiceTriValue(x, c) EXCEPT !.v = TRUE]
      BY <3>1, <3>2
    <3>4. \A a \in Calcs(0 .. 2) : [a EXCEPT !.v = TRUE].v
      BY DEF Calcs
    <3> QED BY <1>4, <3>3, <3>4
  <2>2. OrigType[s] = "tristate" => TypeOf(x, s).v = "tristate"
    <3> SUFFICES ASSUME OrigType[s] = "tristate" PROVE TypeOf(x, s).v = "tristate"
      OBVIOUS
    <3>1. TypeOf(x, s) = TypeInMode(ChoiceTriValue(x, c), TristateWith(ModulesValue(x)))
      BY <1>0 DEF TypeOf, SymType
    <3>2. TristateWith(ModulesValue(x)).v = "tristate"
      BY <1>3, <1>4, <1>5 DEF TristateWith, Calcs
    <3> QED BY <1>5, <3>1, <3>2 DEF TypeInMode, AfterReading, Mode
  <2>3. limit = 1
    BY <1>1, <1>2, <1>5
  <2> QED BY <1>1, <2>1, <2>2, <2>3
<1> HIDE DEF limit, hidden
<1> QED BY <1>1, <1>2, <1>3, <1>5

----------------------------------------------------------------------------
(* Assignable values.                                                       *)

\* The attributes of a configuration.
LEMMA ConfigurationHas ==
    ASSUME IsTree, NEW x, IsEnv(x), NEW i, Calculated(x, i)
    PROVE  /\ \A j \in Items : Vis(x, j) = Visibility(x, j).v /\ Vis(x, j) \in 0 .. 2
           /\ \A j \in Items : x[<<j, "vis">>] = Visibility(x, j).v
           /\ \A s \in Syms : SymTriValue(x, s).v = SymValue(x, s).v
           /\ \A c \in Choices : x[<<c, "sel">>] = Selection(x, c).v
<1>1. \A p \in Attributes : x[p] = Calculate(x, p).v
  BY DEF Calculated, IsTree, TreeValue
<1>2. None \notin 0 .. 2
  BY ItemsAssumption
<1>3. ASSUME NEW j \in Items
      PROVE  /\ x[<<j, "vis">>] = Visibility(x, j).v /\ Vis(x, j) = Visibility(x, j).v
             /\ Vis(x, j) \in 0 .. 2
  <2>1. <<j, "vis">> \in Attributes
    BY DEF Attributes
  <2>2. x[<<j, "vis">>] = Visibility(x, j).v
    BY <1>1, <2>1 DEF Calculate
  <2>3. Visibility(x, j).v \in 0 .. 2
    BY VisibilityIs DEF Calcs
  <2> QED BY <1>2, <2>2, <2>3 DEF Vis, OrZero
<1>4. ASSUME NEW s \in Syms PROVE SymTriValue(x, s).v = SymValue(x, s).v
  <2>1. <<s, "val">> \in Attributes
    BY DEF Attributes
  <2>2. x[<<s, "val">>] = SymValue(x, s).v
    BY <1>1, <2>1 DEF Calculate
  <2>3. SymValue(x, s).v \in 0 .. 2
    BY SymValueIs DEF Calcs
  <2> QED BY <1>2, <2>2, <2>3 DEF SymTriValue, OrZero
<1>5. ASSUME NEW c \in Choices PROVE x[<<c, "sel">>] = Selection(x, c).v
  <2>1. <<c, "sel">> \in Attributes
    BY DEF Attributes
  <2> QED BY <1>1, <2>1 DEF Calculate
<1> QED BY <1>3, <1>4, <1>5

\* The user value of a symbol is not read before its value.
LEMMA UserValueIsReadLast ==
    ASSUME IsTree, NEW Order, Ordered(Order), NEW y, IsEnv(y), NEW s \in Syms
    PROVE  /\ \A p \in UpToAttr(Order, <<s, "vis">>) : <<s, "user">> \notin Calculate(y, p).r
           /\ \A p \in UpToAttr(Order, <<s, "val">>) \ {<<s, "val">>} :
                 <<s, "user">> \notin Calculate(y, p).r
<1>1. <<s, "vis">> \in Attributes /\ <<s, "val">> \in Attributes
  BY DEF Attributes, Items
<1>2. \A p \in Attributes : <<s, "user">> \in Calculate(y, p).r => p = <<s, "val">>
  BY UserValueReaders
<1>3. <<s, "vis">> \in Calculate(y, <<s, "val">>).r
  BY <1>1, SymValueIs DEF Calculate
<1>4. /\ UpToAttr(Order, <<s, "vis">>) \subseteq Attributes
      /\ UpToAttr(Order, <<s, "val">>) \subseteq Attributes
      /\ \A p \in UpToAttr(Order, <<s, "vis">>) : <<s, "vis">> \notin Calculate(y, p).r
  BY <1>1, UpToAttrIs
<1> QED BY <1>2, <1>3, <1>4

\* The user selection of a choice is not read before the visibility of a symbol
\* that it may be, if there is a y mode of the choice.
LEMMA UserSelectionIsReadLast ==
    ASSUME IsTree, NEW Order, Ordered(Order), NEW y, IsEnv(y),
           NEW s \in Syms, ChoiceOf[s] # None,
           NEW x, IsEnv(x), Mode(x, ChoiceOf[s]) = 2
    PROVE  \A p \in UpToAttr(Order, <<s, "vis">>) :
               <<ChoiceOf[s], "usel">> \notin Calculate(y, p).r
<1> DEFINE c == ChoiceOf[s]
           z == [x EXCEPT ![<<c, "usel">>] = s]
<1>1. /\ c \in Choices /\ s \in Members(c) /\ s # None
      /\ <<s, "vis">> \in Attributes /\ <<c, "sel">> \in Attributes
      /\ <<c, "usel">> \in Cells /\ CellValues(<<c, "usel">>) = Members(c)
  BY ItemsAssumption, CellForms, CellKinds DEF Attributes, Items, Members
<1>2. /\ IsEnv(z) /\ z[<<c, "usel">>] = s
      /\ \A q \in Cells : q # <<c, "usel">> => z[q] = x[q]
  BY <1>1, SetIsEnv
<1> HIDE DEF z
<1>3. ChoiceTriValue(z, c) = ChoiceTriValue(x, c)
  <2>1. /\ ChoiceTriValue(x, c).r \subseteq {<<c, "user">>, <<c, "vis">>, <<Modules, "val">>}
        /\ ChoiceTriValue(x, c) \in Calcs(0 .. 2)
    BY <1>1, ChoiceTriValueIs
  <2>2. SameReads(ChoiceTriValue(x, c), x, z)
    BY <1>2, <2>1 DEF SameReads, Calcs
  <2> QED BY <1>1, <2>2, ChoiceTriValueIs
<1>4. <<s, "vis">> \in Selection(z, c).r
  <2>1. ChoiceTriValue(z, c).v = 2
    BY <1>3 DEF Mode
  <2>2. <<s, "vis">> \in UserSelection(z, c, s).r
    BY <1>1 DEF UserSelection, AfterReading
  <2>3. Selection(z, c).r =
           ChoiceTriValue(z, c).r \cup ({<<c, "usel">>} \cup UserSelection(z, c, s).r)
    BY <1>2, <2>1 DEF Selection, SelectionInMode, AfterReading
  <2> QED BY <2>2, <2>3
<1>5. <<s, "vis">> \in Calculate(z, <<c, "sel">>).r
  BY <1>4 DEF Calculate
<1>6. \A p \in Attributes : <<c, "usel">> \in Calculate(y, p).r => p = <<c, "sel">>
  BY <1>1, UserValueReaders
<1>7. /\ UpToAttr(Order, <<s, "vis">>) \subseteq Attributes
      /\ \A p \in UpToAttr(Order, <<s, "vis">>) : <<s, "vis">> \notin Calculate(z, p).r
  BY <1>1, <1>2, UpToAttrIs
<1> QED BY <1>5, <1>6, <1>7

\* What is assignable, spelled out.
LEMMA SymAssignableSet ==
    ASSUME NEW x, IsEnv(x), NEW s \in Syms
    PROVE  LET vis  == Vis(x, s)
               sel  == ExprValue(x, RevDep[s]).v
               weak == ExprValue(x, WeakRevDep[s]).v
               type == IF vis = 1 THEN "tristate" ELSE SymType(x, s).v
               w    == IF type = "bool" THEN 2 ELSE weak
           IN  /\ sel \in 0 .. 2 /\ weak \in 0 .. 2 /\ type \in Types
               /\ SymAssignable(x, s).v =
                     IF vis = 0 THEN {}
                     ELSE IF (vis = 2 /\ ChoiceOf[s] # None) \/ sel = 2 THEN {2}
                     ELSE IF sel = 1 /\ vis = 1 THEN {1}
                     ELSE {u \in 0 .. 2 : u >= sel /\ (u # 1 \/ w # 2) /\ (u <= vis \/ w = 2)}
<1> DEFINE vis == Vis(x, s)
           sel == ExprValue(x, RevDep[s])
           weak == ExprValue(x, WeakRevDep[s])
           type == IF vis = 1 THEN Just("tristate") ELSE SymType(x, s)
           from == AssignableFrom(x, s, vis, sel)
           w == IF type.v = "bool" THEN Just(2) ELSE weak
<1>1. weak \in Calcs(0 .. 2) /\ sel \in Calcs(0 .. 2)
  BY TreeAssumption, ExprValueFits
<1>2. type \in Calcs(Types)
  BY SymTypeIs, JustIs DEF Types
<1>3. SymAssignable(x, s).v = IF vis = 0 THEN {} ELSE from.v
  BY DEF SymAssignable, AfterReading, Just
<1>4. from.v = IF (vis = 2 /\ ChoiceOf[s] # None) \/ sel.v = 2 THEN {2}
               ELSE IF sel.v = 1 /\ vis = 1 THEN {1}
               ELSE AssignableOfType(sel.v, vis, type, weak).v
  BY DEF AssignableFrom, AfterReading, Just
<1>5. AssignableOfType(sel.v, vis, type, weak).v = FromTo(sel.v, vis, w).v
  <2> HIDE DEF vis, sel, weak, type
  <2> QED BY DEF AssignableOfType, AfterReading
<1>6. w \in Calcs(0 .. 2)
  <2> HIDE DEF weak, type
  <2> QED BY <1>1, JustIs
<1> HIDE DEF vis, sel, weak, type, from, w
<1>7. FromTo(sel.v, vis, w).v =
         {u \in 0 .. 2 : u >= sel.v /\ (u # 1 \/ w.v # 2) /\ (u <= vis \/ w.v = 2)}
  <2> DEFINE S(b) == {u \in 0 .. 2 : u >= sel.v /\ (u # 1 \/ b # 2) /\ (u <= vis \/ b = 2)}
  <2>1. FromTo(sel.v, vis, w) = [w EXCEPT !.v = S(w.v)]
    BY DEF FromTo
  <2> HIDE DEF S
  <2>2. [w EXCEPT !.v = S(w.v)].v = S(w.v)
    BY <1>6 DEF Calcs
  <2> QED BY <2>1, <2>2 DEF S
<1>8. type.v \in Types /\ w.v = IF type.v = "bool" THEN 2 ELSE weak.v
  BY <1>2 DEF w, Just, Calcs
<1>9. type.v = IF vis = 1 THEN "tristate" ELSE SymType(x, s).v
  BY DEF type, Just
<1>10. sel.v \in 0 .. 2 /\ weak.v \in 0 .. 2
  BY <1>1 DEF Calcs
<1> QED BY <1>3, <1>4, <1>5, <1>7, <1>8, <1>9, <1>10 DEF vis, sel, weak

\* What it takes for a value to be assignable.
LEMMA SymAssignableIsFor ==
    ASSUME NEW x, IsEnv(x), NEW s \in Syms, NEW v \in SymAssignable(x, s).v
    PROVE  LET vis  == Vis(x, s)
               sel  == ExprValue(x, RevDep[s]).v
               weak == ExprValue(x, WeakRevDep[s]).v
               type == IF vis = 1 THEN "tristate" ELSE SymType(x, s).v
           IN  /\ vis # 0 /\ v \in 0 .. 2
               /\ \/ /\ (vis = 2 /\ ChoiceOf[s] # None) \/ sel = 2
                     /\ v = 2
                  \/ /\ sel = 1 /\ vis = 1
                     /\ v = 1
                  \/ /\ ~(vis = 2 /\ ChoiceOf[s] # None)
                     /\ sel # 2 /\ ~(sel = 1 /\ vis = 1)
                     /\ v >= sel
                     /\ v = 1 => type = "tristate" /\ weak # 2
                     /\ v <= vis \/ type = "bool" \/ weak = 2
<1> DEFINE vis == Vis(x, s)
           sel == ExprValue(x, RevDep[s]).v
           weak == ExprValue(x, WeakRevDep[s]).v
           type == IF vis = 1 THEN "tristate" ELSE SymType(x, s).v
           w == IF type = "bool" THEN 2 ELSE weak
<1>1. /\ type \in Types
      /\ v \in IF vis = 0 THEN {}
               ELSE IF (vis = 2 /\ ChoiceOf[s] # None) \/ sel = 2 THEN {2}
               ELSE IF sel = 1 /\ vis = 1 THEN {1}
               ELSE {u \in 0 .. 2 : u >= sel /\ (u # 1 \/ w # 2) /\ (u <= vis \/ w = 2)}
  BY SymAssignableSet
<1> HIDE DEF vis, sel, weak, type
<1> QED BY <1>1 DEF vis, sel, weak, type, Types

\* The modes that are assignable to a choice.
LEMMA ChoiceAssignableSet ==
    ASSUME NEW x, IsEnv(x), NEW c \in Choices
    PROVE  LET vis  == Vis(x, c)
               type == IF vis = 1 THEN "tristate" ELSE ChoiceType(x, c).v
           IN  ChoiceAssignable(x, c).v =
                  IF vis = 0 THEN {}
                  ELSE {u \in 0 .. vis : (u = 0 => IsOptional[c]) /\ (u = 1 => type = "tristate")}
<1> DEFINE vis == Vis(x, c)
           type == IF vis = 1 THEN Just("tristate") ELSE ChoiceType(x, c)
           values == ModesOfType(c, vis, type)
<1>1. ChoiceAssignable(x, c).v = IF vis = 0 THEN {} ELSE values.v
  BY DEF ChoiceAssignable, AfterReading, Just
<1>2. type \in Calcs(Types)
  BY ChoiceTypeIs, JustIs DEF Types
<1>3. type.v = IF vis = 1 THEN "tristate" ELSE ChoiceType(x, c).v
  BY DEF Just
<1> HIDE DEF type, vis
<1>4. values.v = {u \in 0 .. vis : (u = 0 => IsOptional[c]) /\ (u = 1 => type.v = "tristate")}
  <2> DEFINE S(t) == {u \in 0 .. vis : (u = 0 => IsOptional[c]) /\ (u = 1 => t = "tristate")}
  <2>1. values = [type EXCEPT !.v = S(type.v)]
    BY DEF ModesOfType
  <2> HIDE DEF S, values
  <2>2. [type EXCEPT !.v = S(type.v)].v = S(type.v)
    BY <1>2 DEF Calcs
  <2> QED BY <2>1, <2>2 DEF S
<1> HIDE DEF values
<1> QED BY <1>1, <1>3, <1>4 DEF vis

\* What it takes for a mode to be assignable.
LEMMA ChoiceAssignableIsFor ==
    ASSUME NEW x, IsEnv(x), NEW c \in Choices, NEW v \in ChoiceAssignable(x, c).v
    PROVE  /\ Vis(x, c) # 0 /\ v \in 0 .. Vis(x, c)
           /\ v = 0 => IsOptional[c]
           /\ v = 1 => Vis(x, c) = 1 \/ ChoiceType(x, c).v = "tristate"
<1> DEFINE vis == Vis(x, c)
           type == IF vis = 1 THEN "tristate" ELSE ChoiceType(x, c).v
<1>1. v \in IF vis = 0 THEN {}
            ELSE {u \in 0 .. vis : (u = 0 => IsOptional[c]) /\ (u = 1 => type = "tristate")}
  BY ChoiceAssignableSet
<1> HIDE DEF vis, type
<1> QED BY <1>1 DEF vis, type

\* Assignable values fit the type.
LEMMA AssignableFits ==
    ASSUME IsTree, NEW x, IsEnv(x), NEW i, Calculated(x, i)
    PROVE  /\ \A s \in Syms : SymAssignable(x, s).v \subseteq TypeValues(s)
           /\ \A c \in Choices : ChoiceAssignable(x, c).v \subseteq TypeValues(c)
<1>1. ASSUME NEW j \in Items, Vis(x, j) = 1 \/ TypeOf(x, j).v = "tristate"
      PROVE  OrigType[j] = "tristate"
  <2>1. CASE Vis(x, j) = 1
    BY <2>1, ConfigurationHas, MIsForTristates
  <2>2. CASE TypeOf(x, j).v = "tristate"
    BY <2>2 DEF TypeOf, SymType, ChoiceType, Just
  <2> QED BY <1>1, <2>1, <2>2
<1>2. ASSUME NEW j \in Items, NEW v \in 0 .. 2, v = 1 => OrigType[j] = "tristate"
      PROVE  v \in TypeValues(j)
  BY <1>2 DEF TypeValues
<1>3. ASSUME NEW s \in Syms, NEW v \in SymAssignable(x, s).v PROVE v \in TypeValues(s)
  <2>1. s \in Items /\ TypeOf(x, s) = SymType(x, s)
    BY ItemsAssumption DEF Items, TypeOf
  <2>2. v \in 0 .. 2 /\ (v = 1 => Vis(x, s) = 1 \/ SymType(x, s).v = "tristate")
    BY SymAssignableIsFor
  <2> QED BY <1>1, <1>2, <2>1, <2>2
<1>4. ASSUME NEW c \in Choices, NEW v \in ChoiceAssignable(x, c).v PROVE v \in TypeValues(c)
  <2>1. c \in Items /\ TypeOf(x, c) = ChoiceType(x, c)
    BY DEF Items, TypeOf
  <2>2. v \in 0 .. Vis(x, c) /\ (v = 1 => Vis(x, c) = 1 \/ ChoiceType(x, c).v = "tristate")
    BY ChoiceAssignableIsFor
  <2>3. Vis(x, c) \in 0 .. 2
    BY <2>1, ConfigurationHas
  <2> QED BY <1>1, <1>2, <2>1, <2>2, <2>3
<1> QED BY <1>3, <1>4

\* A symbol with visibility m is not selected at m and implied at y, when its m
\* would become y unnoticed; in a choice, where selects and implies count for
\* assignable but not for the value, it is not given a y by either.
NoHiddenPromotion(x) ==
    \A s \in Syms : Vis(x, s) = 1 =>
        LET sel  == ExprValue(x, RevDep[s]).v
            weak == ExprValue(x, WeakRevDep[s]).v
        IN  IF ChoiceOf[s] = None THEN ~(sel = 1 /\ weak = 2)
            ELSE sel # 2 /\ ~(sel = 0 /\ weak = 2)

\* A symbol of a choice, y in y mode, n or m in m mode.
LEMMA ChoiceSymIsRespected ==
    ASSUME IsTree, NEW Order, Ordered(Order),
           NEW s \in Syms, ChoiceOf[s] # None,
           NEW x, IsEnv(x), NEW i, Calculated(x, i), NoHiddenPromotion(x),
           NEW y, IsEnv(y), NEW j, Calculated(y, j),
           NEW v \in SymAssignable(x, s).v,
           \A q \in Inputs : y[q] =
               IF q = <<s, "user">> THEN v
               ELSE IF v = 2 /\ q = <<ChoiceOf[s], "usel">> THEN s
               ELSE x[q]
    PROVE  SymValue(y, s).v = v
<1> DEFINE c == ChoiceOf[s]
           p0 == <<s, "vis">>
           T == UpToAttr(Order, p0)
<1>0. /\ s \in Items /\ c \in Choices /\ s \in Members(c) /\ s # None
      /\ p0 \in Attributes /\ <<s, "user">> \in Inputs
      /\ <<c, "usel">> \in Inputs /\ <<c, "usel">> # <<s, "user">>
  BY ItemsAssumption, CellForms DEF Items, Members, Attributes
<1>1. Vis(x, s) \in {1, 2} /\ v \in 0 .. 2 /\ (v = 2 <=> Vis(x, s) = 2)
  <2>1. Vis(x, s) \in 0 .. 2
    BY <1>0, ConfigurationHas
  <2>2. ExprValue(x, RevDep[s]).v \in 0 .. 2
    BY TreeAssumption, ExprValueFits DEF Calcs
  <2> QED BY <2>1, <2>2, SymAssignableIsFor DEF NoHiddenPromotion
<1>2. /\ Vis(x, s) = Visibility(x, s).v /\ Vis(y, s) = Visibility(y, s).v
      /\ x[p0] = Visibility(x, s).v /\ y[p0] = Visibility(y, s).v
      /\ y[<<c, "sel">>] = Selection(y, c).v
  BY <1>0, ConfigurationHas
<1>3. \A p \in T : <<s, "user">> \notin Calculate(y, p).r
  BY UserValueIsReadLast
<1>4. v = 2 => \A p \in T : <<c, "usel">> \notin Calculate(y, p).r
  <2> SUFFICES ASSUME v = 2 PROVE \A p \in T : <<c, "usel">> \notin Calculate(y, p).r
    OBVIOUS
  <2>1. Mode(x, c) = 2
    BY <1>1, <1>2, YNeedsYMode
  <2> QED BY <2>1, UserSelectionIsReadLast
<1>5. \A q \in Inputs : x[q] # y[q] => \A p \in T : q \notin Calculate(y, p).r
  BY <1>3, <1>4
<1>6. Vis(y, s) = Vis(x, s)
  <2>1. \A p \in T : x[p] = y[p]
    <3> HIDE DEF T, p0
    <3> QED BY <1>0, <1>5, AgreeUpTo DEF T
  <2>2. p0 \in T
    BY <1>0, UpToAttrIs
  <2> QED BY <1>2, <2>1, <2>2
<1>7. SymValue(y, s).v = ChoiceSymValue(y, s, Vis(y, s)).v
  BY DEF SymValue, AfterReading
<1>8. y[<<s, "user">>] = v /\ v # None
  <2>1. None \notin 0 .. 2
    BY ItemsAssumption
  <2> QED BY <1>0, <1>1, <2>1
<1>9. CASE v = 2
  <2>1. Vis(y, s) = 2 /\ Mode(y, c) = 2
    BY <1>1, <1>2, <1>6, <1>9, YNeedsYMode
  <2>2. y[<<c, "usel">>] = s
    BY <1>0, <1>9
  <2>3. Selection(y, c).v = s
    <3>1. UserSelection(y, c, s).v = s
      BY <1>0, <2>1 DEF UserSelection, AfterReading, Just
    <3> QED BY <2>1, <2>2, <3>1 DEF Selection, SelectionInMode, AfterReading, Mode
  <2> QED BY <1>2, <1>7, <1>9, <2>1, <2>3 DEF ChoiceSymValue
<1>10. CASE v # 2
  <2>1. Vis(y, s) = 1
    BY <1>1, <1>6, <1>10
  <2> QED BY <1>1, <1>7, <1>8, <1>10, <2>1 DEF ChoiceSymValue
<1> QED BY <1>9, <1>10

\* The mode of a choice.
LEMMA ModeIsRespected ==
    ASSUME IsTree, NEW Order, Ordered(Order), NEW c \in Choices,
           NEW x, IsEnv(x), NEW i, Calculated(x, i),
           NEW y, IsEnv(y), NEW j, Calculated(y, j),
           NEW v \in ChoiceAssignable(x, c).v,
           \A q \in Inputs : y[q] = IF q = <<c, "user">> THEN v ELSE x[q]
    PROVE  Mode(y, c) = v
<1> DEFINE p0 == <<c, "vis">>
           m0 == <<Modules, "val">>
           user == <<c, "user">>
           T == UpToAttr(Order, p0)
           U == UpToAttr(Order, m0)
<1>0. /\ c \in Items /\ p0 \in Attributes /\ m0 \in Attributes /\ user \in Inputs
      /\ Modules \in Syms
  BY ItemsAssumption, CellForms DEF Items, Attributes
<1>1. Vis(x, c) \in {1, 2} /\ v \in 0 .. Vis(x, c) /\ (v = 0 => IsOptional[c])
  <2>1. Vis(x, c) \in 0 .. 2
    BY <1>0, ConfigurationHas
  <2> QED BY <2>1, ChoiceAssignableIsFor
<1>2. y[user] = v /\ v # None /\ v \in 0 .. 2
  <2>1. None \notin 0 .. 2
    BY ItemsAssumption
  <2> QED BY <1>0, <1>1, <2>1
<1>3. \A p \in Attributes : user \in Calculate(y, p).r =>
          ChoiceTriValue(y, c).r \subseteq Calculate(y, p).r
  BY UserValueReaders
<1>4. Vis(y, c) = Vis(x, c)
  <2>1. T \subseteq Attributes /\ p0 \in T /\ \A p \in T : p0 \notin Calculate(y, p).r
    BY <1>0, UpToAttrIs
  <2>2. p0 \in ChoiceTriValue(y, c).r
    BY ChoiceTriValueIs
  <2>3. \A q \in Inputs : x[q] # y[q] => \A p \in T : q \notin Calculate(y, p).r
    BY <1>3, <2>1, <2>2
  <2>4. \A p \in T : x[p] = y[p]
    <3> HIDE DEF T, p0
    <3> QED BY <1>0, <2>3, AgreeUpTo DEF T
  <2> QED BY <2>1, <2>4 DEF Vis
<1>5. Least(WantedMode(y, c), Vis(y, c)) = v
  <2>1. WantedMode(y, c) = v
    BY <1>1, <1>2 DEF WantedMode, LowestMode, Greatest
  <2> QED BY <1>1, <1>4, <2>1 DEF Least
<1>6. Mode(y, c) = ModeOfType(v, ChoiceType(y, c)).v
  BY <1>5 DEF Mode, ChoiceTriValue, AfterReading
<1>7. CASE v # 1
  BY <1>6, <1>7 DEF ModeOfType, Just
<1>8. CASE v = 1
  <2>1. OrigType[c] = "tristate" /\ ModulesValue(x).v # 0
    <3>1. ChoiceType(x, c).v = "tristate"
      <4>1. CASE Vis(x, c) = 1
        <5>1. Visibility(x, c).v = 1
          BY <1>0, <4>1, ConfigurationHas
        <5> QED BY <1>0, <5>1, MIsForTristates DEF TypeOf
      <4>2. CASE Vis(x, c) # 1
        BY <1>8, <4>2, ChoiceAssignableIsFor
      <4> QED BY <4>1, <4>2
    <3> QED BY <3>1, ModesAre
  <2>2. m0 \in ChoiceTriValue(y, c).r
    <3>1. ChoiceType(y, c) = TristateWith(ModulesValue(y))
      BY <2>1 DEF ChoiceType
    <3>2. m0 \in ChoiceType(y, c).r
      BY <3>1, ModulesValueIs DEF TristateWith, Calcs
    <3>3. ChoiceType(y, c) \in Calcs(Types)
      BY ChoiceTypeIs DEF Types
    <3>4. ModeOfType(1, ChoiceType(y, c)).r = ChoiceType(y, c).r
      BY <3>3 DEF ModeOfType, Calcs
    <3> QED BY <1>5, <1>8, <3>2, <3>4 DEF ChoiceTriValue, AfterReading
  <2>3. U \subseteq Attributes /\ m0 \in U /\ \A p \in U : m0 \notin Calculate(y, p).r
    BY <1>0, UpToAttrIs
  <2>4. \A q \in Inputs : x[q] # y[q] => \A p \in U : q \notin Calculate(y, p).r
    BY <1>3, <2>2, <2>3
  <2>5. \A p \in U : x[p] = y[p]
    <3> HIDE DEF U, m0
    <3> QED BY <1>0, <2>4, AgreeUpTo DEF U
  <2>6. ModulesValue(y).v = ModulesValue(x).v
    BY <2>3, <2>5 DEF ModulesValue
  <2>7. ChoiceType(y, c).v = "tristate"
    BY <2>1, <2>6, ModesAre
  <2>8. ChoiceType(y, c) \in Calcs(Types)
    BY ChoiceTypeIs DEF Types
  <2> QED BY <1>6, <1>8, <2>7, <2>8 DEF ModeOfType, Calcs
<1> QED BY <1>7, <1>8

\* A symbol that is not in a choice.
LEMMA PlainSymIsRespected ==
    ASSUME IsTree, NEW Order, Ordered(Order),
           NEW s \in Syms, ChoiceOf[s] = None,
           NEW x, IsEnv(x), NEW i, Calculated(x, i),
           NEW y, IsEnv(y), NEW j, Calculated(y, j), NoHiddenPromotion(y),
           NEW v \in SymAssignable(x, s).v,
           \A q \in Inputs : y[q] = IF q = <<s, "user">> THEN v ELSE x[q]
    PROVE  SymValue(y, s).v = v
<1> DEFINE p0 == <<s, "val">>
           user == <<s, "user">>
           T == UpToAttr(Order, p0) \ {p0}
           vis == Vis(y, s)
           sel == ExprValue(y, RevDep[s])
           weak == ExprValue(y, WeakRevDep[s])
           direct == ExprValue(y, DirectDep[s])
           type == SymType(y, s)
           base == UserOrDefault(y, s, vis)
           val == Greatest(base.v, sel.v)
           promoted == Promoted(val, type, weak)
           reads == SymValue(y, s).r
<1>0. /\ s \in Items /\ s \notin Choices /\ p0 \in Attributes /\ user \in Inputs
      /\ RevDep[s] \in Exprs /\ WeakRevDep[s] \in Exprs
  BY ItemsAssumption, TreeAssumption, CellForms DEF Items, Attributes
<1>1. y[user] = v /\ v # None /\ v \in 0 .. 2
  <2>1. None \notin 0 .. 2
    BY ItemsAssumption
  <2>2. v \in 0 .. 2
    BY SymAssignableIsFor
  <2> QED BY <1>0, <2>1, <2>2
<1>2. \A q \in reads : q # user => x[q] = y[q]
  <2>1. UpToAttr(Order, p0) \subseteq Attributes /\ p0 \in UpToAttr(Order, p0)
    BY <1>0, UpToAttrIs
  <2>2. reads \cap Attributes \subseteq T
    <3>1. reads = Calculate(y, p0).r
      BY DEF Calculate
    <3> QED BY <1>0, <2>1, <3>1, UpToAttrIs
  <2>3. \A p \in T : user \notin Calculate(y, p).r
    BY UserValueIsReadLast
  <2>4. \A q \in Inputs : x[q] # y[q] => \A p \in T : q \notin Calculate(y, p).r
    BY <2>3
  <2>5. \A p \in T : x[p] = y[p]
    <3> HIDE DEF T, p0
    <3> QED BY <1>0, <2>4, AgreeUpTo DEF T
  <2>6. reads \subseteq Cells
    BY SymValueIs DEF Calcs
  <2> QED BY <2>2, <2>5, <2>6 DEF Cells
<1>3. /\ reads = {<<s, "vis">>} \cup base.r \cup sel.r \cup (IF sel.v = 0 THEN {} ELSE direct.r)
                     \cup promoted.r
      /\ SymValue(y, s).v = promoted.v
  BY DEF SymValue, PlainValue, WithSelect, AfterReading
<1> HIDE DEF reads, user, p0, T
<1>4. Vis(x, s) = vis /\ vis \in {1, 2}
  <2>1. Vis(x, s) # 0
    BY SymAssignableIsFor
  <2>2. Vis(x, s) \in 0 .. 2
    BY <1>0, ConfigurationHas
  <2>3. <<s, "vis">> \in reads /\ <<s, "vis">> # user
    BY <1>3 DEF user
  <2> QED BY <1>2, <2>1, <2>2, <2>3 DEF Vis
<1>5. base.v = Least(v, vis)
  BY <1>1, <1>4 DEF UserOrDefault, AfterReading, Just, user
<1>6. ASSUME NEW e \in Exprs, ExprValue(y, e).r \subseteq reads
      PROVE  ExprValue(x, e) = ExprValue(y, e)
  <2>1. user \notin ExprValue(y, e).r
    BY ExprReads DEF ReadsOf, user
  <2>2. SameReads(ExprValue(y, e), y, x)
    BY <1>2, <1>6, <2>1 DEF SameReads
  <2> QED BY <2>2, ExprDetermined
<1>7. ExprValue(x, RevDep[s]) = sel
  BY <1>0, <1>3, <1>6
<1>8. type \in Calcs(Types) /\ weak \in Calcs(0 .. 2) /\ sel \in Calcs(0 .. 2)
  BY <1>0, SymTypeIs, ExprValueFits
<1>9. vis = 1 => ~(sel.v = 1 /\ weak.v = 2)
  BY DEF NoHiddenPromotion
<1> HIDE DEF base, vis
<1>10. val = 1 => /\ SymType(x, s) = type
                  /\ type.v # "bool" => ExprValue(x, WeakRevDep[s]) = weak
  <2> SUFFICES ASSUME val = 1
               PROVE  /\ SymType(x, s) = type
                      /\ type.v # "bool" => ExprValue(x, WeakRevDep[s]) = weak
    OBVIOUS
  <2>1. type.r \subseteq promoted.r
    BY DEF Promoted, AfterReading
  <2>2. type.v # "bool" => weak.r \subseteq promoted.r
    <3> HIDE DEF type, weak, val
    <3> QED BY <1>8 DEF Promoted, AfterReading, Calcs
  <2>3. SymType(x, s) = type
    <3>1. user \notin type.r
      BY SymTypeIs DEF ReadsOf, user
    <3>2. SameReads(type, y, x)
      BY <1>2, <1>3, <2>1, <3>1 DEF SameReads
    <3> QED BY <3>2, SymTypeIs
  <2>4. type.v # "bool" => ExprValue(x, WeakRevDep[s]) = weak
    BY <1>0, <1>3, <1>6, <2>2
  <2> QED BY <2>3, <2>4
<1>11. vis = 1 => SymType(x, s).v = "tristate"
  <2>1. vis = 1 => Visibility(x, s).v = 1
    BY <1>0, <1>4, ConfigurationHas
  <2> QED BY <1>0, <2>1, MIsForTristates DEF TypeOf
<1>12. promoted.v =
          IF val # 1 THEN val
          ELSE IF type.v = "bool" \/ weak.v = 2 THEN 2 ELSE 1
  <2> HIDE DEF type, weak, val
  <2> QED BY <1>8 DEF Promoted, AfterReading, Just, Calcs
<1> HIDE DEF promoted
<1>13. /\ sel.v \in 0 .. 2 /\ weak.v \in 0 .. 2 /\ type.v \in Types
       /\ val = Greatest(Least(v, vis), sel.v)
  BY <1>5, <1>8 DEF Calcs
<1> DEFINE xweak == ExprValue(x, WeakRevDep[s]).v
           xtype == IF vis = 1 THEN "tristate" ELSE SymType(x, s).v
<1>14. \/ sel.v = 2 /\ v = 2
       \/ sel.v = 1 /\ vis = 1 /\ v = 1
       \/ /\ sel.v # 2 /\ ~(sel.v = 1 /\ vis = 1)
          /\ v >= sel.v
          /\ v = 1 => xtype = "tristate" /\ xweak # 2
          /\ v <= vis \/ xtype = "bool" \/ xweak = 2
  BY <1>4, <1>7, SymAssignableIsFor
<1>15. xtype = SymType(x, s).v
  BY <1>11
<1> HIDE DEF sel, weak, type, val, xweak, xtype
<1>16. val = 1 => xtype = type.v /\ (type.v # "bool" => xweak = weak.v)
  BY <1>10, <1>15 DEF xweak
<1>17. vis = 1 => xtype = "tristate"
  BY DEF xtype
<1>18. CASE sel.v = 2 /\ v = 2
  BY <1>3, <1>4, <1>12, <1>13, <1>18 DEF Greatest, Least
<1>19. CASE sel.v = 1 /\ vis = 1 /\ v = 1
  <2>1. val = 1 /\ weak.v # 2
    BY <1>9, <1>13, <1>19 DEF Greatest, Least
  <2> QED BY <1>3, <1>12, <1>16, <1>17, <1>19, <2>1
<1>20. CASE /\ sel.v # 2 /\ ~(sel.v = 1 /\ vis = 1)
            /\ v >= sel.v
            /\ v = 1 => xtype = "tristate" /\ xweak # 2
            /\ v <= vis \/ xtype = "bool" \/ xweak = 2
  <2>1. CASE v = 0
    BY <1>3, <1>4, <1>12, <1>13, <1>20, <2>1 DEF Greatest, Least
  <2>2. CASE v = 1
    <3>1. val = 1
      BY <1>4, <1>13, <1>20, <2>2 DEF Greatest, Least
    <3> QED BY <1>3, <1>12, <1>16, <1>20, <2>2, <3>1
  <2>3. CASE v = 2 /\ vis = 2
    BY <1>3, <1>12, <1>13, <2>3 DEF Greatest, Least
  <2>4. CASE v = 2 /\ vis = 1
    <3>1. val = 1
      BY <1>13, <1>20, <2>4 DEF Greatest, Least
    <3> QED BY <1>3, <1>12, <1>16, <1>17, <1>20, <2>4, <3>1
  <2> QED BY <1>1, <1>4, <2>1, <2>2, <2>3, <2>4
<1> QED BY <1>14, <1>18, <1>19, <1>20

\* In trees where no symbol is both selected and implied, and no symbol of a
\* choice is either, promotions are seen.
LEMMA SelectedOrImpliedIsEnough ==
    ASSUME SelectedOrImplied, NEW x, IsEnv(x)
    PROVE  NoHiddenPromotion(x)
<1> SUFFICES ASSUME NEW s \in Syms
             PROVE  LET sel  == ExprValue(x, RevDep[s]).v
                        weak == ExprValue(x, WeakRevDep[s]).v
                    IN  IF ChoiceOf[s] = None THEN sel = 0 \/ weak = 0
                        ELSE sel = 0 /\ weak = 0
  BY DEF NoHiddenPromotion
<1>1. \A e \in Exprs : e = N => ExprValue(x, e).v = 0
  BY ExprValueUnfolds DEF N, Just
<1>2. RevDep[s] \in Exprs /\ WeakRevDep[s] \in Exprs
  BY TreeAssumption
<1> QED BY <1>1, <1>2 DEF SelectedOrImplied

\* One assignment of an assignable value.
LEMMA AssignmentIsRespected ==
    ASSUME IsTree, NEW Order, Ordered(Order),
           \A z : IsEnv(z) /\ Calculated(z, z) => NoHiddenPromotion(z),
           ValuesInv, NEW i \in Items, NEW v \in TreeValue(<<i, "asg">>, Config(env))
    PROVE  ItemValue(Config(SetItem(i, v).env), i).v = v
<1> DEFINE x == Config(env)
           st == SetItem(i, v)
           y == Config(st.env)
<1>1. Evaluator /\ CacheInv(env) /\ IsEnv(env) /\ IsState(State) /\ State.env = env
  BY TreeIsAnEvaluator DEF ValuesInv, CacheInv, IsState, State
<1>2. IsEnv(x) /\ Calculated(x, env)
  BY <1>1, ConfigIs
<1>3. IsEnv(st.env)
  <2>1. CacheInv(st.env)
    BY <1>1, AssignIsSafe, AssignModeIsSafe DEF SetItem, Items
  <2> QED BY <2>1 DEF CacheInv
<1>4. IsEnv(y) /\ Calculated(y, st.env)
  BY <1>1, <1>3, ConfigIs
<1>5. NoHiddenPromotion(x) /\ NoHiddenPromotion(y)
  <2>1. Calculated(x, x) /\ Calculated(y, y)
    BY <1>2, <1>4 DEF Calculated
  <2> QED BY <1>2, <1>4, <2>1
<1>6. \A q \in Inputs : x[q] = env[q] /\ y[q] = st.env[q]
  BY <1>2, <1>4 DEF Calculated
<1>7. State.env = [q \in Cells |-> State.env[q]]
  BY <1>1 DEF IsEnv
<1>8. v \in IF i \in Choices THEN ChoiceAssignable(x, i).v ELSE SymAssignable(x, i).v
  BY DEF TreeValue, Calculate
<1> HIDE DEF x, y
<1>9. CASE i \in Choices
  <2>1. v \in ChoiceAssignable(x, i).v /\ v \in TypeValues(i)
    BY <1>2, <1>8, <1>9, AssignableFits
  <2>2. st = AssignMode(State, i, v)
    BY <1>9 DEF SetItem
  <2> HIDE DEF st
  <2>3. \A q \in Inputs : y[q] = IF q = <<i, "user">> THEN v ELSE x[q]
    BY <1>1, <1>6, <1>7, <1>9, <2>1, <2>2, AssignModeInputs
  <2>4. Mode(y, i) = v
    BY <1>2, <1>4, <1>9, <2>1, <2>3, ModeIsRespected
  <2> QED BY <1>9, <2>4 DEF ItemValue, Mode, y, st
<1>10. CASE i \notin Choices
  <2>1. i \in Syms /\ v \in SymAssignable(x, i).v /\ v \in TypeValues(i)
    BY <1>2, <1>8, <1>10, AssignableFits DEF Items
  <2>2. st = Assign(State, i, v)
    BY <1>10 DEF SetItem
  <2> HIDE DEF st
  <2>3. \A q \in Inputs : y[q] =
           IF q = <<i, "user">> THEN v
           ELSE IF ChoiceOf[i] # None /\ v = 2 /\ q = <<ChoiceOf[i], "usel">> THEN i
           ELSE x[q]
    BY <1>1, <1>6, <1>7, <2>1, <2>2, AssignInputs
  <2>4. SymValue(y, i).v = v
    <3>1. CASE ChoiceOf[i] = None
      BY <1>2, <1>4, <1>5, <2>1, <2>3, <3>1, PlainSymIsRespected
    <3>2. CASE ChoiceOf[i] # None
      BY <1>2, <1>4, <1>5, <2>1, <2>3, <3>2, ChoiceSymIsRespected
    <3> QED BY <3>1, <3>2
  <2>5. SymTriValue(y, i).v = v
    BY <1>4, <2>1, <2>4, ConfigurationHas
  <2> QED BY <1>10, <2>5 DEF ItemValue, y, st
<1> QED BY <1>9, <1>10

(***************************************************************************)
(* assignable tells the truth: whatever the user did before, setting a     *)
(* symbol or the mode of a choice to one of its assignable values makes    *)
(* that its value, in every menu tree in which reading cannot go round in  *)
(* circles and no configuration promotes an m behind the back of           *)
(* Symbol._assignable().                                                   *)
(***************************************************************************)
THEOREM AssignableIsRespectedThm ==
    ASSUME IsTree, NEW CONSTANT Order, Ordered(Order),
           \A z : IsEnv(z) /\ Calculated(z, z) => NoHiddenPromotion(z)
    PROVE  Spec => []AssignableIsRespected
<1>1. Evaluator
  BY TreeIsAnEvaluator
<1>2. ValuesInv => AssignableIsRespected
  BY AssignmentIsRespected DEF AssignableIsRespected
<1>3. ValuesInv /\ [Next]_vars => ValuesInv'
  BY <1>1, ValuesInvStep
<1> QED BY <1>2, <1>3, ValuesInvInit, PTL DEF Spec

----------------------------------------------------------------------------
(* Sequences.                                                               *)

\* kept is the sequence of what is kept of the first elements of seq.
Keeps(kept, seq, S) ==
    kept = [k \in 0 .. Len(seq) |->
               IF k = 0 THEN <<>>
               ELSE IF seq[k] \in S THEN Append(kept[k - 1], seq[k]) ELSE kept[k - 1]]

\* The recursion in Those has a solution.
LEMMA KeptExists ==
    ASSUME NEW T, NEW seq \in Seq(T), NEW S
    PROVE  \E kept : Keeps(kept, seq, S)
<1> DEFINE D == 0 .. Len(seq)
           F == [D -> Seq(T)]
           Lower == {p \in D \X D : p[1] < p[2]}
           Next1(f) == [k \in D |-> IF k = 0 THEN <<>>
                                    ELSE IF seq[k] \in S THEN Append(f[k - 1], seq[k])
                                    ELSE f[k - 1]]
           Step == [f \in F |-> Next1(f)]
<1>1. \A f \in F : Next1(f) \in F
  OBVIOUS
<1>2. F # {}
  <2>1. [k \in D |-> <<>>] \in F
    OBVIOUS
  <2> QED BY <2>1
<1>3. PointByPoint(D, F)
  BY DEF PointByPoint
<1>4. HasLowest(D, Lower)
  <2> SUFFICES ASSUME NEW U \in SUBSET D, U # {}
               PROVE  \E p \in U : \A q \in U : <<q, p>> \notin Lower
    BY DEF HasLowest
  <2>1. PICK k \in U : \A j \in U : k <= j
    BY LeastNumber
  <2> QED BY <2>1
<1>5. DeterminedBelow(D, F, Step, Lower)
  <2> SUFFICES ASSUME NEW f \in F, NEW g \in F, NEW p \in D,
                      \A q \in D : <<q, p>> \in Lower => f[q] = g[q]
               PROVE  Step[f][p] = Step[g][p]
    BY DEF DeterminedBelow
  <2>1. CASE p = 0
    BY <2>1
  <2>2. CASE p # 0
    <3>1. p - 1 \in D /\ <<p - 1, p>> \in Lower
      BY <2>2
    <3> QED BY <2>2, <3>1
  <2> QED BY <2>1, <2>2
<1>6. \A f \in F : Step[f] \in F
  BY <1>1
<1> HIDE DEF D, F, Lower, Step
<1>7. PICK f \in F : f = Step[f]
  BY <1>2, <1>3, <1>4, <1>5, <1>6, RecursionHasSolution
<1>8. f = Next1(f)
  BY <1>7 DEF Step
<1> QED BY <1>8 DEF Keeps, D

\* A sequence without repetitions.
Distinct(seq) == \A j, k \in DOMAIN seq : seq[j] = seq[k] => j = k

\* Those has the elements of seq that are in S, none twice if seq has not, and
\* begins as seq does.
LEMMA ThoseIs ==
    ASSUME NEW T, NEW seq \in Seq(T), NEW S
    PROVE  /\ Those(seq, S) \in Seq(T)
           /\ Seqs!ToSet(Those(seq, S)) = Seqs!ToSet(seq) \cap S
           /\ Distinct(seq) => Distinct(Those(seq, S))
           /\ Len(seq) > 0 /\ seq[1] \in S =>
                 Len(Those(seq, S)) > 0 /\ Those(seq, S)[1] = seq[1]
<1> DEFINE kept == CHOOSE kept : Keeps(kept, seq, S)
<1>1. Keeps(kept, seq, S)
  BY KeptExists
<1>2. Those(seq, S) = kept[Len(seq)]
  BY DEF Those, Keeps
<1> HIDE DEF kept
<1> DEFINE Upto(k) == {seq[j] : j \in 1 .. k} \cap S
           Right(k) == /\ kept[k] \in Seq(T)
                       /\ Seqs!ToSet(kept[k]) = Upto(k)
                       /\ Distinct(seq) => Distinct(kept[k])
                       /\ k > 0 /\ seq[1] \in S => Len(kept[k]) > 0 /\ kept[k][1] = seq[1]
           Wrong == {k \in 0 .. Len(seq) : ~Right(k)}
<1>3. Right(0)
  <2>1. kept[0] = <<>>
    BY <1>1 DEF Keeps
  <2> QED BY <2>1 DEF Seqs!ToSet, Distinct
<1>4. ASSUME NEW k \in 1 .. Len(seq), Right(k - 1)
      PROVE  Right(k)
  <2>1. kept[k] = IF seq[k] \in S THEN Append(kept[k - 1], seq[k]) ELSE kept[k - 1]
    <3>1. k \in 0 .. Len(seq) /\ k # 0
      OBVIOUS
    <3> QED BY <1>1, <3>1, Zenon DEF Keeps
  <2>2. 1 .. k = (1 .. k - 1) \cup {k}
    OBVIOUS
  <2>3. CASE seq[k] \notin S
    <3>1. Upto(k) = Upto(k - 1)
      BY <2>2, <2>3
    <3>2. k > 0 /\ seq[1] \in S => k - 1 > 0
      BY <2>3
    <3> QED BY <1>4, <2>1, <2>3, <3>1, <3>2
  <2>4. CASE seq[k] \in S
    <3> DEFINE a == kept[k - 1]
    <3>1. a \in Seq(T) /\ seq[k] \in T /\ Seqs!ToSet(a) = Upto(k - 1)
      BY <1>4
    <3>2. kept[k] = Append(a, seq[k])
      BY <2>1, <2>4
    <3>3. Upto(k) = Upto(k - 1) \cup {seq[k]}
      BY <2>2, <2>4
    <3> HIDE DEF a, Upto
    <3>4. /\ kept[k] \in Seq(T) /\ Len(kept[k]) = Len(a) + 1
          /\ \A j \in 1 .. Len(a) : kept[k][j] = a[j]
          /\ kept[k][Len(a) + 1] = seq[k]
      BY <3>1, <3>2
    <3>5. Seqs!ToSet(kept[k]) = Seqs!ToSet(a) \cup {seq[k]}
      BY <3>1, <3>4 DEF Seqs!ToSet
    <3>6. ASSUME Distinct(seq) PROVE Distinct(kept[k])
      <4>1. seq[k] \notin Seqs!ToSet(a)
        BY <3>1, <3>6 DEF Upto, Distinct
      <4>2. Distinct(a)
        BY <1>4, <3>6 DEF a
      <4>3. DOMAIN kept[k] = 1 .. Len(a) + 1 /\ DOMAIN a = 1 .. Len(a) /\ Len(a) \in Nat
        BY <3>1, <3>4
      <4>4. \A j \in 1 .. Len(a) : a[j] # seq[k]
        BY <4>1, <4>3 DEF Seqs!ToSet
      <4> HIDE DEF a
      <4> SUFFICES ASSUME NEW i \in DOMAIN kept[k], NEW j \in DOMAIN kept[k],
                          kept[k][i] = kept[k][j]
                   PROVE  i = j
        BY DEF Distinct
      <4>5. /\ i \in 1 .. Len(a) \/ i = Len(a) + 1
            /\ j \in 1 .. Len(a) \/ j = Len(a) + 1
        BY <4>3
      <4>6. CASE i \in 1 .. Len(a) /\ j \in 1 .. Len(a)
        BY <3>4, <4>2, <4>3, <4>6 DEF Distinct
      <4> QED BY <3>4, <4>4, <4>5, <4>6
    <3>7. k > 0 /\ seq[1] \in S => Len(kept[k]) > 0 /\ kept[k][1] = seq[1]
      <4>1. CASE k = 1
        <5>1. a = <<>>
          BY <1>1, <4>1 DEF Keeps, a
        <5> QED BY <3>4, <4>1, <5>1
      <4>2. CASE k > 1
        <5>1. seq[1] \in S => Len(a) > 0 /\ a[1] = seq[1]
          BY <1>4, <4>2 DEF a
        <5> QED BY <3>1, <3>4, <5>1
      <4> QED BY <4>1, <4>2
    <3> QED BY <3>1, <3>3, <3>4, <3>5, <3>6, <3>7 DEF Upto
  <2> QED BY <2>3, <2>4
<1>5. Wrong = {}
  <2> SUFFICES ASSUME Wrong # {} PROVE FALSE
    OBVIOUS
  <2> HIDE DEF Right
  <2>1. PICK k \in Wrong : \A j \in Wrong : k <= j
    <3>1. Wrong \in SUBSET Nat
      OBVIOUS
    <3> HIDE DEF Wrong
    <3> QED BY <3>1, LeastNumber
  <2>2. k # 0
    BY <1>3
  <2>3. k - 1 \in 0 .. Len(seq) /\ k - 1 \notin Wrong /\ k \in 1 .. Len(seq)
    BY <2>1, <2>2
  <2> QED BY <1>4, <2>3
<1>6. Right(Len(seq))
  <2>1. Len(seq) \in 0 .. Len(seq)
    OBVIOUS
  <2> HIDE DEF Right
  <2> QED BY <1>5, <2>1
<1>7. Upto(Len(seq)) = Seqs!ToSet(seq) \cap S
  BY DEF Seqs!ToSet
<1> QED BY <1>2, <1>6, <1>7

\* Those leaves a sequence alone that has nothing else.
LEMMA ThoseAll ==
    ASSUME NEW T, NEW seq \in Seq(T), NEW S, \A k \in DOMAIN seq : seq[k] \in S
    PROVE  Those(seq, S) = seq
<1> DEFINE kept == CHOOSE kept : Keeps(kept, seq, S)
           n == Len(seq)
           Right(k) == /\ kept[k] \in Seq(T) /\ Len(kept[k]) = k
                       /\ \A j \in 1 .. k : kept[k][j] = seq[j]
           Wrong == {k \in 0 .. n : ~Right(k)}
<1>1. Keeps(kept, seq, S)
  BY KeptExists
<1>2. Those(seq, S) = kept[n]
  BY DEF Those, Keeps
<1> HIDE DEF kept
<1>3. n \in Nat /\ DOMAIN seq = 1 .. n
  OBVIOUS
<1>4. Right(0)
  <2>1. kept[0] = <<>>
    BY <1>1, <1>3 DEF Keeps
  <2> QED BY <2>1
<1>5. ASSUME NEW k \in 1 .. n, Right(k - 1)
      PROVE  Right(k)
  <2>1. k \in 0 .. n /\ k # 0 /\ seq[k] \in S /\ seq[k] \in T
    BY <1>3
  <2>2. kept[k] = Append(kept[k - 1], seq[k])
    <3>1. kept[k] = IF seq[k] \in S THEN Append(kept[k - 1], seq[k]) ELSE kept[k - 1]
      BY <1>1, <2>1, Zenon DEF Keeps
    <3> QED BY <2>1, <3>1
  <2> DEFINE a == kept[k - 1]
  <2>3. a \in Seq(T) /\ Len(a) = k - 1 /\ \A j \in 1 .. k - 1 : a[j] = seq[j]
    BY <1>5
  <2> HIDE DEF a
  <2>4. /\ Append(a, seq[k]) \in Seq(T) /\ Len(Append(a, seq[k])) = k
        /\ \A j \in 1 .. k - 1 : Append(a, seq[k])[j] = seq[j]
        /\ Append(a, seq[k])[k] = seq[k]
    BY <1>3, <2>1, <2>3
  <2>5. \A j \in 1 .. k : j \in 1 .. k - 1 \/ j = k
    OBVIOUS
  <2> QED BY <2>2, <2>4, <2>5 DEF a
<1> HIDE DEF Right
<1>6. Wrong = {}
  <2> SUFFICES ASSUME Wrong # {} PROVE FALSE
    OBVIOUS
  <2>1. PICK k \in Wrong : \A j \in Wrong : k <= j
    <3>1. Wrong \in SUBSET Nat
      BY <1>3
    <3> HIDE DEF Wrong
    <3> QED BY <3>1, LeastNumber
  <2>2. k # 0
    BY <1>4
  <2>3. k - 1 \in 0 .. n /\ k - 1 \notin Wrong /\ k \in 1 .. n
    BY <1>3, <2>1, <2>2
  <2> QED BY <1>5, <2>3
<1>7. Right(n)
  <2>1. n \in 0 .. n
    BY <1>3
  <2> QED BY <1>6, <2>1
<1>8. kept[n] \in Seq(T) /\ Len(kept[n]) = n /\ \A j \in 1 .. n : kept[n][j] = seq[j]
  BY <1>7 DEF Right
<1> QED BY <1>2, <1>3, <1>8

----------------------------------------------------------------------------
(* Configurations, and what makes one of another.                           *)

\* Everything in x is calculated from the user values in x.
IsConfiguration(x) == IsEnv(x) /\ Calculated(x, x)

\* A configuration is a coherent cache in which nothing is missing.
LEMMA ConfigurationIsCached ==
    ASSUME Evaluator, NEW x, IsConfiguration(x)
    PROVE  CacheInv(x)
<1>1. IsEnv(x) /\ \A p \in Attributes : x[p] = AttrValue(p, x)
  BY DEF IsConfiguration, Calculated
<1>2. \A p \in Attributes : x[p] \in CellValues(p) /\ x[p] # None
  <2>1. \A p \in Attributes : AttrValue(p, x) \in CellValues(p)
    BY <1>1 DEF Evaluator, ValuesFit
  <2> QED BY <1>1, <2>1, CellKinds, CellForms
<1>3. Flagged(x)
  BY <1>2, CellForms DEF Flagged, HasCache
<1>4. Coherent(x)
  BY <1>1, <1>2 DEF Coherent
<1>5. Hidden(x)
  <2>1. \A s \in Syms : <<s, "vis">> \in Attributes
    BY CellForms DEF Items
  <2> QED BY <1>1, <2>1 DEF Hidden, Evaluator, NoPromptNoVisibility
<1> QED BY <1>1, <1>3, <1>4, <1>5 DEF CacheInv

\* Nothing is set, nothing is cached.
LEMMA NoValuesAreCached == CacheInv(NoValues)
<1>1. NoValues = [q \in Cells |-> NoValues[q]] /\ \A q \in Cells : NoValues[q] = None
  BY DEF NoValues
<1>2. IsEnv(NoValues)
  BY <1>1 DEF IsEnv
<1>3. Flagged(NoValues) /\ Coherent(NoValues) /\ Hidden(NoValues)
  BY <1>1, CellForms DEF Flagged, Coherent, Hidden, Items
<1> QED BY <1>2, <1>3 DEF CacheInv

\* Config() makes a configuration with the same user values.
LEMMA ConfigIsConfiguration ==
    ASSUME IsTree, NEW Order, Ordered(Order), NEW x, CacheInv(x)
    PROVE  IsConfiguration(Config(x)) /\ \A q \in Inputs : Config(x)[q] = x[q]
<1>1. IsEnv(Config(x)) /\ Calculated(Config(x), x)
  BY TreeIsAnEvaluator, ConfigIs DEF CacheInv
<1> QED BY <1>1 DEF IsConfiguration, Calculated

\* The states in which user values are assigned.
Cached == {st \in [env : [Cells -> UNION {CellValues(q) \cup {None} : q \in Cells}],
                   set : SUBSET Items] : CacheInv(st.env)}

\* They are the states whose cache is coherent.
LEMMA CachedIs ==
    ASSUME NEW st
    PROVE  st \in Cached <=> IsState(st) /\ CacheInv(st.env)
<1> DEFINE V == UNION {CellValues(q) \cup {None} : q \in Cells}
<1>1. ASSUME st \in Cached PROVE IsState(st) /\ CacheInv(st.env)
  BY <1>1 DEF Cached, IsState
<1>2. ASSUME IsState(st), CacheInv(st.env) PROVE st \in Cached
  <2>1. st.env = [q \in Cells |-> st.env[q]] /\ \A q \in Cells : st.env[q] \in CellValues(q) \cup {None}
    BY <1>2 DEF CacheInv, IsEnv
  <2>2. \A q \in Cells : st.env[q] \in V
    BY <2>1
  <2> HIDE DEF V
  <2>3. st.env \in [Cells -> V]
    BY <2>1, <2>2
  <2> QED BY <1>2, <2>3 DEF Cached, V, IsState
<1> QED BY <1>1, <1>2

\* A line of a file.
LEMMA AssignLineIsSafe ==
    ASSUME Evaluator, NEW st \in Cached, NEW s \in Syms, NEW v
    PROVE  AssignLine(st, s, v) \in Cached
<1> DEFINE with == IF ChoiceOf[s] # None /\ v # 0 THEN AssignMode(st, ChoiceOf[s], v) ELSE st
<1>1. IsState(st) /\ CacheInv(st.env)
  BY CachedIs
<1>2. IsState(with) /\ CacheInv(with.env)
  <2>1. CASE ChoiceOf[s] # None /\ v # 0
    <3>1. ChoiceOf[s] \in Choices
      BY <2>1, ItemsAssumption
    <3> QED BY <1>1, <2>1, <3>1, AssignModeIsSafe
  <2>2. CASE ~(ChoiceOf[s] # None /\ v # 0)
    BY <1>1, <2>2
  <2> QED BY <2>1, <2>2
<1>3. AssignLine(st, s, v) = Assign(with, s, v)
  BY DEF AssignLine
<1> HIDE DEF with
<1> QED BY <1>2, <1>3, AssignIsSafe, CachedIs

\* A file assigns to symbols.
Assigns(file) == file \in Seq(Seqs!ToSet(file)) /\ \A k \in DOMAIN file : file[k][1] \in Syms

\* A file of which every line is used.
Fitting(file) ==
    /\ Assigns(file)
    /\ \A k \in DOMAIN file : file[k][2] \in TypeValues(file[k][1])

\* after has the states after the first lines of a file.
StepsOf(after, st, file) ==
    [k \in 0 .. Len(file) |->
        IF k = 0 THEN st ELSE AssignLine(after[k - 1], file[k][1], file[k][2])]

\* The recursion in LoadLines has a solution, and goes from one coherent cache
\* to another.
LEMMA LoadLinesUnfolds ==
    ASSUME Evaluator, NEW st \in Cached, NEW file, Assigns(file)
    PROVE  \E after :
              /\ \A k \in 0 .. Len(file) :
                    /\ after[k] \in Cached
                    /\ after[k] = IF k = 0 THEN st
                                  ELSE AssignLine(after[k - 1], file[k][1], file[k][2])
              /\ LoadLines(st, file) = after[Len(file)]
<1> DEFINE D == 0 .. Len(file)
           F == [D -> Cached]
           Lower == {p \in D \X D : p[1] < p[2]}
           Step == [f \in F |-> StepsOf(f, st, file)]
<1>0. /\ Len(file) \in Nat
      /\ \A k \in D : k # 0 => k - 1 \in D /\ file[k][1] \in Syms
  BY DEF Assigns
<1>1. \A f \in F : StepsOf(f, st, file) \in F
  <2> SUFFICES ASSUME NEW f \in F, NEW k \in D
               PROVE  (IF k = 0 THEN st ELSE AssignLine(f[k - 1], file[k][1], file[k][2])) \in Cached
    BY DEF StepsOf
  <2>1. CASE k = 0
    BY <2>1
  <2>2. CASE k # 0
    <3>1. f[k - 1] \in Cached
      BY <1>0, <2>2
    <3> QED BY <1>0, <2>2, <3>1, AssignLineIsSafe
  <2> QED BY <2>1, <2>2
<1>2. F # {}
  <2>1. [k \in D |-> st] \in F
    OBVIOUS
  <2> QED BY <2>1
<1>3. PointByPoint(D, F)
  BY DEF PointByPoint
<1>4. HasLowest(D, Lower)
  <2> SUFFICES ASSUME NEW U \in SUBSET D, U # {}
               PROVE  \E p \in U : \A q \in U : <<q, p>> \notin Lower
    BY DEF HasLowest
  <2>1. PICK k \in U : \A j \in U : k <= j
    BY LeastNumber
  <2> QED BY <2>1
<1>5. DeterminedBelow(D, F, Step, Lower)
  <2> SUFFICES ASSUME NEW f \in F, NEW g \in F, NEW p \in D,
                      \A q \in D : <<q, p>> \in Lower => f[q] = g[q]
               PROVE  Step[f][p] = Step[g][p]
    BY DEF DeterminedBelow
  <2>1. \A h \in F : Step[h][p] =
           IF p = 0 THEN st ELSE AssignLine(h[p - 1], file[p][1], file[p][2])
    BY DEF StepsOf
  <2>2. CASE p = 0
    BY <2>1, <2>2
  <2>3. CASE p # 0
    <3>1. p - 1 \in D /\ <<p - 1, p>> \in Lower
      BY <1>0, <2>3
    <3>2. f[p - 1] = g[p - 1]
      BY <3>1
    <3> QED BY <2>1, <2>3, <3>2
  <2> QED BY <2>2, <2>3
<1>6. \A f \in F : Step[f] \in F
  BY <1>1
<1> HIDE DEF F, Lower, Step
<1>7. PICK f \in F : f = Step[f]
  BY <1>2, <1>3, <1>4, <1>5, <1>6, RecursionHasSolution
<1>8. f = StepsOf(f, st, file)
  BY <1>7 DEF Step
<1> DEFINE after == CHOOSE h : h = StepsOf(h, st, file)
<1>9. after = StepsOf(after, st, file)
  BY <1>8
<1>10. LoadLines(st, file) = after[Len(file)]
  BY DEF LoadLines, StepsOf
<1> HIDE DEF after
<1>11. \A k \in D : after[k] =
          IF k = 0 THEN st ELSE AssignLine(after[k - 1], file[k][1], file[k][2])
  BY <1>9 DEF StepsOf
<1> DEFINE Wrong == {k \in D : after[k] \notin Cached}
<1>12. Wrong = {}
  <2> SUFFICES ASSUME Wrong # {} PROVE FALSE
    OBVIOUS
  <2>1. PICK k \in Wrong : \A j \in Wrong : k <= j
    <3>1. Wrong \in SUBSET Nat
      OBVIOUS
    <3> HIDE DEF Wrong
    <3> QED BY <3>1, LeastNumber
  <2>2. k # 0
    BY <1>11, <2>1
  <2>3. k - 1 \in D /\ k - 1 \notin Wrong /\ file[k][1] \in Syms
    BY <1>0, <2>1, <2>2
  <2>4. after[k - 1] \in Cached
    BY <2>3
  <2> QED BY <1>11, <2>1, <2>2, <2>3, <2>4, AssignLineIsSafe
<1>13. \A k \in D : after[k] \in Cached
  BY <1>12
<1> QED BY <1>10, <1>11, <1>13

\* Loading a file keeps the cache coherent.
LEMMA LoadLinesIsSafe ==
    ASSUME Evaluator, NEW st \in Cached, NEW file, Assigns(file)
    PROVE  LoadLines(st, file) \in Cached
<1>1. Len(file) \in 0 .. Len(file)
  BY DEF Assigns
<1> QED BY <1>1, LoadLinesUnfolds

----------------------------------------------------------------------------
(* A configuration that is written and read again.                          *)

\* What a symbol outside choices is worth.
LEMMA PlainValueSpelled ==
    ASSUME NEW x, IsEnv(x), NEW s \in Syms, ChoiceOf[s] = None, Vis(x, s) \in {1, 2}
    PROVE  LET user == x[<<s, "user">>]
               rev  == ExprValue(x, RevDep[s]).v
               weak == ExprValue(x, WeakRevDep[s]).v
               default == FirstDefault(x, Defaults[s]).v
           IN  \E base, implied \in 0 .. 2 :
                 /\ implied \in {0, weak} /\ default \in 0 .. 2
                 /\ user # None => user \in 0 .. 2
                 /\ base = IF user # None THEN Least(user, Vis(x, s)) ELSE Greatest(default, implied)
                 /\ SymValue(x, s).v =
                       IF Greatest(base, rev) # 1 THEN Greatest(base, rev)
                       ELSE IF SymType(x, s).v = "bool" \/ weak = 2 THEN 2 ELSE 1
<1> DEFINE vis == Vis(x, s)
           user == x[<<s, "user">>]
           rev == ExprValue(x, RevDep[s])
           weak == ExprValue(x, WeakRevDep[s])
           direct == ExprValue(x, DirectDep[s])
           type == SymType(x, s)
           default == FirstDefault(x, Defaults[s])
           implied == Implied(x, s)
           base == UserOrDefault(x, s, vis)
           val == Greatest(base.v, rev.v)
<1>0. s \in Items /\ RevDep[s] \in Exprs /\ WeakRevDep[s] \in Exprs /\ DirectDep[s] \in Exprs
  BY TreeAssumption DEF Items
<1>1. rev.v \in 0 .. 2 /\ weak \in Calcs(0 .. 2) /\ direct \in Calcs(0 .. 2) /\ type \in Calcs(Types)
  BY <1>0, SymTypeIs, ExprValueFits DEF Calcs
<1>2. default.v \in 0 .. 2
  <2>1. Defaults[s] \in Seq(Exprs \X Exprs)
    BY TreeAssumption
  <2>2. \A k \in DOMAIN Defaults[s] : /\ DependOn(Defaults[s][k][1]) \subseteq ReadBy(s)
                                      /\ DependOn(Defaults[s][k][2]) \subseteq ReadBy(s)
    BY SymReadBy DEF Values, Conditions
  <2>3. FirstDefault(x, Defaults[s]) \in Calcs(0 .. 2)
    BY <2>1, <2>2, FirstDefaultIs
  <2> QED BY <2>3 DEF Calcs
<1>3. implied.v \in {0, weak.v} /\ weak.v \in 0 .. 2
  BY <1>1 DEF Implied, IfMet, Calcs
<1>4. user # None => user \in 0 .. 2
  <2>1. <<s, "user">> \in Cells /\ CellValues(<<s, "user">>) = TypeValues(s)
    BY <1>0, CellForms, CellKinds
  <2> QED BY <2>1 DEF IsEnv, TypeValues
<1>5. base.v = IF user # None THEN Least(user, vis) ELSE Greatest(default.v, implied.v)
  BY DEF UserOrDefault, AfterReading, Just, Both
<1>6. SymValue(x, s).v = Promoted(val, type, weak).v
  BY DEF SymValue, PlainValue, WithSelect, AfterReading
<1>7. Promoted(val, type, weak).v =
         IF val # 1 THEN val
         ELSE IF type.v = "bool" \/ weak.v = 2 THEN 2 ELSE 1
  <2> HIDE DEF type, weak, val
  <2> QED BY <1>1 DEF Promoted, AfterReading, Just, Calcs
<1> HIDE DEF vis, user, rev, weak, direct, type, default, implied, base
<1>8. base.v \in 0 .. 2 /\ implied.v \in 0 .. 2
  BY <1>2, <1>3, <1>4, <1>5 DEF Least, Greatest, vis
<1>9. /\ implied.v \in {0, weak.v} /\ default.v \in 0 .. 2
      /\ user # None => user \in 0 .. 2
      /\ base.v = IF user # None THEN Least(user, vis) ELSE Greatest(default.v, implied.v)
      /\ SymValue(x, s).v = IF Greatest(base.v, rev.v) # 1 THEN Greatest(base.v, rev.v)
                            ELSE IF type.v = "bool" \/ weak.v = 2 THEN 2 ELSE 1
  BY <1>2, <1>3, <1>4, <1>5, <1>6, <1>7
<1>10. \E b, m \in 0 .. 2 :
         /\ m \in {0, weak.v} /\ default.v \in 0 .. 2
         /\ user # None => user \in 0 .. 2
         /\ b = IF user # None THEN Least(user, vis) ELSE Greatest(default.v, m)
         /\ SymValue(x, s).v = IF Greatest(b, rev.v) # 1 THEN Greatest(b, rev.v)
                               ELSE IF type.v = "bool" \/ weak.v = 2 THEN 2 ELSE 1
  BY <1>8, <1>9
<1> QED BY <1>10 DEF vis, user, rev, weak, type, default

----------------------------------------------------------------------------
(* Configurations that are to have the same values.  x and y differ in      *)
(* their user values, so what is read of them differs as well; attribute    *)
(* for attribute, what the two calculations are worth is compared.          *)

\* The items of S, and MODULES, have the same values in x and y, as far as
\* both have been read, in R and Q.
SameItems(S, R, Q, x, y) ==
    \A i \in S \cup {Modules} :
        ItemValue(x, i).r \subseteq R /\ ItemValue(y, i).r \subseteq Q =>
            ItemValue(x, i).v = ItemValue(y, i).v

\* Expressions have the same values if the items have that were read for both.
LEMMA ExprSame ==
    ASSUME NEW x, IsEnv(x), NEW y, IsEnv(y), NEW e \in Exprs, NEW R, NEW Q,
           ExprValue(x, e).r \subseteq R, ExprValue(y, e).r \subseteq Q,
           SameItems(DependOn(e), R, Q, x, y)
    PROVE  ExprValue(x, e).v = ExprValue(y, e).v
<1> DEFINE Wrong == {d \in Exprs : /\ ExprValue(x, d).r \subseteq R
                                  /\ ExprValue(y, d).r \subseteq Q
                                  /\ SameItems(DependOn(d), R, Q, x, y)
                                  /\ ExprValue(x, d).v # ExprValue(y, d).v}
<1> SUFFICES ASSUME Wrong # {} PROVE FALSE
  OBVIOUS
<1>1. PICK d \in Wrong : Parts(d) \cap Wrong = {}
  <2>1. Wrong \in SUBSET Exprs
    OBVIOUS
  <2> QED BY <2>1, TreeAssumption
<1>2. /\ d \in Exprs /\ ExprValue(x, d).r \subseteq R /\ ExprValue(y, d).r \subseteq Q
      /\ SameItems(DependOn(d), R, Q, x, y)
      /\ ExprValue(x, d).v # ExprValue(y, d).v
  BY <1>1
<1>3. ASSUME NEW c \in Parts(d)
      PROVE  /\ c \in Exprs
             /\ ExprValue(x, c) \in Calcs(0 .. 2) /\ ExprValue(y, c) \in Calcs(0 .. 2)
             /\ ExprValue(x, c).r \subseteq R /\ ExprValue(y, c).r \subseteq Q =>
                   ExprValue(x, c).v = ExprValue(y, c).v
  <2>1. c \in Exprs /\ c \notin Wrong
    BY <1>1, <1>2, ExprForms
  <2>2. SameItems(DependOn(c), R, Q, x, y)
    BY <1>2, DependOnIs DEF SameItems
  <2> QED BY <2>1, <2>2, ExprValueFits
<1> HIDE DEF Wrong
<1>4. CASE d[1] = "const"
  BY <1>2, <1>4, ExprValueUnfolds
<1>5. CASE d[1] \in {"item", "eq"}
  <2>1. d[2] \in Items /\ d[2] \in DependOn(d)
    BY <1>2, <1>5, ExprForms, DependOnIs
  <2>2. ItemValue(x, d[2]) \in Calcs(0 .. 2) /\ ItemValue(y, d[2]) \in Calcs(0 .. 2)
    BY <2>1, ItemValueIs
  <2>3. ExprValue(x, d).r = ItemValue(x, d[2]).r /\ ExprValue(y, d).r = ItemValue(y, d[2]).r
    BY <1>2, <1>5, <2>2, ExprValueUnfolds DEF Calcs
  <2>4. ItemValue(x, d[2]).v = ItemValue(y, d[2]).v
    BY <1>2, <2>1, <2>3 DEF SameItems
  <2>5. \A a \in Calcs(0 .. 2) :
           [a EXCEPT !.v = IF @ = d[3] THEN 2 ELSE 0].v = IF a.v = d[3] THEN 2 ELSE 0
    BY DEF Calcs
  <2>6. CASE d[1] = "item"
    BY <1>2, <2>4, <2>6, ExprValueUnfolds
  <2>7. CASE d[1] = "eq"
    <3>1. /\ ExprValue(x, d).v = [ItemValue(x, d[2]) EXCEPT !.v = IF @ = d[3] THEN 2 ELSE 0].v
          /\ ExprValue(y, d).v = [ItemValue(y, d[2]) EXCEPT !.v = IF @ = d[3] THEN 2 ELSE 0].v
      BY <1>2, <2>7, ExprValueUnfolds
    <3> QED BY <1>2, <2>2, <2>4, <2>5, <3>1
  <2> QED BY <1>5, <2>6, <2>7
<1>6. CASE d[1] = "not"
  <2>1. d[2] \in Parts(d)
    BY <1>2, <1>6, ExprForms
  <2>2. \A a \in Calcs(0 .. 2) : [a EXCEPT !.v = 2 - @].v = 2 - a.v /\ [a EXCEPT !.v = 2 - @].r = a.r
    BY DEF Calcs
  <2>3. /\ ExprValue(x, d) = [ExprValue(x, d[2]) EXCEPT !.v = 2 - @]
        /\ ExprValue(y, d) = [ExprValue(y, d[2]) EXCEPT !.v = 2 - @]
    BY <1>2, <1>6, ExprValueUnfolds
  <2>4. /\ ExprValue(x, d).v = 2 - ExprValue(x, d[2]).v /\ ExprValue(x, d).r = ExprValue(x, d[2]).r
        /\ ExprValue(y, d).v = 2 - ExprValue(y, d[2]).v /\ ExprValue(y, d).r = ExprValue(y, d[2]).r
    BY <1>3, <2>1, <2>2, <2>3
  <2> QED BY <1>2, <1>3, <2>1, <2>4
<1>7. CASE d[1] \in {"and", "or"}
  <2>1. d[2] \in Parts(d) /\ d[3] \in Parts(d)
    BY <1>2, <1>7, ExprForms
  <2> DEFINE a == ExprValue(x, d[2])
             b == ExprValue(x, d[3])
             f == ExprValue(y, d[2])
             g == ExprValue(y, d[3])
  <2>2. /\ a \in Calcs(0 .. 2) /\ b \in Calcs(0 .. 2) /\ f \in Calcs(0 .. 2) /\ g \in Calcs(0 .. 2)
        /\ a.r \subseteq R /\ f.r \subseteq Q => a.v = f.v
        /\ b.r \subseteq R /\ g.r \subseteq Q => b.v = g.v
    BY <1>3, <2>1
  <2>3. CASE d[1] = "and"
    <3>1. ExprValue(x, d) = AndOf(a, b) /\ ExprValue(y, d) = AndOf(f, g)
      BY <1>2, <2>3, ExprValueUnfolds
    <3> HIDE DEF a, b, f, g
    <3> QED BY <1>2, <2>2, <3>1 DEF AndOf
  <2>4. CASE d[1] = "or"
    <3>1. ExprValue(x, d) = OrOf(a, b) /\ ExprValue(y, d) = OrOf(f, g)
      BY <1>2, <2>4, ExprValueUnfolds
    <3> HIDE DEF a, b, f, g
    <3> QED BY <1>2, <2>2, <3>1 DEF OrOf, Both
  <2> QED BY <1>7, <2>3, <2>4
<1> QED BY <1>2, <1>4, <1>5, <1>6, <1>7, ExprForms

\* Two searches for the first value that is not 0 end at the same place if what
\* both look at has the same values.
LEMMA FirstSame ==
    ASSUME NEW K \in SUBSET Nat, NEW g, DOMAIN g = K, NEW h, DOMAIN h = K,
           \A k \in Tried(g) \cap Tried(h) : g[k].v = h[k].v
    PROVE  Tried(g) = Tried(h)
<1>1. ASSUME NEW a, NEW b, DOMAIN a = K, DOMAIN b = K,
             \A k \in Tried(a) \cap Tried(b) : a[k].v = b[k].v
      PROVE  Tried(a) \subseteq Tried(b)
  <2> DEFINE Wrong == Tried(a) \ Tried(b)
  <2> SUFFICES ASSUME Wrong # {} PROVE FALSE
    OBVIOUS
  <2>1. PICK k \in Tried(a) : k \notin Tried(b)
    OBVIOUS
  <2>2. k \in K /\ k \in Nat /\ \A j \in K : a[j].v # 0 => k <= j
    BY <1>1, <2>1 DEF Tried
  <2>3. {j \in K : b[j].v # 0} # {} /\ {j \in K : b[j].v # 0} \in SUBSET Nat
    BY <1>1, <2>1, <2>2 DEF Tried
  <2>4. PICK j \in {j \in K : b[j].v # 0} : \A i \in {i \in K : b[i].v # 0} : j <= i
    BY <2>3, LeastNumber
  <2>5. j \in K /\ j \in Nat /\ b[j].v # 0 /\ j \in Tried(b)
    BY <1>1, <2>4 DEF Tried
  <2>6. ~(k <= j)
    <3> SUFFICES ASSUME k <= j PROVE FALSE
      OBVIOUS
    <3>1. \A i \in K : b[i].v # 0 => k <= i
      <4> SUFFICES ASSUME NEW i \in K, b[i].v # 0 PROVE k <= i
        OBVIOUS
      <4>1. j <= i /\ i \in Nat
        BY <2>4
      <4> QED BY <2>2, <2>5, <4>1
    <3> QED BY <1>1, <2>1, <2>2, <3>1 DEF Tried
  <2>7. j \in Tried(a)
    <3> SUFFICES ASSUME NEW i \in K, a[i].v # 0 PROVE j <= i
      BY <1>1, <2>5 DEF Tried
    <3>1. k <= i /\ i \in Nat
      BY <2>2
    <3> QED BY <2>2, <2>5, <2>6, <3>1
  <2>8. a[j].v # 0
    BY <1>1, <2>5, <2>7
  <2> QED BY <2>2, <2>5, <2>6, <2>8
<1> QED BY <1>1

\* Fewer items.
LEMMA FewerSame ==
    ASSUME NEW S, NEW T \in SUBSET S, NEW R, NEW Q, NEW x, NEW y, SameItems(S, R, Q, x, y)
    PROVE  SameItems(T, R, Q, x, y)
BY DEF SameItems

\* The highest prompt condition.
LEMMA PromptLimitSame ==
    ASSUME NEW x, IsEnv(x), NEW y, IsEnv(y), NEW prompts \in Seq(Exprs), NEW S, NEW R, NEW Q,
           \A k \in DOMAIN prompts : DependOn(prompts[k]) \subseteq S,
           SameItems(S, R, Q, x, y),
           PromptLimit(x, prompts).r \subseteq R, PromptLimit(y, prompts).r \subseteq Q
    PROVE  PromptLimit(x, prompts).v = PromptLimit(y, prompts).v
<1> DEFINE found(z) == {ExprValue(z, prompts[k]) : k \in DOMAIN prompts}
<1>1. \A k \in DOMAIN prompts : prompts[k] \in Exprs
  OBVIOUS
<1>2. found(x) \in SUBSET Calcs(0 .. 2) /\ found(y) \in SUBSET Calcs(0 .. 2)
  BY <1>1, ExprValueFits
<1>3. \A z : PromptLimit(z, prompts) = Highest(found(z))
  BY DEF PromptLimit
<1>4. ASSUME NEW z \in {x, y}
      PROVE  /\ PromptLimit(z, prompts).v \in 0 .. 2
             /\ \A f \in found(z) : /\ f.r \subseteq PromptLimit(z, prompts).r
                                   /\ PromptLimit(z, prompts).v >= f.v
             /\ PromptLimit(z, prompts).v # 0 => \E f \in found(z) : f.v = PromptLimit(z, prompts).v
  <2> HIDE DEF found
  <2> QED BY <1>2, <1>3, HighestIs DEF Calcs
<1>5. ASSUME NEW k \in DOMAIN prompts
      PROVE  ExprValue(x, prompts[k]).v = ExprValue(y, prompts[k]).v
  <2>1. ExprValue(x, prompts[k]) \in found(x) /\ ExprValue(y, prompts[k]) \in found(y)
    OBVIOUS
  <2>2. ExprValue(x, prompts[k]).r \subseteq R /\ ExprValue(y, prompts[k]).r \subseteq Q
    <3> HIDE DEF found
    <3> QED BY <1>4, <2>1
  <2>3. SameItems(DependOn(prompts[k]), R, Q, x, y)
    BY FewerSame
  <2> QED BY <1>1, <2>2, <2>3, ExprSame
<1>6. /\ \A f \in found(x) : \E g \in found(y) : g.v = f.v
      /\ \A g \in found(y) : \E f \in found(x) : f.v = g.v
  BY <1>5
<1> DEFINE a == PromptLimit(x, prompts).v
           b == PromptLimit(y, prompts).v
<1>7. /\ a # 0 => \E f \in found(x) : f.v = a
      /\ b # 0 => \E g \in found(y) : g.v = b
      /\ \A f \in found(x) : a >= f.v
      /\ \A g \in found(y) : b >= g.v
  BY <1>4
<1> HIDE DEF found, a, b
<1>8. ASSUME a # 0 PROVE b >= a
  <2>1. PICK f \in found(x) : f.v = a
    BY <1>7, <1>8
  <2>2. PICK g \in found(y) : g.v = f.v
    BY <1>6
  <2> QED BY <1>7, <2>1, <2>2
<1>9. ASSUME b # 0 PROVE a >= b
  <2>1. PICK g \in found(y) : g.v = b
    BY <1>7, <1>9
  <2>2. PICK f \in found(x) : f.v = g.v
    BY <1>6
  <2> QED BY <1>7, <2>1, <2>2
<1>10. a \in 0 .. 2 /\ b \in 0 .. 2
  BY <1>4 DEF a, b
<1>11. a = b
  BY <1>8, <1>9, <1>10
<1> QED BY <1>11 DEF a, b

\* The mode of a choice, MODULES, and the type of an item.
LEMMA TypeOfSame ==
    ASSUME NEW x, IsEnv(x), NEW y, IsEnv(y), NEW i \in Items, NEW R, NEW Q,
           SameItems(ReadBy(i), R, Q, x, y),
           TypeOf(x, i).r \subseteq R, TypeOf(y, i).r \subseteq Q
    PROVE  TypeOf(x, i).v = TypeOf(y, i).v
<1> DEFINE modules(z) == TristateWith(ModulesValue(z))
<1>1. \A z : ItemValue(z, Modules) = ModulesValue(z)
  BY ItemsAssumption DEF ItemValue, SymTriValue, ModulesValue
<1>2. \A z : IsEnv(z) => /\ ModulesValue(z) \in Calcs(0 .. 2)
                         /\ modules(z) = [v |-> IF ModulesValue(z).v = 0 THEN "bool" ELSE "tristate",
                                          r |-> ModulesValue(z).r]
  BY ModulesValueIs DEF TristateWith, Calcs
<1>3. modules(x).r \subseteq R /\ modules(y).r \subseteq Q => modules(x).v = modules(y).v
  BY <1>1, <1>2 DEF SameItems
<1> HIDE DEF modules
<1>4. CASE i \in Choices
  <2>1. CASE OrigType[i] = "tristate"
    BY <1>3, <1>4, <2>1 DEF TypeOf, ChoiceType, modules
  <2>2. CASE OrigType[i] # "tristate"
    BY <1>4, <2>2 DEF TypeOf, ChoiceType, Just
  <2> QED BY <2>1, <2>2
<1>5. CASE i \notin Choices
  <2>1. CASE OrigType[i] # "tristate"
    BY <1>5, <2>1 DEF TypeOf, SymType, Just
  <2>2. CASE OrigType[i] = "tristate"
    <3> DEFINE c == ChoiceOf[i]
               mode(z) == IF c = None THEN Just(0) ELSE ChoiceTriValue(z, c)
    <3>1. \A z : TypeOf(z, i) =
             [v |-> IF mode(z).v = 2 THEN "bool" ELSE modules(z).v,
              r |-> mode(z).r \cup (IF mode(z).v = 2 THEN {} ELSE modules(z).r)]
      BY <1>5, <2>2 DEF TypeOf, SymType, TypeInMode, AfterReading, Just, modules
    <3>2. mode(x).r \subseteq R /\ mode(y).r \subseteq Q
      BY <3>1
    <3>3. mode(x).v = mode(y).v
      <4>1. CASE c = None
        BY <4>1
      <4>2. CASE c # None
        <5>1. i \in Syms
          BY <1>5 DEF Items
        <5>2. c \in Choices /\ c \in ReadBy(i)
          BY <4>2, <5>1, SymReadBy
        <5>3. mode(x) = ItemValue(x, c) /\ mode(y) = ItemValue(y, c)
          BY <4>2, <5>2 DEF ItemValue
        <5>4. ItemValue(x, c).r \subseteq R /\ ItemValue(y, c).r \subseteq Q
          <6> HIDE DEF mode
          <6> QED BY <3>2, <5>3
        <5>5. ItemValue(x, c).v = ItemValue(y, c).v
          BY <5>2, <5>4 DEF SameItems
        <5> HIDE DEF mode
        <5> QED BY <5>3, <5>5
      <4> QED BY <4>1, <4>2
    <3> HIDE DEF mode
    <3>4. CASE mode(x).v = 2
      <4>0. mode(y).v = 2
        BY <3>3, <3>4
      <4>1. TypeOf(x, i).v = "bool" /\ TypeOf(y, i).v = "bool"
        BY <3>1, <3>4, <4>0
      <4> QED BY <4>1
    <3>5. CASE mode(x).v # 2
      <4>1. TypeOf(x, i).r = mode(x).r \cup modules(x).r /\ TypeOf(y, i).r = mode(y).r \cup modules(y).r
        BY <3>1, <3>3, <3>5
      <4>2. TypeOf(x, i).v = modules(x).v /\ TypeOf(y, i).v = modules(y).v
        BY <3>1, <3>3, <3>5
      <4> QED BY <1>3, <4>1, <4>2
    <3> QED BY <3>4, <3>5
  <2> QED BY <2>1, <2>2
<1> QED BY <1>4, <1>5

\* The visibility of an item.
LEMMA VisibilitySame ==
    ASSUME NEW x, IsEnv(x), NEW y, IsEnv(y), NEW i \in Items, NEW R, NEW Q,
           SameItems(ReadBy(i), R, Q, x, y),
           Visibility(x, i).r \subseteq R, Visibility(y, i).r \subseteq Q
    PROVE  Visibility(x, i).v = Visibility(y, i).v
<1> DEFINE limit(z) == PromptLimit(z, Prompts[i])
           free == i \in Choices \/ ChoiceOf[i] = None
           hidden(z, vis) == IF free THEN Just(FALSE) ELSE HiddenByMode(z, i, vis)
           shown(z) == VisOfType(hidden(z, limit(z).v), limit(z).v, TypeOf(z, i))
<1>1. \A z : Visibility(z, i) = [v |-> shown(z).v, r |-> limit(z).r \cup shown(z).r]
  BY DEF Visibility, VisWithin, AfterReading
<1>2. limit(x).v = limit(y).v
  <2>1. Prompts[i] \in Seq(Exprs)
    BY TreeAssumption
  <2>2. \A k \in DOMAIN Prompts[i] : DependOn(Prompts[i][k]) \subseteq ReadBy(i)
    BY SymReadBy, ChoiceReadBy DEF PromptExprs, Items
  <2>3. limit(x).r \subseteq R /\ limit(y).r \subseteq Q
    <3> HIDE DEF limit, shown
    <3> QED BY <1>1
  <2> QED BY <2>1, <2>2, <2>3, PromptLimitSame
<1> DEFINE vis == limit(x).v
           h(z) == hidden(z, vis)
           m(z) == [TypeOf(z, i) EXCEPT !.v = IF @ = "tristate" THEN 1 ELSE 2]
<1>3. \A z \in {x, y} : shown(z) =
        [v |-> IF h(z).v THEN 0 ELSE IF vis # 1 THEN vis ELSE m(z).v,
         r |-> h(z).r \cup (IF h(z).v \/ vis # 1 THEN {} ELSE m(z).r)]
  <2> HIDE DEF limit, hidden
  <2>1. \A z \in {x, y} : limit(z).v = vis
    BY <1>2 DEF vis
  <2> HIDE DEF vis
  <2> QED BY <2>1 DEF VisOfType, AfterReading, Just
<1>4. shown(x).r \subseteq R /\ shown(y).r \subseteq Q
  <2> HIDE DEF limit, shown
  <2> QED BY <1>1
<1>5. h(x).r \subseteq R /\ h(y).r \subseteq Q
  <2> HIDE DEF h, shown, vis
  <2> QED BY <1>3, <1>4
<1>6. h(x).v = h(y).v /\ h(x).v \in BOOLEAN
  <2>1. CASE free
    BY <2>1 DEF Just
  <2>2. CASE ~free
    <3> DEFINE c == ChoiceOf[i]
               mode(z) == ChoiceTriValue(z, c)
    <3>1. i \in Syms
      BY <2>2 DEF Items
    <3>2. c \in Choices /\ c \in ReadBy(i)
      BY <2>2, <3>1, SymReadBy
    <3>3. mode(x) \in Calcs(0 .. 2) /\ mode(y) \in Calcs(0 .. 2)
      BY <3>2, ChoiceTriValueIs
    <3>4. mode(x).r \subseteq R /\ mode(y).r \subseteq Q => mode(x).v = mode(y).v
      BY <3>2 DEF SameItems, ItemValue
    <3>5. \/ h(x) = Just(FALSE) /\ h(y) = Just(FALSE)
          \/ h(x) = [mode(x) EXCEPT !.v = @ # 2] /\ h(y) = [mode(y) EXCEPT !.v = @ # 2]
          \/ h(x) = [mode(x) EXCEPT !.v = @ = 2] /\ h(y) = [mode(y) EXCEPT !.v = @ = 2]
      BY <2>2 DEF HiddenByMode
    <3>6. \A a \in Calcs(0 .. 2) :
             /\ [a EXCEPT !.v = @ # 2] = [v |-> a.v # 2, r |-> a.r]
             /\ [a EXCEPT !.v = @ = 2] = [v |-> a.v = 2, r |-> a.r]
      BY DEF Calcs
    <3> HIDE DEF mode, h
    <3>7. CASE h(x) = Just(FALSE) /\ h(y) = Just(FALSE)
      BY <3>7 DEF Just
    <3>8. CASE h(x) = [mode(x) EXCEPT !.v = @ # 2] /\ h(y) = [mode(y) EXCEPT !.v = @ # 2]
      <4>1. /\ h(x) = [v |-> mode(x).v # 2, r |-> mode(x).r]
            /\ h(y) = [v |-> mode(y).v # 2, r |-> mode(y).r]
        BY <3>3, <3>6, <3>8
      <4>2. mode(x).v = mode(y).v
        BY <1>5, <3>4, <4>1
      <4> QED BY <4>1, <4>2
    <3>9. CASE h(x) = [mode(x) EXCEPT !.v = @ = 2] /\ h(y) = [mode(y) EXCEPT !.v = @ = 2]
      <4>1. /\ h(x) = [v |-> mode(x).v = 2, r |-> mode(x).r]
            /\ h(y) = [v |-> mode(y).v = 2, r |-> mode(y).r]
        BY <3>3, <3>6, <3>9
      <4>2. mode(x).v = mode(y).v
        BY <1>5, <3>4, <4>1
      <4> QED BY <4>1, <4>2
    <3> QED BY <3>5, <3>7, <3>8, <3>9
  <2> QED BY <2>1, <2>2
<1>7. TypeOf(x, i) \in Calcs(Types) /\ TypeOf(y, i) \in Calcs(Types)
  BY TypeOfIs
<1>8. \A a \in Calcs(Types) : [a EXCEPT !.v = IF @ = "tristate" THEN 1 ELSE 2]
                                 = [v |-> IF a.v = "tristate" THEN 1 ELSE 2, r |-> a.r]
  BY DEF Calcs
<1>9. TypeOf(x, i).r \subseteq R /\ TypeOf(y, i).r \subseteq Q => TypeOf(x, i).v = TypeOf(y, i).v
  BY TypeOfSame
<1>13. \A z \in {x, y} : m(z) = [v |-> IF TypeOf(z, i).v = "tristate" THEN 1 ELSE 2,
                               r |-> TypeOf(z, i).r]
  BY <1>7, <1>8
<1> HIDE DEF limit, hidden, shown, h, vis, m
<1>10. CASE h(x).v
  <2>0. h(y).v
    BY <1>6, <1>10
  <2>1. shown(x).v = 0 /\ shown(y).v = 0
    BY <1>3, <1>10, <2>0
  <2> QED BY <1>1, <2>1
<1>11. CASE ~h(x).v /\ vis # 1
  <2>1. shown(x).v = vis /\ shown(y).v = vis
    BY <1>3, <1>6, <1>11
  <2> QED BY <1>1, <2>1
<1>12. CASE ~h(x).v /\ vis = 1
  <2>1. \A z \in {x, y} : shown(z) = [v |-> IF TypeOf(z, i).v = "tristate" THEN 1 ELSE 2,
                                      r |-> h(z).r \cup TypeOf(z, i).r]
    BY <1>3, <1>6, <1>12, <1>13
  <2>2. TypeOf(x, i).v = TypeOf(y, i).v
    BY <1>4, <1>9, <2>1
  <2> QED BY <1>1, <2>1, <2>2
<1> QED BY <1>10, <1>11, <1>12

\* What the first default that applies, and the ones before it, are worth.
LEMMA FirstDefaultSame ==
    ASSUME NEW x, IsEnv(x), NEW y, IsEnv(y), NEW defaults \in Seq(Exprs \X Exprs),
           NEW S, NEW R, NEW Q,
           \A k \in DOMAIN defaults : /\ DependOn(defaults[k][1]) \subseteq S
                                      /\ DependOn(defaults[k][2]) \subseteq S,
           SameItems(S, R, Q, x, y),
           FirstDefault(x, defaults).r \subseteq R, FirstDefault(y, defaults).r \subseteq Q
    PROVE  FirstDefault(x, defaults).v = FirstDefault(y, defaults).v
<1> DEFINE K == DOMAIN defaults
           cond(z) == [k \in K |-> ExprValue(z, defaults[k][2])]
           first(z) == First(DefaultsWith(cond(z)))
           value(z, f) == LimitedTo(The(f.v).is.v, ExprValue(z, defaults[The(f.v).k][1]))
           rest(z) == IF first(z).v = {} THEN Just(0) ELSE value(z, first(z))
<1>1. \A z : FirstDefault(z, defaults) =
                [v |-> rest(z).v, r |-> first(z).r \cup rest(z).r]
  <2>1. \A z : DefaultsWith(cond(z)) =
                  {[k |-> k, is |-> ExprValue(z, defaults[k][2])] : k \in DOMAIN defaults}
    BY DEF DefaultsWith
  <2> QED BY <2>1 DEF FirstDefault, DefaultAt, AfterReading
<1>2. /\ K \in SUBSET Nat
      /\ \A k \in K : defaults[k][1] \in Exprs /\ defaults[k][2] \in Exprs
  OBVIOUS
<1>3. ASSUME NEW z \in {x, y}
      PROVE  /\ DOMAIN cond(z) = K
             /\ \A k \in K : cond(z)[k] = ExprValue(z, defaults[k][2])
             /\ first(z).r = UNION {cond(z)[k].r : k \in Tried(cond(z))}
             /\ first(z).v = {} => \A k \in K : cond(z)[k].v = 0
             /\ first(z).v # {} => \E k \in Tried(cond(z)) :
                   The(first(z).v) = [k |-> k, is |-> cond(z)[k]] /\ cond(z)[k].v # 0
  <2>0. DOMAIN cond(z) = K /\ \A k \in K : cond(z)[k] = ExprValue(z, defaults[k][2])
    OBVIOUS
  <2> HIDE DEF cond
  <2>1. first(z).v = {[k |-> k, is |-> cond(z)[k]] : k \in {h \in Tried(cond(z)) : cond(z)[h].v # 0}}
    BY <1>2, <2>0, FirstIs
  <2>4. first(z).r = UNION {cond(z)[k].r : k \in Tried(cond(z))}
    BY <1>2, <2>0, FirstIs
  <2>5. first(z).v = {} => \A k \in K : cond(z)[k].v = 0
    BY <1>2, <2>0, FirstFinds
  <2>2. first(z).v # {} => The(first(z).v) \in first(z).v
    BY DEF The
  <2> HIDE DEF first
  <2>3. ASSUME first(z).v # {}
        PROVE  \E k \in Tried(cond(z)) :
                  The(first(z).v) = [k |-> k, is |-> cond(z)[k]] /\ cond(z)[k].v # 0
    <3>1. The(first(z).v) \in {[k |-> k, is |-> cond(z)[k]] :
                                  k \in {h \in Tried(cond(z)) : cond(z)[h].v # 0}}
      BY <2>1, <2>2, <2>3
    <3>2. PICK k \in {h \in Tried(cond(z)) : cond(z)[h].v # 0} :
             The(first(z).v) = [k |-> k, is |-> cond(z)[k]]
      BY <3>1
    <3> QED BY <3>2
  <2> QED BY <2>0, <2>3, <2>4, <2>5
<1>4. /\ first(x).r \subseteq R /\ rest(x).r \subseteq R
      /\ first(y).r \subseteq Q /\ rest(y).r \subseteq Q
  <2> HIDE DEF first, rest
  <2> QED BY <1>1
<1>5. ASSUME NEW k \in K, cond(x)[k].r \subseteq R, cond(y)[k].r \subseteq Q
      PROVE  cond(x)[k].v = cond(y)[k].v
  <2>1. SameItems(DependOn(defaults[k][2]), R, Q, x, y)
    BY FewerSame
  <2>2. /\ ExprValue(x, defaults[k][2]).r \subseteq R
        /\ ExprValue(y, defaults[k][2]).r \subseteq Q
    BY <1>5
  <2>3. ExprValue(x, defaults[k][2]).v = ExprValue(y, defaults[k][2]).v
    BY <1>2, <2>1, <2>2, ExprSame
  <2> QED BY <2>3
<1> HIDE DEF cond, first, rest
<1>6. \A k \in Tried(cond(x)) \cap Tried(cond(y)) : cond(x)[k].v = cond(y)[k].v
  <2> SUFFICES ASSUME NEW k \in Tried(cond(x)), k \in Tried(cond(y))
               PROVE  cond(x)[k].v = cond(y)[k].v
    OBVIOUS
  <2>1. k \in K
    BY <1>3 DEF Tried
  <2>2. cond(x)[k].r \subseteq R /\ cond(y)[k].r \subseteq Q
    BY <1>3, <1>4
  <2> QED BY <1>5, <2>1, <2>2
<1>7. Tried(cond(x)) = Tried(cond(y))
  <2>1. DOMAIN cond(x) = K /\ DOMAIN cond(y) = K
    BY <1>3
  <2> QED BY <1>2, <1>6, <2>1, FirstSame
<1>8. \A k \in Tried(cond(x)) : k \in K /\ cond(x)[k].v = cond(y)[k].v
  <2>1. DOMAIN cond(x) = K
    BY <1>3
  <2> QED BY <1>6, <1>7, <2>1 DEF Tried
<1>9. \A z \in {x, y} : (\A k \in K : cond(z)[k].v = 0) => Tried(cond(z)) = K
  BY <1>3 DEF Tried
<1>10. first(x).v = {} <=> first(y).v = {}
  <2>1. ASSUME first(x).v = {} PROVE first(y).v = {}
    <3>1. \A k \in K : cond(x)[k].v = 0
      BY <1>3, <2>1
    <3>2. \A k \in K : cond(y)[k].v = 0
      BY <1>8, <1>9, <3>1
    <3>3. DOMAIN cond(y) = K
      BY <1>3
    <3> QED BY <1>3, <3>2, <3>3 DEF Tried
  <2>2. ASSUME first(y).v = {} PROVE first(x).v = {}
    <3>1. \A k \in K : cond(y)[k].v = 0
      BY <1>3, <2>2
    <3>2. \A k \in K : cond(x)[k].v = 0
      BY <1>7, <1>8, <1>9, <3>1
    <3>3. DOMAIN cond(x) = K
      BY <1>3
    <3> QED BY <1>3, <3>2, <3>3 DEF Tried
  <2> QED BY <2>1, <2>2
<1>11. CASE first(x).v = {}
  <2>1. rest(x) = Just(0) /\ rest(y) = Just(0)
    BY <1>10, <1>11 DEF rest
  <2> QED BY <1>1, <2>1
<1>12. CASE first(x).v # {}
  <2>1. PICK k \in Tried(cond(x)) :
           The(first(x).v) = [k |-> k, is |-> cond(x)[k]] /\ cond(x)[k].v # 0
    BY <1>3, <1>12
  <2>2. PICK j \in Tried(cond(y)) :
           The(first(y).v) = [k |-> j, is |-> cond(y)[j]] /\ cond(y)[j].v # 0
    BY <1>3, <1>10, <1>12
  <2>3. k \in K /\ j \in K /\ cond(x)[k].v = cond(y)[k].v /\ cond(x)[j].v # 0
    BY <1>7, <1>8, <2>2
  <2>4. k = j
    <3>1. DOMAIN cond(x) = K
      BY <1>3
    <3>2. k <= j /\ j <= k
      BY <1>7, <2>1, <2>2, <2>3, <3>1 DEF Tried
    <3> QED BY <1>2, <2>3, <3>2
  <2> DEFINE e == defaults[k][1]
  <2>5. /\ rest(x) = LimitedTo(cond(x)[k].v, ExprValue(x, e))
        /\ rest(y) = LimitedTo(cond(x)[k].v, ExprValue(y, e))
    BY <1>10, <1>12, <2>1, <2>2, <2>3, <2>4 DEF rest
  <2>6. e \in Exprs /\ SameItems(DependOn(e), R, Q, x, y)
    BY <1>2, <2>3, FewerSame
  <2>7. ExprValue(x, e) \in Calcs(0 .. 2) /\ ExprValue(y, e) \in Calcs(0 .. 2)
    BY <2>6, ExprValueFits
  <2>8. \A c : \A a \in Calcs(0 .. 2) : /\ LimitedTo(c, a).v = Least(a.v, c)
                                       /\ LimitedTo(c, a).r = a.r
    BY DEF LimitedTo, Calcs
  <2> HIDE DEF e
  <2>9. ExprValue(x, e).r \subseteq R /\ ExprValue(y, e).r \subseteq Q
    BY <1>4, <2>5, <2>7, <2>8
  <2>10. ExprValue(x, e).v = ExprValue(y, e).v
    BY <2>6, <2>9, ExprSame
  <2>11. rest(x).v = rest(y).v
    BY <2>5, <2>7, <2>8, <2>10
  <2> QED BY <1>1, <2>11
<1> QED BY <1>11, <1>12

\* What implies a symbol, if its direct dependencies are met.
LEMMA ImpliedSame ==
    ASSUME NEW x, IsEnv(x), NEW y, IsEnv(y), NEW s \in Syms, NEW R, NEW Q,
           SameItems(ReadBy(s), R, Q, x, y),
           Implied(x, s).r \subseteq R, Implied(y, s).r \subseteq Q
    PROVE  Implied(x, s).v = Implied(y, s).v
<1> DEFINE weak(z) == ExprValue(z, WeakRevDep[s])
           direct(z) == ExprValue(z, DirectDep[s])
<1>1. /\ WeakRevDep[s] \in Exprs /\ DependOn(WeakRevDep[s]) \subseteq ReadBy(s)
      /\ DirectDep[s] \in Exprs /\ DependOn(DirectDep[s]) \subseteq ReadBy(s)
  BY SymReadBy
<1>2. /\ weak(x).r \subseteq R /\ weak(y).r \subseteq Q => weak(x).v = weak(y).v
      /\ direct(x).r \subseteq R /\ direct(y).r \subseteq Q => direct(x).v = direct(y).v
  <2>1. /\ SameItems(DependOn(WeakRevDep[s]), R, Q, x, y)
        /\ SameItems(DependOn(DirectDep[s]), R, Q, x, y)
    BY <1>1, FewerSame
  <2>2. weak(x).r \subseteq R /\ weak(y).r \subseteq Q => weak(x).v = weak(y).v
    BY <1>1, <2>1, ExprSame
  <2>3. direct(x).r \subseteq R /\ direct(y).r \subseteq Q => direct(x).v = direct(y).v
    BY <1>1, <2>1, ExprSame
  <2> QED BY <2>2, <2>3
<1>3. \A z : Implied(z, s) = IfMet(weak(z), direct(z))
  BY DEF Implied
<1> HIDE DEF weak, direct
<1>4. \A z : /\ weak(z).r \subseteq Implied(z, s).r
             /\ weak(z).v = 0 => Implied(z, s).v = weak(z).v
             /\ weak(z).v # 0 => /\ direct(z).r \subseteq Implied(z, s).r
                                 /\ direct(z).v = 0 => Implied(z, s).v = 0
                                 /\ direct(z).v # 0 => Implied(z, s).v = weak(z).v
  BY <1>3 DEF IfMet
<1>5. weak(x).v = weak(y).v
  BY <1>2, <1>4
<1>6. CASE weak(x).v = 0
  BY <1>4, <1>5, <1>6
<1>7. CASE weak(x).v # 0
  <2>1. weak(y).v # 0
    BY <1>5, <1>7
  <2>2. direct(x).v = direct(y).v
    BY <1>2, <1>4, <1>7, <2>1
  <2> QED BY <1>4, <1>5, <1>7, <2>1, <2>2
<1> QED BY <1>6, <1>7

\* The mode of a choice.
LEMMA ModeSpelled ==
    ASSUME NEW x, IsEnv(x), NEW c \in Choices
    PROVE  LET low    == LowestMode(c)
               user   == x[<<c, "user">>]
               wanted == IF user = None THEN low ELSE Greatest(low, user)
               m      == Least(wanted, Vis(x, c))
           IN  /\ low \in 0 .. 1 /\ Vis(x, c) \in 0 .. 2
               /\ user = None \/ user \in 0 .. 2
               /\ Mode(x, c) = IF m # 1 THEN m
                               ELSE IF OrigType[c] = "tristate" /\ ModulesValue(x).v # 0 THEN 1 ELSE 2
               /\ m = 1 /\ OrigType[c] = "tristate" =>
                     <<Modules, "val">> \in ChoiceTriValue(x, c).r
<1> DEFINE low    == LowestMode(c)
           user   == x[<<c, "user">>]
           wanted == IF user = None THEN low ELSE Greatest(low, user)
           m      == Least(wanted, Vis(x, c))
           type   == ChoiceType(x, c)
<1>0. c \in Items
  BY DEF Items
<1>1. low \in 0 .. 1 /\ Vis(x, c) \in 0 .. 2
  BY <1>0, CachedTristates, TreeAssumption DEF LowestMode, Vis
<1>2. user = None \/ user \in 0 .. 2
  <2>1. <<c, "user">> \in Cells /\ CellValues(<<c, "user">>) = TypeValues(c)
    BY <1>0, CellForms, CellKinds
  <2> QED BY <2>1 DEF IsEnv, TypeValues
<1>3. type \in Calcs({"bool", "tristate"})
  BY ChoiceTypeIs
<1>4. type.v = IF OrigType[c] = "tristate" /\ ModulesValue(x).v # 0 THEN "tristate" ELSE "bool"
  BY ModesAre
<1>5. OrigType[c] = "tristate" => <<Modules, "val">> \in type.r
  BY ModulesValueIs DEF ChoiceType, TristateWith, Calcs
<1>6. ChoiceTriValue(x, c) = [v |-> ModeOfType(m, type).v,
                              r |-> {<<c, "user">>, <<c, "vis">>} \cup ModeOfType(m, type).r]
  BY DEF ChoiceTriValue, AfterReading, WantedMode
<1> HIDE DEF type, m
<1>7. /\ m # 1 => ModeOfType(m, type).v = m
      /\ m = 1 => /\ ModeOfType(m, type).v = IF type.v = "bool" THEN 2 ELSE 1
                  /\ ModeOfType(m, type).r = type.r
  BY <1>3 DEF ModeOfType, Just, Calcs
<1>8. Mode(x, c) = ModeOfType(m, type).v
  BY <1>6 DEF Mode
<1>9. Mode(x, c) = IF m # 1 THEN m
                   ELSE IF OrigType[c] = "tristate" /\ ModulesValue(x).v # 0 THEN 1 ELSE 2
  <2>1. CASE m # 1
    BY <1>7, <1>8, <2>1
  <2>2. CASE m = 1
    BY <1>4, <1>7, <1>8, <2>2
  <2> QED BY <2>1, <2>2
<1>10. m = 1 /\ OrigType[c] = "tristate" => <<Modules, "val">> \in ChoiceTriValue(x, c).r
  BY <1>5, <1>6, <1>7
<1> QED BY <1>1, <1>2, <1>9, <1>10 DEF m

\* x without the user value of choice c.
ModeUnset(x, c) == [x EXCEPT ![<<c, "user">>] = None]

\* Only the user value is different.
LEMMA ModeUnsetIs ==
    ASSUME NEW x, IsEnv(x), NEW c \in Choices
    PROVE  /\ IsEnv(ModeUnset(x, c)) /\ ModeUnset(x, c)[<<c, "user">>] = None
           /\ Vis(ModeUnset(x, c), c) = Vis(x, c)
           /\ ModulesValue(ModeUnset(x, c)).v = ModulesValue(x).v
<1>0. c \in Items /\ Modules \in Syms
  BY ItemsAssumption DEF Items
<1>1. <<c, "user">> \in Cells /\ <<c, "vis">> \in Cells /\ <<Modules, "val">> \in Cells
  BY <1>0, CellForms DEF Cells, Attributes
<1>2. x = [q \in Cells |-> x[q]] /\ \A q \in Cells : x[q] \in CellValues(q) \cup {None}
  BY DEF IsEnv
<1>3. ModeUnset(x, c) = [q \in Cells |-> IF q = <<c, "user">> THEN None ELSE x[q]]
  BY <1>2 DEF ModeUnset
<1>4. \A q \in Cells : ModeUnset(x, c)[q] = IF q = <<c, "user">> THEN None ELSE x[q]
  BY <1>3
<1>5. IsEnv(ModeUnset(x, c))
  BY <1>2, <1>3, <1>4 DEF IsEnv
<1>6. /\ ModeUnset(x, c)[<<c, "user">>] = None
      /\ ModeUnset(x, c)[<<c, "vis">>] = x[<<c, "vis">>]
      /\ ModeUnset(x, c)[<<Modules, "val">>] = x[<<Modules, "val">>]
  BY <1>1, <1>4
<1> QED BY <1>5, <1>6 DEF Vis, ModulesValue

\* The mode of c is more than can be inferred when no symbol of c has a value.
Loose(x, c) ==
    /\ \A s \in Members(c) : Val(x, s) = 0
    /\ Mode([x EXCEPT ![<<c, "user">>] = None], c) # Mode(x, c)

\* The user values in y are what reading a file written for x sets.
Inferred(x, y) ==
    /\ \A s \in Syms : y[<<s, "user">>] = IF WriteToConf(x, s) THEN Val(x, s) ELSE None
    /\ \A c \in Choices : y[<<c, "user">>] =
          IF \E s \in Members(c) : Val(x, s) # 0 THEN Mode(x, c) ELSE None
    /\ \A s \in Syms : ChoiceOf[s] # None /\ Val(x, s) = 2 => y[<<ChoiceOf[s], "usel">>] = s

\* The mode that is inferred for a choice that is not loose is the one it had,
\* given its visibility and, if they are looked at, MODULES.
LEMMA ModeSame ==
    ASSUME IsTree, NEW x, IsConfiguration(x), NEW y, IsConfiguration(y), Inferred(x, y),
           NEW c \in Choices, ~Loose(x, c), Vis(x, c) = Vis(y, c),
           <<Modules, "val">> \in ChoiceTriValue(x, c).r \cup ChoiceTriValue(y, c).r =>
               ModulesValue(x).v = ModulesValue(y).v
    PROVE  Mode(x, c) = Mode(y, c)
<1> DEFINE low == LowestMode(c)
           vis == Vis(x, c)
           tri(z) == OrigType[c] = "tristate" /\ ModulesValue(z).v # 0
           wanted(u) == IF u = None THEN low ELSE Greatest(low, u)
           m(u) == Least(wanted(u), vis)
           mode(z, u) == IF m(u) # 1 THEN m(u) ELSE IF tri(z) THEN 1 ELSE 2
           ux == x[<<c, "user">>]
           uy == y[<<c, "user">>]
<1>0. IsEnv(x) /\ IsEnv(y)
  BY DEF IsConfiguration
<1>1. /\ low \in 0 .. 1 /\ vis \in 0 .. 2 /\ None \notin 0 .. 2
      /\ ux = None \/ ux \in 0 .. 2
      /\ uy = None \/ uy \in 0 .. 2
  BY <1>0, ModeSpelled, ItemsAssumption
<1>2. Mode(x, c) = mode(x, ux) /\ Mode(y, c) = mode(y, uy)
  BY <1>0, ModeSpelled
<1>3. m(ux) = 1 \/ m(uy) = 1 => (tri(x) <=> tri(y))
  BY <1>0, ModeSpelled
<1>4. CASE \A s \in Members(c) : Val(x, s) = 0
  <2>1. Mode(ModeUnset(x, c), c) = Mode(x, c)
    BY <1>4 DEF Loose, ModeUnset
  <2>2. Mode(ModeUnset(x, c), c) = mode(x, None)
    <3> DEFINE nx == ModeUnset(x, c)
    <3>1. /\ IsEnv(nx) /\ nx[<<c, "user">>] = None
          /\ Vis(nx, c) = vis /\ ModulesValue(nx).v = ModulesValue(x).v
      BY <1>0, ModeUnsetIs
    <3> HIDE DEF nx
    <3>2. Mode(nx, c) = mode(nx, None)
      BY <3>1, ModeSpelled
    <3> QED BY <3>1, <3>2 DEF nx
  <2>3. uy = None
    BY <1>4 DEF Inferred
  <2> HIDE DEF mode, m, tri
  <2>4. mode(x, None) = mode(y, None)
    BY <1>3, <2>3 DEF mode
  <2> QED BY <1>2, <2>1, <2>2, <2>3, <2>4
<1>5. CASE \E s \in Members(c) : Val(x, s) # 0
  <2>1. uy = Mode(x, c)
    BY <1>5 DEF Inferred
  <2>2. Mode(x, c) # 0
    <3>1. Exclusive(Mode(x, c), Members(c), x)
      BY ConfigurationIsExclusive DEF IsConfiguration
    <3> QED BY <1>5, <3>1 DEF Exclusive
  <2> HIDE DEF tri, low, vis, ux, uy
  <2>3. Mode(x, c) \in 1 .. 2
    BY <1>0, <2>2, ModesAre
  <2>4. m(ux) \in 0 .. 2
    BY <1>1 DEF Least, Greatest
  <2>5. CASE Mode(x, c) = 2
    <3>0. uy = 2 /\ wanted(uy) = 2
      BY <1>1, <2>1, <2>5 DEF Greatest
    <3>1. m(uy) = vis
      BY <1>1, <3>0 DEF Least
    <3>2. CASE m(ux) = 2
      <4>1. vis = 2
        BY <1>1, <3>2 DEF Least, Greatest
      <4> QED BY <1>2, <2>5, <3>1, <4>1
    <3>3. CASE m(ux) = 1
      <4>1. ~tri(x) /\ ~tri(y)
        BY <1>2, <1>3, <2>5, <3>3
      <4>2. vis # 0
        BY <1>1, <3>3 DEF Least, Greatest
      <4>3. mode(y, uy) = 2
        BY <1>1, <3>1, <4>1, <4>2
      <4> QED BY <1>2, <2>5, <4>3
    <3>4. CASE m(ux) = 0
      BY <1>2, <2>5, <3>4
    <3> QED BY <2>4, <3>2, <3>3, <3>4
  <2>6. CASE Mode(x, c) = 1
    <3>1. m(ux) = 1 /\ tri(x) /\ tri(y)
      BY <1>2, <1>3, <2>6
    <3>2. vis # 0
      BY <1>1, <3>1 DEF Least, Greatest
    <3>0. uy = 1 /\ wanted(uy) = 1
      BY <1>1, <2>1, <2>6 DEF Greatest
    <3>3. m(uy) = 1
      BY <1>1, <3>0, <3>2 DEF Least
    <3> QED BY <1>2, <2>6, <3>1, <3>3
  <2> QED BY <2>3, <2>5, <2>6
<1> QED BY <1>4, <1>5

----------------------------------------------------------------------------
\* What is joined with && is looked at unless the whole is n.
LEMMA ConjunctsAreRead ==
    ASSUME NEW x, IsEnv(x), NEW e \in Exprs, ExprValue(x, e).v # 0, NEW d \in Conjuncts(e)
    PROVE  d \in Exprs /\ ExprValue(x, d).v # 0 /\ ExprValue(x, d).r \subseteq ExprValue(x, e).r
<1> DEFINE E == {f \in Exprs : /\ ExprValue(x, f).v # 0
                               /\ ExprValue(x, f).r \subseteq ExprValue(x, e).r}
<1>1. \A f \in Exprs : ExprValue(x, f).v \in 0 .. 2
  BY ExprValueFits DEF Calcs
<1>2. ASSUME NEW f \in E, f[1] = "and" PROVE Parts(f) \subseteq E
  <2>1. f[2] \in Exprs /\ f[3] \in Exprs /\ Parts(f) = {f[2], f[3]}
    BY <1>2, ExprForms
  <2>2. ExprValue(x, f) = AndOf(ExprValue(x, f[2]), ExprValue(x, f[3]))
    BY <1>2, ExprValueUnfolds
  <2>3. \A a, b : /\ a.v \in 0 .. 2 /\ b.v \in 0 .. 2 /\ AndOf(a, b).v # 0
                  => /\ a.v # 0 /\ b.v # 0
                     /\ a.r \subseteq AndOf(a, b).r
                     /\ b.r \subseteq AndOf(a, b).r
    BY DEF AndOf, Least
  <2>4. ExprValue(x, f).v # 0 /\ ExprValue(x, f).r \subseteq ExprValue(x, e).r
    OBVIOUS
  <2>5. /\ ExprValue(x, f[2]).v # 0 /\ ExprValue(x, f[3]).v # 0
        /\ ExprValue(x, f[2]).r \subseteq ExprValue(x, f).r
        /\ ExprValue(x, f[3]).r \subseteq ExprValue(x, f).r
    BY <1>1, <2>1, <2>2, <2>3, <2>4
  <2> QED BY <2>1, <2>4, <2>5
<1>3. E \in AndClosed
  BY <1>2 DEF AndClosed
<1>4. e \in E
  BY <1>1
<1> HIDE DEF E
<1>5. d \in Exprs /\ d \in E
  BY <1>3, <1>4 DEF Conjuncts
<1> QED BY <1>5 DEF E

\* A visible symbol of a choice looks at the mode.
LEMMA VisibleReadsMode ==
    ASSUME NEW x, IsEnv(x), NEW s \in Syms, ChoiceOf[s] # None, Visibility(x, s).v # 0
    PROVE  ChoiceTriValue(x, ChoiceOf[s]).r \subseteq Visibility(x, s).r
<1> DEFINE c == ChoiceOf[s]
           item == <<"item", c>>
           found == {ExprValue(x, Prompts[s][k]) : k \in DOMAIN Prompts[s]}
<1>0. s \in Items /\ s \notin Choices /\ c \in Choices /\ Prompts[s] \in Seq(Exprs)
  BY ItemsAssumption, TreeAssumption DEF Items
<1>1. PromptLimit(x, Prompts[s]).v # 0
  BY <1>0, VisibilityUnfolds
<1>2. found \in SUBSET Calcs(0 .. 2)
  BY <1>0, ExprValueFits
<1>3. PromptLimit(x, Prompts[s]) = Highest(found)
  BY DEF PromptLimit
<1> HIDE DEF found
<1>4. /\ \A f \in found : f.r \subseteq PromptLimit(x, Prompts[s]).r
      /\ \E f \in found : f.v # 0
  <2>1. /\ \A f \in found : f.r \subseteq Highest(found).r
        /\ Highest(found).v # 0 => \E f \in found : f.v = Highest(found).v
    BY <1>2, HighestIs
  <2> QED BY <1>1, <1>3, <2>1
<1>5. PICK k \in DOMAIN Prompts[s] : ExprValue(x, Prompts[s][k]).v # 0
  BY <1>4 DEF found
<1> DEFINE e == Prompts[s][k]
<1>6. e \in Exprs /\ ExprValue(x, e).v # 0 /\ ExprValue(x, e).r \subseteq PromptLimit(x, Prompts[s]).r
  BY <1>0, <1>4, <1>5 DEF found
<1>7. {N, item} \cap Conjuncts(e) # {}
  BY TreeAssumption
<1>8. N \notin Conjuncts(e)
  <2> SUFFICES ASSUME N \in Conjuncts(e) PROVE FALSE
    OBVIOUS
  <2>1. N \in Exprs /\ ExprValue(x, N).v # 0
    BY <1>6, ConjunctsAreRead
  <2>2. N[1] = "const" /\ N[2] = 0
    BY DEF N
  <2>3. ExprValue(x, N) = Just(0)
    BY <2>1, <2>2, ExprValueUnfolds
  <2> QED BY <2>1, <2>3 DEF Just
<1>9. item \in Exprs /\ ExprValue(x, item).r \subseteq ExprValue(x, e).r
  BY <1>6, <1>7, <1>8, ConjunctsAreRead
<1>10. ExprValue(x, item) = ChoiceTriValue(x, c)
  <2>1. item[1] = "item" /\ item[2] = c
    OBVIOUS
  <2>2. ExprValue(x, item) = ItemValue(x, c)
    BY <1>9, <2>1, ExprValueUnfolds
  <2> QED BY <1>0, <2>2 DEF ItemValue
<1>11. PromptLimit(x, Prompts[s]).r \subseteq Visibility(x, s).r
  BY DEF Visibility, VisWithin, AfterReading
<1> QED BY <1>6, <1>9, <1>10, <1>11

\* y is what reading a file written for x gives.
Reread(x, y) ==
    /\ IsConfiguration(x) /\ ModeIsInferred(x) /\ DefaultsReturn(x)
    /\ IsConfiguration(y) /\ Inferred(x, y)

\* What attribute p is in y.  In a loose choice the visibilities may differ.
Agrees(x, y, p) ==
    /\ p[2] = "vis" =>
          IF p[1] \in Syms /\ ChoiceOf[p[1]] # None /\ Loose(x, ChoiceOf[p[1]])
          THEN y[p] # 2 ELSE y[p] = x[p]
    /\ p[2] = "val" => y[p] = x[p]
    /\ p[2] = "sel" =>
          (Mode(x, p[1]) = 2 /\ x[p] \in Members(p[1]) /\ Vis(x, x[p]) # 0 => y[p] = x[p])

\* The attributes that p is calculated from are not p, and agree.
AgreeBelow(x, y, p) ==
    \A q \in Calculate(x, p).r \cup Calculate(y, p).r :
        q \in Attributes => q # p /\ Agrees(x, y, q)

\* The modes of choices and MODULES, if they are read for p.
LEMMA ModeBelow ==
    ASSUME IsTree, NEW x, NEW y, Reread(x, y), NEW p, AgreeBelow(x, y, p),
           NEW c \in Choices, ~Loose(x, c),
           ChoiceTriValue(x, c).r \subseteq Calculate(x, p).r,
           ChoiceTriValue(y, c).r \subseteq Calculate(y, p).r
    PROVE  Mode(x, c) = Mode(y, c)
<1>0. IsEnv(x) /\ IsEnv(y) /\ c \in Items /\ c \notin Syms /\ Modules \in Syms
  BY ItemsAssumption DEF Reread, IsConfiguration, Items
<1>1. <<c, "vis">> \in Attributes /\ <<Modules, "val">> \in Attributes
  BY <1>0 DEF Attributes
<1>2. <<c, "vis">> \in Calculate(x, p).r
  BY <1>0, ChoiceTriValueIs
<1>3. Vis(x, c) = Vis(y, c)
  <2>1. Agrees(x, y, <<c, "vis">>)
    BY <1>1, <1>2 DEF AgreeBelow
  <2>2. y[<<c, "vis">>] = x[<<c, "vis">>]
    BY <1>0, <2>1 DEF Agrees
  <2> QED BY <2>2 DEF Vis
<1>4. ASSUME <<Modules, "val">> \in ChoiceTriValue(x, c).r \cup ChoiceTriValue(y, c).r
      PROVE  ModulesValue(x).v = ModulesValue(y).v
  <2>1. Agrees(x, y, <<Modules, "val">>)
    BY <1>1, <1>4 DEF AgreeBelow
  <2>2. y[<<Modules, "val">>] = x[<<Modules, "val">>]
    BY <2>1 DEF Agrees
  <2> QED BY <2>2 DEF ModulesValue
<1> QED BY <1>3, <1>4, ModeSame DEF Reread

\* The items that are read for an attribute, if it is not one of a symbol of a
\* loose choice.
LEMMA ItemsBelow ==
    ASSUME IsTree, NEW x, NEW y, Reread(x, y),
           NEW i \in Items, NEW p \in Attributes, AgreeBelow(x, y, p),
           p = <<i, "vis">> \/ (i \in Syms /\ p = <<i, "val">>),
           i \in Syms /\ ChoiceOf[i] # None => ~Loose(x, ChoiceOf[i])
    PROVE  SameItems(ReadBy(i), Calculate(x, p).r, Calculate(y, p).r, x, y)
<1>0. IsEnv(x) /\ IsEnv(y) /\ Modules \in Syms /\ Syms \cap Choices = {}
  BY ItemsAssumption DEF Reread, IsConfiguration
<1> SUFFICES ASSUME NEW j \in ReadBy(i) \cup {Modules},
                    ItemValue(x, j).r \subseteq Calculate(x, p).r,
                    ItemValue(y, j).r \subseteq Calculate(y, p).r
             PROVE  ItemValue(x, j).v = ItemValue(y, j).v
  BY DEF SameItems
<1>1. CASE j \in Syms
  <2>1. \A z : ItemValue(z, j) = SymTriValue(z, j)
    BY <1>0, <1>1 DEF ItemValue
  <2>2. <<j, "val">> \in Attributes
    BY <1>1 DEF Attributes
  <2>3. <<j, "val">> \in Calculate(x, p).r
    BY <2>1 DEF SymTriValue
  <2>4. Agrees(x, y, <<j, "val">>)
    BY <2>2, <2>3 DEF AgreeBelow
  <2>5. y[<<j, "val">>] = x[<<j, "val">>]
    BY <2>4 DEF Agrees
  <2> QED BY <2>1, <2>5 DEF SymTriValue
<1>2. CASE j \in Choices
  <2>1. \A z : ItemValue(z, j) = ChoiceTriValue(z, j)
    BY <1>2 DEF ItemValue
  <2>2. j \in ReadBy(i) /\ j \in Items
    BY <1>0, <1>2 DEF Items
  <2>3. j # i
    <3> SUFFICES ASSUME j = i PROVE FALSE
      OBVIOUS
    <3>1. p = <<j, "vis">>
      BY <1>0, <1>2
    <3>2. p \in Calculate(x, p).r
      BY <1>0, <1>2, <2>1, <3>1, ChoiceTriValueIs
    <3> QED BY <3>2 DEF AgreeBelow
  <2>4. ~Loose(x, j)
    <3> SUFFICES ASSUME Loose(x, j) PROVE FALSE
      OBVIOUS
    <3>1. Dependents[j] \subseteq Members(j)
      <4>1. \A s \in Members(j) : Val(x, s) = 0
        BY DEF Loose
      <4>2. Mode([x EXCEPT ![<<j, "user">>] = None], j) # Mode(x, j)
        BY DEF Loose
      <4> QED BY <1>2, <4>1, <4>2 DEF Reread, ModeIsInferred
    <3>2. i \in TreeDependents[j]
      BY <2>2, <2>3 DEF ReadBy, TreeDependents
    <3>3. i \in Members(j)
      BY <3>1, <3>2 DEF IsTree
    <3> QED BY <1>2, <3>3, ItemsAssumption DEF Members, Items
  <2>5. Mode(x, j) = Mode(y, j)
    BY <1>2, <2>1, <2>4, ModeBelow
  <2> QED BY <2>1, <2>5 DEF Mode
<1>3. j \in Items
  BY <1>0 DEF ReadBy, Items
<1> QED BY <1>1, <1>2, <1>3 DEF Items

\* The visibility of an item that is not in a loose choice.
LEMMA VisAgrees ==
    ASSUME IsTree, NEW x, NEW y, Reread(x, y),
           NEW i \in Items, AgreeBelow(x, y, <<i, "vis">>)
    PROVE  Agrees(x, y, <<i, "vis">>)
<1> DEFINE p == <<i, "vis">>
<1>0. IsEnv(x) /\ IsEnv(y) /\ p \in Attributes /\ Syms \cap Choices = {}
  BY ItemsAssumption DEF Reread, IsConfiguration, Attributes
<1>1. x[p] = Visibility(x, i).v /\ y[p] = Visibility(y, i).v
  BY <1>0, ConfigurationHas DEF Reread, IsConfiguration
<1>2. \A z : Calculate(z, p) = Visibility(z, i)
  BY DEF Calculate
<1>3. CASE ~(i \in Syms /\ ChoiceOf[i] # None /\ Loose(x, ChoiceOf[i]))
  <2>1. SameItems(ReadBy(i), Calculate(x, p).r, Calculate(y, p).r, x, y)
    BY <1>0, <1>3, ItemsBelow
  <2>2. Visibility(x, i).v = Visibility(y, i).v
    BY <1>0, <1>2, <2>1, VisibilitySame
  <2>3. y[p] = x[p]
    BY <1>1, <2>2
  <2> QED BY <1>3, <2>3 DEF Agrees
<1>4. CASE i \in Syms /\ ChoiceOf[i] # None /\ Loose(x, ChoiceOf[i])
  <2> DEFINE c == ChoiceOf[i]
             low == LowestMode(c)
             vis == Vis(x, c)
             tri(z) == OrigType[c] = "tristate" /\ ModulesValue(z).v # 0
             wanted(u) == IF u = None THEN low ELSE Greatest(low, u)
             m(u) == Least(wanted(u), vis)
             mode(z, u) == IF m(u) # 1 THEN m(u) ELSE IF tri(z) THEN 1 ELSE 2
             ux == x[<<c, "user">>]
             uy == y[<<c, "user">>]
  <2>0. c \in Choices /\ c \in Items /\ c \notin Syms /\ None \notin 0 .. 2
    BY <1>0, <1>4, ItemsAssumption DEF Items
  <2> SUFFICES ASSUME y[p] = 2 PROVE FALSE
    BY <1>4 DEF Agrees
  <2>1. Visibility(y, i).v = 2
    BY <1>1
  <2>2. Mode(y, c) = 2
    BY <1>0, <1>4, <2>1, YNeedsYMode
  <2>3. ChoiceTriValue(y, c).r \subseteq Calculate(y, p).r
    BY <1>0, <1>2, <1>4, <2>1, VisibleReadsMode
  <2>4. Vis(y, c) = vis
    <3>1. <<c, "vis">> \in Calculate(y, p).r /\ <<c, "vis">> \in Attributes
      BY <1>0, <2>0, <2>3, ChoiceTriValueIs DEF Attributes
    <3>2. Agrees(x, y, <<c, "vis">>)
      BY <3>1 DEF AgreeBelow
    <3>3. y[<<c, "vis">>] = x[<<c, "vis">>]
      BY <2>0, <3>2 DEF Agrees
    <3> QED BY <3>3 DEF Vis
  <2>5. uy = None
    BY <1>4, <2>0 DEF Reread, Inferred, Loose
  <2>6. /\ low \in 0 .. 1 /\ vis \in 0 .. 2
        /\ ux = None \/ ux \in 0 .. 2
        /\ Mode(x, c) = mode(x, ux)
    BY <1>0, <2>0, ModeSpelled
  <2>7. Mode(y, c) = mode(y, None)
    <3>1. /\ Vis(y, c) \in 0 .. 2
          /\ Mode(y, c) = mode(y, uy)
      BY <1>0, <2>0, <2>4, ModeSpelled
    <3> QED BY <2>5, <3>1
  <2>8. m(None) = 1 => (tri(x) <=> tri(y))
    <3> SUFFICES ASSUME m(None) = 1, OrigType[c] = "tristate"
                 PROVE  ModulesValue(x).v = ModulesValue(y).v
      OBVIOUS
    <3>1. <<Modules, "val">> \in ChoiceTriValue(y, c).r
      BY <1>0, <2>0, <2>4, <2>5, ModeSpelled
    <3>2. <<Modules, "val">> \in Attributes
      BY ItemsAssumption DEF Attributes
    <3>3. Agrees(x, y, <<Modules, "val">>)
      BY <2>3, <3>1, <3>2 DEF AgreeBelow
    <3>4. y[<<Modules, "val">>] = x[<<Modules, "val">>]
      BY <3>3 DEF Agrees
    <3> QED BY <3>4 DEF ModulesValue
  <2>9. Mode(x, c) # mode(x, None)
    <3> DEFINE nx == ModeUnset(x, c)
    <3>1. /\ IsEnv(nx) /\ nx[<<c, "user">>] = None
          /\ Vis(nx, c) = vis /\ ModulesValue(nx).v = ModulesValue(x).v
      BY <1>0, <2>0, ModeUnsetIs
    <3>2. Mode(nx, c) # Mode(x, c)
      BY <1>4 DEF Loose, ModeUnset
    <3> HIDE DEF nx
    <3>3. Mode(nx, c) = mode(nx, None)
      BY <2>0, <3>1, ModeSpelled
    <3> QED BY <3>1, <3>2, <3>3
  <2> HIDE DEF tri, low, vis, ux, uy, c
  <2>10. m(None) = 1
    BY <2>2, <2>6, <2>7 DEF Least
  <2>11. ~tri(x) /\ ~tri(y)
    BY <2>2, <2>7, <2>8, <2>10
  <2>12. low = 1 /\ vis # 0
    BY <2>6, <2>10 DEF Least
  <2>13. m(ux) # 0 /\ m(ux) \in 0 .. 2
    BY <2>6, <2>12 DEF Least, Greatest
  <2>14. mode(x, ux) = 2 /\ mode(x, None) = 2
    BY <2>10, <2>11, <2>13
  <2> QED BY <2>6, <2>9, <2>14
<1> QED BY <1>3, <1>4

\* The selection of a choice, if it is visible.
LEMMA SelAgrees ==
    ASSUME IsTree, NEW x, NEW y, Reread(x, y),
           NEW c \in Choices, AgreeBelow(x, y, <<c, "sel">>)
    PROVE  Agrees(x, y, <<c, "sel">>)
<1> DEFINE p == <<c, "sel">>
           u == x[p]
<1>0. /\ IsEnv(x) /\ IsEnv(y) /\ p \in Attributes /\ c \in Items
      /\ Calculated(x, x) /\ Calculated(y, y)
  BY DEF Reread, IsConfiguration, Attributes, Items
<1> SUFFICES ASSUME Mode(x, c) = 2, u \in Members(c), Vis(x, u) # 0
             PROVE  y[p] = u
  BY DEF Agrees
<1>1. u \in Syms /\ ChoiceOf[u] = c /\ c # None
  BY ItemsAssumption DEF Members, Items
<1>2. Vis(x, u) = 2
  <2>1. Visibility(x, u).v \in {0, 2}
    BY <1>0, <1>1, ModeDecidesVisibility
  <2>2. Vis(x, u) = Visibility(x, u).v
    BY <1>0, <1>1, ChoiceSymsAre
  <2> QED BY <2>1, <2>2
<1>3. Val(x, u) = 2
  <2>1. Val(x, u) = ChoiceSymValue(x, u, Vis(x, u)).v
    BY <1>0, <1>1, ChoiceSymsAre
  <2> QED BY <1>1, <1>2, <2>1 DEF ChoiceSymValue
<1>4. y[<<c, "usel">>] = u
  BY <1>1, <1>3 DEF Reread, Inferred
<1>5. ~Loose(x, c)
  BY <1>3 DEF Loose
<1>6. \A z : Calculate(z, p) = Selection(z, c)
  BY DEF Calculate
<1>7. \A z : /\ ChoiceTriValue(z, c).r \subseteq Selection(z, c).r
             /\ Mode(z, c) = 2 /\ z[<<c, "usel">>] = u =>
                   /\ <<u, "vis">> \in Selection(z, c).r
                   /\ Vis(z, u) # 0 => Selection(z, c).v = u
  <2> SUFFICES ASSUME NEW z
               PROVE  /\ ChoiceTriValue(z, c).r \subseteq Selection(z, c).r
                      /\ Mode(z, c) = 2 /\ z[<<c, "usel">>] = u =>
                            /\ <<u, "vis">> \in Selection(z, c).r
                            /\ Vis(z, u) # 0 => Selection(z, c).v = u
    OBVIOUS
  <2> DEFINE us == UserSelection(z, c, z[<<c, "usel">>])
             sel == IF Mode(z, c) # 2 THEN Just(NoSelection)
                    ELSE [v |-> us.v, r |-> {<<c, "usel">>} \cup us.r]
  <2>1. Selection(z, c) = [v |-> sel.v, r |-> ChoiceTriValue(z, c).r \cup sel.r]
    BY DEF Selection, SelectionInMode, AfterReading, Mode
  <2>2. z[<<c, "usel">>] = u =>
           /\ <<u, "vis">> \in us.r
           /\ Vis(z, u) # 0 => us.v = u
    <3> SUFFICES ASSUME z[<<c, "usel">>] = u
                 PROVE  /\ <<u, "vis">> \in us.r
                        /\ Vis(z, u) # 0 => us.v = u
      OBVIOUS
    <3>1. u # None
      BY <1>1, ItemsAssumption DEF Items
    <3> HIDE DEF u
    <3>2. us = AfterReading({<<u, "vis">>},
                            IF Vis(z, u) # 0 THEN Just(u) ELSE SelectionFromDefaults(z, c))
      BY <3>1 DEF UserSelection
    <3> HIDE DEF us
    <3> QED BY <3>2 DEF AfterReading, Just
  <2> HIDE DEF us, u
  <2> QED BY <2>1, <2>2
<1>8. Mode(y, c) = 2
  BY <1>5, <1>6, <1>7, ModeBelow
<1>9. <<u, "vis">> \in Calculate(y, p).r
  BY <1>4, <1>6, <1>7, <1>8
<1>10. Vis(y, u) = Vis(x, u)
  <2>1. <<u, "vis">> \in Attributes
    BY <1>1 DEF Attributes, Items
  <2>2. Agrees(x, y, <<u, "vis">>)
    BY <1>9, <2>1 DEF AgreeBelow
  <2> HIDE DEF u
  <2>3. y[<<u, "vis">>] = x[<<u, "vis">>]
    BY <1>1, <1>5, <2>2 DEF Agrees
  <2> QED BY <2>3 DEF Vis
<1>11. Selection(y, c).v = u
  <2>1. Vis(y, u) # 0
    BY <1>2, <1>10
  <2> QED BY <1>4, <1>7, <1>8, <2>1
<1>12. y[p] = Selection(y, c).v
  BY <1>0, ConfigurationHas
<1> QED BY <1>11, <1>12

\* The value of a symbol of a choice.
LEMMA ChoiceSymAgrees ==
    ASSUME IsTree, NEW x, NEW y, Reread(x, y),
           NEW s \in Syms, ChoiceOf[s] # None, AgreeBelow(x, y, <<s, "val">>)
    PROVE  Val(y, s) = Val(x, s)
<1> DEFINE p == <<s, "val">>
           c == ChoiceOf[s]
<1>0. /\ IsEnv(x) /\ IsEnv(y) /\ p \in Attributes /\ c \in Choices /\ s \in Items
      /\ Calculated(x, x) /\ Calculated(y, y) /\ s \in Members(c)
      /\ <<s, "vis">> \in Attributes /\ <<c, "sel">> \in Attributes
      /\ Vis(x, s) \in 0 .. 2 /\ Vis(y, s) \in 0 .. 2
  BY ItemsAssumption, ConfigurationHas DEF Reread, IsConfiguration, Attributes, Items, Members
<1>1. ASSUME NEW z
      PROVE  /\ <<s, "vis">> \in Calculate(z, p).r
             /\ Vis(z, s) = 2 => <<c, "sel">> \in Calculate(z, p).r
  <2> DEFINE a == ChoiceSymValue(z, s, Vis(z, s))
  <2>1. Vis(z, s) = 2 => a.r = {<<c, "sel">>}
    BY DEF ChoiceSymValue
  <2>2. Calculate(z, p) = SymValue(z, s)
    BY DEF Calculate
  <2>3. SymValue(z, s) = AfterReading({<<s, "vis">>}, a)
    BY DEF SymValue
  <2> HIDE DEF a, p
  <2>4. SymValue(z, s).r = {<<s, "vis">>} \cup a.r
    BY <2>3 DEF AfterReading
  <2> QED BY <2>1, <2>2, <2>4
<1>2. ASSUME NEW z \in {x, y}
      PROVE  /\ z[<<s, "vis">>] = Vis(z, s)
             /\ Val(z, s) = ChoiceSymValue(z, s, Vis(z, s)).v
             /\ z[<<c, "sel">>] = Selection(z, c).v
             /\ Visibility(z, s).v = Vis(z, s)
  BY <1>0, ChoiceSymsAre
<1>3. Agrees(x, y, <<s, "vis">>)
  <2>1. <<s, "vis">> \in Calculate(x, p).r
    BY <1>1
  <2> QED BY <1>0, <2>1 DEF AgreeBelow
<1>4. ASSUME NEW z \in {x, y}
      PROVE  /\ Vis(z, s) = 0 => Val(z, s) = 0
             /\ Vis(z, s) = 1 => Val(z, s) = IF z[<<s, "user">>] \in {None, 0} THEN 0 ELSE 1
             /\ Vis(z, s) = 2 => Val(z, s) = IF z[<<c, "sel">>] = s THEN 2 ELSE 0
  BY <1>2 DEF ChoiceSymValue, Just
<1>5. y[<<s, "user">>] = IF Vis(x, s) # 0 THEN Val(x, s) ELSE None
  <2>1. WriteToConf(x, s) <=> Vis(x, s) # 0
    BY <1>2 DEF WriteToConf
  <2> QED BY <2>1 DEF Reread, Inferred
<1>6. CASE Loose(x, c)
  <2>1. Val(x, s) = 0
    BY <1>0, <1>6 DEF Loose
  <2>2. Vis(y, s) # 2
    BY <1>2, <1>3, <1>6 DEF Agrees
  <2>3. y[<<s, "user">>] \in {None, 0}
    BY <1>5, <2>1
  <2> QED BY <1>0, <1>4, <2>1, <2>2, <2>3
<1>7. CASE ~Loose(x, c)
  <2>1. Vis(y, s) = Vis(x, s)
    BY <1>2, <1>3, <1>7 DEF Agrees
  <2>2. CASE Vis(x, s) = 0
    BY <1>4, <2>1, <2>2
  <2>3. CASE Vis(x, s) = 1
    <3>1. Val(x, s) \in {0, 1} /\ y[<<s, "user">>] = Val(x, s)
      BY <1>4, <1>5, <2>3
    <3>2. Val(y, s) = IF y[<<s, "user">>] \in {None, 0} THEN 0 ELSE 1
      BY <1>4, <2>1, <2>3
    <3> QED BY <3>1, <3>2, ItemsAssumption
  <2>4. CASE Vis(x, s) = 2
    <3>1. Mode(x, c) = 2
      BY <1>0, <1>2, <2>4, YNeedsYMode
    <3>2. x[<<c, "sel">>] \in Members(c) /\ Vis(x, x[<<c, "sel">>]) # 0
      <4>1. SelectsVisible(x, c, Selection(x, c).v)
        <5>1. ChoiceTriValue(x, c).v = 2
          BY <3>1 DEF Mode
        <5> QED BY <1>0, <5>1, SelectionIs
      <4> QED BY <1>0, <1>2, <2>4, <4>1 DEF SelectsVisible
    <3>3. <<c, "sel">> \in Calculate(x, p).r
      BY <1>1, <2>4
    <3>4. Agrees(x, y, <<c, "sel">>)
      BY <1>0, <3>3 DEF AgreeBelow
    <3>5. y[<<c, "sel">>] = x[<<c, "sel">>]
      BY <3>1, <3>2, <3>4 DEF Agrees
    <3> QED BY <1>4, <2>1, <2>4, <3>5
  <2> QED BY <1>0, <2>2, <2>3, <2>4
<1> QED BY <1>6, <1>7

\* The value of a symbol outside choices before selects and promotions.
LEMMA UserOrDefaultSpelled ==
    ASSUME NEW x, IsEnv(x), NEW s \in Syms
    PROVE  LET vis     == Vis(x, s)
               user    == x[<<s, "user">>]
               base    == UserOrDefault(x, s, vis)
               default == FirstDefault(x, Defaults[s])
               implied == Implied(x, s)
               weak    == ExprValue(x, WeakRevDep[s])
           IN  /\ user = None \/ user \in 0 .. 2
               /\ default.v \in 0 .. 2 /\ implied.v \in {0, weak.v} /\ weak.v \in 0 .. 2
               /\ weak.r \subseteq implied.r
               /\ vis = 0 \/ user = None => /\ base.v = Greatest(default.v, implied.v)
                                            /\ default.r \subseteq base.r
                                            /\ implied.r \subseteq base.r
               /\ vis # 0 /\ user # None => base.v = Least(user, vis)
<1> DEFINE vis     == Vis(x, s)
           user    == x[<<s, "user">>]
           base    == UserOrDefault(x, s, vis)
           default == FirstDefault(x, Defaults[s])
           implied == Implied(x, s)
           weak    == ExprValue(x, WeakRevDep[s])
           direct  == ExprValue(x, DirectDep[s])
           both    == Both(default, implied)
<1>0. s \in Items /\ WeakRevDep[s] \in Exprs /\ DirectDep[s] \in Exprs
  BY TreeAssumption DEF Items
<1>1. user = None \/ user \in 0 .. 2
  <2>1. <<s, "user">> \in Cells /\ CellValues(<<s, "user">>) = TypeValues(s)
    BY <1>0, CellForms, CellKinds
  <2> QED BY <2>1 DEF IsEnv, TypeValues
<1>2. default.v \in 0 .. 2
  <2>1. Defaults[s] \in Seq(Exprs \X Exprs)
    BY TreeAssumption
  <2>2. \A k \in DOMAIN Defaults[s] : /\ DependOn(Defaults[s][k][1]) \subseteq ReadBy(s)
                                      /\ DependOn(Defaults[s][k][2]) \subseteq ReadBy(s)
    BY SymReadBy DEF Values, Conditions
  <2>3. FirstDefault(x, Defaults[s]) \in Calcs(0 .. 2)
    BY <2>1, <2>2, FirstDefaultIs
  <2> QED BY <2>3 DEF Calcs
<1>3. implied = IfMet(weak, direct)
  BY DEF Implied
<1>4. weak.v \in 0 .. 2
  BY <1>0, ExprValueFits DEF Calcs
<1> HIDE DEF implied, weak, direct, default
<1>5. implied.v \in {0, weak.v} /\ weak.r \subseteq implied.r
  BY <1>3 DEF IfMet
<1>6. both.v = Greatest(default.v, implied.v) /\ both.r = default.r \cup implied.r
  BY DEF Both
<1>7. base = IF vis = 0 THEN both
             ELSE [v |-> (IF user # None THEN Just(Least(user, vis)) ELSE both).v,
                   r |-> {<<s, "user">>} \cup (IF user # None THEN Just(Least(user, vis)) ELSE both).r]
  BY DEF UserOrDefault, AfterReading, default, implied
<1> HIDE DEF both, base, user, vis
<1>8. vis = 0 => base = both
  BY <1>7
<1>9. vis # 0 /\ user = None => base = [v |-> both.v, r |-> {<<s, "user">>} \cup both.r]
  BY <1>7
<1>10. vis # 0 /\ user # None => base.v = Least(user, vis)
  BY <1>7 DEF Just
<1>11. vis = 0 \/ user = None => base.v = both.v /\ both.r \subseteq base.r
  BY <1>8, <1>9
<1>12. vis = 0 \/ user = None => /\ base.v = Greatest(default.v, implied.v)
                                 /\ default.r \subseteq base.r
                                 /\ implied.r \subseteq base.r
  BY <1>6, <1>11
<1> QED BY <1>1, <1>2, <1>4, <1>5, <1>10, <1>12 DEF user, vis, base, implied, weak, default

\* Its value, and what is read for it.
LEMMA PlainSymIs ==
    ASSUME NEW x, IsEnv(x), NEW s \in Syms, ChoiceOf[s] = None
    PROVE  LET base == UserOrDefault(x, s, Vis(x, s))
               rev  == ExprValue(x, RevDep[s])
               weak == ExprValue(x, WeakRevDep[s])
               type == SymType(x, s)
               g    == Greatest(base.v, rev.v)
               r    == SymValue(x, s).r
           IN  /\ base.v \in 0 .. 2 /\ rev.v \in 0 .. 2 /\ type.v \in Types
               /\ SymValue(x, s).v =
                     IF g # 1 THEN g ELSE IF type.v = "bool" \/ weak.v = 2 THEN 2 ELSE 1
               /\ <<s, "vis">> \in r /\ base.r \subseteq r /\ rev.r \subseteq r
               /\ g = 1 => /\ type.r \subseteq r
                           /\ type.v # "bool" => weak.r \subseteq r
<1> DEFINE vis  == Vis(x, s)
           base == UserOrDefault(x, s, vis)
           rev  == ExprValue(x, RevDep[s])
           weak == ExprValue(x, WeakRevDep[s])
           direct == ExprValue(x, DirectDep[s])
           type == SymType(x, s)
           g    == Greatest(base.v, rev.v)
           last == Promoted(g, type, weak)
           val  == WithSelect(base, rev, direct, type, weak)
<1>0. s \in Items /\ RevDep[s] \in Exprs /\ WeakRevDep[s] \in Exprs /\ vis \in 0 .. 2
  BY TreeAssumption, CachedTristates DEF Items, Vis
<1>1. /\ rev.v \in 0 .. 2 /\ weak \in Calcs(0 .. 2) /\ type \in Calcs(Types) /\ type.v \in Types
      /\ base.v \in 0 .. 2
  BY <1>0, SymTypeIs, ExprValueFits, UserOrDefaultIs DEF Calcs
<1>2. SymValue(x, s) = [v |-> val.v, r |-> {<<s, "vis">>} \cup val.r]
  BY DEF SymValue, PlainValue, AfterReading
<1> HIDE DEF base, rev, direct, type, weak
<1>3. val = [v |-> last.v,
             r |-> (base.r \cup rev.r \cup (IF rev.v = 0 THEN {} ELSE direct.r)) \cup last.r]
  BY DEF WithSelect, AfterReading
<1> HIDE DEF g, val
<1>4. g # 1 => last.v = g
  BY DEF Promoted, Just
<1>5. g = 1 /\ type.v = "bool" => last.v = 2 /\ last.r = type.r
  BY DEF Promoted, AfterReading, Just
<1>6. g = 1 /\ type.v # "bool" =>
         last.v = (IF weak.v = 2 THEN 2 ELSE 1) /\ last.r = type.r \cup weak.r
  <2>1. [weak EXCEPT !.v = IF @ = 2 THEN 2 ELSE 1] = [v |-> IF weak.v = 2 THEN 2 ELSE 1, r |-> weak.r]
    BY <1>1 DEF Calcs
  <2> QED BY <2>1 DEF Promoted, AfterReading
<1> HIDE DEF last
<1>7. /\ val.v = last.v /\ base.r \subseteq val.r /\ rev.r \subseteq val.r /\ last.r \subseteq val.r
  BY <1>3
<1>8. /\ SymValue(x, s).v = last.v /\ <<s, "vis">> \in SymValue(x, s).r
      /\ val.r \subseteq SymValue(x, s).r
  BY <1>2, <1>7
<1>9. SymValue(x, s).v = IF g # 1 THEN g ELSE IF type.v = "bool" \/ weak.v = 2 THEN 2 ELSE 1
  BY <1>4, <1>5, <1>6, <1>8
<1>10. g = 1 => /\ type.r \subseteq SymValue(x, s).r
                /\ type.v # "bool" => weak.r \subseteq SymValue(x, s).r
  BY <1>5, <1>6, <1>7, <1>8
<1>11. base.r \subseteq SymValue(x, s).r /\ rev.r \subseteq SymValue(x, s).r
  BY <1>7, <1>8
<1>12. base.v \in 0 .. 2 /\ rev.v \in 0 .. 2 /\ type.v \in Types
  BY <1>1
<1>13. <<s, "vis">> \in SymValue(x, s).r
  BY <1>8
<1> QED BY <1>9, <1>10, <1>11, <1>12, <1>13 DEF vis, base, rev, weak, type, g

\* The value of a symbol outside choices.
LEMMA PlainSymAgrees ==
    ASSUME IsTree, NEW x, NEW y, Reread(x, y),
           NEW s \in Syms, ChoiceOf[s] = None, AgreeBelow(x, y, <<s, "val">>)
    PROVE  Val(y, s) = Val(x, s)
<1> DEFINE p == <<s, "val">>
           vis(z) == Vis(z, s)
           user(z) == z[<<s, "user">>]
           base(z) == UserOrDefault(z, s, Vis(z, s))
           rev(z) == ExprValue(z, RevDep[s])
           weak(z) == ExprValue(z, WeakRevDep[s])
           type(z) == SymType(z, s)
           default(z) == FirstDefault(z, Defaults[s])
           implied(z) == Implied(z, s)
           g(z) == Greatest(base(z).v, rev(z).v)
           val(z) == Val(z, s)
           reads(z) == SymValue(z, s).r
           R == reads(x)
           Q == reads(y)
<1>0. /\ IsEnv(x) /\ IsEnv(y) /\ p \in Attributes /\ s \in Items /\ s \notin Choices
      /\ Calculated(x, x) /\ Calculated(y, y) /\ <<s, "vis">> \in Attributes
  BY ItemsAssumption DEF Reread, IsConfiguration, Attributes, Items
<1>1. R = Calculate(x, p).r /\ Q = Calculate(y, p).r
  BY DEF Calculate
<1>2. SameItems(ReadBy(s), R, Q, x, y)
  BY <1>0, <1>1, ItemsBelow
<1>3. ASSUME NEW z \in {x, y}
      PROVE  /\ vis(z) \in 0 .. 2 /\ base(z).v \in 0 .. 2 /\ rev(z).v \in 0 .. 2
             /\ type(z).v \in Types
             /\ val(z) = IF g(z) # 1 THEN g(z)
                         ELSE IF type(z).v = "bool" \/ weak(z).v = 2 THEN 2 ELSE 1
             /\ <<s, "vis">> \in reads(z)
             /\ base(z).r \subseteq reads(z)
             /\ rev(z).r \subseteq reads(z)
  <2>1. IsEnv(z) /\ Calculated(z, z)
    BY <1>0
  <2>2. val(z) = SymValue(z, s).v
    BY <1>0, <2>1 DEF Calculated, IsTree, TreeValue, Calculate, Val
  <2>3. vis(z) \in 0 .. 2
    BY <1>0, <2>1, ConfigurationHas
  <2> QED BY <2>1, <2>2, <2>3, PlainSymIs
<1>4. ASSUME NEW z \in {x, y}
      PROVE  /\ g(z) = 1 => type(z).r \subseteq reads(z)
             /\ g(z) = 1 /\ type(z).v # "bool" => weak(z).r \subseteq reads(z)
  <2>1. IsEnv(z)
    BY <1>0
  <2> QED BY <2>1, PlainSymIs
<1>5. ASSUME NEW z \in {x, y}
      PROVE  /\ user(z) = None \/ user(z) \in 0 .. 2
             /\ default(z).v \in 0 .. 2 /\ implied(z).v \in {0, weak(z).v} /\ weak(z).v \in 0 .. 2
             /\ weak(z).r \subseteq implied(z).r
             /\ vis(z) = 0 \/ user(z) = None =>
                   /\ base(z).v = Greatest(default(z).v, implied(z).v)
                   /\ default(z).r \subseteq base(z).r
                   /\ implied(z).r \subseteq base(z).r
             /\ vis(z) # 0 /\ user(z) # None => base(z).v = Least(user(z), vis(z))
  <2>1. IsEnv(z)
    BY <1>0
  <2> QED BY <2>1, UserOrDefaultSpelled
<1>6. vis(y) = vis(x) /\ x[<<s, "vis">>] = vis(x)
  <2>1. <<s, "vis">> \in Calculate(x, p).r
    BY <1>1, <1>3
  <2>2. Agrees(x, y, <<s, "vis">>)
    BY <1>0, <2>1 DEF AgreeBelow
  <2>3. y[<<s, "vis">>] = x[<<s, "vis">>]
    BY <2>2 DEF Agrees
  <2>4. x[<<s, "vis">>] = Visibility(x, s).v /\ Vis(x, s) = Visibility(x, s).v
    BY <1>0, ConfigurationHas
  <2> QED BY <2>3, <2>4 DEF Vis
<1>7. rev(x).v = rev(y).v
  <2>1. RevDep[s] \in Exprs /\ DependOn(RevDep[s]) \subseteq ReadBy(s)
    BY SymReadBy
  <2>2. rev(x).r \subseteq R /\ rev(y).r \subseteq Q
    BY <1>3
  <2>3. SameItems(DependOn(RevDep[s]), R, Q, x, y)
    BY <1>2, <2>1, FewerSame
  <2> QED BY <1>0, <2>1, <2>2, <2>3, ExprSame
<1>8. weak(x).r \subseteq R /\ weak(y).r \subseteq Q => weak(x).v = weak(y).v
  <2>1. WeakRevDep[s] \in Exprs /\ DependOn(WeakRevDep[s]) \subseteq ReadBy(s)
    BY SymReadBy
  <2>2. SameItems(DependOn(WeakRevDep[s]), R, Q, x, y)
    BY <1>2, <2>1, FewerSame
  <2> QED BY <1>0, <2>1, <2>2, ExprSame
<1>9. type(x).r \subseteq R /\ type(y).r \subseteq Q => type(x).v = type(y).v
  <2>1. \A z : TypeOf(z, s) = SymType(z, s)
    BY <1>0 DEF TypeOf
  <2> QED BY <1>0, <1>2, <2>1, TypeOfSame
<1>10. default(x).r \subseteq R /\ default(y).r \subseteq Q => default(x).v = default(y).v
  <2>1. Defaults[s] \in Seq(Exprs \X Exprs)
    BY TreeAssumption
  <2>2. \A k \in DOMAIN Defaults[s] : /\ DependOn(Defaults[s][k][1]) \subseteq ReadBy(s)
                                      /\ DependOn(Defaults[s][k][2]) \subseteq ReadBy(s)
    BY SymReadBy DEF Values, Conditions
  <2> QED BY <1>0, <1>2, <2>1, <2>2, FirstDefaultSame
<1>11. implied(x).r \subseteq R /\ implied(y).r \subseteq Q => implied(x).v = implied(y).v
  BY <1>0, <1>2, ImpliedSame
<1>12. vis(x) # 0 => user(y) = val(x)
  <2>1. vis(x) # 0 => WriteToConf(x, s)
    BY <1>6 DEF WriteToConf
  <2> QED BY <2>1 DEF Reread, Inferred
<1>13. vis(x) = 1 => type(x).v = "tristate" /\ type(y).v = "tristate"
  <2>1. ASSUME vis(x) = 1, NEW z \in {x, y} PROVE type(z).v = "tristate"
    <3>1. IsEnv(z) /\ Calculated(z, z) /\ vis(z) = 1
      BY <1>0, <1>6, <2>1
    <3>2. Visibility(z, s).v = 1
      BY <1>0, <3>1, ConfigurationHas
    <3>3. TypeOf(z, s).v = "tristate"
      BY <1>0, <3>1, <3>2, MIsForTristates
    <3> QED BY <1>0, <3>3 DEF TypeOf
  <2> QED BY <2>1
<1>14. user(x) = None /\ vis(x) = 1 /\ rev(x).v # 2 /\ weak(x).v # 2 => default(x).v # 2
  BY DEF Reread, DefaultsReturn
<1>15. None \notin 0 .. 2
  BY ItemsAssumption
<1> HIDE DEF vis, user, base, rev, weak, type, default, implied, g, val, reads
\* Both read the type, and what implies s, if they are at m before that.
<1>16. g(x) = 1 /\ g(y) = 1 => val(x) = val(y)
  <2> SUFFICES ASSUME g(x) = 1, g(y) = 1 PROVE val(x) = val(y)
    OBVIOUS
  <2>1. type(x).v = type(y).v
    BY <1>4, <1>9
  <2>2. CASE type(x).v = "bool"
    <3>1. type(y).v = "bool"
      BY <2>1, <2>2
    <3>2. val(x) = 2 /\ val(y) = 2
      BY <1>3, <2>2, <3>1
    <3> QED BY <3>2
  <2>3. CASE type(x).v # "bool"
    <3>1. type(y).v # "bool"
      BY <2>1, <2>3
    <3>2. weak(x).v = weak(y).v
      BY <1>4, <1>8, <2>3, <3>1
    <3>3. /\ val(x) = IF weak(x).v = 2 THEN 2 ELSE 1
          /\ val(y) = IF weak(y).v = 2 THEN 2 ELSE 1
      BY <1>3, <2>3, <3>1
    <3> QED BY <3>2, <3>3
  <2> QED BY <2>2, <2>3
<1>17. g(x) = Greatest(base(x).v, rev(x).v) /\ g(y) = Greatest(base(y).v, rev(y).v)
  BY DEF g
<1>18. g(x) \in 0 .. 2 /\ g(y) \in 0 .. 2
  BY <1>3, <1>17 DEF Greatest
<1>19. CASE vis(x) = 0
  <2>1. vis(y) = 0
    BY <1>6, <1>19
  <2>2. /\ base(x).v = Greatest(default(x).v, implied(x).v)
        /\ base(y).v = Greatest(default(y).v, implied(y).v)
        /\ default(x).r \subseteq R /\ default(y).r \subseteq Q
        /\ implied(x).r \subseteq R /\ implied(y).r \subseteq Q
    BY <1>3, <1>5, <1>19, <2>1
  <2>3. g(x) = g(y)
    BY <1>7, <1>10, <1>11, <1>17, <2>2
  <2>4. CASE g(x) = 1
    BY <1>16, <2>3, <2>4 DEF val
  <2>5. CASE g(x) # 1
    <3>1. val(x) = g(x) /\ val(y) = g(y)
      BY <1>3, <2>3, <2>5
    <3> QED BY <2>3, <3>1 DEF val
  <2> QED BY <2>4, <2>5
<1>20. CASE vis(x) # 0
  <2>1. vis(y) = vis(x) /\ vis(x) \in 1 .. 2 /\ user(y) = val(x) /\ val(x) \in 0 .. 2
    <3>1. val(x) \in 0 .. 2
      BY <1>3, <1>18
    <3> QED BY <1>3, <1>6, <1>12, <1>20, <3>1
  <2>2. base(y).v = Least(val(x), vis(x))
    BY <1>5, <1>15, <2>1
  <2>3. g(y) = Greatest(Least(val(x), vis(x)), rev(x).v)
    BY <1>7, <1>17, <2>2
  <2>4. rev(x).v \in 0 .. 2 /\ g(x) >= rev(x).v
    BY <1>3, <1>17 DEF Greatest
  <2>5. val(x) >= g(x) /\ (g(x) # 1 => val(x) = g(x))
    BY <1>3, <1>18
  <2>6. CASE val(x) = 0
    <3>1. g(y) = 0
      BY <2>1, <2>3, <2>4, <2>5, <2>6, <1>18 DEF Greatest, Least
    <3>2. val(y) = 0
      BY <1>3, <3>1
    <3> QED BY <2>6, <3>2 DEF val
  <2>7. CASE val(x) = 1
    <3>1. g(x) = 1
      BY <1>18, <2>5, <2>7, <1>3
    <3>2. g(y) = 1
      BY <2>1, <2>3, <2>4, <2>7, <3>1 DEF Greatest, Least
    <3> QED BY <1>16, <3>1, <3>2 DEF val
  <2>8. CASE val(x) = 2
    <3>1. CASE vis(x) = 2 \/ rev(x).v = 2
      <4>1. g(y) = 2
        BY <2>1, <2>3, <2>4, <2>8, <3>1 DEF Greatest, Least
      <4>2. val(y) = 2
        BY <1>3, <4>1
      <4> QED BY <2>8, <4>2 DEF val
    <3>2. CASE vis(x) = 1 /\ rev(x).v # 2
      <4>1. g(y) = 1
        BY <2>3, <2>4, <2>8, <3>2 DEF Greatest, Least
      <4>2. CASE g(x) = 1
        BY <1>16, <4>1, <4>2 DEF val
      <4>3. CASE g(x) # 1
        <5>1. g(x) = 2
          BY <2>5, <2>8, <4>3
        <5>2. base(x).v = 2
          BY <1>3, <1>17, <3>2, <5>1 DEF Greatest
        <5>3. user(x) = None
          <6> SUFFICES ASSUME user(x) # None PROVE FALSE
            OBVIOUS
          <6>1. base(x).v = Least(user(x), 1) /\ user(x) \in 0 .. 2
            BY <1>5, <3>2
          <6> QED BY <5>2, <6>1 DEF Least
        <5>4. /\ base(x).v = Greatest(default(x).v, implied(x).v)
              /\ weak(x).r \subseteq R
              /\ default(x).v \in 0 .. 2 /\ implied(x).v \in {0, weak(x).v} /\ weak(x).v \in 0 .. 2
          BY <1>3, <1>5, <5>3
        <5>5. weak(x).v = 2
          <6>1. default(x).v = 2 \/ implied(x).v = 2
            BY <5>2, <5>4 DEF Greatest
          <6>2. CASE implied(x).v = 2
            BY <5>4, <6>2
          <6>3. CASE default(x).v = 2
            BY <1>14, <3>2, <5>3, <6>3
          <6> QED BY <6>1, <6>2, <6>3
        <5>6. type(y).v # "bool"
          <6>1. type(y).v = "tristate"
            BY <1>13, <3>2
          <6> QED BY <6>1
        <5>7. weak(y).v = 2
          <6>1. weak(y).r \subseteq Q
            BY <1>4, <4>1, <5>6
          <6> QED BY <1>8, <5>4, <5>5, <6>1
        <5>8. val(y) = 2
          BY <1>3, <4>1, <5>7
        <5> QED BY <2>8, <5>8 DEF val
      <4> QED BY <4>2, <4>3
    <3> QED BY <2>1, <3>1, <3>2
  <2> QED BY <2>1, <2>6, <2>7, <2>8
<1> QED BY <1>19, <1>20

\* Attribute for attribute, in the order of reading.
LEMMA RereadIsSame ==
    ASSUME IsTree, NEW Order, Ordered(Order), NEW x, NEW y, Reread(x, y)
    PROVE  SameValues(x, y)
<1> DEFINE Wrong == {p \in Attributes : ~Agrees(x, y, p)}
<1>1. Wrong = {}
  <2> SUFFICES ASSUME Wrong # {} PROVE FALSE
    OBVIOUS
  <2>1. PICK p \in Wrong : \A q \in Wrong : ~(<<q, p>> \in Order)
    <3>1. Wrong \subseteq Attributes
      OBVIOUS
    <3> HIDE DEF Wrong
    <3> QED BY <3>1, WFMin DEF Ordered
  <2>2. p \in Attributes /\ ~Agrees(x, y, p) /\ IsEnv(x) /\ IsEnv(y)
    BY <2>1 DEF Reread, IsConfiguration
  <2>3. AgreeBelow(x, y, p)
    <3> SUFFICES ASSUME NEW q \in Calculate(x, p).r \cup Calculate(y, p).r, q \in Attributes
                 PROVE  q # p /\ Agrees(x, y, q)
      BY DEF AgreeBelow
    <3>1. <<q, p>> \in Order
      BY <2>2 DEF Ordered, IsTree, TreeReads
    <3> QED BY <2>1, <3>1
  <2>4. CASE p \in Items \X {"vis"}
    <3>1. PICK i \in Items : p = <<i, "vis">>
      BY <2>4
    <3> QED BY <2>2, <2>3, <3>1, VisAgrees
  <2>5. CASE p \in Syms \X {"val"}
    <3>1. PICK s \in Syms : p = <<s, "val">>
      BY <2>5
    <3>2. Val(y, s) = Val(x, s)
      BY <2>3, <3>1, ChoiceSymAgrees, PlainSymAgrees
    <3>3. p[2] = "val"
      BY <3>1
    <3> QED BY <2>2, <3>1, <3>2, <3>3 DEF Agrees, Val
  <2>6. CASE p \in Choices \X {"sel"}
    <3>1. PICK c \in Choices : p = <<c, "sel">>
      BY <2>6
    <3> QED BY <2>2, <2>3, <3>1, SelAgrees
  <2>7. CASE p \in Observed \X {"asg"}
    <3>1. p[2] = "asg"
      BY <2>7
    <3> QED BY <2>2, <3>1 DEF Agrees
  <2> QED BY <2>2, <2>4, <2>5, <2>6, <2>7 DEF Attributes
<1>2. ASSUME NEW s \in Syms PROVE Val(x, s) = Val(y, s)
  <2>1. <<s, "val">> \in Attributes
    BY DEF Attributes
  <2>2. Agrees(x, y, <<s, "val">>)
    BY <1>1, <2>1
  <2> QED BY <2>2 DEF Agrees, Val
<1> QED BY <1>2 DEF SameValues

----------------------------------------------------------------------------
\* What a configuration may have for values: an m is for a tristate, and the
\* symbols of a choice that have values have the value of its mode.
LEMMA ValuesFitTypes ==
    ASSUME IsTree, NEW x, IsConfiguration(x), NEW s \in Syms
    PROVE  /\ Val(x, s) \in TypeValues(s)
           /\ ChoiceOf[s] # None /\ Val(x, s) # 0 =>
                 /\ x[<<s, "vis">>] # 0
                 /\ Val(x, s) = Mode(x, ChoiceOf[s])
                 /\ Val(x, s) \in TypeValues(ChoiceOf[s])
<1>0. /\ IsEnv(x) /\ Calculated(x, x) /\ s \in Items /\ s \notin Choices
      /\ ChoiceOf[s] # None => ChoiceOf[s] \in Choices /\ s \in Members(ChoiceOf[s])
  BY ItemsAssumption DEF IsConfiguration, Items, Members
<1>1. Val(x, s) = SymValue(x, s).v /\ Val(x, s) \in 0 .. 2
  <2>1. <<s, "val">> \in Attributes
    BY DEF Attributes
  <2>2. Val(x, s) = SymValue(x, s).v
    BY <1>0, <2>1 DEF Calculated, IsTree, TreeValue, Calculate, Val
  <2> QED BY <1>0, <2>2, SymValueIs DEF Calcs
<1>2. SymType(x, s).v = "tristate" => OrigType[s] = "tristate"
  BY DEF SymType, Just
<1>3. \A i \in Items : OrigType[i] = "tristate" => TypeValues(i) = 0 .. 2
  BY ItemsAssumption DEF TypeValues
<1>4. \A i \in Items : {0, 2} \subseteq TypeValues(i)
  BY ItemsAssumption DEF TypeValues
<1>5. CASE ChoiceOf[s] = None
  <2>1. ASSUME Val(x, s) = 1 PROVE OrigType[s] = "tristate"
    <3> DEFINE type == SymType(x, s).v
               weak == ExprValue(x, WeakRevDep[s]).v
               g == Greatest(UserOrDefault(x, s, Vis(x, s)).v, ExprValue(x, RevDep[s]).v)
    <3>1. /\ type \in Types
          /\ SymValue(x, s).v = IF g # 1 THEN g ELSE IF type = "bool" \/ weak = 2 THEN 2 ELSE 1
      BY <1>0, <1>5, PlainSymIs
    <3> HIDE DEF type, weak, g
    <3>2. type # "bool"
      <4> SUFFICES ASSUME type = "bool" PROVE FALSE
        OBVIOUS
      <4>1. SymValue(x, s).v = IF g # 1 THEN g ELSE 2
        BY <3>1
      <4>2. SymValue(x, s).v = 1
        BY <1>1, <2>1
      <4> QED BY <4>1, <4>2
    <3>3. type = "tristate"
      BY <3>1, <3>2 DEF Types
    <3> QED BY <1>2, <3>3 DEF type
  <2> QED BY <1>0, <1>1, <1>3, <1>4, <1>5, <2>1
<1>6. CASE ChoiceOf[s] # None
  <2> DEFINE c == ChoiceOf[s]
  <2>0. c \in Choices /\ c \in Items
    BY <1>0, <1>6 DEF Items
  <2>1. /\ x[<<s, "vis">>] = Visibility(x, s).v /\ x[<<s, "vis">>] \in 0 .. 2
        /\ Vis(x, s) = x[<<s, "vis">>]
        /\ Val(x, s) = ChoiceSymValue(x, s, Vis(x, s)).v
    BY <1>0, <1>6, ChoiceSymsAre
  <2>2. Val(x, s) # 0 => x[<<s, "vis">>] # 0
    BY <2>1 DEF ChoiceSymValue, Just
  <2>3. Val(x, s) = 1 => Vis(x, s) = 1
    BY <2>1 DEF ChoiceSymValue, Just
  <2>4. Val(x, s) = 1 => OrigType[s] = "tristate"
    BY <1>0, <2>1, <2>3, MIsForTristates
  <2>5. Mode(x, c) \in 0 .. 2 /\ (Mode(x, c) = 1 => OrigType[c] = "tristate")
    BY <1>0, <2>0, ModesAre
  <2>6. Val(x, s) # 0 => Val(x, s) = Mode(x, c)
    <3>1. Exclusive(Mode(x, c), Members(c), x)
      BY <1>0, <2>0, ConfigurationIsExclusive
    <3> HIDE DEF c
    <3> QED BY <1>0, <1>1, <1>6, <2>5, <3>1 DEF Exclusive, c
  <2> HIDE DEF c
  <2>7. Val(x, s) \in TypeValues(s)
    BY <1>0, <1>1, <1>3, <1>4, <2>4
  <2>8. Val(x, s) # 0 => Val(x, s) \in TypeValues(c)
    BY <1>1, <1>3, <1>4, <2>0, <2>5, <2>6
  <2> QED BY <2>2, <2>6, <2>7, <2>8 DEF c
<1> QED BY <1>5, <1>6

\* What a line sets.
LEMMA AssignLineIs ==
    ASSUME Evaluator, NEW st \in Cached, NEW s \in Syms, NEW v \in TypeValues(s)
    PROVE  LET c    == ChoiceOf[s]
               mode == c # None /\ v # 0 /\ v \in TypeValues(c)
           IN  /\ AssignLine(st, s, v).set = st.set \cup {s} \cup (IF mode THEN {c} ELSE {})
               /\ \A q \in Inputs :
                     AssignLine(st, s, v).env[q] =
                        IF q = <<s, "user">> THEN v
                        ELSE IF c # None /\ v = 2 /\ q = <<c, "usel">> THEN s
                        ELSE IF mode /\ q = <<c, "user">> THEN v
                        ELSE st.env[q]
<1> DEFINE c == ChoiceOf[s]
           mode == c # None /\ v # 0 /\ v \in TypeValues(c)
           with == IF c # None /\ v # 0 THEN AssignMode(st, c, v) ELSE st
<1>0. /\ c # None => c \in Choices /\ c \in Items
      /\ IsState(st) /\ CacheInv(st.env) /\ st.env = [r \in Cells |-> st.env[r]]
      /\ st.set = st.set \cup {} /\ v \in 0 .. 2 /\ v # None
  BY CachedIs, ItemsAssumption DEF CacheInv, IsEnv, Items, TypeValues
<1>1. AssignLine(st, s, v) = Assign(with, s, v)
  BY DEF AssignLine
<1>2. c # None => st.env[<<c, "user">>] \in TypeValues(c) \cup {None}
  <2>1. c # None => <<c, "user">> \in Cells /\ CellValues(<<c, "user">>) = TypeValues(c)
    BY <1>0, CellForms, CellKinds
  <2> QED BY <1>0, <2>1 DEF CacheInv, IsEnv
<1>3. /\ with.set = st.set \cup (IF mode THEN {c} ELSE {})
      /\ \A q \in Inputs : with.env[q] = IF mode /\ q = <<c, "user">> THEN v ELSE st.env[q]
      /\ with.env = [r \in Cells |-> with.env[r]]
  <2>1. CASE ~(c # None /\ v # 0)
    BY <1>0, <2>1
  <2>2. CASE c # None /\ v # 0
    <3>1. with = AssignMode(st, c, v)
      BY <2>2
    <3>2. CASE v \in TypeValues(c)
      <4>1. \A q \in Inputs : with.env[q] = IF q = <<c, "user">> THEN v ELSE st.env[q]
        BY <1>0, <2>2, <3>1, <3>2, AssignModeInputs
      <4>2. CacheInv(with.env)
        BY <1>0, <2>2, <3>1, AssignModeIsSafe
      <4> HIDE DEF with
      <4>3. with.set = st.set \cup {c}
        BY <3>1, <3>2 DEF AssignMode
      <4> QED BY <2>2, <3>2, <4>1, <4>2, <4>3 DEF CacheInv, IsEnv
    <3>3. CASE v \notin TypeValues(c)
      <4>1. v # st.env[<<c, "user">>]
        BY <1>0, <1>2, <2>2, <3>3
      <4>2. with = st
        BY <3>1, <3>3, <4>1 DEF AssignMode
      <4> QED BY <1>0, <3>3, <4>2
    <3> QED BY <3>2, <3>3
  <2> QED BY <2>1, <2>2
<1> HIDE DEF with
<1>4. \A q \in Inputs : Assign(with, s, v).env[q] =
         IF q = <<s, "user">> THEN v
         ELSE IF c # None /\ v = 2 /\ q = <<c, "usel">> THEN s
         ELSE with.env[q]
  BY <1>3, AssignInputs
<1>5. Assign(with, s, v).set = with.set \cup {s} \cup (IF c # None /\ v = 2 THEN {c} ELSE {})
  BY DEF Assign
<1>6. c # None /\ v = 2 => mode
  BY <1>0, ItemsAssumption DEF TypeValues
<1> QED BY <1>1, <1>3, <1>4, <1>5, <1>6

\* The user values when the lines of the symbols in W have been read, of a file
\* written for x.
ReadOf(W, x, e) ==
    /\ \A s \in Syms : e[<<s, "user">>] = IF s \in W THEN Val(x, s) ELSE None
    /\ \A c \in Choices : e[<<c, "user">>] =
          IF \E s \in Members(c) \cap W : Val(x, s) # 0 THEN Mode(x, c) ELSE None
    /\ \A s \in W : ChoiceOf[s] # None /\ Val(x, s) = 2 => e[<<ChoiceOf[s], "usel">>] = s

\* Another line.
LEMMA LineIsRead ==
    ASSUME IsTree, NEW x, IsConfiguration(x), NEW W \in SUBSET Syms,
           NEW st \in Cached, ReadOf(W, x, st.env), NEW s \in Syms
    PROVE  ReadOf(W \cup {s}, x, AssignLine(st, s, Val(x, s)).env)
<1> DEFINE v == Val(x, s)
           d == ChoiceOf[s]
           e == AssignLine(st, s, v).env
<1>0. Evaluator /\ st.env = [r \in Cells |-> st.env[r]] /\ s \in Items
  BY TreeIsAnEvaluator, CachedIs DEF CacheInv, IsEnv, Items
<1>1. /\ v \in TypeValues(s)
      /\ d # None /\ v # 0 => v = Mode(x, d) /\ v \in TypeValues(d)
  BY ValuesFitTypes
<1>2. ASSUME NEW q \in Inputs
      PROVE  e[q] = IF q = <<s, "user">> THEN v
                    ELSE IF d # None /\ v = 2 /\ q = <<d, "usel">> THEN s
                    ELSE IF d # None /\ v # 0 /\ q = <<d, "user">> THEN v
                    ELSE st.env[q]
  BY <1>0, <1>1, AssignLineIs
<1> HIDE DEF e
<1>3. ASSUME NEW t \in Syms
      PROVE  e[<<t, "user">>] = IF t \in W \cup {s} THEN Val(x, t) ELSE None
  <2>1. <<t, "user">> \in Inputs /\ (d # None => t # d)
    BY ItemsAssumption DEF Inputs, Items
  <2>2. e[<<t, "user">>] = IF t = s THEN v ELSE st.env[<<t, "user">>]
    BY <1>2, <2>1
  <2> QED BY <2>2 DEF ReadOf
<1>4. ASSUME NEW c \in Choices
      PROVE  e[<<c, "user">>] =
                IF \E t \in Members(c) \cap (W \cup {s}) : Val(x, t) # 0 THEN Mode(x, c) ELSE None
  <2>1. <<c, "user">> \in Inputs /\ c # s /\ c # None
    BY ItemsAssumption DEF Inputs, Items
  <2>2. e[<<c, "user">>] = IF d = c /\ v # 0 THEN v ELSE st.env[<<c, "user">>]
    BY <1>2, <2>1
  <2>3. st.env[<<c, "user">>] =
           IF \E t \in Members(c) \cap W : Val(x, t) # 0 THEN Mode(x, c) ELSE None
    BY DEF ReadOf
  <2>4. CASE d = c /\ v # 0
    <3>1. s \in Members(c) \cap (W \cup {s}) /\ Val(x, s) # 0
      BY <2>4 DEF Members
    <3>2. e[<<c, "user">>] = Mode(x, c)
      BY <1>1, <2>1, <2>2, <2>4
    <3> QED BY <3>1, <3>2
  <2>5. CASE ~(d = c /\ v # 0)
    <3>1. (\E t \in Members(c) \cap (W \cup {s}) : Val(x, t) # 0)
             <=> \E t \in Members(c) \cap W : Val(x, t) # 0
      BY <2>5 DEF Members
    <3>2. e[<<c, "user">>] = st.env[<<c, "user">>]
      BY <2>2, <2>5
    <3> QED BY <2>3, <3>1, <3>2
  <2> QED BY <2>4, <2>5
<1>5. ASSUME NEW t \in W \cup {s}, ChoiceOf[t] # None, Val(x, t) = 2
      PROVE  e[<<ChoiceOf[t], "usel">>] = t
  <2>0. ChoiceOf[t] \in Choices /\ t \in Syms
    BY <1>5, ItemsAssumption
  <2>1. <<ChoiceOf[t], "usel">> \in Inputs
    BY <2>0 DEF Inputs
  <2>2. e[<<ChoiceOf[t], "usel">>] =
           IF d = ChoiceOf[t] /\ v = 2 THEN s ELSE st.env[<<ChoiceOf[t], "usel">>]
    BY <1>2, <1>5, <2>1
  <2>3. CASE d = ChoiceOf[t] /\ v = 2
    <3>1. s = t
      <4>1. ASSUME NEW m \in {s, t} PROVE x[<<d, "sel">>] = m
        <5>1. m \in Syms /\ ChoiceOf[m] = d /\ d # None /\ Val(x, m) = 2
          BY <1>5, <2>0, <2>3
        <5>2. /\ Val(x, m) = ChoiceSymValue(x, m, Vis(x, m)).v
              /\ Vis(x, m) \in 0 .. 2
          BY <5>1, ChoiceSymsAre DEF IsConfiguration
        <5> QED BY <5>1, <5>2 DEF ChoiceSymValue, Just
      <4> QED BY <4>1
    <3> QED BY <2>2, <2>3, <3>1
  <2>4. CASE ~(d = ChoiceOf[t] /\ v = 2)
    <3>1. t \in W
      BY <1>5, <2>4
    <3> QED BY <1>5, <2>2, <2>4, <3>1 DEF ReadOf
  <2> QED BY <2>3, <2>4
<1> QED BY <1>3, <1>4, <1>5 DEF ReadOf, e

\* A written file sets the user values that Inferred() says.
LEMMA WrittenIsInferred ==
    ASSUME IsTree, NEW Order, Ordered(Order), NEW x, IsConfiguration(x)
    PROVE  /\ IsConfiguration(Config(LoadFresh(WriteConfig(x))))
           /\ Inferred(x, Config(LoadFresh(WriteConfig(x))))
<1> DEFINE S == {s \in Syms : WriteToConf(x, s)}
           syms == Those(SymOrder, S)
           file == WriteConfig(x)
           st == [env |-> NoValues, set |-> {}]
           y == Config(LoadFresh(file))
<1>1. syms \in Seq(Syms) /\ Seqs!ToSet(syms) = S
  <2>1. Seqs!ToSet(SymOrder) = Syms
    BY OrderAssumption DEF Seqs!ToSet
  <2>2. syms \in Seq(Syms) /\ Seqs!ToSet(syms) = Seqs!ToSet(SymOrder) \cap S
    BY OrderAssumption, ThoseIs
  <2> QED BY <2>1, <2>2
<1>2. file = [k \in DOMAIN syms |-> <<syms[k], Val(x, syms[k])>>]
  BY DEF WriteConfig, ConfigStrings
<1> HIDE DEF syms, file
<1>3. DOMAIN syms = 1 .. Len(syms) /\ Len(syms) \in Nat /\ \A k \in DOMAIN syms : syms[k] \in Syms
  BY <1>1
<1>4. file \in Seq(Seqs!ToSet(file)) /\ Len(file) = Len(syms)
  <2>1. file \in [1 .. Len(syms) -> Seqs!ToSet(file)]
    BY <1>2, <1>3 DEF Seqs!ToSet
  <2> QED BY <1>3, <2>1
<1>5. \A k \in 1 .. Len(syms) : file[k][1] = syms[k] /\ file[k][2] = Val(x, syms[k])
  BY <1>2, <1>3
<1>6. Assigns(file)
  BY <1>3, <1>4, <1>5 DEF Assigns
<1>7. st \in Cached /\ Evaluator
  BY NoValuesAreCached, TreeIsAnEvaluator, CachedIs DEF IsState
<1>8. PICK after :
         /\ \A k \in 0 .. Len(file) :
               /\ after[k] \in Cached
               /\ after[k] = IF k = 0 THEN st
                             ELSE AssignLine(after[k - 1], file[k][1], file[k][2])
         /\ LoadLines(st, file) = after[Len(file)]
  <2> HIDE DEF st
  <2> QED BY <1>6, <1>7, LoadLinesUnfolds
<1> DEFINE W(k) == {syms[j] : j \in 1 .. k}
           Wrong == {k \in 0 .. Len(syms) : ~ReadOf(W(k), x, after[k].env)}
<1>9. Wrong = {}
  <2> SUFFICES ASSUME Wrong # {} PROVE FALSE
    OBVIOUS
  <2>1. PICK k \in Wrong : \A j \in Wrong : k <= j
    <3>1. Wrong \in SUBSET Nat
      BY <1>3
    <3> HIDE DEF Wrong
    <3> QED BY <3>1, LeastNumber
  <2>2. k \in 0 .. Len(syms) /\ ~ReadOf(W(k), x, after[k].env)
    OBVIOUS
  <2>3. CASE k = 0
    <3>1. W(k) = {}
      BY <2>3
    <3>2. after[k].env = NoValues
      BY <1>3, <1>4, <1>8, <2>3
    <3>3. \A q \in Inputs : NoValues[q] = None
      BY CellForms DEF NoValues
    <3>4. ReadOf({}, x, NoValues)
      BY <3>3, CellForms DEF ReadOf, Items
    <3> QED BY <2>2, <3>1, <3>2, <3>4
  <2>4. CASE k # 0
    <3>1. k - 1 \in 0 .. Len(syms) /\ k \in 1 .. Len(syms) /\ syms[k] \in Syms
      BY <1>3, <2>2, <2>4
    <3>2. ReadOf(W(k - 1), x, after[k - 1].env)
      <4> DEFINE j == k - 1
      <4>1. j \in 0 .. Len(syms) /\ ~(k <= j)
        BY <1>3, <3>1
      <4> HIDE DEF j
      <4>2. j \notin Wrong
        <5> HIDE DEF Wrong
        <5> QED BY <2>1, <4>1
      <4>3. ReadOf(W(j), x, after[j].env)
        <5> HIDE DEF W
        <5> QED BY <4>1, <4>2
      <4> QED BY <4>3 DEF j
    <3>3. W(k - 1) \in SUBSET Syms
      BY <1>3, <2>2, <3>1
    <3>4. W(k) = W(k - 1) \cup {syms[k]}
      <4>1. \A j \in Int : j \in 1 .. k <=> j \in 1 .. k - 1 \/ j = k
        BY <3>1
      <4> QED BY <4>1
    <3>5. after[k] = AssignLine(after[k - 1], syms[k], Val(x, syms[k]))
      BY <1>4, <1>5, <1>8, <2>4, <3>1
    <3>6. after[k - 1] \in Cached
      BY <1>4, <1>8, <3>1
    <3> HIDE DEF W
    <3>7. ReadOf(W(k - 1) \cup {syms[k]}, x, after[k].env)
      BY <3>1, <3>2, <3>3, <3>5, <3>6, LineIsRead
    <3> QED BY <2>2, <3>4, <3>7
  <2> QED BY <2>3, <2>4
<1> DEFINE e == after[Len(syms)].env
<1>10. ReadOf(S, x, e)
  <2>1. Len(syms) \in 0 .. Len(syms)
    BY <1>3
  <2>2. ReadOf(W(Len(syms)), x, e)
    BY <1>9, <2>1
  <2>3. W(Len(syms)) = S
    BY <1>1, <1>3 DEF Seqs!ToSet
  <2> HIDE DEF W, e, S
  <2> QED BY <2>2, <2>3
<1>11. CacheInv(e) /\ LoadFresh(file) = e
  <2>1. Len(syms) \in 0 .. Len(file)
    BY <1>3, <1>4
  <2>2. after[Len(syms)] \in Cached
    BY <1>8, <2>1
  <2> QED BY <1>4, <1>8, <2>2, CachedIs DEF LoadFresh
<1>12. IsConfiguration(y) /\ \A q \in Inputs : y[q] = e[q]
  <2> HIDE DEF e
  <2> QED BY <1>11, ConfigIsConfiguration
<1> HIDE DEF y, e
<1>13. ASSUME NEW s \in Syms PROVE y[<<s, "user">>] = IF WriteToConf(x, s) THEN Val(x, s) ELSE None
  <2>1. <<s, "user">> \in Inputs
    BY CellForms DEF Items
  <2> QED BY <1>10, <1>12, <2>1 DEF ReadOf
<1>14. ASSUME NEW s \in Syms, ChoiceOf[s] # None, Val(x, s) # 0 PROVE s \in S
  <2>1. x[<<s, "vis">>] # 0
    BY <1>14, ValuesFitTypes
  <2> QED BY <2>1 DEF WriteToConf
<1>15. ASSUME NEW c \in Choices
       PROVE  y[<<c, "user">>] = IF \E s \in Members(c) : Val(x, s) # 0 THEN Mode(x, c) ELSE None
  <2>1. <<c, "user">> \in Inputs /\ c # None
    BY CellForms, ItemsAssumption DEF Items
  <2>2. (\E s \in Members(c) : Val(x, s) # 0) <=> \E s \in Members(c) \cap S : Val(x, s) # 0
    BY <1>14, <2>1 DEF Members
  <2> HIDE DEF S
  <2> QED BY <1>10, <1>12, <2>1, <2>2 DEF ReadOf
<1>16. ASSUME NEW s \in Syms, ChoiceOf[s] # None, Val(x, s) = 2
       PROVE  y[<<ChoiceOf[s], "usel">>] = s
  <2>1. ChoiceOf[s] \in Choices /\ s \in S
    BY <1>14, <1>16, ItemsAssumption
  <2>2. <<ChoiceOf[s], "usel">> \in Inputs
    BY <2>1, CellForms
  <2> HIDE DEF S
  <2> QED BY <1>10, <1>12, <1>16, <2>1, <2>2 DEF ReadOf
<1> HIDE DEF S, syms
<1>17. Inferred(x, y)
  BY <1>13, <1>15, <1>16 DEF Inferred
<1> QED BY <1>12, <1>17 DEF y, file

\* What was written is read back.
LEMMA WrittenIsReread ==
    ASSUME IsTree, NEW Order, Ordered(Order), NEW x, IsConfiguration(x),
           ModeIsInferred(x), DefaultsReturn(x)
    PROVE  SameValues(x, Config(LoadFresh(WriteConfig(x))))
<1>1. Reread(x, Config(LoadFresh(WriteConfig(x))))
  BY WrittenIsInferred DEF Reread
<1> QED BY <1>1, RereadIsSame

(***************************************************************************)
(* write_config() and load_config() in a new instance are inverses, as far *)
(* as the values of symbols go, in every menu tree whose configurations    *)
(* have modes that can be inferred and defaults that come back.  Both      *)
(* hypotheses are needed: without either, values differ after a reload.    *)
(***************************************************************************)
THEOREM RoundTripThm ==
    ASSUME IsTree, NEW CONSTANT Order, Ordered(Order),
           \A z : IsConfiguration(z) => ModeIsInferred(z) /\ DefaultsReturn(z)
    PROVE  Spec => []RoundTrip
<1>1. Evaluator
  BY TreeIsAnEvaluator
<1>2. ValuesInv => RoundTrip
  <2> SUFFICES ASSUME ValuesInv PROVE RoundTrip
    OBVIOUS
  <2> DEFINE x == Config(env)
  <2>1. IsConfiguration(x)
    BY ConfigIsConfiguration DEF ValuesInv
  <2> HIDE DEF x
  <2>2. SameValues(x, Config(LoadFresh(WriteConfig(x))))
    BY <2>1, WrittenIsReread
  <2> QED BY <2>2 DEF RoundTrip, x
<1>3. ValuesInv /\ [Next]_vars => ValuesInv'
  BY <1>1, ValuesInvStep
<1> QED BY <1>2, <1>3, ValuesInvInit, PTL DEF Spec

----------------------------------------------------------------------------
(* A file that is read over other user values.                              *)

\* x and y have the same user values.  Symbols that are not y may have been
\* selected in x only.
CloseInputs(x, y) ==
    /\ \A i \in Items : x[<<i, "user">>] = y[<<i, "user">>]
    /\ \A c \in Choices :
          \/ x[<<c, "usel">>] = y[<<c, "usel">>]
          \/ y[<<c, "usel">>] = None /\ \A s \in Members(c) : x[<<s, "user">>] # 2

\* A file written for x would have the user values of x.
Settled(x) ==
    \A s \in Syms : IF x[<<s, "user">>] = None THEN ~WriteToConf(x, s)
                    ELSE Val(x, s) = x[<<s, "user">>]

\* A selection that was not read from the file is not used, or was none.
LEMMA KeptSelectionIsSame ==
    ASSUME IsTree, NEW x, IsConfiguration(x), NEW y, IsConfiguration(y),
           CloseInputs(x, y), Settled(x), NEW c \in Choices,
           \A q \in Selection(x, c).r : q # <<c, "usel">> => x[q] = y[q]
    PROVE  Selection(x, c).v = Selection(y, c).v
<1> DEFINE us(z) == UserSelection(z, c, z[<<c, "usel">>])
           default(z) == SelectionFromDefaults(z, c)
           u == x[<<c, "usel">>]
<1>0. IsEnv(x) /\ IsEnv(y) /\ Calculated(x, x)
  BY DEF IsConfiguration
<1>1. \A z : Selection(z, c) =
               [v |-> IF Mode(z, c) # 2 THEN NoSelection ELSE us(z).v,
                r |-> ChoiceTriValue(z, c).r
                         \cup (IF Mode(z, c) # 2 THEN {} ELSE {<<c, "usel">>} \cup us(z).r)]
  BY DEF Selection, SelectionInMode, AfterReading, Just, Mode
<1>2. \A z : us(z) = IF z[<<c, "usel">>] = None THEN default(z)
                     ELSE [v |-> IF Vis(z, z[<<c, "usel">>]) # 0 THEN z[<<c, "usel">>] ELSE default(z).v,
                           r |-> {<<z[<<c, "usel">>], "vis">>} \cup
                                   (IF Vis(z, z[<<c, "usel">>]) # 0 THEN {} ELSE default(z).r)]
  BY DEF UserSelection, AfterReading, Just
<1>3. u \in Members(c) \cup {None} /\ <<c, "usel">> \in Cells
  <2>1. <<c, "usel">> \in Cells /\ CellValues(<<c, "usel">>) = Members(c)
    BY CellForms, CellKinds
  <2> QED BY <1>0, <2>1 DEF IsEnv
<1>4. <<c, "usel">> \notin ChoiceTriValue(x, c).r /\ <<c, "usel">> \notin default(x).r
  <2>1. Whole(default(x).r, x)
    BY <1>0, DefaultSelectionIsWhole
  <2>2. ChoiceTriValue(x, c).r \subseteq {<<c, "user">>, <<c, "vis">>, <<Modules, "val">>}
    BY <1>0, ChoiceTriValueIs
  <2> HIDE DEF default
  <2> QED BY <2>1, <2>2 DEF Whole
<1>5. Mode(y, c) = Mode(x, c)
  <2>1. ChoiceTriValue(x, c).r \subseteq Selection(x, c).r
    BY <1>1
  <2>2. SameReads(ChoiceTriValue(x, c), x, y)
    BY <1>4, <2>1 DEF SameReads
  <2> QED BY <1>0, <2>2, ChoiceTriValueIs DEF Mode
<1>6. default(x).r \subseteq Selection(x, c).r => default(y) = default(x)
  BY <1>0, <1>4, SelectionFromDefaultsIs DEF Decided, SameReads
<1> HIDE DEF us, default
<1>7. CASE Mode(x, c) # 2
  BY <1>1, <1>5, <1>7
<1>8. CASE Mode(x, c) = 2 /\ u = None
  <2>1. y[<<c, "usel">>] = None
    BY <1>8 DEF CloseInputs
  <2>2. us(x) = default(x) /\ us(y) = default(y)
    BY <1>2, <1>8, <2>1
  <2>3. default(x).r \subseteq Selection(x, c).r
    BY <1>1, <1>8, <2>2
  <2>4. Selection(x, c).v = us(x).v /\ Selection(y, c).v = us(y).v
    BY <1>1, <1>5, <1>8
  <2> QED BY <1>6, <2>2, <2>3, <2>4
<1>9. CASE Mode(x, c) = 2 /\ u # None
  <2>0. u \in Syms /\ ChoiceOf[u] = c /\ c # None /\ u \in Members(c)
    BY <1>3, <1>9, ItemsAssumption DEF Members, Items
  <2>1. /\ us(x).v = IF Vis(x, u) # 0 THEN u ELSE default(x).v
        /\ us(x).r = {<<u, "vis">>} \cup (IF Vis(x, u) # 0 THEN {} ELSE default(x).r)
    BY <1>2, <1>9
  <2>2. Selection(x, c).v = us(x).v /\ Selection(y, c).v = us(y).v /\ us(x).r \subseteq Selection(x, c).r
    BY <1>1, <1>5, <1>9
  <2> HIDE DEF u
  <2>3. Vis(y, u) = Vis(x, u)
    <3>1. <<u, "vis">> \in Selection(x, c).r /\ <<u, "vis">> # <<c, "usel">>
      BY <2>1, <2>2
    <3>2. x[<<u, "vis">>] = y[<<u, "vis">>]
      BY <3>1
    <3> QED BY <3>2 DEF Vis
  <2>4. Vis(x, u) = 0 => default(y) = default(x)
    BY <1>6, <2>1, <2>2
  <2>5. CASE y[<<c, "usel">>] = u
    <3>1. us(y).v = IF Vis(y, u) # 0 THEN u ELSE default(y).v
      BY <1>2, <1>9, <2>5
    <3> QED BY <2>1, <2>2, <2>3, <2>4, <3>1
  <2>6. CASE y[<<c, "usel">>] # u
    <3>1. y[<<c, "usel">>] = None /\ x[<<u, "user">>] # 2
      BY <2>0, <2>6 DEF CloseInputs, u
    <3>2. us(y) = default(y)
      BY <1>2, <3>1
    <3>3. Vis(x, u) = 0
      <4> SUFFICES ASSUME Vis(x, u) # 0 PROVE FALSE
        OBVIOUS
      <4>1. /\ x[<<u, "vis">>] = Visibility(x, u).v
            /\ Vis(x, u) = x[<<u, "vis">>]
            /\ Val(x, u) = ChoiceSymValue(x, u, Vis(x, u)).v
            /\ x[<<c, "sel">>] = Selection(x, c).v
        BY <1>0, <2>0, ChoiceSymsAre
      <4>2. Visibility(x, u).v \in {0, 2}
        BY <1>0, <1>9, <2>0, ModeDecidesVisibility
      <4>3. Vis(x, u) = 2
        BY <4>1, <4>2
      <4>4. x[<<c, "sel">>] = u
        BY <2>1, <2>2, <4>1
      <4>5. Val(x, u) = 2
        BY <2>0, <4>1, <4>3, <4>4 DEF ChoiceSymValue
      <4>6. WriteToConf(x, u)
        BY <4>1, <4>3 DEF WriteToConf
      <4> QED BY <2>0, <3>1, <4>5, <4>6 DEF Settled
    <3> QED BY <2>1, <2>2, <2>4, <3>2, <3>3
  <2> QED BY <2>5, <2>6
<1> QED BY <1>7, <1>8, <1>9

\* Attribute for attribute, in the order of reading.
LEMMA SettledIsSame ==
    ASSUME IsTree, NEW Order, Ordered(Order), NEW x, IsConfiguration(x), NEW y, IsConfiguration(y),
           CloseInputs(x, y), Settled(x)
    PROVE  SameValues(x, y)
<1> DEFINE Wrong == {p \in Attributes : x[p] # y[p]}
<1>0. /\ IsEnv(x) /\ IsEnv(y) /\ Evaluator
      /\ \A p \in Attributes : /\ x[p] = Calculate(x, p).v /\ y[p] = Calculate(y, p).v
                               /\ AttrReads(p, x) = Calculate(x, p).r
  BY TreeIsAnEvaluator DEF IsConfiguration, Calculated, IsTree, TreeValue, TreeReads
<1>1. Wrong = {}
  <2> SUFFICES ASSUME Wrong # {} PROVE FALSE
    OBVIOUS
  <2>1. PICK p \in Wrong : \A q \in Wrong : ~(<<q, p>> \in Order)
    <3>1. Wrong \subseteq Attributes
      OBVIOUS
    <3> HIDE DEF Wrong
    <3> QED BY <3>1, WFMin DEF Ordered
  <2>2. p \in Attributes /\ x[p] # y[p]
    BY <2>1
  <2>3. \A q \in Calculate(x, p).r \cap Attributes : x[q] = y[q]
    <3> SUFFICES ASSUME NEW q \in Calculate(x, p).r, q \in Attributes
                 PROVE  q \notin Wrong
      OBVIOUS
    <3>1. <<q, p>> \in Order
      BY <1>0, <2>2 DEF Ordered
    <3> QED BY <2>1, <3>1
  <2>4. \A q \in Calculate(x, p).r : q \in Cells
    BY <1>0, <2>2 DEF Evaluator, ReadsAreDependencies
  <2>5. \A q \in Calculate(x, p).r :
           (\A c \in Choices : q # <<c, "usel">>) => x[q] = y[q]
    <3> SUFFICES ASSUME NEW q \in Calculate(x, p).r, \A c \in Choices : q # <<c, "usel">>
                 PROVE  x[q] = y[q]
      OBVIOUS
    <3>1. CASE q \in Attributes
      BY <2>3, <3>1
    <3>2. CASE q \notin Attributes
      <4>1. \E i \in Items : q = <<i, "user">>
        BY <2>4, <3>2 DEF Cells, Inputs
      <4> QED BY <4>1 DEF CloseInputs
    <3> QED BY <3>1, <3>2
  <2>6. CASE \E c \in Choices : p = <<c, "sel">>
    <3>1. PICK c \in Choices : p = <<c, "sel">>
      BY <2>6
    <3>2. \A z : Calculate(z, p) = Selection(z, c)
      BY <3>1 DEF Calculate
    <3>3. \A q \in Selection(x, c).r : q # <<c, "usel">> => x[q] = y[q]
      <4> SUFFICES ASSUME NEW q \in Calculate(x, p).r, q # <<c, "usel">>
                   PROVE  \A d \in Choices : q # <<d, "usel">>
        BY <2>5, <3>2
      <4>1. ASSUME NEW d \in Choices, q = <<d, "usel">> PROVE d = c
        <5>1. p = <<d, "sel">>
          BY <1>0, <2>2, <4>1, UserValueReaders
        <5> QED BY <3>1, <5>1
      <4> QED BY <4>1
    <3>4. Selection(x, c).v = Selection(y, c).v
      BY <3>3, KeptSelectionIsSame
    <3> QED BY <1>0, <2>2, <3>2, <3>4
  <2>7. CASE ~\E c \in Choices : p = <<c, "sel">>
    <3>1. \A q \in Calculate(x, p).r, c \in Choices : q # <<c, "usel">>
      <4>1. ASSUME NEW c \in Choices, <<c, "usel">> \in Calculate(x, p).r PROVE FALSE
        <5>1. p = <<c, "sel">>
          BY <1>0, <2>2, <4>1, UserValueReaders
        <5> QED BY <2>7, <5>1
      <4> QED BY <4>1
    <3>2. \A q \in Calculate(x, p).r : x[q] = y[q]
      BY <2>5, <3>1
    <3>3. AttrValue(p, y) = AttrValue(p, x)
      BY <1>0, <2>2, <3>2 DEF Evaluator, ReadsDecide
    <3>4. x[p] = AttrValue(p, x) /\ y[p] = AttrValue(p, y)
      BY <2>2 DEF IsConfiguration, Calculated
    <3> QED BY <2>2, <3>3, <3>4
  <2> QED BY <2>6, <2>7
<1>2. ASSUME NEW s \in Syms PROVE Val(x, s) = Val(y, s)
  <2>1. <<s, "val">> \in Attributes
    BY DEF Attributes
  <2> QED BY <1>1, <2>1 DEF Val
<1> QED BY <1>2 DEF SameValues

\* The states a and b when the same lines have been read, b from a beginning
\* without user values.
ReadOver(a, b) ==
    /\ a.set = b.set
    /\ \A i \in Items : IF i \in a.set THEN a.env[<<i, "user">>] = b.env[<<i, "user">>]
                        ELSE b.env[<<i, "user">>] = None
    /\ \A c \in Choices :
          /\ c \notin a.set => b.env[<<c, "usel">>] = None
          /\ \/ a.env[<<c, "usel">>] = b.env[<<c, "usel">>]
             \/ /\ b.env[<<c, "usel">>] = None
                /\ \A s \in Members(c) : b.env[<<s, "user">>] # 2

\* Another line.
LEMMA LineIsReadOver ==
    ASSUME Evaluator, NEW a \in Cached, NEW b \in Cached, ReadOver(a, b),
           NEW s \in Syms, NEW v \in TypeValues(s)
    PROVE  ReadOver(AssignLine(a, s, v), AssignLine(b, s, v))
<1> DEFINE c == ChoiceOf[s]
           mode == c # None /\ v # 0 /\ v \in TypeValues(c)
           a2 == AssignLine(a, s, v)
           b2 == AssignLine(b, s, v)
           new == {s} \cup (IF mode THEN {c} ELSE {})
           Set(e, q) == IF q = <<s, "user">> THEN v
                        ELSE IF c # None /\ v = 2 /\ q = <<c, "usel">> THEN s
                        ELSE IF mode /\ q = <<c, "user">> THEN v
                        ELSE e[q]
<1>1. /\ a2.set = a.set \cup new /\ b2.set = b.set \cup new
      /\ \A q \in Inputs : a2.env[q] = Set(a.env, q) /\ b2.env[q] = Set(b.env, q)
  BY AssignLineIs
<1>2. /\ s \in Items /\ s \notin Choices /\ None \notin Items /\ v \in 0 .. 2
      /\ c # None => c \in Choices /\ c \in Items /\ c # s
      /\ c # None /\ v = 2 => mode
  BY ItemsAssumption DEF Items, TypeValues
<1> HIDE DEF a2, b2
<1>3. a2.set = b2.set
  BY <1>1 DEF ReadOver
<1>4. ASSUME NEW i \in Items
      PROVE  IF i \in a2.set THEN a2.env[<<i, "user">>] = b2.env[<<i, "user">>]
             ELSE b2.env[<<i, "user">>] = None
  <2>1. <<i, "user">> \in Inputs
    BY CellForms
  <2>2. \A e : Set(e, <<i, "user">>) =
                 IF i = s THEN v ELSE IF mode /\ i = c THEN v ELSE e[<<i, "user">>]
    BY <1>2
  <2> HIDE DEF Set, mode, c
  <2>3. /\ a2.env[<<i, "user">>] =
              IF i = s THEN v ELSE IF mode /\ i = c THEN v ELSE a.env[<<i, "user">>]
        /\ b2.env[<<i, "user">>] =
              IF i = s THEN v ELSE IF mode /\ i = c THEN v ELSE b.env[<<i, "user">>]
    BY <1>1, <2>1, <2>2
  <2>4. i \in a2.set <=> i \in a.set \/ i = s \/ (mode /\ i = c)
    BY <1>1
  <2>5. IF i \in a.set THEN a.env[<<i, "user">>] = b.env[<<i, "user">>]
        ELSE b.env[<<i, "user">>] = None
    BY DEF ReadOver
  <2> QED BY <2>3, <2>4, <2>5
<1>5. ASSUME NEW d \in Choices
      PROVE  /\ d \notin a2.set => b2.env[<<d, "usel">>] = None
             /\ \/ a2.env[<<d, "usel">>] = b2.env[<<d, "usel">>]
                \/ /\ b2.env[<<d, "usel">>] = None
                   /\ \A t \in Members(d) : b2.env[<<t, "user">>] # 2
  <2>1. <<d, "usel">> \in Inputs /\ d # None
    BY CellForms, ItemsAssumption DEF Items
  <2>2. \A e : Set(e, <<d, "usel">>) = IF d = c /\ v = 2 THEN s ELSE e[<<d, "usel">>]
    BY <2>1
  <2>3. /\ a2.env[<<d, "usel">>] = IF d = c /\ v = 2 THEN s ELSE a.env[<<d, "usel">>]
        /\ b2.env[<<d, "usel">>] = IF d = c /\ v = 2 THEN s ELSE b.env[<<d, "usel">>]
    <3> HIDE DEF Set
    <3> QED BY <1>1, <2>1, <2>2
  <2>4. /\ d \notin a.set => b.env[<<d, "usel">>] = None
        /\ \/ a.env[<<d, "usel">>] = b.env[<<d, "usel">>]
           \/ b.env[<<d, "usel">>] = None /\ \A t \in Members(d) : b.env[<<t, "user">>] # 2
    BY DEF ReadOver
  <2>5. CASE d = c /\ v = 2
    BY <1>1, <1>2, <2>1, <2>3, <2>5
  <2>6. CASE ~(d = c /\ v = 2)
    <3>1. d \notin a2.set => d \notin a.set
      BY <1>1
    <3>2. ASSUME NEW t \in Members(d), b.env[<<t, "user">>] # 2 PROVE b2.env[<<t, "user">>] # 2
      <4>1. t \in Syms /\ ChoiceOf[t] = d /\ <<t, "user">> \in Inputs /\ (c # None => t # c)
        BY <1>2, CellForms, ItemsAssumption DEF Members, Items
      <4>2. b2.env[<<t, "user">>] = IF t = s THEN v ELSE b.env[<<t, "user">>]
        BY <1>1, <4>1
      <4>3. t = s => v # 2
        BY <2>6, <4>1
      <4> QED BY <3>2, <4>2, <4>3
    <3> QED BY <2>3, <2>4, <2>6, <3>1, <3>2
  <2> QED BY <2>5, <2>6
<1> QED BY <1>3, <1>4, <1>5 DEF ReadOver, a2, b2

\* All lines.
LEMMA FileIsReadOver ==
    ASSUME Evaluator, NEW file, Fitting(file), NEW a \in Cached, NEW b \in Cached, ReadOver(a, b)
    PROVE  ReadOver(LoadLines(a, file), LoadLines(b, file))
<1>1. /\ Assigns(file) /\ Len(file) \in Nat
      /\ \A k \in 1 .. Len(file) : file[k][1] \in Syms /\ file[k][2] \in TypeValues(file[k][1])
  BY DEF Fitting, Assigns
<1> DEFINE Unfolds(after, st) ==
              /\ \A k \in 0 .. Len(file) :
                    /\ after[k] \in Cached
                    /\ after[k] = IF k = 0 THEN st
                                  ELSE AssignLine(after[k - 1], file[k][1], file[k][2])
              /\ LoadLines(st, file) = after[Len(file)]
<1>2. PICK f : Unfolds(f, a)
  BY <1>1, LoadLinesUnfolds
<1>3. PICK g : Unfolds(g, b)
  BY <1>1, LoadLinesUnfolds
<1> DEFINE Wrong == {k \in 0 .. Len(file) : ~ReadOver(f[k], g[k])}
<1>4. Wrong = {}
  <2> SUFFICES ASSUME Wrong # {} PROVE FALSE
    OBVIOUS
  <2>1. PICK k \in Wrong : \A j \in Wrong : k <= j
    <3>1. Wrong \in SUBSET Nat
      BY <1>1
    <3> HIDE DEF Wrong
    <3> QED BY <3>1, LeastNumber
  <2>2. k \in 0 .. Len(file) /\ ~ReadOver(f[k], g[k])
    BY <2>1
  <2>3. k # 0
    BY <1>2, <1>3, <2>2
  <2> DEFINE j == k - 1
  <2>4. j \in 0 .. Len(file) /\ ~(k <= j) /\ k \in 1 .. Len(file)
    BY <1>1, <2>2, <2>3
  <2>5. /\ f[k] = AssignLine(f[j], file[k][1], file[k][2]) /\ f[j] \in Cached
        /\ g[k] = AssignLine(g[j], file[k][1], file[k][2]) /\ g[j] \in Cached
    BY <1>2, <1>3, <2>2, <2>3, <2>4
  <2> HIDE DEF j
  <2>6. ReadOver(f[j], g[j])
    <3>1. j \notin Wrong
      <4> HIDE DEF Wrong
      <4> QED BY <2>1, <2>4
    <3> QED BY <2>4, <3>1
  <2>7. ReadOver(f[k], g[k])
    BY <1>1, <2>4, <2>5, <2>6, LineIsReadOver
  <2> QED BY <2>2, <2>7
<1>5. ReadOver(f[Len(file)], g[Len(file)])
  <2>1. Len(file) \in 0 .. Len(file)
    BY <1>1
  <2> QED BY <1>4, <2>1
<1> QED BY <1>2, <1>3, <1>5

----------------------------------------------------------------------------
(* Configurations made of files and of other configurations.                *)

\* A sequence of assignments.
IsFile(f) == f \in Seq(Seqs!ToSet(f))

\* Of a file, the lines that fit are used.
LEMMA AcceptedFits ==
    ASSUME NEW f, IsFile(f)
    PROVE  Fitting(Accepted(f))
<1> DEFINE T == Seqs!ToSet(f)
           S == {line \in T : line[1] \in Syms /\ line[2] \in TypeValues(line[1])}
           g == Those(f, S)
<1>1. g \in Seq(T) /\ Seqs!ToSet(g) = T \cap S
  BY ThoseIs DEF IsFile
<1>2. Accepted(f) = g
  BY DEF Accepted
<1> HIDE DEF g
<1>3. \A k \in DOMAIN g : g[k] \in Seqs!ToSet(g)
  BY DEF Seqs!ToSet
<1>4. g \in Seq(Seqs!ToSet(g))
  <2>1. Len(g) \in Nat /\ DOMAIN g = 1 .. Len(g) /\ g = [k \in 1 .. Len(g) |-> g[k]]
    BY <1>1
  <2> QED BY <1>3, <2>1
<1>5. \A k \in DOMAIN g : g[k][1] \in Syms /\ g[k][2] \in TypeValues(g[k][1])
  BY <1>1, <1>3
<1> QED BY <1>2, <1>4, <1>5 DEF Assigns, Fitting

\* Files and assignments give configurations.
LEMMA LoadedIsConfiguration ==
    ASSUME IsTree, NEW Order, Ordered(Order), NEW f, f = Absent \/ IsFile(f)
    PROVE  IsConfiguration(Loaded(f))
<1>1. CacheInv(IF f = Absent THEN NoValues ELSE LoadFresh(Accepted(f)))
  <2>1. CASE f = Absent
    BY <2>1, NoValuesAreCached
  <2>2. CASE f # Absent
    <3> DEFINE st == [env |-> NoValues, set |-> {}]
    <3>1. st \in Cached
      BY NoValuesAreCached, CachedIs DEF IsState
    <3>2. LoadLines(st, Accepted(f)) \in Cached
      BY <2>2, <3>1, TreeIsAnEvaluator, AcceptedFits, LoadLinesIsSafe DEF Fitting
    <3> QED BY <2>2, <3>2, CachedIs DEF LoadFresh
  <2> QED BY <2>1, <2>2
<1> QED BY <1>1, ConfigIsConfiguration DEF Loaded

\* So do files loaded over the user values.
LEMMA ReplacedIsConfiguration ==
    ASSUME IsTree, NEW Order, Ordered(Order), NEW f, IsFile(f), NEW x, IsConfiguration(x)
    PROVE  IsConfiguration(Replaced(x, f))
<1> DEFINE first == [env |-> x, set |-> {}]
           st == LoadLines(first, Accepted(f))
<1>1. first \in Cached
  BY ConfigurationIsCached, TreeIsAnEvaluator, CachedIs DEF IsState
<1> HIDE DEF first
<1>2. st \in Cached
  BY <1>1, TreeIsAnEvaluator, AcceptedFits, LoadLinesIsSafe DEF Fitting
<1>3. Replaced(x, f) = Config(Unset(st.env, Items \ st.set))
  BY DEF Replaced, first
<1> HIDE DEF st
<1>4. CacheInv(Unset(st.env, Items \ st.set))
  BY <1>2, CachedIs, TreeIsAnEvaluator, UnsetIsSafe
<1> QED BY <1>3, <1>4, ConfigIsConfiguration

\* set_value() gives a configuration with one user value changed, and the
\* selected symbol of a choice.
LEMMA WithValueIsConfiguration ==
    ASSUME IsTree, NEW Order, Ordered(Order), NEW x, IsConfiguration(x), NEW i \in Items, NEW v
    PROVE  /\ IsConfiguration(WithValue(x, i, v))
           /\ i \in Choices /\ v \in TypeValues(i) =>
                 \A q \in Inputs : WithValue(x, i, v)[q] = IF q = <<i, "user">> THEN v ELSE x[q]
           /\ i \in Syms /\ v \in TypeValues(i) =>
                 \A q \in Inputs : WithValue(x, i, v)[q] =
                     IF q = <<i, "user">> THEN v
                     ELSE IF ChoiceOf[i] # None /\ v = 2 /\ q = <<ChoiceOf[i], "usel">> THEN i
                     ELSE x[q]
<1> DEFINE st == [env |-> x, set |-> {}]
           end == IF i \in Choices THEN AssignMode(st, i, v) ELSE Assign(st, i, v)
<1>1. IsState(st) /\ CacheInv(st.env) /\ Evaluator /\ st.env = x
  BY ConfigurationIsCached, TreeIsAnEvaluator DEF IsState
<1>2. x = [q \in Cells |-> x[q]]
  BY DEF IsConfiguration, IsEnv
<1>3. WithValue(x, i, v) = Config(end.env)
  BY DEF WithValue
<1> HIDE DEF st
<1>4. CacheInv(end.env)
  BY <1>1, AssignIsSafe, AssignModeIsSafe DEF Items
<1>5. IsConfiguration(Config(end.env)) /\ \A q \in Inputs : Config(end.env)[q] = end.env[q]
  <2> HIDE DEF end
  <2> QED BY <1>4, ConfigIsConfiguration
<1>6. i \in Choices /\ v \in TypeValues(i) =>
         \A q \in Inputs : end.env[q] = IF q = <<i, "user">> THEN v ELSE x[q]
  BY <1>1, <1>2, AssignModeInputs
<1>7. i \in Syms /\ v \in TypeValues(i) =>
         \A q \in Inputs : end.env[q] =
             IF q = <<i, "user">> THEN v
             ELSE IF ChoiceOf[i] # None /\ v = 2 /\ q = <<ChoiceOf[i], "usel">> THEN i
             ELSE x[q]
  <2> SUFFICES ASSUME i \in Syms, v \in TypeValues(i), NEW q \in Inputs
               PROVE  end.env[q] = IF q = <<i, "user">> THEN v
                         ELSE IF ChoiceOf[i] # None /\ v = 2 /\ q = <<ChoiceOf[i], "usel">> THEN i
                         ELSE x[q]
    OBVIOUS
  <2>1. i \notin Choices /\ end = Assign(st, i, v)
    BY ItemsAssumption
  <2> HIDE DEF end
  <2> QED BY <1>1, <1>2, <2>1, AssignInputs
<1> HIDE DEF end
<1> QED BY <1>3, <1>5, <1>6, <1>7

\* What is written is a file.
LEMMA WriteConfigIsFile ==
    ASSUME NEW x
    PROVE  IsFile(WriteConfig(x))
<1> DEFINE syms == Those(SymOrder, {s \in Syms : WriteToConf(x, s)})
           file == WriteConfig(x)
<1>1. syms \in Seq(Syms)
  BY OrderAssumption, ThoseIs
<1>2. file = [k \in DOMAIN syms |-> <<syms[k], Val(x, syms[k])>>]
  BY DEF WriteConfig, ConfigStrings
<1> HIDE DEF syms, file
<1>3. DOMAIN syms = 1 .. Len(syms) /\ Len(syms) \in Nat
  BY <1>1
<1>4. file \in [1 .. Len(syms) -> Seqs!ToSet(file)]
  BY <1>2, <1>3 DEF Seqs!ToSet
<1>5. file \in Seq(Seqs!ToSet(file))
  BY <1>3, <1>4
<1> QED BY <1>5 DEF IsFile, file

\* What a write that breaks off leaves is a file, but not the whole one.
LEMMA CutAfterIsFile ==
    ASSUME NEW file, IsFile(file), NEW n \in Nat, n < Len(file)
    PROVE  IsFile(CutAfter(file, n)) /\ ~Intact(CutAfter(file, n))
<1> DEFINE kept == SubSeq(file, 1, n)
           half == <<file[n + 1][1], None>>
           cut  == CutAfter(file, n)
<1>1. kept \in Seq(Seqs!ToSet(file)) /\ Len(kept) = n
  BY DEF IsFile
<1>2. cut = Append(kept, half)
  BY DEF CutAfter
<1> HIDE DEF kept, half, cut
<1>3. /\ Len(cut) = n + 1 /\ DOMAIN cut = 1 .. n + 1
      /\ cut \in Seq(Seqs!ToSet(file) \cup {half}) /\ cut[n + 1] = half
  BY <1>1, <1>2
<1>4. cut \in [1 .. n + 1 -> Seqs!ToSet(cut)]
  BY <1>3 DEF Seqs!ToSet
<1>5. cut \in Seq(Seqs!ToSet(cut))
  BY <1>4
<1>6. half[2] = None
  BY DEF half
<1> QED BY <1>3, <1>5, <1>6 DEF IsFile, Intact, cut

\* A file that leaves nothing to save gives the values it would give to a new
\* instance.
LEMMA ReplacedIsLoaded ==
    ASSUME IsTree, NEW Order, Ordered(Order), NEW f, IsFile(f), f # Absent,
           NEW x, IsConfiguration(x), ~NeedsSave(Replaced(x, f), f)
    PROVE  SameValues(Replaced(x, f), Loaded(f))
<1> DEFINE file == Accepted(f)
           first == [env |-> x, set |-> {}]
           none == [env |-> NoValues, set |-> {}]
           a == LoadLines(first, file)
           b == LoadLines(none, file)
           e == Unset(a.env, Items \ a.set)
           z == Config(e)
           y == Config(b.env)
<1>1. Fitting(file) /\ Evaluator
  BY AcceptedFits, TreeIsAnEvaluator
<1>2. first \in Cached /\ none \in Cached
  BY <1>1, ConfigurationIsCached, NoValuesAreCached, CachedIs DEF IsState
<1>3. ReadOver(first, none)
  <2>1. \A q \in Inputs : NoValues[q] = None
    BY CellForms DEF NoValues
  <2>2. /\ \A i \in Items : <<i, "user">> \in Inputs
        /\ \A c \in Choices : <<c, "usel">> \in Inputs
        /\ None # 2
    <3>1. None # 2
      BY ItemsAssumption
    <3> QED BY <3>1, CellForms
  <2> HIDE DEF first, none
  <2>3. first.set = {} /\ none.set = {} /\ none.env = NoValues
    BY DEF first, none
  <2>4. \A c \in Choices : \A s \in Members(c) : NoValues[<<s, "user">>] # 2
    BY <2>1, <2>2 DEF Members, Items
  <2> QED BY <2>1, <2>2, <2>3, <2>4 DEF ReadOver
<1> HIDE DEF first, none
<1>4. ReadOver(a, b) /\ a \in Cached /\ b \in Cached
  BY <1>1, <1>2, <1>3, FileIsReadOver, LoadLinesIsSafe DEF Fitting
<1>5. Replaced(x, f) = z /\ Loaded(f) = y
  BY DEF Replaced, Loaded, LoadFresh, first, none
<1> HIDE DEF file, a, b
<1>6. CacheInv(e) /\ CacheInv(b.env)
  BY <1>1, <1>4, CachedIs, UnsetIsSafe
<1>7. ASSUME NEW q \in Inputs
      PROVE  e[q] = IF q[1] \in Items \ a.set /\ HasUser(a.env, q[1]) THEN None ELSE a.env[q]
  <2>1. q \in Cells /\ q \notin Attributes
    BY CellForms
  <2>2. \A v, roots : RecInvalidate(v, roots)[q] = v[q]
    BY <2>1 DEF RecInvalidate
  <2> QED BY <2>1, <2>2 DEF Unset
<1> HIDE DEF e
<1>8. /\ IsConfiguration(z) /\ \A q \in Inputs : z[q] = e[q]
      /\ IsConfiguration(y) /\ \A q \in Inputs : y[q] = b.env[q]
  BY <1>6, ConfigIsConfiguration
<1> HIDE DEF z, y
<1>9. ASSUME NEW i \in Items PROVE z[<<i, "user">>] = y[<<i, "user">>]
  <2>1. <<i, "user">> \in Inputs
    BY CellForms
  <2>2. /\ z[<<i, "user">>] = IF i \notin a.set /\ HasUser(a.env, i) THEN None ELSE a.env[<<i, "user">>]
        /\ y[<<i, "user">>] = b.env[<<i, "user">>]
    BY <1>7, <1>8, <2>1
  <2>3. IF i \in a.set THEN a.env[<<i, "user">>] = b.env[<<i, "user">>]
        ELSE b.env[<<i, "user">>] = None
    BY <1>4 DEF ReadOver
  <2>4. ~HasUser(a.env, i) => a.env[<<i, "user">>] = None
    BY DEF HasUser
  <2> QED BY <2>2, <2>3, <2>4
<1>10. ASSUME NEW c \in Choices
       PROVE  \/ z[<<c, "usel">>] = y[<<c, "usel">>]
              \/ y[<<c, "usel">>] = None /\ \A s \in Members(c) : z[<<s, "user">>] # 2
  <2>1. <<c, "usel">> \in Inputs /\ c \in Items /\ \A s \in Members(c) : s \in Items /\ <<s, "user">> \in Inputs
    BY CellForms DEF Items, Members
  <2>2. /\ z[<<c, "usel">>] = IF c \notin a.set /\ HasUser(a.env, c) THEN None ELSE a.env[<<c, "usel">>]
        /\ y[<<c, "usel">>] = b.env[<<c, "usel">>]
    BY <1>7, <1>8, <2>1
  <2>3. /\ c \notin a.set => b.env[<<c, "usel">>] = None
        /\ \/ a.env[<<c, "usel">>] = b.env[<<c, "usel">>]
           \/ b.env[<<c, "usel">>] = None /\ \A s \in Members(c) : b.env[<<s, "user">>] # 2
    BY <1>4 DEF ReadOver
  <2>4. ~HasUser(a.env, c) => a.env[<<c, "usel">>] = None
    BY DEF HasUser
  <2>5. \A s \in Members(c) : z[<<s, "user">>] = b.env[<<s, "user">>]
    BY <1>8, <1>9, <2>1
  <2> QED BY <2>2, <2>3, <2>4, <2>5
<1>11. CloseInputs(z, y)
  BY <1>9, <1>10 DEF CloseInputs
<1>12. Settled(z)
  BY <1>5 DEF NeedsSave, Settled
<1>13. SameValues(z, y)
  BY <1>8, <1>11, <1>12, SettledIsSame
<1> QED BY <1>5, <1>13

\* A file that was saved gives a new session the values it was saved with.
LEMMA WrittenIsLoaded ==
    ASSUME IsTree, NEW Order, Ordered(Order), NEW x, IsConfiguration(x),
           ModeIsInferred(x), DefaultsReturn(x), WriteConfig(x) # Absent
    PROVE  SameValues(x, Loaded(WriteConfig(x)))
<1> DEFINE syms == Those(SymOrder, {s \in Syms : WriteToConf(x, s)})
           file == WriteConfig(x)
           T == Seqs!ToSet(file)
           S == {line \in T : line[1] \in Syms /\ line[2] \in TypeValues(line[1])}
<1>1. syms \in Seq(Syms)
  BY OrderAssumption, ThoseIs
<1>2. file = [k \in DOMAIN syms |-> <<syms[k], Val(x, syms[k])>>]
  BY DEF WriteConfig, ConfigStrings
<1>3. file \in Seq(T)
  BY WriteConfigIsFile DEF IsFile
<1> HIDE DEF syms, file
<1>4. ASSUME NEW k \in DOMAIN file PROVE file[k] \in S
  <2>1. syms[k] \in Syms /\ file[k] = <<syms[k], Val(x, syms[k])>>
    BY <1>1, <1>2
  <2>2. Val(x, syms[k]) \in TypeValues(syms[k])
    BY <2>1, ValuesFitTypes
  <2>3. file[k] \in T
    BY DEF Seqs!ToSet
  <2> QED BY <2>1, <2>2, <2>3
<1>5. Accepted(file) = file
  <2>1. Those(file, S) = file
    <3> HIDE DEF S, T
    <3> QED BY <1>3, <1>4, ThoseAll
  <2> QED BY <2>1 DEF Accepted
<1>6. Loaded(file) = Config(LoadFresh(file))
  BY <1>5 DEF Loaded, file
<1> QED BY <1>6, WrittenIsReread DEF file

----------------------------------------------------------------------------
(* Elements of sequences.                                                   *)

\* What a sequence begins with is in it.
LEMMA HeadIsIn ==
    ASSUME NEW T, NEW seq \in Seq(T), seq # <<>>
    PROVE  seq[1] \in Seqs!ToSet(seq)
BY DEF Seqs!ToSet

\* list.index() of an element.
LEMMA IndexOfIs ==
    ASSUME NEW T, NEW seq \in Seq(T), NEW n, IsIn(n, seq)
    PROVE  IndexOf(seq, n) \in 0 .. Len(seq) - 1 /\ seq[IndexOf(seq, n) + 1] = n
<1> DEFINE k == CHOOSE k \in DOMAIN seq : seq[k] = n
<1>1. k \in DOMAIN seq /\ seq[k] = n
  BY DEF IsIn
<1>2. IndexOf(seq, n) = k - 1
  BY DEF IndexOf
<1> HIDE DEF k
<1> QED BY <1>1, <1>2

\* The elements of a sequence are those list.index() finds.
LEMMA IsInIs ==
    ASSUME NEW T, NEW seq \in Seq(T), NEW n
    PROVE  IsIn(n, seq) <=> n \in Seqs!ToSet(seq)
BY DEF IsIn, Seqs!ToSet

----------------------------------------------------------------------------
(* Menus and what they show.                                                *)

\* Every node has a position of its own.
LEMMA Positions ==
    ASSUME NEW n \in Nodes
    PROVE  IndexOf(NodeOrder, n) \in Nat
<1>1. NodeOrder \in Seq(Nodes) /\ IsIn(n, NodeOrder)
  BY NodesAssumption, IsInIs DEF Nodes
<1> QED BY <1>1, IndexOfIs

LowerNodes == {p \in Below \X Below : Before(p[1], p[2])}

\* Of any nodes, one is before the others.
LEMMA FirstNode == HasLowest(Below, LowerNodes)
<1> SUFFICES ASSUME NEW U \in SUBSET Below, U # {}
             PROVE  \E p \in U : \A q \in U : <<q, p>> \notin LowerNodes
  BY DEF HasLowest
<1> DEFINE T == {IndexOf(NodeOrder, n) : n \in U}
<1>1. T \in SUBSET Nat /\ T # {}
  BY Positions DEF Below
<1>2. PICK k \in T : \A j \in T : k <= j
  BY <1>1, LeastNumber
<1>3. PICK p \in U : k = IndexOf(NodeOrder, p)
  OBVIOUS
<1>4. ASSUME NEW q \in U PROVE <<q, p>> \notin LowerNodes
  <2>1. IndexOf(NodeOrder, q) \in T
    OBVIOUS
  <2>2. k <= IndexOf(NodeOrder, q) /\ IndexOf(NodeOrder, q) \in Nat /\ k \in Nat
    BY <1>1, <1>2, <2>1
  <2> QED BY <1>3, <2>2 DEF LowerNodes, Before
<1> QED BY <1>4

\* The recursion in _parent_menu() has a solution.
LEMMA ParentMenuUnfolds ==
    \A n \in Below : ParentMenu[n] = IF ParentOf[n] \in IsMenuconfig THEN ParentOf[n]
                                     ELSE ParentMenu[ParentOf[n]]
<1> DEFINE F == [Below -> IsMenuconfig]
           Next1(f) == [k \in Below |-> IF ParentOf[k] \in IsMenuconfig THEN ParentOf[k]
                                        ELSE f[ParentOf[k]]]
           Step == [f \in F |-> Next1(f)]
<1>1. TopNode \in IsMenuconfig
  <2>1. TopNode \in Nodes
    BY NodesAssumption DEF TopNode, Nodes, Seqs!ToSet
  <2> QED BY <2>1, NodesAssumption
<1>2. \A k \in Below : ParentOf[k] \in Nodes /\ Before(ParentOf[k], k)
  BY NodesAssumption
<1>3. \A k \in Below : ParentOf[k] \notin IsMenuconfig => ParentOf[k] \in Below
  BY <1>1, <1>2 DEF Below
<1>4. \A f \in F : Next1(f) \in F
  BY <1>3
<1>5. F # {} /\ PointByPoint(Below, F)
  <2>1. [k \in Below |-> TopNode] \in F
    BY <1>1
  <2>2. PointByPoint(Below, F)
    BY DEF PointByPoint
  <2> QED BY <2>1, <2>2
<1>6. DeterminedBelow(Below, F, Step, LowerNodes)
  <2> SUFFICES ASSUME NEW f \in F, NEW g \in F, NEW p \in Below,
                      \A q \in Below : <<q, p>> \in LowerNodes => f[q] = g[q]
               PROVE  Step[f][p] = Step[g][p]
    BY DEF DeterminedBelow
  <2>1. CASE ParentOf[p] \in IsMenuconfig
    BY <2>1
  <2>2. CASE ParentOf[p] \notin IsMenuconfig
    <3>1. ParentOf[p] \in Below /\ <<ParentOf[p], p>> \in LowerNodes
      BY <1>2, <1>3, <2>2 DEF LowerNodes
    <3> QED BY <2>2, <3>1
  <2> QED BY <2>1, <2>2
<1>7. \A f \in F : Step[f] \in F
  BY <1>4
<1> HIDE DEF F, Step
<1>8. PICK f \in F : f = Step[f]
  BY <1>5, <1>6, <1>7, FirstNode, RecursionHasSolution
<1>9. f = Next1(f)
  BY <1>8 DEF Step
<1>10. ParentMenu = CHOOSE h : h = Next1(h)
  BY DEF ParentMenu
<1> HIDE DEF Next1
<1>11. ParentMenu = Next1(ParentMenu)
  BY <1>9, <1>10
<1> USE DEF Next1
<1> QED BY <1>11, Zenon

\* It ends at a menu further up.
LEMMA ParentMenuIs ==
    ASSUME NEW n \in Below
    PROVE  ParentMenu[n] \in IsMenuconfig /\ Before(ParentMenu[n], n)
<1>1. TopNode \in IsMenuconfig
  <2>1. TopNode \in Nodes
    BY NodesAssumption DEF TopNode, Nodes, Seqs!ToSet
  <2> QED BY <2>1, NodesAssumption
<1>2. \A k \in Below : ParentOf[k] \in Nodes /\ Before(ParentOf[k], k)
  BY NodesAssumption
<1>3. \A k \in Below : ParentOf[k] \notin IsMenuconfig => ParentOf[k] \in Below
  BY <1>1, <1>2 DEF Below
<1> DEFINE Wrong == {k \in Below : ~(ParentMenu[k] \in IsMenuconfig /\ Before(ParentMenu[k], k))}
<1>4. Wrong = {}
  <2> SUFFICES ASSUME Wrong # {} PROVE FALSE
    OBVIOUS
  <2>1. PICK p \in Wrong : \A q \in Wrong : <<q, p>> \notin LowerNodes
    BY FirstNode DEF HasLowest
  <2>2. p \in Below /\ ParentOf[p] \notin IsMenuconfig
    BY <1>2, ParentMenuUnfolds
  <2>3. ParentOf[p] \in Below /\ <<ParentOf[p], p>> \in LowerNodes
    BY <1>2, <1>3, <2>2 DEF LowerNodes
  <2>4. ParentMenu[p] = ParentMenu[ParentOf[p]] /\ ParentOf[p] \notin Wrong
    BY ParentMenuUnfolds, <2>1, <2>2, <2>3
  <2>5. ParentMenu[p] \in IsMenuconfig /\ Before(ParentMenu[p], ParentOf[p])
    BY <2>3, <2>4
  <2>6. Before(ParentMenu[p], p)
    <3>1. ParentMenu[p] \in Nodes /\ ParentOf[p] \in Nodes /\ p \in Nodes
      BY <2>2, <2>3, <2>5, NodesAssumption DEF Below
    <3>2. Before(ParentOf[p], p)
      BY <1>2, <2>2
    <3> QED BY <2>5, <3>1, <3>2, Positions DEF Before
  <2> QED BY <2>5, <2>6
<1> QED BY <1>4

\* What a node shows, children first.
NodeShows(x, shows) ==
    shows = [n \in Nodes |->
                \/ Visible(x, n)
                \/ ItemOf[n] \in Syms /\ \E c \in Below : ParentOf[c] = n /\ shows[c]]

\* The recursion in _shown_nodes() has a solution.
LEMMA ShowsExists ==
    ASSUME NEW x
    PROVE  \E shows \in [Nodes -> BOOLEAN] : NodeShows(x, shows)
<1> DEFINE F == [Nodes -> BOOLEAN]
           Lower == {p \in Nodes \X Nodes : Before(p[2], p[1])}
           Next1(f) == [n \in Nodes |->
                \/ Visible(x, n)
                \/ ItemOf[n] \in Syms /\ \E c \in Below : ParentOf[c] = n /\ f[c]]
           Step == [f \in F |-> Next1(f)]
<1>1. \A f \in F : Next1(f) \in F
  OBVIOUS
<1>2. F # {}
  <2>1. [n \in Nodes |-> TRUE] \in F
    OBVIOUS
  <2> QED BY <2>1
<1>3. PointByPoint(Nodes, F)
  BY DEF PointByPoint
<1>4. HasLowest(Nodes, Lower)
  <2> SUFFICES ASSUME NEW U \in SUBSET Nodes, U # {}
               PROVE  \E p \in U : \A q \in U : <<q, p>> \notin Lower
    BY DEF HasLowest
  <2> DEFINE after(n) == Len(NodeOrder) - IndexOf(NodeOrder, n)
             T == {after(n) : n \in U}
  <2>1. \A n \in Nodes : after(n) \in Nat /\ IndexOf(NodeOrder, n) \in Nat
    <3> TAKE n \in Nodes
    <3>1. NodeOrder \in Seq(Nodes) /\ IsIn(n, NodeOrder)
      BY NodesAssumption, IsInIs DEF Nodes
    <3> QED BY <3>1, IndexOfIs
  <2>2. T \in SUBSET Nat /\ T # {}
    BY <2>1
  <2>3. PICK k \in T : \A j \in T : k <= j
    BY <2>2, LeastNumber
  <2>4. PICK p \in U : k = after(p)
    OBVIOUS
  <2>5. ASSUME NEW q \in U PROVE <<q, p>> \notin Lower
    <3>1. after(q) \in T
      OBVIOUS
    <3>2. after(p) <= after(q)
      BY <2>3, <2>4, <3>1
    <3>3. Len(NodeOrder) \in Nat
      BY NodesAssumption
    <3> QED BY <2>1, <3>2, <3>3 DEF Before
  <2> QED BY <2>5
<1>5. DeterminedBelow(Nodes, F, Step, Lower)
  <2> SUFFICES ASSUME NEW f \in F, NEW g \in F, NEW p \in Nodes,
                      \A q \in Nodes : <<q, p>> \in Lower => f[q] = g[q]
               PROVE  Step[f][p] = Step[g][p]
    BY DEF DeterminedBelow
  <2>1. \A c \in Below : ParentOf[c] = p => c \in Nodes /\ f[c] = g[c]
    <3> SUFFICES ASSUME NEW c \in Below, ParentOf[c] = p
                 PROVE  c \in Nodes /\ f[c] = g[c]
      OBVIOUS
    <3>1. c \in Nodes /\ Before(p, c)
      BY NodesAssumption DEF Below
    <3> QED BY <3>1
  <2> HIDE DEF F, Lower
  <2>2. Next1(f)[p] = Next1(g)[p]
    BY <2>1
  <2> QED BY <2>2
<1>6. \A f \in F : Step[f] \in F
  BY <1>1
<1> HIDE DEF F, Lower, Step
<1>7. PICK f \in F : f = Step[f]
  BY <1>2, <1>3, <1>4, <1>5, <1>6, RecursionHasSolution
<1>8. f = Next1(f)
  BY <1>7 DEF Step
<1> QED BY <1>8 DEF NodeShows, F

\* What _shown_nodes() shows below the top node without show-all.
LEMMA DisplayedIs ==
    ASSUME NEW x, NEW n \in Below
    PROVE  n \in Displayed(x, FALSE) <=>
              \/ Visible(x, n)
              \/ ItemOf[n] \in Syms /\ \E c \in Below : ParentOf[c] = n /\ c \in Displayed(x, FALSE)
<1> DEFINE shows == CHOOSE f : NodeShows(x, f)
<1>1. NodeShows(x, shows)
  BY ShowsExists
<1>2. Displayed(x, FALSE) = {k \in Below : FALSE \/ shows[k]}
  BY DEF Displayed, NodeShows
<1> HIDE DEF shows
<1>3. n \in Nodes
  BY DEF Below
<1>4. shows[n] <=> \/ Visible(x, n)
                   \/ ItemOf[n] \in Syms /\ \E c \in Below : ParentOf[c] = n /\ shows[c]
  BY <1>1, <1>3 DEF NodeShows
<1> QED BY <1>2, <1>4

\* Show-all shows everything, whatever the values.
LEMMA AllDisplayed ==
    ASSUME NEW x
    PROVE  Displayed(x, TRUE) = Below /\ \A y, all : Displayed(y, all) \subseteq Below
BY DEF Displayed

\* Above a node that is displayed, a symbol with a menu is displayed.
LEMMA SymbolAbove ==
    ASSUME NEW x, NEW n \in Displayed(x, FALSE), ItemOf[ParentMenu[n]] \in Syms
    PROVE  ParentMenu[n] \in Displayed(x, FALSE)
<1> DEFINE Wrong == {k \in Below : /\ k \in Displayed(x, FALSE)
                                   /\ ItemOf[ParentMenu[k]] \in Syms
                                   /\ ParentMenu[k] \notin Displayed(x, FALSE)}
<1>0. TopNode \in IsMenuconfig /\ ItemOf[TopNode] \notin Syms
  <2>1. TopNode \in Nodes
    BY NodesAssumption DEF TopNode, Nodes, Seqs!ToSet
  <2> QED BY <2>1, NodesAssumption DEF Items
<1>1. Wrong = {}
  <2> SUFFICES ASSUME Wrong # {} PROVE FALSE
    OBVIOUS
  <2>1. PICK p \in Wrong : \A q \in Wrong : <<q, p>> \notin LowerNodes
    BY FirstNode DEF HasLowest
  <2> DEFINE q == ParentOf[p]
  <2>2. /\ q \in Nodes /\ Before(q, p) /\ (q \in IsMenuconfig \/ ItemOf[q] \in Syms)
        /\ ParentMenu[p] = IF q \in IsMenuconfig THEN q ELSE ParentMenu[q]
    BY NodesAssumption, ParentMenuUnfolds
  <2>3. q # TopNode
    BY <1>0, <2>2
  <2>4. q \in Below
    BY <2>2, <2>3 DEF Below
  <2>5. ItemOf[q] \in Syms => q \in Displayed(x, FALSE)
    BY <2>4, DisplayedIs
  <2>6. q \notin IsMenuconfig
    BY <2>2, <2>5
  <2>7. q \in Wrong /\ <<q, p>> \in LowerNodes
    BY <2>2, <2>4, <2>5, <2>6 DEF LowerNodes
  <2> QED BY <2>1, <2>7
<1>2. n \in Below
  BY AllDisplayed
<1> QED BY <1>1, <1>2
=============================================================================
