----------------------------- MODULE KconfigTree -----------------------------
(***************************************************************************)
(* How kconfiglib.py computes the attributes of bool and tristate symbols  *)
(* and of choices from a finalized menu tree.  Tristate values are 0 (n),  *)
(* 1 (m) and 2 (y).                                                        *)
(*                                                                         *)
(* Everything is a function of an environment x that gives each cell its  *)
(* value.  Python's property accesses are hidden calls that fill caches,   *)
(* so a calculation yields a result v and the set r of cells read on the   *)
(* way, short-circuits included.                                           *)
(*                                                                         *)
(* Expressions are <<"const", v>>, <<"item", i>>, <<"and", a, b>>,         *)
(* <<"or", a, b>>, <<"not", a>> and the relation <<"eq", i, v>>.           *)
(***************************************************************************)
EXTENDS KconfigItems, Sequences

CONSTANTS
    Prompts,            \* Prompts[i]: the prompt condition of each menu node
    Defaults,           \* Defaults[i]: sequence of <<value, condition>>
    RevDep, WeakRevDep, \* conditions under which s is selected / implied
    DirectDep,          \* 'depends on' and enclosing ifs and choices
    ChoiceSyms,         \* ChoiceSyms[c]: its symbols, in order
    IsOptional,         \* IsOptional[c]
    Exprs               \* all expressions, with their subexpressions

\* The operands of an expression.
Parts(e) ==
    CASE e[1] \in {"and", "or"} -> {e[2], e[3]}
      [] e[1] = "not" -> {e[2]}
      [] e[1] \in {"item", "eq", "const"} -> {}

IsExpr(e) ==
    \/ e[1] = "const" /\ e[2] \in 0 .. 2
    \/ e[1] \in {"item", "eq"} /\ e[2] \in Items
    \/ e[1] \in {"and", "or", "not"} /\ Parts(e) \subseteq Exprs

----------------------------------------------------------------------------
(* Calculations: a result and the cells read.                               *)

Least(a, b)    == IF a < b THEN a ELSE b
Greatest(a, b) == IF a > b THEN a ELSE b

Just(v) == [v |-> v, r |-> {}]

\* a, when the cells in r have been read to find out that it is needed.
AfterReading(r, a) == [v |-> a.v, r |-> r \cup a.r]

\* The 0 of an attribute that is not there yet is never used, because the
\* caller calculates it first.
OrZero(v) == IF v = None THEN 0 ELSE v

Vis(x, i) == OrZero(x[<<i, "vis">>])

Both(a, b) == [v |-> Greatest(a.v, b.v), r |-> a.r \cup b.r]

\* Of the things found, [k |-> index, is |-> calculation], in order: the first
\* with a value that is not 0, in a set, or no thing.
UpTo(found, hits) ==
    LET tried == {f \in found : \A h \in hits : f.k <= h.k}
    IN  [v |-> hits \cap tried, r |-> UNION {f.is.r : f \in tried}]

First(found) == UpTo(found, {f \in found : f.is.v # 0})

The(S) == CHOOSE e \in S : TRUE

----------------------------------------------------------------------------
(* Types and modes.                                                         *)

ModulesValue(x) == [v |-> OrZero(x[<<Modules, "val">>]), r |-> {<<Modules, "val">>}]

\* m means m only with MODULES.
TristateWith(modules) == [modules EXCEPT !.v = IF @ = 0 THEN "bool" ELSE "tristate"]

ChoiceType(x, c) ==
    IF OrigType[c] # "tristate" THEN Just("bool") ELSE TristateWith(ModulesValue(x))

LowestMode(c) == IF IsOptional[c] THEN 0 ELSE 1
WantedMode(x, c) ==
    IF x[<<c, "user">>] = None THEN LowestMode(c)
    ELSE Greatest(LowestMode(c), x[<<c, "user">>])

ModeOfType(val, type) ==
    IF val # 1 THEN Just(val) ELSE [type EXCEPT !.v = IF @ = "bool" THEN 2 ELSE 1]

ChoiceTriValue(x, c) ==
    AfterReading({<<c, "user">>, <<c, "vis">>},
        ModeOfType(Least(WantedMode(x, c), Vis(x, c)), ChoiceType(x, c)))

TypeInMode(mode, type) ==
    AfterReading(mode.r, IF mode.v = 2 THEN Just("bool") ELSE type)

SymType(x, s) ==
    IF OrigType[s] # "tristate" THEN Just("bool")
    ELSE TypeInMode(IF ChoiceOf[s] = None THEN Just(0) ELSE ChoiceTriValue(x, ChoiceOf[s]),
                    TristateWith(ModulesValue(x)))

TypeOf(x, i) == IF i \in Choices THEN ChoiceType(x, i) ELSE SymType(x, i)

----------------------------------------------------------------------------
(* Expressions.                                                             *)

Y == <<"const", 2>>
N == <<"const", 0>>

SymTriValue(x, s) == [v |-> OrZero(x[<<s, "val">>]), r |-> {<<s, "val">>}]

ItemValue(x, i) == IF i \in Choices THEN ChoiceTriValue(x, i) ELSE SymTriValue(x, i)

\* The second operand is looked at unless the first one decides.
AndOf(a, b) == IF a.v = 0 THEN a ELSE [v |-> Least(a.v, b.v), r |-> a.r \cup b.r]
OrOf(a, b)  == IF a.v = 2 THEN a ELSE Both(a, b)

\* expr_value(), when val gives the values of the operands.
ValueOfForm(x, val, e) ==
    CASE e[1] = "const" -> Just(e[2])
      [] e[1] = "item" -> ItemValue(x, e[2])
      [] e[1] = "eq"   -> [ItemValue(x, e[2]) EXCEPT !.v = IF @ = e[3] THEN 2 ELSE 0]
      [] e[1] = "not"  -> [val[e[2]] EXCEPT !.v = 2 - @]
      [] e[1] = "and"  -> AndOf(val[e[2]], val[e[3]])
      [] e[1] = "or"   -> OrOf(val[e[2]], val[e[3]])

ExprValue(x, e) == LET val[d \in Exprs] == ValueOfForm(x, val, d) IN val[e]

\* The items that expressions name, operands included, as _depend_on() finds
\* them: those in the smallest set of expressions with e and its operands.
ClosedExprs == {E \in SUBSET Exprs : \A d \in E : Parts(d) \subseteq E}
DependOn(e) ==
    {i \in Items : \A E \in ClosedExprs :
        e \in E => \E d \in E : d[1] \in {"item", "eq"} /\ d[2] = i}

\* The parts of e that _make_and() has joined: the conjuncts of e, and e.
AndClosed == {E \in SUBSET Exprs : \A d \in E : d[1] = "and" => Parts(d) \subseteq E}
Conjuncts(e) == {d \in Exprs : \A E \in AndClosed : e \in E => d \in E}

\* Expressions are finite.  _propagate_deps() makes every symbol of a choice
\* depend on it, and its prompts too unless that makes them n; the defaults of
\* a choice are symbols of the choice.
ASSUME TreeAssumption ==
    /\ Y \in Exprs /\ \A e \in Exprs : IsExpr(e)
    /\ \A E \in SUBSET Exprs : E # {} => \E e \in E : Parts(e) \cap E = {}
    /\ Prompts \in [Items -> Seq(Exprs)]
    /\ \A s \in Syms : Defaults[s] \in Seq(Exprs \X Exprs)
    /\ \A c \in Choices : Defaults[c] \in Seq(Members(c) \X Exprs)
    /\ RevDep \in [Syms -> Exprs] /\ WeakRevDep \in [Syms -> Exprs]
    /\ DirectDep \in [Syms -> Exprs]
    /\ \A s \in Syms : ChoiceOf[s] # None => ChoiceOf[s] \in DependOn(DirectDep[s])
    /\ \A s \in Syms : ChoiceOf[s] # None => \A k \in DOMAIN Prompts[s] :
          {N, <<"item", ChoiceOf[s]>>} \cap Conjuncts(Prompts[s][k]) # {}
    /\ \A c \in Choices : /\ ChoiceSyms[c] \in Seq(Members(c))
                          /\ \A s \in Members(c) :
                                \E k \in DOMAIN ChoiceSyms[c] : ChoiceSyms[c][k] = s
    /\ \A c \in Choices : IsOptional[c] \in BOOLEAN

----------------------------------------------------------------------------
(* Visibility.                                                              *)

\* The highest prompt condition; every one of them is evaluated.
Highest(found) ==
    [v |-> CHOOSE a \in {0} \cup {f.v : f \in found} : a >= 0 /\ \A f \in found : a >= f.v,
     r |-> UNION {f.r : f \in found}]

PromptLimit(x, prompts) == Highest({ExprValue(x, prompts[k]) : k \in DOMAIN prompts})

\* Is the choice symbol s, with prompts limited to vis, hidden by the mode?
HiddenByMode(x, s, vis) ==
    IF OrigType[s] # "tristate"
    THEN IF OrigType[ChoiceOf[s]] # "tristate" THEN Just(FALSE)
         ELSE [ChoiceTriValue(x, ChoiceOf[s]) EXCEPT !.v = @ # 2]
    ELSE IF vis # 1 THEN Just(FALSE)
         ELSE [ChoiceTriValue(x, ChoiceOf[s]) EXCEPT !.v = @ = 2]

VisOfType(hidden, vis, type) ==
    AfterReading(hidden.r,
        IF hidden.v THEN Just(0)
        ELSE IF vis # 1 THEN Just(vis)
        ELSE [type EXCEPT !.v = IF @ = "tristate" THEN 1 ELSE 2])

VisWithin(x, i, limit) ==
    AfterReading(limit.r,
        VisOfType(IF i \in Choices \/ ChoiceOf[i] = None THEN Just(FALSE)
                  ELSE HiddenByMode(x, i, limit.v),
                  limit.v, TypeOf(x, i)))

Visibility(x, i) == VisWithin(x, i, PromptLimit(x, Prompts[i]))

----------------------------------------------------------------------------
(* Values of symbols.                                                       *)

LimitedTo(cond, a) == [a EXCEPT !.v = Least(@, cond)]

DefaultAt(x, defaults, first) ==
    AfterReading(first.r,
        IF first.v = {} THEN Just(0)
        ELSE LimitedTo(The(first.v).is.v, ExprValue(x, defaults[The(first.v).k][1])))

\* The first default whose condition holds, limited by the condition.
FirstDefault(x, defaults) ==
    DefaultAt(x, defaults,
        First({[k |-> k, is |-> ExprValue(x, defaults[k][2])] : k \in DOMAIN defaults}))

\* An 'imply' counts only if the direct dependencies are met.
IfMet(weak, direct) ==
    IF weak.v = 0 THEN weak
    ELSE [v |-> IF direct.v = 0 THEN 0 ELSE weak.v, r |-> weak.r \cup direct.r]

Implied(x, s) == IfMet(ExprValue(x, WeakRevDep[s]), ExprValue(x, DirectDep[s]))

UserOrDefault(x, s, vis) ==
    IF vis = 0 THEN Both(FirstDefault(x, Defaults[s]), Implied(x, s))
    ELSE AfterReading({<<s, "user">>},
            IF x[<<s, "user">>] # None THEN Just(Least(x[<<s, "user">>], vis))
            ELSE Both(FirstDefault(x, Defaults[s]), Implied(x, s)))

\* m becomes y for a bool and for a symbol implied with y.
Promoted(val, type, weak) ==
    IF val # 1 THEN Just(val)
    ELSE AfterReading(type.r,
            IF type.v = "bool" THEN Just(2) ELSE [weak EXCEPT !.v = IF @ = 2 THEN 2 ELSE 1])

\* A select is not limited by the direct dependencies, which are only read
\* to warn.
WithSelect(base, sel, direct, type, weak) ==
    AfterReading(base.r \cup sel.r \cup (IF sel.v = 0 THEN {} ELSE direct.r),
        Promoted(Greatest(base.v, sel.v), type, weak))

PlainValue(x, s, vis) ==
    WithSelect(UserOrDefault(x, s, vis), ExprValue(x, RevDep[s]), ExprValue(x, DirectDep[s]),
               SymType(x, s), ExprValue(x, WeakRevDep[s]))

ChoiceSymValue(x, s, vis) ==
    IF vis = 0 THEN Just(0)
    ELSE IF vis = 2
    THEN [v |-> IF x[<<ChoiceOf[s], "sel">>] = s THEN 2 ELSE 0,
          r |-> {<<ChoiceOf[s], "sel">>}]
    ELSE [v |-> IF x[<<s, "user">>] \in {None, 0} THEN 0 ELSE 1, r |-> {<<s, "user">>}]

SymValue(x, s) ==
    AfterReading({<<s, "vis">>},
        IF ChoiceOf[s] = None THEN PlainValue(x, s, Vis(x, s))
        ELSE ChoiceSymValue(x, s, Vis(x, s)))

----------------------------------------------------------------------------
(* Assignable values and the selection of a choice.                         *)

\* The values from the selected one up to the visibility, or y if that is
\* implied.  A bool and a symbol implied with y have no m.
FromTo(sel, vis, weak) ==
    [weak EXCEPT !.v = {v \in 0 .. 2 : v >= sel /\ (v # 1 \/ @ # 2) /\ (v <= vis \/ @ = 2)}]

AssignableOfType(sel, vis, type, weak) ==
    AfterReading(type.r, FromTo(sel, vis, IF type.v = "bool" THEN Just(2) ELSE weak))

AssignableFrom(x, s, vis, sel) ==
    AfterReading(sel.r,
        IF (vis = 2 /\ ChoiceOf[s] # None) \/ sel.v = 2 THEN Just({2})
        ELSE IF sel.v = 1 /\ vis = 1 THEN Just({1})
        ELSE AssignableOfType(sel.v, vis, IF vis = 1 THEN Just("tristate") ELSE SymType(x, s),
                              ExprValue(x, WeakRevDep[s])))

\* Mutant: selects are not looked at.
SymAssignableUnselected(x, s) ==
    AfterReading({<<s, "vis">>},
        IF Vis(x, s) = 0 THEN Just({}) ELSE AssignableFrom(x, s, Vis(x, s), Just(0)))

SymAssignable(x, s) ==
    AfterReading({<<s, "vis">>},
        IF Vis(x, s) = 0 THEN Just({})
        ELSE AssignableFrom(x, s, Vis(x, s), ExprValue(x, RevDep[s])))

ModesOfType(c, vis, type) ==
    [type EXCEPT !.v = {v \in 0 .. vis : (v = 0 => IsOptional[c]) /\ (v = 1 => @ = "tristate")}]

ChoiceAssignable(x, c) ==
    AfterReading({<<c, "vis">>},
        IF Vis(x, c) = 0 THEN Just({})
        ELSE ModesOfType(c, Vis(x, c),
                         IF Vis(x, c) = 1 THEN Just("tristate") ELSE ChoiceType(x, c)))

\* The visibility of <<symbol, condition>>, 0 if the condition does not hold.
CandidateIf(x, s, cond) ==
    IF cond.v = 0 THEN cond ELSE [v |-> Vis(x, s), r |-> cond.r \cup {<<s, "vis">>}]

\* The first default that holds and is visible, else the first visible symbol.
Candidates(c) ==
    Defaults[c] \o [k \in DOMAIN ChoiceSyms[c] |-> <<ChoiceSyms[c][k], Y>>]

SelectionAt(c, first) ==
    [first EXCEPT !.v = IF @ = {} THEN NoSelection ELSE Candidates(c)[The(@).k][1]]

SelectionFromDefaults(x, c) ==
    SelectionAt(c,
        First({[k |-> k, is |-> CandidateIf(x, Candidates(c)[k][1], ExprValue(x, Candidates(c)[k][2]))] :
                  k \in DOMAIN Candidates(c)}))

SelectionInMode(mode, sel) ==
    AfterReading(mode.r, IF mode.v # 2 THEN Just(NoSelection) ELSE sel)

\* Mutant: the user's selection is taken even if it is not visible.
SelectionUnchecked(x, c) ==
    SelectionInMode(ChoiceTriValue(x, c),
        AfterReading({<<c, "usel">>},
            IF x[<<c, "usel">>] = None THEN SelectionFromDefaults(x, c)
            ELSE Just(x[<<c, "usel">>])))

UserSelection(x, c, u) ==
    IF u = None THEN SelectionFromDefaults(x, c)
    ELSE AfterReading({<<u, "vis">>},
            IF Vis(x, u) # 0 THEN Just(u) ELSE SelectionFromDefaults(x, c))

Selection(x, c) ==
    SelectionInMode(ChoiceTriValue(x, c),
        AfterReading({<<c, "usel">>}, UserSelection(x, c, x[<<c, "usel">>])))

----------------------------------------------------------------------------
(* One cached attribute: what it is, and what is read to calculate it.      *)

Calculate(x, p) ==
    CASE p[2] = "vis" -> Visibility(x, p[1])
      [] p[2] = "val" -> SymValue(x, p[1])
      [] p[2] = "sel" -> Selection(x, p[1])
      [] p[2] = "asg" -> IF p[1] \in Choices THEN ChoiceAssignable(x, p[1])
                         ELSE SymAssignable(x, p[1])

TreeValue(p, x) == Calculate(x, p).v
TreeReads(p, x) == Calculate(x, p).r

----------------------------------------------------------------------------
(* _dependents: who may have to be recalculated when an item changes.       *)

AllOf(exprs) == UNION {DependOn(e) : e \in exprs}

PromptExprs(i) == {Prompts[i][k] : k \in DOMAIN Prompts[i]}
Values(s)      == {Defaults[s][k][1] : k \in DOMAIN Defaults[s]}
Conditions(i)  == {Defaults[i][k][2] : k \in DOMAIN Defaults[i]}

\* Mutant: the direct dependencies, which 'imply' reads, are left out.
SymDepsWithoutDirect(s) ==
    AllOf(PromptExprs(s) \cup Values(s) \cup Conditions(s) \cup {RevDep[s], WeakRevDep[s]})

SymDeps(s) ==
    AllOf(PromptExprs(s) \cup Values(s) \cup Conditions(s)
              \cup {RevDep[s], WeakRevDep[s], DirectDep[s]})

\* Mutant: _add_choice_deps is not called.
ChoiceDepsWithoutSyms(c) == AllOf(PromptExprs(c) \cup Conditions(c))

ChoiceDeps(c) ==
    AllOf(PromptExprs(c) \cup Conditions(c))
        \cup {ChoiceSyms[c][k] : k \in DOMAIN ChoiceSyms[c]}

TreeDependents ==
    [i \in Items |-> {s \in Syms : i \in SymDeps(s)}
                       \cup {c \in Choices : i \in ChoiceDeps(c)}]

=============================================================================
