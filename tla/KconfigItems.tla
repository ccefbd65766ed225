---------------------------- MODULE KconfigItems -----------------------------
(***************************************************************************)
(* The symbols and choices of a finalized menu tree in kconfiglib.py, and  *)
(* the cells that hold their state.  Bool and tristate symbols only.       *)
(*                                                                         *)
(* A cell is <<item, name>>: <<i, "user">> is i.user_value, <<c, "usel">>  *)
(* a choice's user_selection; <<i, "vis">>, <<s, "val">>, <<c, "sel">> and *)
(* <<i, "asg">> are the cached visibility, tri_value, selection and        *)
(* assignable, None while they are not calculated.  The tri_value (mode)   *)
(* of a choice is not cached.                                              *)
(***************************************************************************)
EXTENDS Integers, FiniteSets

CONSTANTS
    Syms, Choices,      \* unique_defined_syms and unique_choices
    OrigType,           \* OrigType[i]: "bool" or "tristate"
    ChoiceOf,           \* ChoiceOf[s]: the choice s is in, or None
    Modules,            \* the MODULES symbol
    Observed,           \* items whose assignable attribute is also read
    None                \* Python's None

Items == Syms \cup Choices

Members(c) == {s \in Syms : ChoiceOf[s] = c}

\* No symbol is selected: the value of a calculated but empty selection.
NoSelection == 0

ASSUME ItemsAssumption ==
    /\ Syms \cap Choices = {}
    /\ OrigType \in [Items -> {"bool", "tristate"}]
    /\ ChoiceOf \in [Syms -> Choices \cup {None}]
    /\ Modules \in Syms
    /\ Observed \subseteq Items
    /\ None \notin Items \cup (0 .. 2) /\ \A V \in SUBSET (0 .. 2) : V # None
    /\ NoSelection \notin Syms

\* The tristate values n, m, y that set_value() accepts for an item.
TypeValues(i) == IF OrigType[i] = "bool" THEN {0, 2} ELSE 0 .. 2

Inputs == (Items \X {"user"}) \cup (Choices \X {"usel"})

Attributes ==
    (Items \X {"vis"}) \cup (Syms \X {"val"}) \cup (Choices \X {"sel"})
        \cup (Observed \X {"asg"})

Cells == Inputs \cup Attributes

\* What a cell that is not None may hold.
CellValues(q) ==
    CASE q[2] = "user" -> TypeValues(q[1])
      [] q[2] = "usel" -> Members(q[1])
      [] q[2] \in {"vis", "val"} -> 0 .. 2
      [] q[2] = "sel"  -> Members(q[1]) \cup {NoSelection}
      [] q[2] = "asg"  -> SUBSET (0 .. 2)
=============================================================================
