------------------------------- MODULE DepLoop -------------------------------
(***************************************************************************)
(* The search for dependency loops of kconfiglib.py: _check_dep_loop_sym   *)
(* and _check_dep_loop_choice as a machine with the call stack as a        *)
(* variable, run over the _dependents sets that _build_dep has filled in.  *)
(*                                                                         *)
(* A set is iterated in any order, and so are the symbols of a choice.     *)
(* The mark of an item is _visited: 0, 1 (on the way) or 2 (no loop).      *)
(***************************************************************************)
EXTENDS Integers, Sequences, FiniteSets

CONSTANTS
    Symbols, ChoiceSet, \* the symbols and choices
    None                \* no choice, no symbol

Items == Symbols \cup ChoiceSet

ASSUME ItemsAssumption == Symbols \cap ChoiceSet = {} /\ None \notin Items

VARIABLES
    dependents,         \* dependents[i]: _dependents
    choiceOf,           \* choiceOf[s]: Symbol.choice
    members,            \* members[c]: the symbols in Choice.syms
    roots,              \* the rest of unique_defined_syms
    visited,            \* _visited
    stack,              \* calls: the item, what is left to visit, and its choice if that is next
    loop,               \* the loop being returned, if one was found
    verdict,            \* "parsing", "checking", "loop", "ok"; "error": see MenuTree
    clock, rank         \* history: when an item was found to be in no loop

graph  == <<dependents, choiceOf, members>>
search == <<roots, visited, stack, loop, verdict, clock, rank>>
dvars  == <<graph, search>>

Top  == stack[Len(stack)]
Rest == SubSeq(stack, 1, Len(stack) - 1)

\* Calls of the two functions.
SymCall(s, ignoreChoice) ==
    [item |-> s, todo |-> dependents[s],
     last |-> IF ignoreChoice \/ choiceOf[s] = None THEN {} ELSE {choiceOf[s]}]

ChoiceCall(c, skip) == [item |-> c, todo |-> members[c] \ {skip}, last |-> {}]

Unbuilt ==
    /\ dependents = [i \in Items |-> {}]
    /\ choiceOf = [s \in Symbols |-> None]
    /\ members = [c \in ChoiceSet |-> {}]

DepInit ==
    /\ Unbuilt
    /\ roots = <<>>
    /\ visited = [i \in Items |-> 0]
    /\ stack = <<>> /\ loop = <<>>
    /\ verdict = "parsing"
    /\ clock = 0 /\ rank = [i \in Items |-> 0]

Built ==
    /\ dependents' \in [Items -> SUBSET Items]
    /\ choiceOf' \in [Symbols -> ChoiceSet \cup {None}]
    /\ members' \in [ChoiceSet -> SUBSET Symbols]
    /\ roots' \in Seq(Symbols)

\* Any result of parsing.
Build ==
    /\ verdict = "parsing"
    /\ Built
    /\ verdict' = "checking"
    /\ UNCHANGED <<visited, stack, loop, clock, rank>>

Searching == verdict = "checking" /\ loop = <<>>

\* A call returns at once for an item that has been visited.
Call(below, call) ==
    CASE visited[call.item] = 0 ->
            /\ visited' = [visited EXCEPT ![call.item] = 1]
            /\ stack' = Append(below, call)
            /\ loop' = <<>>
      [] visited[call.item] = 1 ->
            /\ loop' = <<call.item>>
            /\ stack' = below
            /\ UNCHANGED visited
      [] OTHER ->
            /\ stack' = below
            /\ loop' = <<>>
            /\ UNCHANGED visited

CallTail == UNCHANGED <<graph, verdict, clock, rank>>

\* Kconfig.__init__(), which does not look at what the call returns.
CheckRoot ==
    /\ verdict = "checking" /\ stack = <<>> /\ roots # <<>>
    /\ Call(stack, SymCall(Head(roots), FALSE))
    /\ roots' = Tail(roots)
    /\ CallTail

VisitSym(s) ==
    /\ Searching /\ stack # <<>>
    /\ s \in Top.todo \cap Symbols
    /\ Call(Append(Rest, [Top EXCEPT !.todo = @ \ {s}]), SymCall(s, Top.item \in ChoiceSet))
    /\ CallTail /\ UNCHANGED roots

VisitChoice(c) ==
    /\ Searching /\ stack # <<>>
    /\ c \in Top.todo \cap ChoiceSet
    /\ Call(Append(Rest, [Top EXCEPT !.todo = @ \ {c}]), ChoiceCall(c, None))
    /\ CallTail /\ UNCHANGED roots

\* From a choice symbol, once its dependents are done.
VisitOwnChoice(c) ==
    /\ Searching /\ stack # <<>>
    /\ Top.todo = {} /\ c \in Top.last
    /\ Call(Append(Rest, [Top EXCEPT !.last = {}]), ChoiceCall(c, Top.item))
    /\ CallTail /\ UNCHANGED roots

\* Mutant: the last dependent is forgotten.
LeaveEarly ==
    /\ Searching /\ stack # <<>>
    /\ Cardinality(Top.todo) <= 1
    /\ visited' = [visited EXCEPT ![Top.item] = 2]
    /\ stack' = Rest
    /\ clock' = clock + 1
    /\ rank' = [rank EXCEPT ![Top.item] = clock]
    /\ UNCHANGED <<graph, roots, loop, verdict>>

\* Mutant: the mark stays 1.
LeaveUnmarked ==
    /\ Searching /\ stack # <<>>
    /\ Top.todo = {} /\ Top.last = {}
    /\ stack' = Rest
    /\ clock' = clock + 1
    /\ rank' = [rank EXCEPT ![Top.item] = clock]
    /\ UNCHANGED <<graph, roots, visited, loop, verdict>>

\* Not part of a loop.
Leave ==
    /\ Searching /\ stack # <<>>
    /\ Top.todo = {} /\ Top.last = {}
    /\ visited' = [visited EXCEPT ![Top.item] = 2]
    /\ stack' = Rest
    /\ clock' = clock + 1
    /\ rank' = [rank EXCEPT ![Top.item] = clock]
    /\ UNCHANGED <<graph, roots, loop, verdict>>

Returning == verdict = "checking" /\ loop # <<>>

\* Mutant: choices are not recorded.
RecordSymbols ==
    /\ Returning /\ stack # <<>> /\ Top.item # loop[1]
    /\ loop' = IF Top.item \in Symbols THEN Append(loop, Top.item) ELSE loop
    /\ stack' = Rest
    /\ UNCHANGED <<graph, roots, visited, verdict, clock, rank>>

\* _found_dep_loop() on the way back.
Record ==
    /\ Returning /\ stack # <<>> /\ Top.item # loop[1]
    /\ loop' = Append(loop, Top.item)
    /\ stack' = Rest
    /\ UNCHANGED <<graph, roots, visited, verdict, clock, rank>>

Raise ==
    /\ Returning /\ stack # <<>> /\ Top.item = loop[1]
    /\ verdict' = "loop"
    /\ UNCHANGED <<graph, roots, visited, stack, loop, clock, rank>>

Pass ==
    /\ verdict = "checking" /\ stack = <<>> /\ roots = <<>>
    /\ verdict' = "ok"
    /\ UNCHANGED <<graph, roots, visited, stack, loop, clock, rank>>

CheckStep ==
    \/ CheckRoot \/ Leave \/ Record \/ Raise \/ Pass
    \/ \E s \in Symbols : VisitSym(s)
    \/ \E c \in ChoiceSet : VisitChoice(c) \/ VisitOwnChoice(c)

DepNext == Build \/ CheckStep

DepSpec == DepInit /\ [][DepNext]_dvars

----------------------------------------------------------------------------
(* Properties.                                                              *)

Leads(i, j) ==
    \/ j \in dependents[i]
    \/ i \in Symbols /\ j = choiceOf[i]
    \/ i \in ChoiceSet /\ j \in members[i]

(***************************************************************************)
(* "Once a symbol/choice and all its dependencies (or dependents in this   *)
(* case) have been checked recursively without detecting any loops, its    *)
(* _visited is set to 2": everything that depends on a symbol marked 2 was *)
(* marked before it, and so were the symbols of a choice, but for the one  *)
(* it was entered from.  When all symbols are marked they can be put in an *)
(* order in which each comes after what depends on it: there is no loop    *)
(* among their _dependents.                                                *)
(***************************************************************************)
MarkedInOrder ==
    /\ \A s \in Symbols : visited[s] = 2 =>
          \A d \in dependents[s] : visited[d] = 2 /\ rank[d] < rank[s]
    /\ \A c \in ChoiceSet : visited[c] = 2 =>
          \E skip \in Symbols \cup {None} : \A s \in members[c] \ {skip} :
              visited[s] = 2 /\ rank[s] < rank[c]

(***************************************************************************)
(* _found_dep_loop() always meets the start of the loop again before the   *)
(* first call returns, whose result is not looked at: no loop that was     *)
(* found is dropped.                                                       *)
(***************************************************************************)
NoLoopIsDropped == verdict # "loop" /\ stack = <<>> => loop = <<>>

(***************************************************************************)
(* The loop in the error message is one: each item is a dependent of the   *)
(* next, or a choice next to one of its symbols, and the first one of the  *)
(* last.                                                                   *)
(***************************************************************************)
LoopIsReal ==
    verdict = "loop" =>
        /\ \A k \in 1 .. Len(loop) - 1 : Leads(loop[k + 1], loop[k])
        /\ Leads(loop[1], loop[Len(loop)])
=============================================================================
