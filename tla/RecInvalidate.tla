---------------------------- MODULE RecInvalidate ----------------------------
(***************************************************************************)
(* Symbol._rec_invalidate() and Choice._rec_invalidate() call by call.     *)
(* The dependency graph may have cycles (a choice and its symbols depend   *)
(* on each other), the order in which Python iterates over the set         *)
(* _dependents is not fixed, and nothing but the cached visibility keeps   *)
(* the recursion from running for ever.                                    *)
(***************************************************************************)
EXTENDS InvalidationReach, Integers, Sequences, FiniteSets

CONSTANTS
    AnyItems,       \* symbols and choices
    ModulesItem     \* MODULES

ASSUME ModulesAssumption == ModulesItem \in AnyItems

\* kconf.unique_defined_syms and unique_choices are lists.
ASSUME FiniteAssumption == IsFiniteSet(AnyItems)

VARIABLES
    deps,       \* deps[i]: i._dependents; never changes
    root,       \* the item that was set
    flagged,    \* items with a cached visibility
    before,     \* flagged when the recursion started
    calls       \* per active call, the dependents still to be looked at

ivars == <<deps, root, flagged, before, calls>>

InvInit ==
    /\ deps \in [AnyItems -> SUBSET AnyItems]
    /\ root \in AnyItems
    /\ before \in SUBSET AnyItems
    /\ flagged = IF root = ModulesItem THEN {} ELSE before \ {root}
    /\ calls = IF root = ModulesItem THEN <<>> ELSE <<deps[root]>>

\* The innermost call looks at its dependents one by one.
Top == Head(calls)
Others == Tail(calls)

\* An item without cached values: the recursion stops there.
Skip(i) ==
    /\ i \notin flagged
    /\ calls' = <<Top \ {i}>> \o Others
    /\ UNCHANGED <<deps, root, flagged, before>>

\* Mutants: the item is called before it is marked; a worklist in which
\* nothing is marked.
EnterUnmarked(i) ==
    /\ i \in flagged /\ i # ModulesItem
    /\ calls' = <<deps[i]>> \o (<<Top \ {i}>> \o Others)
    /\ UNCHANGED <<deps, root, flagged, before>>

EnterAgain(i) ==
    /\ i \in flagged /\ i # ModulesItem
    /\ calls' = <<(Top \ {i}) \cup deps[i]>> \o Others
    /\ UNCHANGED <<deps, root, flagged, before>>

\* A recursive call invalidates the item, then looks at its dependents.
Enter(i) ==
    /\ i \in flagged /\ i # ModulesItem
    /\ flagged' = flagged \ {i}
    /\ calls' = <<deps[i]>> \o (<<Top \ {i}>> \o Others)
    /\ UNCHANGED <<deps, root, before>>

\* Mutant: the dependents of MODULES are looked at, the others kept.
EnterModulesOnly(i) ==
    /\ i \in flagged /\ i = ModulesItem
    /\ flagged' = flagged \ {i}
    /\ calls' = <<deps[i]>> \o (<<Top \ {i}>> \o Others)
    /\ UNCHANGED <<deps, root, before>>

\* _invalidate_all.
EnterModules(i) ==
    /\ i \in flagged /\ i = ModulesItem
    /\ flagged' = {}
    /\ calls' = <<Top \ {i}>> \o Others
    /\ UNCHANGED <<deps, root, before>>

Return ==
    /\ calls # <<>> /\ Top = {}
    /\ calls' = Others
    /\ UNCHANGED <<deps, root, flagged, before>>

Look == calls # <<>> /\ \E i \in Top : Skip(i) \/ Enter(i) \/ EnterModules(i)

InvNext == Look \/ Return

InvSpec == InvInit /\ [][InvNext]_ivars
FairInvSpec == InvSpec /\ WF_ivars(InvNext)

----------------------------------------------------------------------------
(* Properties.                                                              *)

Wanted == Reach(deps, before, {root})

(***************************************************************************)
(* When set_value() returns, exactly the items reachable from the root     *)
(* through cached items have lost their cached values, all of them if      *)
(* MODULES is one: in whatever order the dependents were looked at, and    *)
(* although items were cut off because an earlier call had dropped them.   *)
(***************************************************************************)
ReachesAll ==
    calls = <<>> =>
        flagged = IF ModulesItem \in Wanted THEN {} ELSE before \ Wanted

(***************************************************************************)
(* The depth of the recursion is bounded by the number of items that had   *)
(* cached values, and each is entered at most once, cycles or not.         *)
(***************************************************************************)
DepthIsBounded == Len(calls) <= 1 + Cardinality(before \ flagged)

(***************************************************************************)
(* The recursion comes to an end, cycles or not.  Fairness: a running      *)
(* Python call goes on.                                                    *)
(***************************************************************************)
Ends == <>(calls = <<>>)
=============================================================================
