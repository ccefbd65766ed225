-------------------------- MODULE InvalidationReach --------------------------
(***************************************************************************)
(* The items that a recursive invalidation in kconfiglib.py is meant to    *)
(* reach: from the roots, along _dependents, through items that have a     *)
(* cached visibility ("flagged").  The cut-off at items without one is the *)
(* comment in Symbol._rec_invalidate().                                    *)
(***************************************************************************)

\* S takes every flagged dependent of its members.
Spreads(deps, flagged, S) == \A i \in S : deps[i] \cap flagged \subseteq S

\* The least set that holds the roots and spreads.
Reach(deps, flagged, roots) ==
    LET live   == roots \cup flagged
        closed == {S \in SUBSET live : roots \subseteq S /\ Spreads(deps, flagged, S)}
    IN  {i \in live : \A S \in closed : i \in S}
=============================================================================
