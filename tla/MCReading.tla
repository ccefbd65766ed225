------------------------------ MODULE MCReading ------------------------------
(***************************************************************************)
(* What the theorems about configurations suppose of the tree of a run.    *)
(***************************************************************************)
EXTENDS KconfigFiles

(***************************************************************************)
(* Reading cannot go round in circles in this tree, whatever the values:   *)
(* the order that the theorems about configurations in KconfigTreeProofs   *)
(* suppose exists.                                                         *)
(***************************************************************************)

\* All that p may read, when the cells in known are as in x and the others
\* have any value.
RECURSIVE MayRead(_, _, _)
MayRead(p, x, known) ==
    LET unknown == TreeReads(p, x) \ known
    IN  IF unknown = {} THEN TreeReads(p, x)
        ELSE LET q == CHOOSE q \in unknown : TRUE
             IN  UNION {MayRead(p, [x EXCEPT ![q] = v], known \cup {q}) :
                            v \in CellValues(q) \cup {None}}

\* Of a set of attributes, those that read another one of it.
Reading(reads, S) == {p \in S : reads[p] \cap S # {}}

ASSUME ReadingIsOrdered ==
    \A reads \in {[p \in Attributes |-> MayRead(p, NoValues, {})]} :
        Seqs!FoldLeft(LAMBDA S, k : Reading(reads, S), Attributes,
                      [k \in 1 .. Cardinality(Attributes) |-> k]) = {}
==============================================================================
