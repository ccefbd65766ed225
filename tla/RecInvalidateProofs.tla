------------------------- MODULE RecInvalidateProofs -------------------------
(***************************************************************************)
(* The recursion of _rec_invalidate reaches what it has to, for every set  *)
(* of items and every dependency graph, with cycles or without.            *)
(***************************************************************************)
EXTENDS RecInvalidate, SequenceTheorems, FiniteSetTheorems, TLAPS

\* The dependents some active call has still to look at.
Pending(c) == UNION {c[k] : k \in 1 .. Len(c)}

\* The items invalidated so far.
Dropped == ({root} \cup before) \ flagged

InvTypeOK ==
    /\ deps \in [AnyItems -> SUBSET AnyItems]
    /\ root \in AnyItems
    /\ before \in SUBSET AnyItems
    /\ flagged \subseteq before
    /\ calls \in Seq(SUBSET AnyItems)

(***************************************************************************)
(* A dependent of a dropped item that still has its flag is pending: this  *)
(* is why the cut-off at an item that lost its flag earlier is safe.  What *)
(* is dropped or pending is wanted, unless MODULES has dropped everything. *)
(***************************************************************************)
DropInv ==
    /\ InvTypeOK
    /\ root \in Dropped
    /\ \A i \in Dropped : deps[i] \cap flagged \subseteq Pending(calls)
    /\ Dropped \subseteq Wanted \/ (flagged = {} /\ ModulesItem \in Wanted)
    /\ \A d \in Pending(calls) : \E i \in Wanted : d \in deps[i]
    /\ ModulesItem \in Dropped => flagged = {}

\* Dropping the first call, and putting one in front.
LEMMA PendingTail ==
    ASSUME NEW c \in Seq(SUBSET AnyItems), c # <<>>
    PROVE  /\ Head(c) \in SUBSET AnyItems /\ Tail(c) \in Seq(SUBSET AnyItems)
           /\ Pending(c) = Head(c) \cup Pending(Tail(c))
<1>1. /\ Head(c) \in SUBSET AnyItems /\ Tail(c) \in Seq(SUBSET AnyItems)
      /\ Head(c) = c[1] /\ Len(c) \in Nat /\ Len(c) >= 1
      /\ Len(Tail(c)) = Len(c) - 1
      /\ \A k \in 1 .. Len(Tail(c)) : Tail(c)[k] = c[k + 1]
  OBVIOUS
<1>2. ASSUME NEW d \in Pending(c) PROVE d \in Head(c) \cup Pending(Tail(c))
  <2>1. PICK k \in 1 .. Len(c) : d \in c[k]
    BY <1>2 DEF Pending
  <2>2. CASE k = 1
    BY <2>1, <2>2, <1>1
  <2>3. CASE k # 1
    <3>1. k - 1 \in 1 .. Len(Tail(c)) /\ Tail(c)[k - 1] = c[k]
      BY <2>3, <1>1
    <3> QED BY <2>1, <3>1 DEF Pending
  <2> QED BY <2>2, <2>3
<1>3. ASSUME NEW d \in Head(c) \cup Pending(Tail(c)) PROVE d \in Pending(c)
  <2>1. CASE d \in Head(c)
    BY <2>1, <1>1 DEF Pending
  <2>2. CASE d \in Pending(Tail(c))
    <3>1. PICK k \in 1 .. Len(Tail(c)) : d \in Tail(c)[k]
      BY <2>2 DEF Pending
    <3>2. k + 1 \in 1 .. Len(c) /\ c[k + 1] = Tail(c)[k]
      BY <1>1
    <3> QED BY <3>1, <3>2 DEF Pending
  <2> QED BY <1>3, <2>1, <2>2
<1> QED BY <1>1, <1>2, <1>3

\* A call put in front of the active ones adds its dependents to what is
\* pending.
LEMMA PendingPush ==
    ASSUME NEW c \in Seq(SUBSET AnyItems), NEW a \in SUBSET AnyItems
    PROVE  /\ <<a>> \o c \in Seq(SUBSET AnyItems)
           /\ Pending(<<a>> \o c) = a \cup Pending(c)
<1> DEFINE s == <<a>> \o c
<1>1. /\ s \in Seq(SUBSET AnyItems) /\ s # <<>>
      /\ Head(s) = a /\ Tail(s) = c
  OBVIOUS
<1> QED BY <1>1, PendingTail

\* Wanted holds the root and takes every dependent that was flagged.
LEMMA WantedIsClosed ==
    ASSUME InvTypeOK
    PROVE  /\ root \in Wanted
           /\ Wanted \subseteq {root} \cup before
           /\ \A i \in Wanted : deps[i] \cap before \subseteq Wanted
           /\ \A S \in SUBSET ({root} \cup before) :
                 root \in S /\ (\A i \in S : deps[i] \cap before \subseteq S) => Wanted \subseteq S
<1> DEFINE live == {root} \cup before
           closed == {S \in SUBSET live : {root} \subseteq S /\ Spreads(deps, before, S)}
<1>1. Wanted = {i \in live : \A S \in closed : i \in S}
  BY DEF Wanted, Reach
<1>2. root \in Wanted /\ Wanted \subseteq live
  BY <1>1
<1>3. ASSUME NEW i \in Wanted, NEW d \in deps[i] \cap before PROVE d \in Wanted
  <2>1. ASSUME NEW S \in closed PROVE d \in S
    BY <1>1 DEF Spreads
  <2> QED BY <1>1, <2>1
<1>4. ASSUME NEW S \in SUBSET live, root \in S, \A i \in S : deps[i] \cap before \subseteq S
      PROVE  Wanted \subseteq S
  <2>1. S \in closed
    BY <1>4 DEF Spreads
  <2> QED BY <1>1, <2>1
<1> QED BY <1>2, <1>3, <1>4

\* _rec_invalidate starts with the root dropped and its dependents pending.
LEMMA DropInit ==
    ASSUME InvInit
    PROVE  DropInv
<1>1. InvTypeOK
  <2>1. deps[root] \in SUBSET AnyItems
    BY DEF InvInit
  <2>2. calls \in Seq(SUBSET AnyItems)
    <3>1. CASE root = ModulesItem
      BY <3>1 DEF InvInit
    <3>2. CASE root # ModulesItem
      BY <2>1, <3>2 DEF InvInit
    <3> QED BY <3>1, <3>2
  <2>3. flagged \subseteq before
    BY DEF InvInit
  <2> QED BY <2>2, <2>3 DEF InvInit, InvTypeOK
<1>2. root \in Dropped
  BY DEF InvInit, Dropped
<1>3. root \in Wanted
  BY <1>1, WantedIsClosed
<1>4. CASE root = ModulesItem
  <2>1. flagged = {} /\ calls = <<>>
    BY <1>4 DEF InvInit
  <2>2. Pending(calls) = {}
    BY <2>1 DEF Pending
  <2> QED BY <1>1, <1>2, <1>3, <1>4, <2>1, <2>2 DEF DropInv
<1>5. CASE root # ModulesItem
  <2>1. flagged = before \ {root} /\ calls = <<deps[root]>>
    BY <1>5 DEF InvInit
  <2>2. Dropped = {root}
    BY <2>1 DEF Dropped
  <2>3. Pending(calls) = deps[root]
    BY <2>1 DEF Pending
  <2> QED BY <1>1, <1>3, <1>5, <2>1, <2>2, <2>3 DEF DropInv
<1> QED BY <1>4, <1>5

\* One step of the recursion, whichever dependent it looks at, keeps the
\* invariant.
LEMMA DropStep ==
    ASSUME DropInv, [InvNext]_ivars
    PROVE  DropInv'
<1>1. CASE UNCHANGED ivars
  <2>1. /\ deps' = deps /\ root' = root /\ before' = before
        /\ flagged' = flagged /\ calls' = calls
    BY <1>1 DEF ivars
  <2>2. Wanted' = Wanted /\ Dropped' = Dropped /\ Pending(calls)' = Pending(calls)
    BY <2>1 DEF Wanted, Dropped, Pending
  <2>3. InvTypeOK'
    BY <2>1 DEF DropInv, InvTypeOK
  <2> QED BY <2>1, <2>2, <2>3 DEF DropInv
<1>2. ASSUME calls # <<>>, NEW i \in Top, Skip(i) \/ Enter(i) \/ EnterModules(i)
      PROVE  DropInv'
  <2>1. /\ Top \in SUBSET AnyItems /\ Others \in Seq(SUBSET AnyItems)
        /\ Pending(calls) = Top \cup Pending(Others)
    BY <1>2, PendingTail DEF DropInv, InvTypeOK, Top, Others
  <2>2. deps' = deps /\ root' = root /\ before' = before /\ Wanted' = Wanted
    BY <1>2 DEF Skip, Enter, EnterModules, Wanted
  <2>3. /\ <<Top \ {i}>> \o Others \in Seq(SUBSET AnyItems)
        /\ Pending(<<Top \ {i}>> \o Others) = (Top \ {i}) \cup Pending(Others)
    BY <2>1, PendingPush
  <2>4. i \in AnyItems /\ deps[i] \in SUBSET AnyItems
    BY <1>2, <2>1 DEF DropInv, InvTypeOK
  <2>5. i \in flagged => i \in Wanted
    <3>1. PICK w \in Wanted : i \in deps[w]
      BY <1>2, <2>1 DEF DropInv
    <3> QED BY <3>1, WantedIsClosed DEF DropInv, InvTypeOK
  <2>6. CASE Skip(i)
    <3>1. /\ i \notin flagged /\ flagged' = flagged
          /\ calls' = <<Top \ {i}>> \o Others
      BY <2>6 DEF Skip
    <3>2. Pending(calls)' = (Top \ {i}) \cup Pending(Others)
      BY <2>3, <3>1 DEF Pending
    <3>3. Dropped' = Dropped
      BY <2>2, <3>1 DEF Dropped
    <3>4. InvTypeOK'
      BY <2>2, <2>3, <3>1 DEF DropInv, InvTypeOK
    <3> QED BY <2>1, <2>2, <3>1, <3>2, <3>3, <3>4 DEF DropInv
  <2>7. CASE Enter(i)
    <3>1. /\ i \in flagged /\ i # ModulesItem /\ flagged' = flagged \ {i}
          /\ calls' = <<deps[i]>> \o (<<Top \ {i}>> \o Others)
      BY <2>7 DEF Enter
    <3>2. /\ calls' \in Seq(SUBSET AnyItems)
          /\ Pending(calls)' = deps[i] \cup (Top \ {i}) \cup Pending(Others)
      <4>1. /\ <<deps[i]>> \o (<<Top \ {i}>> \o Others) \in Seq(SUBSET AnyItems)
            /\ Pending(<<deps[i]>> \o (<<Top \ {i}>> \o Others))
                  = deps[i] \cup Pending(<<Top \ {i}>> \o Others)
        BY <2>3, <2>4, PendingPush
      <4> QED BY <2>3, <3>1, <4>1 DEF Pending
    <3>3. Dropped' = Dropped \cup {i}
      BY <2>2, <3>1 DEF Dropped, DropInv, InvTypeOK
    <3>4. InvTypeOK'
      BY <2>2, <3>1, <3>2 DEF DropInv, InvTypeOK
    <3>5. i \in Wanted /\ Dropped \subseteq Wanted
      BY <2>5, <3>1 DEF DropInv
    <3>6. \A j \in Dropped' : deps'[j] \cap flagged' \subseteq Pending(calls)'
      BY <2>1, <2>2, <3>1, <3>2, <3>3 DEF DropInv
    <3>7. \A d \in Pending(calls)' : \E j \in Wanted : d \in deps[j]
      BY <2>1, <3>2, <3>5 DEF DropInv
    <3>8. ModulesItem \in Dropped' => flagged' = {}
      BY <3>1, <3>3 DEF DropInv
    <3> QED BY <2>2, <3>3, <3>4, <3>5, <3>6, <3>7, <3>8 DEF DropInv
  <2>8. CASE EnterModules(i)
    <3>1. /\ i \in flagged /\ i = ModulesItem /\ flagged' = {}
          /\ calls' = <<Top \ {i}>> \o Others
      BY <2>8 DEF EnterModules
    <3>2. Pending(calls)' = (Top \ {i}) \cup Pending(Others)
      BY <2>3, <3>1 DEF Pending
    <3>3. Dropped' = {root} \cup before
      BY <2>2, <3>1 DEF Dropped
    <3>4. InvTypeOK'
      BY <2>2, <2>3, <3>1 DEF DropInv, InvTypeOK
    <3>5. ModulesItem \in Wanted
      BY <2>5, <3>1
    <3> QED BY <2>1, <2>2, <3>1, <3>2, <3>3, <3>4, <3>5 DEF DropInv
  <2> QED BY <1>2, <2>6, <2>7, <2>8
<1>3. CASE Return
  <2>1. /\ calls # <<>> /\ Top = {} /\ calls' = Others
        /\ deps' = deps /\ root' = root /\ before' = before /\ flagged' = flagged
    BY <1>3 DEF Return
  <2>2. /\ Others \in Seq(SUBSET AnyItems)
        /\ Pending(calls) = Top \cup Pending(Others)
    BY <2>1, PendingTail DEF DropInv, InvTypeOK, Top, Others
  <2>3. Pending(calls)' = Pending(calls)
    BY <2>1, <2>2 DEF Pending
  <2>4. Wanted' = Wanted /\ Dropped' = Dropped
    BY <2>1 DEF Wanted, Dropped
  <2>5. InvTypeOK'
    BY <2>1, <2>2 DEF DropInv, InvTypeOK
  <2> QED BY <2>1, <2>3, <2>4, <2>5 DEF DropInv
<1> QED BY <1>1, <1>2, <1>3 DEF InvNext, Look

\* With no call active nothing is pending, so what is dropped is closed
\* under flagged dependents and holds everything wanted.
LEMMA DropInvSuffices ==
    ASSUME DropInv
    PROVE  ReachesAll
<1> SUFFICES ASSUME calls = <<>>
             PROVE  flagged = IF ModulesItem \in Wanted THEN {} ELSE before \ Wanted
  BY DEF ReachesAll
<1>1. Pending(calls) = {}
  BY DEF Pending
<1>2. Dropped \in SUBSET ({root} \cup before) /\ root \in Dropped
  BY DEF Dropped, DropInv
<1>3. \A i \in Dropped : deps[i] \cap before \subseteq Dropped
  BY <1>1 DEF Dropped, DropInv
<1>4. Wanted \subseteq Dropped
  BY <1>2, <1>3, WantedIsClosed DEF DropInv
<1>5. CASE ModulesItem \in Wanted
  BY <1>4, <1>5 DEF DropInv
<1>6. CASE ModulesItem \notin Wanted
  <2>1. Dropped = Wanted
    BY <1>4, <1>6 DEF DropInv
  <2> QED BY <1>6, <2>1 DEF Dropped, DropInv, InvTypeOK
<1> QED BY <1>5, <1>6

(***************************************************************************)
(* For every set of items, every dependency graph and every iteration      *)
(* order, when _rec_invalidate() returns to set_value() the items that     *)
(* lost their cached values are exactly those reachable from the item set. *)
(***************************************************************************)
THEOREM ReachesAllThm == InvSpec => []ReachesAll
<1>1. InvInit => DropInv
  BY DropInit
<1>2. DropInv /\ [InvNext]_ivars => DropInv'
  BY DropStep
<1>3. DropInv => ReachesAll
  BY DropInvSuffices
<1> QED BY <1>1, <1>2, <1>3, PTL DEF InvSpec
----------------------------------------------------------------------------
(* The depth of the recursion.                                              *)

DepthInv == InvTypeOK /\ DepthIsBounded

\* How many items have lost their flag is a number that only grows with the
\* set of them, and by one for each.
LEMMA DroppedCount ==
    ASSUME NEW B \in SUBSET AnyItems, NEW F \in SUBSET B
    PROVE  /\ Cardinality(B \ F) \in Nat
           /\ Cardinality(B \ {}) \in Nat /\ Cardinality(B \ F) <= Cardinality(B \ {})
           /\ \A i \in F : Cardinality(B \ (F \ {i})) = Cardinality(B \ F) + 1
<1>1. IsFiniteSet(B)
  BY FiniteAssumption, FS_Subset
<1>2. IsFiniteSet(B \ F) /\ IsFiniteSet(B \ {})
  BY <1>1, FS_Subset
<1>3. Cardinality(B \ F) \in Nat /\ Cardinality(B \ {}) \in Nat
  BY <1>2, FS_CardinalityType
<1>4. Cardinality(B \ F) <= Cardinality(B \ {})
  <2>1. B \ F \in SUBSET (B \ {})
    OBVIOUS
  <2> QED
    BY <1>2, <2>1, FS_Subset
<1>5. ASSUME NEW i \in F
      PROVE  Cardinality(B \ (F \ {i})) = Cardinality(B \ F) + 1
  <2>1. B \ (F \ {i}) = (B \ F) \cup {i} /\ i \notin B \ F
    OBVIOUS
  <2> QED
    BY <1>2, <2>1, FS_AddElement
<1> QED
  BY <1>3, <1>4, <1>5

\* A step that makes the recursion deeper takes the flag of an item: only
\* Enter does, and it has dropped the item before it looks further.
LEMMA DepthStep ==
    ASSUME DepthInv, [InvNext]_ivars
    PROVE  DepthInv'
<1> DEFINE n == Cardinality(before \ flagged)
<1>0. /\ InvTypeOK /\ flagged \in SUBSET before /\ before \in SUBSET AnyItems
      /\ Len(calls) \in Nat /\ Len(calls) <= 1 + n
  BY DEF DepthInv, InvTypeOK, DepthIsBounded
<1>00. /\ n \in Nat
       /\ Cardinality(before \ {}) \in Nat /\ n <= Cardinality(before \ {})
       /\ \A i \in flagged : Cardinality(before \ (flagged \ {i})) = n + 1
  BY <1>0, DroppedCount
<1> HIDE DEF n
<1>1. CASE UNCHANGED ivars
  BY <1>1 DEF ivars, DepthInv, InvTypeOK, DepthIsBounded
<1>2. ASSUME calls # <<>>, NEW i \in Top, Skip(i) \/ Enter(i) \/ EnterModules(i)
      PROVE  DepthInv'
  <2>1. /\ Top \in SUBSET AnyItems /\ Others \in Seq(SUBSET AnyItems)
        /\ Len(Others) = Len(calls) - 1
    BY <1>0, <1>2 DEF InvTypeOK, Top, Others
  <2>2. /\ <<Top \ {i}>> \o Others \in Seq(SUBSET AnyItems)
        /\ Len(<<Top \ {i}>> \o Others) = Len(calls)
    BY <1>0, <2>1
  <2>3. i \in AnyItems /\ deps[i] \in SUBSET AnyItems
    BY <1>0, <1>2, <2>1 DEF InvTypeOK
  <2>4. CASE Skip(i)
    BY <1>0, <2>2, <2>4 DEF Skip, DepthInv, InvTypeOK, DepthIsBounded, n
  <2>5. CASE Enter(i)
    <3>1. i \in flagged /\ flagged' = flagged \ {i} /\ before' = before
      BY <2>5 DEF Enter
    <3>2. calls' \in Seq(SUBSET AnyItems) /\ Len(calls') = Len(calls) + 1
      BY <1>0, <2>2, <2>3, <2>5 DEF Enter
    <3>3. Cardinality(before' \ flagged') = n + 1
      BY <1>00, <3>1
    <3>4. Len(calls') <= 1 + Cardinality(before' \ flagged')
      BY <1>0, <1>00, <3>2, <3>3
    <3> QED
      BY <1>0, <2>5, <3>1, <3>2, <3>4 DEF Enter, DepthInv, InvTypeOK, DepthIsBounded
  <2>6. CASE EnterModules(i)
    <3>1. flagged' = {} /\ before' = before /\ calls' = <<Top \ {i}>> \o Others
      BY <2>6 DEF EnterModules
    <3>2. Len(calls') <= 1 + Cardinality(before' \ flagged')
      BY <1>0, <1>00, <2>2, <3>1
    <3> QED
      BY <1>0, <2>2, <2>6, <3>1, <3>2 DEF EnterModules, DepthInv, InvTypeOK, DepthIsBounded
  <2> QED
    BY <1>2, <2>4, <2>5, <2>6
<1>3. CASE Return
  <2>1. Others \in Seq(SUBSET AnyItems) /\ Len(Others) = Len(calls) - 1
    BY <1>0, <1>3 DEF Return, InvTypeOK, Others
  <2>2. Len(Others) <= 1 + n
    BY <1>0, <1>00, <2>1
  <2> QED
    BY <1>0, <1>3, <2>1, <2>2 DEF Return, DepthInv, InvTypeOK, DepthIsBounded, n
<1> QED BY <1>1, <1>2, <1>3 DEF InvNext, Look

(***************************************************************************)
(* However the dependencies loop, _rec_invalidate() nests no deeper than   *)
(* the number of items whose cached values it has dropped: cycles cannot   *)
(* make it overflow the stack.                                             *)
(***************************************************************************)
THEOREM DepthIsBoundedThm == InvSpec => []DepthIsBounded
<1>1. InvInit => DepthInv
  <2> SUFFICES ASSUME InvInit PROVE DepthInv
    OBVIOUS
  <2>1. InvTypeOK
    BY DropInit DEF DropInv
  <2>2. Cardinality(before \ flagged) \in Nat
    BY <2>1, DroppedCount DEF InvTypeOK
  <2>3. Len(calls) <= 1
    <3>1. CASE root = ModulesItem
      BY <3>1 DEF InvInit
    <3>2. CASE root # ModulesItem
      BY <3>2 DEF InvInit
    <3> QED BY <3>1, <3>2
  <2>4. Len(calls) \in Nat
    BY <2>1 DEF InvTypeOK
  <2> QED BY <2>1, <2>2, <2>3, <2>4 DEF DepthInv, DepthIsBounded
<1>2. DepthInv /\ [InvNext]_ivars => DepthInv'
  BY DepthStep
<1>3. DepthInv => DepthIsBounded
  BY DEF DepthInv
<1> QED BY <1>1, <1>2, <1>3, PTL DEF InvSpec

=============================================================================
