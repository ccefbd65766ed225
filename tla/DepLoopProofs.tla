---------------------------- MODULE DepLoopProofs ----------------------------
(***************************************************************************)
(* Proofs about DepLoop: for every graph of dependencies, every choice and *)
(* every order in which sets are iterated, the marks are set in an order   *)
(* that excludes loops, no loop that is found is dropped, and the one that *)
(* is reported is real.                                                    *)
(***************************************************************************)
EXTENDS DepLoop, SequenceTheorems, TLAPS

Frames == [item : Items, todo : SUBSET Items, last : SUBSET ChoiceSet]

GraphOK ==
    /\ dependents \in [Items -> SUBSET Items]
    /\ choiceOf \in [Symbols -> ChoiceSet \cup {None}]
    /\ members \in [ChoiceSet -> SUBSET Symbols]

SearchOK ==
    /\ roots \in Seq(Symbols)
    /\ visited \in [Items -> {0, 1, 2}]
    /\ stack \in Seq(Frames)
    /\ loop \in Seq(Items)
    /\ verdict \in {"parsing", "checking", "loop", "ok"}
    /\ clock \in Nat
    /\ rank \in [Items -> Nat]

\* What is left to visit from an item.
Static(f) ==
    /\ f.item \in Symbols => f.todo \subseteq dependents[f.item] /\ f.last \subseteq {choiceOf[f.item]}
    /\ f.item \in ChoiceSet => f.todo \subseteq members[f.item] /\ f.last = {}

\* What was visited from it is marked 2, or being visited.
Covered(f, also) ==
    /\ f.item \in Symbols =>
          \A d \in dependents[f.item] : d \in f.todo \/ visited[d] = 2 \/ d \in also
    /\ f.item \in ChoiceSet =>
          \E skip \in Symbols \cup {None} : \A s \in members[f.item] \ {skip} :
              s \in f.todo \/ visited[s] = 2 \/ s \in also

NextItem(st, k) == IF k < Len(st) THEN {st[k + 1].item} ELSE {}

CallsOK(st) ==
    /\ \A k \in 1 .. Len(st) : Static(st[k]) /\ visited[st[k].item] = 1
    /\ \A j, k \in 1 .. Len(st) : st[j].item = st[k].item => j = k
    /\ \A k \in 1 .. Len(st) - 1 : Leads(st[k].item, st[k + 1].item)

CallsCovered(st) == \A k \in 1 .. Len(st) : Covered(st[k], NextItem(st, k))

OnWayIsCalled(st) == \A i \in Items : visited[i] = 1 => \E k \in 1 .. Len(st) : st[k].item = i

RanksOK == \A i \in Items : visited[i] = 2 => rank[i] < clock

LoopChain == \A k \in 1 .. Len(loop) - 1 : Leads(loop[k + 1], loop[k])

LoopOnStack ==
    loop # <<>> =>
        /\ stack # <<>>
        /\ Leads(stack[Len(stack)].item, loop[Len(loop)])
        /\ \E k \in 1 .. Len(stack) : stack[k].item = loop[1]

VerdictOK ==
    /\ verdict = "parsing" => visited = [i \in Items |-> 0] /\ stack = <<>> /\ loop = <<>>
    /\ verdict = "loop" => loop # <<>> /\ stack[Len(stack)].item = loop[1]

IInv ==
    /\ GraphOK /\ SearchOK
    /\ CallsOK(stack)
    /\ loop = <<>> => CallsCovered(stack) /\ OnWayIsCalled(stack)
    /\ RanksOK
    /\ MarkedInOrder
    /\ LoopChain /\ LoopOnStack /\ VerdictOK

----------------------------------------------------------------------------
(* Sequences.                                                               *)

\* What Append does to the call stack.
LEMMA AppendFacts ==
    ASSUME NEW S, NEW s \in Seq(S), NEW e \in S
    PROVE  /\ Append(s, e) \in Seq(S)
           /\ Len(Append(s, e)) = Len(s) + 1
           /\ \A k \in 1 .. Len(s) : Append(s, e)[k] = s[k]
           /\ Append(s, e)[Len(s) + 1] = e
           /\ Append(s, e) # <<>>
  OBVIOUS

\* The stack without its last call.
LEMMA FrontFacts ==
    ASSUME NEW S, NEW s \in Seq(S), s # <<>>
    PROVE  /\ SubSeq(s, 1, Len(s) - 1) \in Seq(S)
           /\ Len(SubSeq(s, 1, Len(s) - 1)) = Len(s) - 1
           /\ \A k \in 1 .. Len(s) - 1 : SubSeq(s, 1, Len(s) - 1)[k] = s[k]
           /\ Len(s) \in Nat \ {0}
           /\ s[Len(s)] \in S
           /\ Len(s) \in 1 .. Len(s)
  <1>1. Len(s) \in Nat \ {0} /\ Len(s) \in 1 .. Len(s) /\ s[Len(s)] \in S OBVIOUS
  <1> DEFINE n == Len(s) - 1
  <1>2. n \in Nat /\ n + 1 = Len(s) BY <1>1
  <1>3. \A i \in 1 .. n : s[i] \in S BY <1>2
  <1> HIDE DEF n
  <1>4. /\ SubSeq(s, 1, n) \in Seq(S)
        /\ Len(SubSeq(s, 1, n)) = IF 1 <= n THEN n - 1 + 1 ELSE 0
        /\ \A i \in 1 .. n - 1 + 1 : SubSeq(s, 1, n)[i] = s[1 + i - 1]
    BY <1>2, <1>3, SubSeqProperties
  <1>5. Len(SubSeq(s, 1, n)) = n BY <1>2, <1>4
  <1>6. \A i \in 1 .. n : SubSeq(s, 1, n)[i] = s[i]
    <2> SUFFICES ASSUME NEW i \in 1 .. n PROVE SubSeq(s, 1, n)[i] = s[i] OBVIOUS
    <2>1. i \in 1 .. n - 1 + 1 /\ 1 + i - 1 = i BY <1>2
    <2> QED BY <1>4, <2>1
  <1> QED BY <1>1, <1>4, <1>5, <1>6 DEF n

\* The stack with its last call replaced.
LEMMA ReplaceFacts ==
    ASSUME NEW S, NEW s \in Seq(S), s # <<>>, NEW e \in S
    PROVE  LET r == Append(SubSeq(s, 1, Len(s) - 1), e)
           IN  /\ r \in Seq(S)
               /\ Len(r) = Len(s)
               /\ \A k \in 1 .. Len(s) - 1 : r[k] = s[k]
               /\ r[Len(s)] = e
               /\ r # <<>>
  BY FrontFacts, AppendFacts

----------------------------------------------------------------------------
(* A call.                                                                  *)

\* What holds of the stack below a call that is being made.
Ready(below, call) ==
    /\ below \in Seq(Frames) /\ call \in Frames
    /\ Len(below) = Len(stack)
    /\ \A k \in 1 .. Len(below) : below[k].item = stack[k].item /\ Static(below[k])
    /\ \A k \in 1 .. Len(below) :
          Covered(below[k], IF k < Len(below) THEN {below[k + 1].item} ELSE {call.item})
    /\ below # <<>> => Leads(below[Len(below)].item, call.item)
    /\ Static(call) /\ Covered(call, {})

\* A call of an item that was not visited.
LEMMA CallNew ==
    ASSUME IInv, verdict = "checking", loop = <<>>,
           NEW below, NEW call, Ready(below, call),
           visited[call.item] = 0,
           visited' = [visited EXCEPT ![call.item] = 1],
           stack' = Append(below, call), loop' = <<>>,
           CallTail, roots' \in Seq(Symbols)
    PROVE  IInv'
  <1> USE ItemsAssumption
  <1> DEFINE n == Len(below)
  <1>1. /\ below \in Seq(Frames) /\ call \in Frames /\ n \in Nat
        /\ stack' \in Seq(Frames) /\ Len(stack') = n + 1
        /\ \A k \in 1 .. n : stack'[k] = below[k]
        /\ stack'[n + 1] = call
        /\ call.item \in Items
    <2>1. below \in Seq(Frames) /\ call \in Frames BY DEF Ready
    <2> QED BY <2>1, AppendFacts DEF Frames
  <1>2. /\ dependents' = dependents /\ choiceOf' = choiceOf /\ members' = members
        /\ verdict' = "checking" /\ clock' = clock /\ rank' = rank
    BY DEF CallTail, graph
  <1>3. /\ visited' \in [Items -> {0, 1, 2}]
        /\ visited'[call.item] = 1
        /\ \A i \in Items : visited'[i] = 2 <=> visited[i] = 2
        /\ \A i \in Items : i # call.item => visited'[i] = visited[i]
    BY <1>1 DEF IInv, SearchOK
  <1>4. GraphOK' /\ SearchOK'
    BY <1>1, <1>2, <1>3 DEF IInv, GraphOK, SearchOK
  <1>5. \A k \in 1 .. n : /\ below[k].item = stack[k].item /\ below[k].item \in Items
                          /\ visited[below[k].item] = 1
    <2>1. Len(stack) = n /\ stack \in Seq(Frames) BY DEF Ready, IInv, SearchOK
    <2>2. \A k \in 1 .. n : below[k] \in Frames BY <1>1
    <2>3. \A k \in 1 .. n : below[k].item \in Items BY <2>2 DEF Frames
    <2>4. \A k \in 1 .. n : below[k].item = stack[k].item BY DEF Ready
    <2>5. \A k \in 1 .. n : visited[stack[k].item] = 1 BY <2>1 DEF IInv, CallsOK
    <2> QED BY <2>3, <2>4, <2>5
  <1>6. CallsOK(stack)'
    <2>1. ASSUME NEW k \in 1 .. n + 1 PROVE Static(stack[k])' /\ visited'[stack'[k].item] = 1
      <3>1. CASE k = n + 1 BY <3>1, <1>1, <1>2, <1>3 DEF Ready, Static
      <3>2. CASE k \in 1 .. n
        <4>1. Static(below[k]) BY <3>2 DEF Ready
        <4> QED BY <3>2, <4>1, <1>1, <1>2, <1>3, <1>5 DEF Static
      <3> QED BY <3>1, <3>2, <1>1
    <2>2. ASSUME NEW j \in 1 .. n + 1, NEW k \in 1 .. n + 1, stack'[j].item = stack'[k].item
          PROVE  j = k
      <3>1. ASSUME NEW i \in 1 .. n PROVE stack'[i].item # call.item
        BY <1>1, <1>5
      <3>2. CASE j \in 1 .. n /\ k \in 1 .. n
        <4>1. stack[j].item = stack[k].item BY <2>2, <3>2, <1>1, <1>5
        <4> QED BY <4>1, <3>2 DEF IInv, CallsOK, Ready
      <3> QED BY <2>2, <3>1, <3>2, <1>1
    <2>3. ASSUME NEW k \in 1 .. n PROVE Leads(stack[k].item, stack[k + 1].item)'
      <3>1. CASE k = n
        <4>1. below # <<>> BY <3>1, <1>1
        <4> QED BY <3>1, <4>1, <1>1, <1>2 DEF Ready, Leads
      <3>2. CASE k \in 1 .. n - 1
        <4>1. k + 1 \in 1 .. n BY <3>2, <1>1
        <4>2. stack'[k].item = stack[k].item /\ stack'[k + 1].item = stack[k + 1].item
          BY <3>2, <4>1, <1>1, <1>5
        <4>3. Leads(stack[k].item, stack[k + 1].item) BY <3>2 DEF IInv, CallsOK, Ready
        <4> QED BY <4>2, <4>3, <1>2 DEF Leads
      <3> QED BY <3>1, <3>2, <1>1
    <2>4. 1 .. Len(stack') = 1 .. n + 1 /\ 1 .. Len(stack') - 1 = 1 .. n BY <1>1
    <2> HIDE DEF n
    <2> QED BY <2>1, <2>2, <2>3, <2>4 DEF CallsOK
  <1>7. CallsCovered(stack)'
    <2> SUFFICES ASSUME NEW k \in 1 .. n + 1 PROVE Covered(stack[k], NextItem(stack, k))'
      BY <1>1 DEF CallsCovered
    <2>1. CASE k = n + 1
      <3>1. stack'[k] = call BY <2>1, <1>1
      <3>2. Covered(call, {}) BY DEF Ready
      <3>3. call.item \in Symbols =>
               \A d \in dependents[call.item] : d \in call.todo \/ visited'[d] = 2
        BY <3>2, <1>3 DEF Covered, IInv, GraphOK, Items
      <3>4. call.item \in ChoiceSet =>
               \E skip \in Symbols \cup {None} : \A s \in members[call.item] \ {skip} :
                   s \in call.todo \/ visited'[s] = 2
        <4>1. SUFFICES ASSUME call.item \in ChoiceSet
                       PROVE  \E skip \in Symbols \cup {None} : \A s \in members[call.item] \ {skip} :
                                  s \in call.todo \/ visited'[s] = 2
          OBVIOUS
        <4>2. members[call.item] \subseteq Items BY <4>1 DEF IInv, GraphOK, Items
        <4> QED BY <3>2, <4>1, <4>2, <1>3 DEF Covered
      <3> QED BY <3>1, <3>3, <3>4, <1>2 DEF Covered
    <2>2. CASE k \in 1 .. n
      <3>1. Covered(below[k], IF k < n THEN {below[k + 1].item} ELSE {call.item})
        BY <2>2 DEF Ready
      <3>2. NextItem(stack', k) = IF k < n THEN {below[k + 1].item} ELSE {call.item}
        <4>1. k < Len(stack') BY <2>2, <1>1
        <4>2. NextItem(stack', k) = {stack'[k + 1].item} BY <4>1 DEF NextItem
        <4>3. CASE k < n
          <5>1. k + 1 \in 1 .. n BY <4>3, <2>2, <1>1
          <5> QED BY <4>2, <4>3, <5>1, <1>1
        <4>4. CASE ~(k < n)
          <5>1. k = n BY <4>4, <2>2, <1>1
          <5> QED BY <4>2, <4>4, <5>1, <1>1
        <4> QED BY <4>3, <4>4
      <3>3. stack'[k] = below[k] /\ below[k].item \in Items BY <2>2, <1>1, <1>5
      <3> DEFINE also == IF k < n THEN {below[k + 1].item} ELSE {call.item}
                 f == below[k]
      <3>4. f.item \in Symbols =>
               \A d \in dependents[f.item] : d \in f.todo \/ visited'[d] = 2 \/ d \in also
        BY <3>1, <1>3 DEF Covered, IInv, GraphOK, Items
      <3>5. ASSUME f.item \in ChoiceSet
            PROVE  \E skip \in Symbols \cup {None} : \A s \in members[f.item] \ {skip} :
                       s \in f.todo \/ visited'[s] = 2 \/ s \in also
        <4>1. members[f.item] \subseteq Items BY <3>5 DEF IInv, GraphOK, Items
        <4> QED BY <3>1, <3>5, <4>1, <1>3 DEF Covered
      <3> HIDE DEF also, f
      <3>6. stack'[k] = f /\ NextItem(stack', k) = also BY <3>2, <3>3 DEF also, f
      <3> QED BY <3>4, <3>5, <3>6, <1>2 DEF Covered
    <2> QED BY <2>1, <2>2, <1>1
  <1>8. OnWayIsCalled(stack)'
    <2> SUFFICES ASSUME NEW i \in Items, visited'[i] = 1
                 PROVE  \E k \in 1 .. n + 1 : stack'[k].item = i
      BY <1>1 DEF OnWayIsCalled
    <2>1. CASE i = call.item BY <2>1, <1>1
    <2>2. CASE i # call.item
      <3>1. PICK k \in 1 .. Len(stack) : stack[k].item = i
        BY <2>2, <1>3 DEF IInv, OnWayIsCalled
      <3> QED BY <3>1, <1>1, <1>5 DEF Ready
    <2> QED BY <2>1, <2>2
  <1>9. RanksOK' BY <1>2, <1>3 DEF IInv, RanksOK
  <1>10. MarkedInOrder'
    BY <1>2, <1>3 DEF IInv, MarkedInOrder, GraphOK, Items
  <1>11. LoopChain' /\ LoopOnStack' /\ VerdictOK'
    BY <1>2 DEF LoopChain, LoopOnStack, VerdictOK
  <1> QED BY <1>4, <1>6, <1>7, <1>8, <1>9, <1>10, <1>11 DEF IInv

\* A call that returns at once.
LEMMA CallReturns ==
    ASSUME IInv, NEW below, NEW call, Ready(below, call),
           visited' = visited, stack' = below, CallTail
    PROVE  /\ GraphOK' /\ CallsOK(stack)' /\ RanksOK' /\ MarkedInOrder'
           /\ stack' \in Seq(Frames) /\ Len(stack') = Len(stack) /\ Len(stack) \in Nat
           /\ \A k \in 1 .. Len(stack) : stack'[k] = below[k] /\ stack'[k].item = stack[k].item
  <1> USE ItemsAssumption
  <1>1. /\ dependents' = dependents /\ choiceOf' = choiceOf /\ members' = members
        /\ verdict' = verdict /\ clock' = clock /\ rank' = rank
    BY DEF CallTail, graph
  <1>2. stack' \in Seq(Frames) /\ Len(stack') = Len(stack) /\ Len(stack) \in Nat
    BY DEF Ready, IInv, SearchOK
  <1>3. \A k \in 1 .. Len(stack) : stack'[k] = below[k] /\ stack'[k].item = stack[k].item
    BY DEF Ready
  <1>4. GraphOK' /\ RanksOK' BY <1>1 DEF IInv, GraphOK, RanksOK
  <1>5. MarkedInOrder' BY <1>1 DEF IInv, MarkedInOrder
  <1>6. CallsOK(stack)'
    <2>1. ASSUME NEW k \in 1 .. Len(stack) PROVE Static(stack[k])' /\ visited'[stack'[k].item] = 1
      <3>1. Static(below[k]) BY DEF Ready
      <3>2. visited[stack[k].item] = 1 BY DEF IInv, CallsOK
      <3> QED BY <3>1, <3>2, <1>1, <1>3 DEF Static
    <2>2. ASSUME NEW j \in 1 .. Len(stack), NEW k \in 1 .. Len(stack),
                 stack'[j].item = stack'[k].item
          PROVE  j = k
      BY <2>2, <1>3 DEF IInv, CallsOK
    <2>3. ASSUME NEW k \in 1 .. Len(stack) - 1 PROVE Leads(stack[k].item, stack[k + 1].item)'
      <3>1. k \in 1 .. Len(stack) /\ k + 1 \in 1 .. Len(stack) BY <1>2
      <3>2. Leads(stack[k].item, stack[k + 1].item) BY DEF IInv, CallsOK
      <3> QED BY <3>1, <3>2, <1>1, <1>3 DEF Leads
    <2> QED BY <2>1, <2>2, <2>3, <1>2 DEF CallsOK
  <1> QED BY <1>2, <1>3, <1>4, <1>5, <1>6

\* A call of an item that is in no loop.
LEMMA CallDone ==
    ASSUME IInv, verdict = "checking", loop = <<>>,
           NEW below, NEW call, Ready(below, call),
           visited[call.item] = 2,
           visited' = visited, stack' = below, loop' = <<>>,
           CallTail, roots' \in Seq(Symbols)
    PROVE  IInv'
  <1> USE ItemsAssumption
  <1>1. /\ GraphOK' /\ CallsOK(stack)' /\ RanksOK' /\ MarkedInOrder'
        /\ stack' \in Seq(Frames) /\ Len(stack') = Len(stack) /\ Len(stack) \in Nat
        /\ \A k \in 1 .. Len(stack) : stack'[k] = below[k] /\ stack'[k].item = stack[k].item
    BY CallReturns
  <1>2. /\ dependents' = dependents /\ choiceOf' = choiceOf /\ members' = members
        /\ verdict' = "checking" /\ clock' = clock /\ rank' = rank
    BY DEF CallTail, graph
  <1>3. SearchOK' BY <1>1, <1>2 DEF IInv, SearchOK
  <1>4. CallsCovered(stack)'
    <2> SUFFICES ASSUME NEW k \in 1 .. Len(stack) PROVE Covered(stack[k], NextItem(stack, k))'
      BY <1>1 DEF CallsCovered
    <2> DEFINE f == below[k]
    <2>1. stack'[k] = f /\ Len(below) = Len(stack) BY <1>1 DEF Ready
    <2>2. Covered(f, IF k < Len(below) THEN {below[k + 1].item} ELSE {call.item})
      BY <2>1 DEF Ready
    <2>3. CASE k < Len(stack)
      <3>1. NextItem(stack', k) = {below[k + 1].item}
        <4>1. k + 1 \in 1 .. Len(stack) BY <2>3, <1>1
        <4> QED BY <4>1, <2>3, <1>1 DEF NextItem
      <3>2. Covered(f, {below[k + 1].item}) BY <2>1, <2>2, <2>3
      <3> QED BY <2>1, <3>1, <3>2, <1>2 DEF Covered
    <2>4. CASE ~(k < Len(stack))
      <3>1. NextItem(stack', k) = {} BY <2>4, <1>1 DEF NextItem
      <3>2. Covered(f, {call.item}) BY <2>1, <2>2, <2>4
      <3>3. Covered(f, {}) BY <3>2 DEF Covered
      <3> QED BY <2>1, <3>1, <3>3, <1>2 DEF Covered
    <2> QED BY <2>3, <2>4
  <1>5. OnWayIsCalled(stack)'
    <2> SUFFICES ASSUME NEW i \in Items, visited[i] = 1
                 PROVE  \E k \in 1 .. Len(stack) : stack'[k].item = i
      BY <1>1 DEF OnWayIsCalled
    <2>1. PICK k \in 1 .. Len(stack) : stack[k].item = i BY DEF IInv, OnWayIsCalled
    <2> QED BY <2>1, <1>1
  <1>6. LoopChain' /\ LoopOnStack' /\ VerdictOK'
    BY <1>2 DEF LoopChain, LoopOnStack, VerdictOK
  <1> QED BY <1>1, <1>3, <1>4, <1>5, <1>6 DEF IInv

\* A call of an item that is being visited: the loop ends on the stack.
LEMMA CallLoop ==
    ASSUME IInv, verdict = "checking", loop = <<>>,
           NEW below, NEW call, Ready(below, call),
           visited[call.item] = 1,
           visited' = visited, stack' = below, loop' = <<call.item>>,
           CallTail, roots' \in Seq(Symbols)
    PROVE  IInv'
  <1> USE ItemsAssumption
  <1>1. /\ GraphOK' /\ CallsOK(stack)' /\ RanksOK' /\ MarkedInOrder'
        /\ stack' \in Seq(Frames) /\ Len(stack') = Len(stack) /\ Len(stack) \in Nat
        /\ \A k \in 1 .. Len(stack) : stack'[k] = below[k] /\ stack'[k].item = stack[k].item
    BY CallReturns
  <1>2. /\ dependents' = dependents /\ choiceOf' = choiceOf /\ members' = members
        /\ verdict' = "checking" /\ clock' = clock /\ rank' = rank
    BY DEF CallTail, graph
  <1>3. call.item \in Items BY DEF Ready, Frames
  <1>4. loop' \in Seq(Items) /\ Len(loop') = 1 /\ loop'[1] = call.item /\ loop' # <<>>
    BY <1>3
  <1>5. SearchOK' BY <1>1, <1>2, <1>4 DEF IInv, SearchOK
  <1>6. PICK k \in 1 .. Len(stack) : stack[k].item = call.item
    BY <1>3 DEF IInv, OnWayIsCalled
  <1>7. below # <<>> /\ Len(below) = Len(stack)
    <2>1. Len(below) = Len(stack) BY DEF Ready
    <2> QED BY <2>1, <1>1, <1>6
  <1>8. LoopOnStack'
    <2>1. Leads(below[Len(below)].item, call.item) BY <1>7 DEF Ready
    <2>2. Leads(stack[Len(stack)].item, loop[Len(loop)])'
      BY <2>1, <1>2, <1>4 DEF Leads
    <2>3. \E j \in 1 .. Len(stack') : stack'[j].item = loop'[1] BY <1>1, <1>4, <1>6
    <2> QED BY <2>2, <2>3, <1>7 DEF LoopOnStack
  <1>9. LoopChain' /\ VerdictOK' BY <1>2, <1>4 DEF LoopChain, VerdictOK
  <1> QED BY <1>1, <1>4, <1>5, <1>8, <1>9 DEF IInv

\* Any call.
LEMMA CallKeeps ==
    ASSUME IInv, verdict = "checking", loop = <<>>,
           NEW below, NEW call, Ready(below, call),
           Call(below, call), CallTail, roots' \in Seq(Symbols)
    PROVE  IInv'
  <1>1. visited[call.item] \in {0, 1, 2} BY DEF Ready, Frames, IInv, SearchOK
  <1>2. CASE visited[call.item] = 0 BY <1>2, CallNew DEF Call
  <1>3. CASE visited[call.item] = 1 BY <1>3, CallLoop DEF Call
  <1>4. CASE visited[call.item] = 2 BY <1>4, CallDone DEF Call
  <1> QED BY <1>1, <1>2, <1>3, <1>4

\* The arguments of the calls.
LEMMA SymCallOK ==
    ASSUME GraphOK, NEW s \in Symbols, NEW b \in BOOLEAN
    PROVE  /\ SymCall(s, b) \in Frames /\ SymCall(s, b).item = s
           /\ Static(SymCall(s, b)) /\ Covered(SymCall(s, b), {})
  <1> USE ItemsAssumption
  <1> DEFINE c == SymCall(s, b)
  <1>1. c.item = s /\ c.todo = dependents[s] /\ c.last \subseteq {choiceOf[s]}
    BY DEF SymCall
  <1>2. c \in Frames
    <2>1. dependents[s] \in SUBSET Items /\ s \in Items BY DEF GraphOK, Items
    <2>2. (IF b \/ choiceOf[s] = None THEN {} ELSE {choiceOf[s]}) \in SUBSET ChoiceSet
      BY DEF GraphOK
    <2> QED BY <2>1, <2>2 DEF SymCall, Frames
  <1>3. s \notin ChoiceSet OBVIOUS
  <1> HIDE DEF c
  <1>4. Static(c) /\ Covered(c, {}) BY <1>1, <1>3 DEF Static, Covered
  <1> QED BY <1>1, <1>2, <1>4 DEF c

\* The same for the calls that _check_dep_loop_choice makes.
LEMMA ChoiceCallOK ==
    ASSUME GraphOK, NEW c \in ChoiceSet, NEW skip \in Symbols \cup {None}
    PROVE  /\ ChoiceCall(c, skip) \in Frames /\ ChoiceCall(c, skip).item = c
           /\ Static(ChoiceCall(c, skip)) /\ Covered(ChoiceCall(c, skip), {})
  <1> USE ItemsAssumption
  <1> DEFINE f == ChoiceCall(c, skip)
  <1>1. f.item = c /\ f.todo = members[c] \ {skip} /\ f.last = {} BY DEF ChoiceCall
  <1>2. f \in Frames
    <2>1. members[c] \ {skip} \in SUBSET Items /\ c \in Items BY DEF GraphOK, Items
    <2> QED BY <2>1 DEF ChoiceCall, Frames
  <1>3. c \notin Symbols OBVIOUS
  <1> HIDE DEF f
  <1>4. Static(f) BY <1>1, <1>3 DEF Static
  <1>5. Covered(f, {}) BY <1>1, <1>3 DEF Covered
  <1> QED BY <1>1, <1>2, <1>4, <1>5 DEF f

\* The innermost call.
LEMMA TopOK ==
    ASSUME IInv, stack # <<>>
    PROVE  /\ Top \in Frames /\ Top.item \in Items /\ Static(Top) /\ visited[Top.item] = 1
           /\ loop = <<>> => Covered(Top, {})
           /\ Len(stack) \in Nat \ {0} /\ Len(stack) \in 1 .. Len(stack)
  <1>1. stack \in Seq(Frames) BY DEF IInv, SearchOK
  <1>2. Len(stack) \in Nat \ {0} /\ Len(stack) \in 1 .. Len(stack) /\ stack[Len(stack)] \in Frames
    BY <1>1, FrontFacts
  <1>3. Static(Top) /\ visited[Top.item] = 1 BY <1>2 DEF IInv, CallsOK, Top
  <1>4. ASSUME loop = <<>> PROVE Covered(Top, {})
    <2>1. NextItem(stack, Len(stack)) = {} BY <1>2 DEF NextItem
    <2>2. Covered(stack[Len(stack)], NextItem(stack, Len(stack)))
      BY <1>2, <1>4 DEF IInv, CallsCovered
    <2> QED BY <2>1, <2>2 DEF Top
  <1> QED BY <1>2, <1>3, <1>4 DEF Top, Frames

\* A call from the innermost call, which becomes f.
LEMMA ReplaceReady ==
    ASSUME IInv, loop = <<>>, stack # <<>>,
           NEW f \in Frames, NEW call \in Frames,
           f.item = Top.item, Static(f), Covered(f, {call.item}), Leads(f.item, call.item),
           Static(call), Covered(call, {})
    PROVE  Ready(Append(Rest, f), call)
  <1> DEFINE below == Append(Rest, f)
  <1>1. stack \in Seq(Frames) BY DEF IInv, SearchOK
  <1>2. /\ below \in Seq(Frames) /\ Len(below) = Len(stack) /\ below # <<>>
        /\ \A k \in 1 .. Len(stack) - 1 : below[k] = stack[k]
        /\ below[Len(stack)] = f
    BY <1>1, ReplaceFacts DEF Rest
  <1>3. Len(stack) \in Nat \ {0} BY TopOK
  <1> HIDE DEF below
  <1>4. ASSUME NEW k \in 1 .. Len(stack)
        PROVE  /\ below[k].item = stack[k].item /\ Static(below[k])
               /\ Covered(below[k], IF k < Len(stack) THEN {below[k + 1].item} ELSE {call.item})
    <2>1. CASE k = Len(stack)
      <3>1. below[k] = f /\ stack[k] = Top BY <2>1, <1>2 DEF Top
      <3>2. ~(k < Len(stack)) BY <2>1, <1>3
      <3> QED BY <3>1, <3>2
    <2>2. CASE k \in 1 .. Len(stack) - 1
      <3>1. below[k] = stack[k] BY <2>2, <1>2
      <3>2. Static(stack[k]) BY DEF IInv, CallsOK
      <3>3. k < Len(stack) BY <2>2, <1>3
      <3>4. Covered(stack[k], {stack[k + 1].item})
        <4>1. Covered(stack[k], NextItem(stack, k)) BY DEF IInv, CallsCovered
        <4> QED BY <4>1, <3>3 DEF NextItem
      <3>5. below[k + 1].item = stack[k + 1].item
        <4>1. CASE k + 1 = Len(stack) BY <4>1, <1>2 DEF Top
        <4>2. CASE k + 1 \in 1 .. Len(stack) - 1 BY <4>2, <1>2
        <4> QED BY <4>1, <4>2, <2>2, <1>3
      <3> QED BY <3>1, <3>2, <3>3, <3>4, <3>5
    <2> QED BY <2>1, <2>2, <1>3
  <1>5. Ready(below, call) BY <1>2, <1>4 DEF Ready
  <1> QED BY <1>5 DEF below

----------------------------------------------------------------------------
(* The actions.                                                             *)

\* The search of one more defined symbol starts.
LEMMA CheckRootKeeps ==
    ASSUME IInv, CheckRoot
    PROVE  IInv'
  <1>1. loop = <<>> /\ verdict = "checking" /\ stack = <<>>
    BY DEF IInv, LoopOnStack, CheckRoot
  <1>2. Head(roots) \in Symbols /\ roots' \in Seq(Symbols)
    BY DEF CheckRoot, IInv, SearchOK
  <1> DEFINE call == SymCall(Head(roots), FALSE)
  <1>3. call \in Frames /\ Static(call) /\ Covered(call, {})
    BY <1>2, SymCallOK DEF IInv
  <1> HIDE DEF call
  <1>4. Ready(<<>>, call) BY <1>1, <1>3 DEF Ready
  <1>5. Call(<<>>, call) /\ CallTail BY <1>1 DEF CheckRoot, call
  <1> QED BY <1>1, <1>2, <1>4, <1>5, CallKeeps

\* A call goes on to a symbol: a dependent, or a symbol of the choice.
LEMMA VisitSymKeeps ==
    ASSUME IInv, NEW s \in Symbols, VisitSym(s)
    PROVE  IInv'
  <1> USE ItemsAssumption
  <1>1. loop = <<>> /\ verdict = "checking" /\ stack # <<>> /\ s \in Top.todo
    BY DEF VisitSym, Searching
  <1>2. roots' \in Seq(Symbols) BY DEF VisitSym, IInv, SearchOK
  <1> DEFINE call == SymCall(s, Top.item \in ChoiceSet)
             f == [Top EXCEPT !.todo = @ \ {s}]
  <1>3. call \in Frames /\ call.item = s /\ Static(call) /\ Covered(call, {})
    <2>1. CASE Top.item \in ChoiceSet
      <3>1. call = SymCall(s, TRUE) BY <2>1 DEF SymCall
      <3> QED BY <3>1, SymCallOK DEF IInv
    <2>2. CASE Top.item \notin ChoiceSet
      <3>1. call = SymCall(s, FALSE) BY <2>2 DEF SymCall
      <3> QED BY <3>1, SymCallOK DEF IInv
    <2> QED BY <2>1, <2>2
  <1>4. Top \in Frames /\ Static(Top) /\ Covered(Top, {}) BY <1>1, TopOK
  <1>5. f \in Frames /\ f.item = Top.item /\ f.todo = Top.todo \ {s} /\ f.last = Top.last
    BY <1>4 DEF Frames
  <1>6. Call(Append(Rest, f), call) /\ CallTail BY DEF VisitSym
  <1> HIDE DEF call, f
  <1>7. Static(f) /\ Covered(f, {call.item}) BY <1>3, <1>4, <1>5 DEF Static, Covered
  <1>8. Leads(f.item, call.item) BY <1>1, <1>3, <1>4, <1>5 DEF Static, Leads, Frames, Items
  <1>9. Ready(Append(Rest, f), call) BY <1>1, <1>3, <1>5, <1>7, <1>8, ReplaceReady
  <1> QED BY <1>1, <1>2, <1>6, <1>9, CallKeeps

\* A symbol goes on to a choice that depends on it.
LEMMA VisitChoiceKeeps ==
    ASSUME IInv, NEW c \in ChoiceSet, VisitChoice(c)
    PROVE  IInv'
  <1> USE ItemsAssumption
  <1>1. loop = <<>> /\ verdict = "checking" /\ stack # <<>> /\ c \in Top.todo
    BY DEF VisitChoice, Searching
  <1>2. roots' \in Seq(Symbols) BY DEF VisitChoice, IInv, SearchOK
  <1> DEFINE call == ChoiceCall(c, None)
             f == [Top EXCEPT !.todo = @ \ {c}]
  <1>3. call \in Frames /\ call.item = c /\ Static(call) /\ Covered(call, {})
    BY ChoiceCallOK DEF IInv
  <1>4. Top \in Frames /\ Static(Top) /\ Covered(Top, {}) BY <1>1, TopOK
  <1>5. f \in Frames /\ f.item = Top.item /\ f.todo = Top.todo \ {c} /\ f.last = Top.last
    BY <1>4 DEF Frames
  <1>6. Call(Append(Rest, f), call) /\ CallTail BY DEF VisitChoice
  <1> HIDE DEF call, f
  <1>7. Static(f) /\ Covered(f, {call.item}) BY <1>3, <1>4, <1>5 DEF Static, Covered
  <1>8. Leads(f.item, call.item) BY <1>1, <1>3, <1>4, <1>5 DEF Static, Leads, Frames, Items
  <1>9. Ready(Append(Rest, f), call) BY <1>1, <1>3, <1>5, <1>7, <1>8, ReplaceReady
  <1> QED BY <1>1, <1>2, <1>6, <1>9, CallKeeps

\* _check_dep_loop_sym goes on to the choice of the symbol.
LEMMA VisitOwnChoiceKeeps ==
    ASSUME IInv, NEW c \in ChoiceSet, VisitOwnChoice(c)
    PROVE  IInv'
  <1> USE ItemsAssumption
  <1>1. loop = <<>> /\ verdict = "checking" /\ stack # <<>> /\ c \in Top.last
    BY DEF VisitOwnChoice, Searching
  <1>2. roots' \in Seq(Symbols) BY DEF VisitOwnChoice, IInv, SearchOK
  <1>3. Top \in Frames /\ Static(Top) /\ Covered(Top, {}) BY <1>1, TopOK
  <1>4. Top.item \in Symbols /\ c = choiceOf[Top.item]
    BY <1>1, <1>3 DEF Static, Frames, Items
  <1> DEFINE call == ChoiceCall(c, Top.item)
             f == [Top EXCEPT !.last = {}]
  <1>5. call \in Frames /\ call.item = c /\ Static(call) /\ Covered(call, {})
    BY <1>4, ChoiceCallOK DEF IInv
  <1>6. f \in Frames /\ f.item = Top.item /\ f.todo = Top.todo /\ f.last = {}
    BY <1>3 DEF Frames
  <1>7. Call(Append(Rest, f), call) /\ CallTail BY DEF VisitOwnChoice
  <1> HIDE DEF call, f
  <1>8. Static(f) /\ Covered(f, {call.item}) BY <1>3, <1>6 DEF Static, Covered
  <1>9. Leads(f.item, call.item) BY <1>4, <1>5, <1>6 DEF Leads
  <1>10. Ready(Append(Rest, f), call) BY <1>1, <1>5, <1>6, <1>8, <1>9, ReplaceReady
  <1> QED BY <1>1, <1>2, <1>7, <1>10, CallKeeps

\* A call that found nothing returns; its item is visited for good.
LEMMA LeaveKeeps ==
    ASSUME IInv, Leave
    PROVE  IInv'
  <1> USE ItemsAssumption
  <1> DEFINE a == Top.item
             n == Len(stack) - 1
  <1>1. /\ loop = <<>> /\ verdict = "checking" /\ stack # <<>> /\ Top.todo = {}
        /\ visited' = [visited EXCEPT ![a] = 2]
        /\ stack' = Rest /\ clock' = clock + 1 /\ rank' = [rank EXCEPT ![a] = clock]
        /\ dependents' = dependents /\ choiceOf' = choiceOf /\ members' = members
        /\ roots' = roots /\ loop' = loop /\ verdict' = verdict
    BY DEF Leave, Searching, graph
  <1>2. /\ a \in Items /\ Static(Top) /\ visited[a] = 1 /\ Covered(Top, {})
        /\ Len(stack) \in Nat \ {0} /\ Len(stack) \in 1 .. Len(stack)
    BY <1>1, TopOK
  <1>3. /\ n \in Nat /\ n + 1 = Len(stack)
        /\ stack' \in Seq(Frames) /\ Len(stack') = n
        /\ \A k \in 1 .. n : stack'[k] = stack[k] /\ k \in 1 .. Len(stack)
    <2>1. stack \in Seq(Frames) BY DEF IInv, SearchOK
    <2> QED BY <1>1, <1>2, <2>1, FrontFacts DEF Rest
  <1>4. stack[n + 1].item = a BY <1>3 DEF Top
  <1> HIDE DEF a, n
  <1>5. /\ visited' \in [Items -> {0, 1, 2}] /\ visited'[a] = 2
        /\ \A i \in Items : i # a => visited'[i] = visited[i]
        /\ \A i \in Items : visited[i] = 2 => visited'[i] = 2 /\ i # a
    BY <1>1, <1>2 DEF IInv, SearchOK
  <1>6. /\ clock \in Nat /\ rank' \in [Items -> Nat] /\ rank'[a] = clock
        /\ \A i \in Items : i # a => rank'[i] = rank[i]
    BY <1>1, <1>2 DEF IInv, SearchOK
  <1>7. GraphOK' /\ SearchOK'
    BY <1>1, <1>3, <1>5, <1>6 DEF IInv, GraphOK, SearchOK
  <1>8. ASSUME NEW k \in 1 .. n PROVE stack[k].item # a /\ stack[k].item \in Items
    <2>1. k \in 1 .. Len(stack) /\ n + 1 \in 1 .. Len(stack) /\ k # n + 1 BY <1>3
    <2>2. stack[k].item # stack[n + 1].item BY <2>1 DEF IInv, CallsOK
    <2>3. stack[k] \in Frames BY <2>1 DEF IInv, SearchOK
    <2> QED BY <2>2, <2>3, <1>4 DEF Frames
  <1>9. CallsOK(stack)'
    <2>1. ASSUME NEW k \in 1 .. n PROVE Static(stack[k])' /\ visited'[stack'[k].item] = 1
      <3>1. Static(stack[k]) /\ visited[stack[k].item] = 1 BY <1>3 DEF IInv, CallsOK
      <3> QED BY <3>1, <1>1, <1>3, <1>5, <1>8 DEF Static
    <2>2. ASSUME NEW j \in 1 .. n, NEW k \in 1 .. n, stack'[j].item = stack'[k].item
          PROVE  j = k
      BY <2>2, <1>3 DEF IInv, CallsOK
    <2>3. ASSUME NEW k \in 1 .. n - 1 PROVE Leads(stack[k].item, stack[k + 1].item)'
      <3>1. k \in 1 .. n /\ k + 1 \in 1 .. n /\ k \in 1 .. Len(stack) - 1 BY <1>3
      <3>2. Leads(stack[k].item, stack[k + 1].item) BY <3>1 DEF IInv, CallsOK
      <3> QED BY <3>1, <3>2, <1>1, <1>3 DEF Leads
    <2> QED BY <2>1, <2>2, <2>3, <1>3 DEF CallsOK
  <1>10. CallsCovered(stack)'
    <2> SUFFICES ASSUME NEW k \in 1 .. n PROVE Covered(stack[k], NextItem(stack, k))'
      BY <1>3 DEF CallsCovered
    <2> DEFINE f == stack[k]
    <2>1. f \in Frames /\ stack'[k] = f BY <1>3 DEF IInv, SearchOK
    <2>2. Covered(f, {stack[k + 1].item})
      <3>1. k < Len(stack) /\ k \in 1 .. Len(stack) BY <1>3
      <3>2. NextItem(stack, k) = {stack[k + 1].item} BY <3>1 DEF NextItem
      <3> QED BY <3>1, <3>2, <1>1 DEF IInv, CallsCovered
    <2>3. stack[k + 1].item \in NextItem(stack', k) \/ visited'[stack[k + 1].item] = 2
      <3>1. CASE k = n BY <3>1, <1>4, <1>5
      <3>2. CASE k < n
        <4>1. k + 1 \in 1 .. n BY <3>2, <1>3
        <4> QED BY <3>2, <4>1, <1>3 DEF NextItem
      <3> QED BY <3>1, <3>2, <1>3
    <2> HIDE DEF f
    <2>4. f.item \in Symbols =>
             \A d \in dependents[f.item] : d \in f.todo \/ visited'[d] = 2 \/ d \in NextItem(stack', k)
      BY <2>2, <2>3, <1>5 DEF Covered, IInv, GraphOK, Items
    <2>5. ASSUME f.item \in ChoiceSet
          PROVE  \E skip \in Symbols \cup {None} : \A s \in members[f.item] \ {skip} :
                     s \in f.todo \/ visited'[s] = 2 \/ s \in NextItem(stack', k)
      <3>1. members[f.item] \subseteq Items BY <2>5 DEF IInv, GraphOK, Items
      <3> QED BY <2>2, <2>3, <2>5, <3>1, <1>5 DEF Covered
    <2> QED BY <2>1, <2>4, <2>5, <1>1 DEF Covered
  <1>11. OnWayIsCalled(stack)'
    <2> SUFFICES ASSUME NEW i \in Items, visited'[i] = 1
                 PROVE  \E k \in 1 .. n : stack'[k].item = i
      BY <1>3 DEF OnWayIsCalled
    <2>1. i # a /\ visited[i] = 1 BY <1>5
    <2>2. PICK k \in 1 .. Len(stack) : stack[k].item = i BY <2>1, <1>1 DEF IInv, OnWayIsCalled
    <2>3. k \in 1 .. n BY <2>1, <2>2, <1>3, <1>4
    <2> QED BY <2>2, <2>3, <1>3
  <1>12. RanksOK'
    BY <1>1, <1>5, <1>6 DEF IInv, RanksOK, SearchOK
  <1>13. MarkedInOrder'
    <2>1. ASSUME NEW s \in Symbols, visited'[s] = 2, NEW d \in dependents[s]
          PROVE  visited'[d] = 2 /\ rank'[d] < rank'[s]
      <3>1. s \in Items /\ d \in Items BY DEF IInv, GraphOK, Items
      <3>2. CASE s = a
        <4>1. visited[d] = 2 BY <3>2, <1>1, <1>2 DEF Covered, a
        <4>2. rank[d] < clock BY <3>1, <4>1 DEF IInv, RanksOK
        <4> QED BY <3>1, <3>2, <4>1, <4>2, <1>5, <1>6
      <3>3. CASE s # a
        <4>1. visited[s] = 2 BY <2>1, <3>1, <3>3, <1>5
        <4>2. visited[d] = 2 /\ rank[d] < rank[s] BY <4>1 DEF IInv, MarkedInOrder
        <4> QED BY <3>1, <3>3, <4>2, <1>5, <1>6
      <3> QED BY <3>2, <3>3
    <2>2. ASSUME NEW c \in ChoiceSet, visited'[c] = 2
          PROVE  \E skip \in Symbols \cup {None} : \A s \in members[c] \ {skip} :
                     visited'[s] = 2 /\ rank'[s] < rank'[c]
      <3>1. c \in Items /\ members[c] \subseteq Items BY DEF IInv, GraphOK, Items
      <3>2. CASE c = a
        <4>1. PICK skip \in Symbols \cup {None} : \A s \in members[c] \ {skip} : visited[s] = 2
          BY <3>2, <1>1, <1>2 DEF Covered, a
        <4>2. \A s \in members[c] \ {skip} : rank[s] < clock
          BY <3>1, <4>1 DEF IInv, RanksOK
        <4>3. \A s \in members[c] \ {skip} : visited'[s] = 2 /\ rank'[s] < rank'[c]
          BY <3>1, <3>2, <4>1, <4>2, <1>5, <1>6
        <4> QED BY <4>3
      <3>3. CASE c # a
        <4>1. visited[c] = 2 BY <2>2, <3>1, <3>3, <1>5
        <4>2. PICK skip \in Symbols \cup {None} : \A s \in members[c] \ {skip} :
                  visited[s] = 2 /\ rank[s] < rank[c]
          BY <4>1 DEF IInv, MarkedInOrder
        <4>3. \A s \in members[c] \ {skip} : visited'[s] = 2 /\ rank'[s] < rank'[c]
          BY <3>1, <3>3, <4>2, <1>5, <1>6
        <4> QED BY <4>3
      <3> QED BY <3>2, <3>3
    <2> QED BY <2>1, <2>2, <1>1 DEF MarkedInOrder
  <1>14. LoopChain' /\ LoopOnStack' /\ VerdictOK'
    BY <1>1 DEF LoopChain, LoopOnStack, VerdictOK
  <1> QED BY <1>7, <1>9, <1>10, <1>11, <1>12, <1>13, <1>14 DEF IInv

\* A call hands the loop on to its caller with its item added.
LEMMA RecordKeeps ==
    ASSUME IInv, Record
    PROVE  IInv'
  <1> USE ItemsAssumption
  <1> DEFINE a == Top.item
             n == Len(stack) - 1
             m == Len(loop)
  <1>1. /\ loop # <<>> /\ verdict = "checking" /\ stack # <<>> /\ a # loop[1]
        /\ loop' = Append(loop, a) /\ stack' = Rest
        /\ visited' = visited /\ clock' = clock /\ rank' = rank
        /\ dependents' = dependents /\ choiceOf' = choiceOf /\ members' = members
        /\ roots' = roots /\ verdict' = verdict
    BY DEF Record, Returning, graph
  <1>2. a \in Items /\ Len(stack) \in Nat \ {0} BY <1>1, TopOK
  <1>3. /\ n \in Nat /\ n + 1 = Len(stack)
        /\ stack' \in Seq(Frames) /\ Len(stack') = n
        /\ \A k \in 1 .. n : stack'[k] = stack[k] /\ k \in 1 .. Len(stack)
    <2>1. stack \in Seq(Frames) BY DEF IInv, SearchOK
    <2> QED BY <1>1, <1>2, <2>1, FrontFacts DEF Rest
  <1>4. stack[n + 1].item = a BY <1>3 DEF Top
  <1>5. /\ loop' \in Seq(Items) /\ Len(loop') = m + 1 /\ m \in Nat \ {0}
        /\ \A k \in 1 .. m : loop'[k] = loop[k]
        /\ loop'[m + 1] = a /\ loop' # <<>>
    <2>1. loop \in Seq(Items) BY DEF IInv, SearchOK
    <2>2. m \in Nat \ {0} BY <1>1, <2>1
    <2> QED BY <1>1, <1>2, <2>1, <2>2, AppendFacts
  <1> HIDE DEF a, n, m
  <1>6. GraphOK' /\ SearchOK' /\ RanksOK' /\ MarkedInOrder'
    BY <1>1, <1>3, <1>5 DEF IInv, GraphOK, SearchOK, RanksOK, MarkedInOrder
  <1>7. CallsOK(stack)'
    <2>1. ASSUME NEW k \in 1 .. n PROVE Static(stack[k])' /\ visited'[stack'[k].item] = 1
      <3>1. Static(stack[k]) /\ visited[stack[k].item] = 1 BY <1>3 DEF IInv, CallsOK
      <3> QED BY <3>1, <1>1, <1>3 DEF Static
    <2>2. ASSUME NEW j \in 1 .. n, NEW k \in 1 .. n, stack'[j].item = stack'[k].item
          PROVE  j = k
      BY <2>2, <1>3 DEF IInv, CallsOK
    <2>3. ASSUME NEW k \in 1 .. n - 1 PROVE Leads(stack[k].item, stack[k + 1].item)'
      <3>1. k \in 1 .. n /\ k + 1 \in 1 .. n /\ k \in 1 .. Len(stack) - 1 BY <1>3
      <3>2. Leads(stack[k].item, stack[k + 1].item) BY <3>1 DEF IInv, CallsOK
      <3> QED BY <3>1, <3>2, <1>1, <1>3 DEF Leads
    <2> QED BY <2>1, <2>2, <2>3, <1>3 DEF CallsOK
  <1>8. LoopChain'
    <2> SUFFICES ASSUME NEW k \in 1 .. m PROVE Leads(loop[k + 1], loop[k])'
      BY <1>5 DEF LoopChain
    <2>1. CASE k = m
      <3>1. Leads(a, loop[m]) BY <1>1 DEF IInv, LoopOnStack, a, m, Top
      <3> QED BY <2>1, <3>1, <1>1, <1>5 DEF Leads
    <2>2. CASE k \in 1 .. m - 1
      <3>1. Leads(loop[k + 1], loop[k]) BY <2>2 DEF IInv, LoopChain, m
      <3>2. k + 1 \in 1 .. m BY <2>2, <1>5
      <3> QED BY <3>1, <3>2, <1>1, <1>5 DEF Leads
    <2> QED BY <2>1, <2>2, <1>5
  <1>9. LoopOnStack'
    <2>1. PICK k \in 1 .. Len(stack) : stack[k].item = loop[1]
      BY <1>1 DEF IInv, LoopOnStack
    <2>2. k \in 1 .. n BY <2>1, <1>1, <1>3, <1>4
    <2>3. stack'[k].item = loop'[1] /\ n # 0 BY <2>1, <2>2, <1>3, <1>5
    <2>4. Leads(stack[n].item, stack[n + 1].item)
      <3>1. n \in 1 .. Len(stack) - 1 BY <2>3, <1>3
      <3> QED BY <3>1 DEF IInv, CallsOK
    <2>5. stack'[Len(stack')] = stack[n] BY <2>3, <1>3
    <2>6. Leads(stack[Len(stack)].item, loop[Len(loop)])'
      BY <2>4, <2>5, <1>1, <1>4, <1>5 DEF Leads
    <2>7. stack' # <<>> BY <2>3, <1>3
    <2> QED BY <2>2, <2>3, <2>6, <2>7, <1>3 DEF LoopOnStack
  <1>10. VerdictOK' BY <1>1 DEF VerdictOK
  <1> QED BY <1>5, <1>6, <1>7, <1>8, <1>9, <1>10 DEF IInv

\* The loop has come back to where it started: the error is raised.
LEMMA RaiseKeeps ==
    ASSUME IInv, Raise
    PROVE  IInv'
  <1>1. /\ loop # <<>> /\ stack # <<>> /\ Top.item = loop[1] /\ verdict' = "loop"
        /\ visited' = visited /\ clock' = clock /\ rank' = rank /\ roots' = roots
        /\ stack' = stack /\ loop' = loop
        /\ dependents' = dependents /\ choiceOf' = choiceOf /\ members' = members
    BY DEF Raise, Returning, graph
  <1>2. GraphOK' /\ SearchOK' /\ RanksOK' /\ MarkedInOrder'
    BY <1>1 DEF IInv, GraphOK, SearchOK, RanksOK, MarkedInOrder
  <1>3. CallsOK(stack)' BY <1>1 DEF IInv, CallsOK, Static, Leads
  <1>4. LoopChain' /\ LoopOnStack' BY <1>1 DEF IInv, LoopChain, LoopOnStack, Leads
  <1>5. VerdictOK' BY <1>1 DEF VerdictOK, Top
  <1> QED BY <1>1, <1>2, <1>3, <1>4, <1>5 DEF IInv

\* All defined symbols have been searched.
LEMMA PassKeeps ==
    ASSUME IInv, Pass
    PROVE  IInv'
  <1>1. /\ stack = <<>> /\ verdict' = "ok"
        /\ visited' = visited /\ clock' = clock /\ rank' = rank /\ roots' = roots
        /\ stack' = stack /\ loop' = loop
        /\ dependents' = dependents /\ choiceOf' = choiceOf /\ members' = members
    BY DEF Pass, graph
  <1>2. GraphOK' /\ SearchOK' /\ RanksOK' /\ MarkedInOrder'
    BY <1>1 DEF IInv, GraphOK, SearchOK, RanksOK, MarkedInOrder
  <1>3. CallsOK(stack)' BY <1>1 DEF IInv, CallsOK, Static, Leads
  <1>4. LoopChain' /\ LoopOnStack' BY <1>1 DEF IInv, LoopChain, LoopOnStack, Leads
  <1>5. VerdictOK' BY <1>1 DEF VerdictOK
  <1>6. loop = <<>> => CallsCovered(stack)' /\ OnWayIsCalled(stack)'
    BY <1>1 DEF IInv, CallsCovered, OnWayIsCalled
  <1> QED BY <1>1, <1>2, <1>3, <1>4, <1>5, <1>6 DEF IInv

\* The search starts with nothing visited, on any graph.
LEMMA BuildKeeps ==
    ASSUME IInv, Build
    PROVE  IInv'
  <1> USE ItemsAssumption
  <1>1. /\ visited = [i \in Items |-> 0] /\ stack = <<>> /\ loop = <<>>
        /\ visited' = visited /\ clock' = clock /\ rank' = rank
        /\ stack' = stack /\ loop' = loop /\ verdict' = "checking"
    BY DEF Build, IInv, VerdictOK
  <1>2. GraphOK' /\ SearchOK' BY <1>1 DEF Build, Built, IInv, GraphOK, SearchOK
  <1>3. \A i \in Items : visited'[i] = 0 BY <1>1
  <1>4. RanksOK' /\ MarkedInOrder' BY <1>3 DEF RanksOK, MarkedInOrder, Items
  <1>5. CallsOK(stack)' /\ CallsCovered(stack)' BY <1>1 DEF CallsOK, CallsCovered
  <1>6. OnWayIsCalled(stack)' BY <1>3 DEF OnWayIsCalled
  <1>7. LoopChain' /\ LoopOnStack' /\ VerdictOK'
    BY <1>1 DEF LoopChain, LoopOnStack, VerdictOK
  <1> QED BY <1>2, <1>4, <1>5, <1>6, <1>7 DEF IInv

\* Nothing is visited before the graph is built.
LEMMA InitOK == DepInit => IInv
  <1> SUFFICES ASSUME DepInit PROVE IInv OBVIOUS
  <1> USE ItemsAssumption
  <1>1. /\ visited = [i \in Items |-> 0] /\ stack = <<>> /\ loop = <<>> /\ verdict = "parsing"
        /\ clock = 0 /\ rank = [i \in Items |-> 0] /\ roots = <<>>
    BY DEF DepInit
  <1>2. GraphOK BY DEF DepInit, Unbuilt, GraphOK
  <1>3. SearchOK BY <1>1 DEF SearchOK
  <1>4. \A i \in Items : visited[i] = 0 BY <1>1
  <1>5. RanksOK /\ MarkedInOrder BY <1>4 DEF RanksOK, MarkedInOrder, Items
  <1>6. CallsOK(stack) /\ CallsCovered(stack) BY <1>1 DEF CallsOK, CallsCovered
  <1>7. OnWayIsCalled(stack) BY <1>4 DEF OnWayIsCalled
  <1>8. LoopChain /\ LoopOnStack /\ VerdictOK
    BY <1>1 DEF LoopChain, LoopOnStack, VerdictOK
  <1> QED BY <1>2, <1>3, <1>5, <1>6, <1>7, <1>8 DEF IInv

\* One step per action.
LEMMA StepKeeps == IInv /\ [DepNext]_dvars => IInv'
  <1> SUFFICES ASSUME IInv, [DepNext]_dvars PROVE IInv' OBVIOUS
  <1>1. CASE Build BY <1>1, BuildKeeps
  <1>2. CASE CheckRoot BY <1>2, CheckRootKeeps
  <1>3. CASE Leave BY <1>3, LeaveKeeps
  <1>4. CASE Record BY <1>4, RecordKeeps
  <1>5. CASE Raise BY <1>5, RaiseKeeps
  <1>6. CASE Pass BY <1>6, PassKeeps
  <1>7. CASE \E s \in Symbols : VisitSym(s) BY <1>7, VisitSymKeeps
  <1>8. CASE \E c \in ChoiceSet : VisitChoice(c) \/ VisitOwnChoice(c)
    BY <1>8, VisitChoiceKeeps, VisitOwnChoiceKeeps
  <1>9. CASE UNCHANGED dvars
    <2>1. /\ visited' = visited /\ clock' = clock /\ rank' = rank /\ roots' = roots
          /\ stack' = stack /\ loop' = loop /\ verdict' = verdict
          /\ dependents' = dependents /\ choiceOf' = choiceOf /\ members' = members
      BY <1>9 DEF dvars, graph, search
    <2>2. GraphOK' /\ SearchOK' /\ RanksOK' /\ MarkedInOrder'
      BY <2>1 DEF IInv, GraphOK, SearchOK, RanksOK, MarkedInOrder
    <2>3. CallsOK(stack)' BY <2>1 DEF IInv, CallsOK, Static, Leads
    <2>4. LoopChain' /\ LoopOnStack' /\ VerdictOK'
      BY <2>1 DEF IInv, LoopChain, LoopOnStack, Leads, VerdictOK
    <2>5. loop = <<>> => CallsCovered(stack)' /\ OnWayIsCalled(stack)'
      BY <2>1 DEF IInv, CallsCovered, Covered, NextItem, OnWayIsCalled
    <2> QED BY <2>1, <2>2, <2>3, <2>4, <2>5 DEF IInv
  <1> QED BY <1>1, <1>2, <1>3, <1>4, <1>5, <1>6, <1>7, <1>8, <1>9 DEF DepNext, CheckStep

----------------------------------------------------------------------------
(* The results.                                                             *)

\* The invariant holds in every behaviour.
LEMMA InvariantThm == DepSpec => []IInv
  BY InitOK, StepKeeps, PTL DEF DepSpec

(***************************************************************************)
(* Symbols and choices are marked 2 in an order in which each comes after  *)
(* all that depends on it: what _check_dep_loop_sym() has passed has no    *)
(* loop, for every graph and every order of iteration.                     *)
(***************************************************************************)
THEOREM MarkedInOrderThm == DepSpec => []MarkedInOrder
  <1>1. IInv => MarkedInOrder BY DEF IInv
  <1> QED BY <1>1, InvariantThm, PTL

(***************************************************************************)
(* A loop that was found always meets its start on the call stack, so that *)
(* Kconfig.__init__() may ignore what the first call returns.              *)
(***************************************************************************)
THEOREM NoLoopIsDroppedThm == DepSpec => []NoLoopIsDropped
  <1>1. IInv => NoLoopIsDropped BY DEF IInv, LoopOnStack, NoLoopIsDropped
  <1> QED BY <1>1, InvariantThm, PTL

(***************************************************************************)
(* The loop in the error message of _found_dep_loop() is a loop.           *)
(***************************************************************************)
THEOREM LoopIsRealThm == DepSpec => []LoopIsReal
  <1>1. IInv => LoopIsReal BY DEF IInv, LoopChain, LoopOnStack, VerdictOK, LoopIsReal
  <1> QED BY <1>1, InvariantThm, PTL
=============================================================================
