----------------------------- MODULE MenuNodes -------------------------------
(***************************************************************************)
(* The menu tree of kconfiglib.py as the configuration interfaces see it,  *)
(* and what menuconfig.py and guiconfig.py both decide from it.  x is a    *)
(* configuration: everything in it is calculated.                          *)
(***************************************************************************)
EXTENDS KconfigFiles

CONSTANTS
    NodeOrder,          \* the menu nodes, top_node first, in the order of the Kconfig files
    ParentOf,           \* ParentOf[n]: the node whose list has n
    ItemOf,             \* ItemOf[n]: a symbol, a choice, "menu" or "comment"
    PromptCond,         \* PromptCond[n]: condition of the prompt, None without one
    VisibleIf,          \* VisibleIf[n]: the 'visible if' of a menu
    IsMenuconfig        \* nodes entered as a menu: menus, choices, 'menuconfig'

Nodes   == Seqs!ToSet(NodeOrder)
TopNode == NodeOrder[1]
Below   == Nodes \ {TopNode}

IndexOf(seq, n) == (CHOOSE k \in DOMAIN seq : seq[k] = n) - 1
IsIn(n, seq) == \E k \in DOMAIN seq : seq[k] = n

Before(k, n) == IndexOf(NodeOrder, k) < IndexOf(NodeOrder, n)

\* What is between a node and its parent is below that parent too; symbols and
\* choices get the prompts of their nodes; among the nodes that are not entered,
\* only symbols have others below them; there is something to configure.
ASSUME NodesAssumption ==
    /\ NodeOrder \in Seq(Nodes) /\ Len(NodeOrder) > 1
    /\ \A j, k \in DOMAIN NodeOrder : NodeOrder[j] = NodeOrder[k] => j = k
    /\ ParentOf \in [Below -> Nodes]
    /\ \A n \in Below : Before(ParentOf[n], n)
    /\ \A n, k \in Below :
          Before(ParentOf[n], k) /\ Before(k, n) => ~Before(ParentOf[k], ParentOf[n])
    /\ IsMenuconfig \subseteq Nodes
    /\ \A n \in Nodes : ItemOf[n] \in Choices \cup {"menu"} => n \in IsMenuconfig
    /\ ItemOf[TopNode] = "menu" /\ "menu" \notin Items
    /\ \A n \in Nodes : ItemOf[n] \in Items /\ PromptCond[n] # None =>
          PromptCond[n] \in PromptExprs(ItemOf[n])
    /\ \A n \in Below : ParentOf[n] \in IsMenuconfig \/ ItemOf[ParentOf[n]] \in Syms

NodesOf(i) == Those(NodeOrder, {n \in Nodes : ItemOf[n] = i})

\* list, list.next, ...
Children == [p \in Nodes |-> Those(NodeOrder, {n \in Below : ParentOf[n] = p})]

ParentMenu[n \in Below] ==
    IF ParentOf[n] \in IsMenuconfig THEN ParentOf[n] ELSE ParentMenu[ParentOf[n]]

Holds(x, e) == ExprValue(x, e).v # 0

PromptHolds(x, n) == PromptCond[n] # None /\ Holds(x, PromptCond[n])

Visible(x, n) ==
    /\ PromptHolds(x, n)
    /\ ItemOf[n] = "menu" => Holds(x, VisibleIf[n])

\* Symbols of choices in y mode: the mode limits the visibility.
IsYModeChoiceSym(x, i) == i \in Syms /\ ChoiceOf[i] # None /\ x[<<i, "vis">>] = 2

AssignableOf(x, i) ==
    IF i \in Choices THEN ChoiceAssignable(x, i).v ELSE SymAssignable(x, i).v

Changeable(x, n) ==
    /\ ItemOf[n] \in Items
    /\ PromptHolds(x, n)
    /\ \/ Cardinality(AssignableOf(x, ItemOf[n])) > 1
       \/ IsYModeChoiceSym(x, ItemOf[n])

\* A symbol without a visible prompt is kept on the screen by its children.
Displayed(x, all) ==
    LET shown[n \in Nodes] ==
            \/ Visible(x, n)
            \/ ItemOf[n] \in Syms /\ \E c \in Below : ParentOf[c] = n /\ shown[c]
    IN  {n \in Below : all \/ shown[n]}

\* The rows of menu m: children of a symbol that is not a menu follow it,
\* indented.
RowNodes(x, all, m) == {n \in Displayed(x, all) : ParentMenu[n] = m}
Rows(x, all, m)     == Those(NodeOrder, RowNodes(x, all, m))

ValueOf(x, i) == ItemValue(x, i).v

Smallest(S) == CHOOSE v \in S : \A w \in S : v <= w

\* The value after the current one among the assignable ones, with wrapping.
\* A single one is taken whatever the value; otherwise the value has to be
\* one of them.
NextValues(can, val) ==
    IF Cardinality(can) > 1 /\ val \notin can THEN {}
    ELSE {Smallest(IF \E v \in can : v > val THEN {v \in can : v > val} ELSE can)}
=============================================================================
