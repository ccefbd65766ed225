------------------------------ MODULE MenuTree -------------------------------
(***************************************************************************)
(* How kconfiglib.py turns Kconfig files into a menu tree, symbols and     *)
(* choices: _parse_block() statement by statement, with its blocks and     *)
(* sourced files; _finalize_node(), which propagates dependencies, creates *)
(* implicit submenus and removes the ifs; the dependency sets of           *)
(* _build_dep(); and the search for loops of DepLoop.  Any file made of    *)
(* the given statements is parsed.                                         *)
(*                                                                         *)
(* Nodes are numbered in the order they are created, the top node first;   *)
(* 0 is no node.  next and list are the pointers of the code.  A condition *)
(* is the set of its conjuncts - symbols, choices, "n" - and an            *)
(* alternative of conditions the set of those: y is {} and {{}}.  The      *)
(* value of a default is written like a condition.                         *)
(***************************************************************************)
EXTENDS DepLoop

Seqs == INSTANCE SequencesExt

CONSTANTS
    Statements,         \* bound: the statements, with their properties
    Files,              \* bound: the files that are sourced
    Tristates,          \* the items that are declared as tristate
    Modules,            \* the MODULES symbol
    MaxNodes            \* bound: nodes in the tree

VARIABLES
    tree,               \* the nodes
    blocks,             \* calls of _parse_block: end token, parent, prev, file
    lexical,            \* history: the block a node was parsed in, its own properties
    props               \* what has been copied to the symbols and choices

mvars == <<dvars, tree, blocks, lexical, props>>

TopId == 1

Yes == {}
No  == {"n"}

MakeAnd(a, b) == IF No \in {a, b} THEN No ELSE a \cup b

\* An alternative, and one more condition.
MakeOr(alts, cond) ==
    IF cond = No THEN alts ELSE IF {} \in alts \cup {cond} THEN {{}} ELSE alts \cup {cond}

\* What node n adds to the defaults of its item.
DefaultsOf(n) == Seqs!SetToSeq({<<d[1], d[2], MakeOr({}, d[3])>> : d \in n.defaults})

IsSym(n)    == n.kind \in {"config", "menuconfig", "configdefault"}
IsChoice(n) == n.kind = "choice"

\* The last node that is allowed and the frames that stay.
Block == blocks[Len(blocks)]
Outer == SubSeq(blocks, 1, Len(blocks) - 1)

\* _parse_props(): the statement's properties, before anything is propagated.
NewNode(st, parent) ==
    [kind |-> st.kind, item |-> st.item, prompt |-> st.prompt, dep |-> st.dep,
     visibility |-> st.visibility, selects |-> st.selects, implies |-> st.implies,
     defaults |-> {<<Len(tree) + 1, d[1], d[2]>> : d \in st.defaults},
     parent |-> parent, next |-> 0, list |-> 0]

NoProps ==
    [i \in Items |->
        [directDep |-> {}, prompts |-> {}, defaults |-> <<>>, revDep |-> {},
         weakRevDep |-> {}, configdefaults |-> <<>>, syms |-> {}, choice |-> None]]

TopNode == [kind |-> "menu", item |-> None, prompt |-> Yes, dep |-> Yes, visibility |-> Yes,
            selects |-> {}, implies |-> {}, defaults |-> {}, parent |-> 0, next |-> 0, list |-> 0]

TreeInit ==
    /\ DepInit
    /\ tree = <<TopNode>>
    /\ lexical = <<TopNode>>
    /\ blocks = <<[end |-> "eof", parent |-> TopId, prev |-> TopId, file |-> "Kconfig"]>>
    /\ props = NoProps

Parsing == verdict = "parsing" /\ blocks # <<>>
Unparsed == <<graph, roots, visited, stack, loop, clock, rank, props>>

Room == Len(tree) < MaxNodes

----------------------------------------------------------------------------
(* _parse_block().                                                          *)

\* A node without children: prev.next = prev = node.
AddNode(st) ==
    /\ Parsing /\ Room
    /\ \E new \in {NewNode(st, Block.parent)} : \E id \in {Len(tree) + 1} :
          /\ tree' = Append([tree EXCEPT ![Block.prev].next = id], new)
          /\ lexical' = Append(lexical, new)
          /\ blocks' = Append(Outer, [Block EXCEPT !.prev = id])
    /\ UNCHANGED <<verdict, graph, visited, stack, loop, clock, rank, props>>

ParseConfig(st) ==
    /\ st.kind \in {"config", "menuconfig", "configdefault"}
    /\ AddNode(st)
    /\ roots' = IF Seqs!Contains(roots, st.item) THEN roots ELSE Append(roots, st.item)

ParseComment(st) == st.kind = "comment" /\ AddNode(st) /\ UNCHANGED roots

\* A node with a block, which is parsed first, with the node itself as the
\* previous one.
BeginBlock(st) ==
    /\ Parsing /\ Room
    /\ \E new \in {NewNode(st, Block.parent)} : \E id \in {Len(tree) + 1} :
          /\ tree' = Append(tree, new)
          /\ lexical' = Append(lexical, new)
          /\ blocks' = Append(blocks, [end |-> st.kind, parent |-> id, prev |-> id,
                                       file |-> Block.file])
    /\ UNCHANGED <<Unparsed, verdict>>

ParseIf(st)     == st.kind = "if" /\ BeginBlock(st)
ParseMenu(st)   == st.kind = "menu" /\ BeginBlock(st)
ParseChoice(st) == st.kind = "choice" /\ BeginBlock(st)

\* Mutant: the last node of the block is not terminated.
EndBlockUnterminated ==
    /\ Parsing /\ Block.end # "eof"
    /\ \E outer \in {Outer[Len(Outer)]} :
          /\ tree' = [[tree EXCEPT ![Block.parent].list = tree[Block.parent].next]
                           EXCEPT ![outer.prev].next = Block.parent]
          /\ blocks' = Append(SubSeq(Outer, 1, Len(Outer) - 1), [outer EXCEPT !.prev = Block.parent])
    /\ UNCHANGED <<Unparsed, verdict, lexical>>

\* endif, endmenu, endchoice: the last node is terminated and the children,
\* now found after their parent, are tilted up; the next pointer of the
\* parent is left for whatever follows to overwrite.
EndBlock ==
    /\ Parsing /\ Block.end # "eof"
    /\ \E outer \in {Outer[Len(Outer)]} :
       \E ended \in {[tree EXCEPT ![Block.prev].next = 0]} :
          /\ tree' = [[ended EXCEPT ![Block.parent].list = ended[Block.parent].next]
                         EXCEPT ![outer.prev].next = Block.parent]
          /\ blocks' = Append(SubSeq(Outer, 1, Len(Outer) - 1), [outer EXCEPT !.prev = Block.parent])
    /\ UNCHANGED <<Unparsed, verdict, lexical>>

IncludePath == {blocks[k].file : k \in DOMAIN blocks}

\* _enter_file() refuses a file that is being read already.
EnterFile(f) ==
    IF f \in IncludePath
    THEN verdict' = "error" /\ UNCHANGED blocks
    ELSE /\ blocks' = Append(blocks, [end |-> "eof", parent |-> Block.parent,
                                      prev |-> Block.prev, file |-> f])
         /\ UNCHANGED verdict

\* source, for each file that it names.
Source(f) == Parsing /\ EnterFile(f) /\ UNCHANGED <<Unparsed, tree, lexical>>

\* The caller goes on after the last node of the sourced file.
EndSourced ==
    /\ Parsing /\ Block.end = "eof" /\ Len(blocks) > 1
    /\ blocks' = Append(SubSeq(Outer, 1, Len(Outer) - 1),
                        [Outer[Len(Outer)] EXCEPT !.prev = Block.prev])
    /\ UNCHANGED <<Unparsed, verdict, tree, lexical>>

EndTop ==
    /\ Parsing /\ Block.end = "eof" /\ Len(blocks) = 1
    /\ \E ended \in {[tree EXCEPT ![Block.prev].next = 0]} :
          tree' = [ended EXCEPT ![TopId].list = ended[TopId].next, ![TopId].next = 0]
    /\ blocks' = <<>>
    /\ UNCHANGED <<Unparsed, verdict, lexical>>

\* End of file in a block, the end of a block that was not begun in this
\* file, a file that cannot be found, or a statement that is not understood.
SyntaxError ==
    /\ Parsing
    /\ verdict' = "error"
    /\ UNCHANGED <<Unparsed, tree, blocks, lexical>>

----------------------------------------------------------------------------
(* _finalize_node() and its helpers.  f is the tree and the properties; the *)
(* functions give the new f, in a set.                                      *)

\* The nodes from first on, by their next pointers.
RECURSIVE Level(_, _)
Level(t, first) == IF first = 0 THEN <<>> ELSE <<first>> \o Level(t, t[first].next)

DependsOn(cond, item) == item \in cond
AutoMenuDep(t, n, m) == DependsOn(IF t[m].prompt = None THEN t[m].dep ELSE t[m].prompt, t[n].item)

\* The node with its dependencies: basedep is that of the parent, visible the
\* 'visible if' of the menus around it.
Propagated(n, basedep, visible) ==
    LET dep == MakeAnd(n.dep, basedep)
        on  == IF IsSym(n) \/ IsChoice(n) THEN MakeAnd(visible, dep) ELSE dep
    IN  [n EXCEPT !.dep = dep,
                  !.prompt = IF @ = None THEN None ELSE MakeAnd(@, on),
                  !.defaults = {<<d[1], d[2], MakeAnd(d[3], dep)>> : d \in @},
                  !.selects = {<<s[1], MakeAnd(s[2], dep)>> : s \in @},
                  !.implies = {<<s[1], MakeAnd(s[2], dep)>> : s \in @}]

\* Mutant: the condition of the choice itself is passed on, not the choice.
PropagateDepsPlain(t, n, visible) ==
    [k \in DOMAIN t |->
        IF Seqs!Contains(Level(t, t[n].list), k) THEN Propagated(t[k], t[n].dep, visible)
        ELSE t[k]]

PropagateDeps(t, n, visible) ==
    LET basedep == IF IsChoice(t[n]) THEN {t[n].item} ELSE t[n].dep
    IN  [k \in DOMAIN t |->
            IF Seqs!Contains(Level(t, t[n].list), k) THEN Propagated(t[k], basedep, visible)
            ELSE t[k]]

\* The alternatives of item i, and that item selects or implies it.
MakeReverse(alts, i, item, targets) ==
    Seqs!FoldLeft(MakeOr, alts, Seqs!SetToSeq({MakeAnd({item}, s[2]) : s \in {s \in targets : s[1] = i}}))

\* The properties of node n, copied to its symbol and those it selects and
\* implies.
AddPropsToSym(p, n) ==
    IF n.kind = "configdefault"
    THEN [p EXCEPT ![n.item].configdefaults = Append(@, <<Len(p[n.item].defaults), DefaultsOf(n)>>)]
    ELSE [i \in Items |->
            [p[i] EXCEPT
                !.directDep = IF i = n.item THEN MakeOr(@, n.dep) ELSE @,
                !.prompts = IF i = n.item /\ n.prompt # None THEN @ \cup {n.prompt} ELSE @,
                !.defaults = IF i = n.item THEN @ \o DefaultsOf(n) ELSE @,
                !.revDep = MakeReverse(@, i, n.item, n.selects),
                !.weakRevDep = MakeReverse(@, i, n.item, n.implies)]]

\* Nodes without a prompt give their children to the level they are on.
RECURSIVE Flatten(_, _)
Flatten(t, n) ==
    IF n = 0 THEN t
    ELSE IF t[n].list = 0 \/ t[n].prompt # None \/ IsChoice(t[n]) THEN Flatten(t, t[n].next)
    ELSE LET below == Level(t, t[n].list)
             lifted == [k \in DOMAIN t |->
                           IF Seqs!Contains(below, k) THEN [t[k] EXCEPT !.parent = t[n].parent]
                           ELSE t[k]]
             spliced == [lifted EXCEPT ![Seqs!Last(below)].next = t[n].next,
                                       ![n].next = t[n].list, ![n].list = 0]
         IN  Flatten(spliced, spliced[n].next)

\* The level below n without its ifs.
RemoveIfs(t, n) ==
    LET kept == SelectSeq(Level(t, t[n].list), LAMBDA k : t[k].kind # "if")
    IN  [k \in DOMAIN t |->
            [t[k] EXCEPT !.list = IF k = n THEN (IF kept = <<>> THEN 0 ELSE Head(kept)) ELSE @,
                         !.next = IF ~Seqs!Contains(kept, k) THEN @
                                  ELSE IF k = Seqs!Last(kept) THEN 0
                                  ELSE kept[Seqs!SelectInSeq(kept, LAMBDA x : x = k) + 1]]]

\* The symbols right below a choice.
FinalizeChoice(f, n) ==
    LET c == f.tree[n].item
        below == {f.tree[k].item : k \in {k \in Seqs!ToSet(Level(f.tree, f.tree[n].list)) :
                                              IsSym(f.tree[k])}}
    IN  [i \in Items |->
            [f.props[i] EXCEPT
                !.syms = IF i = c THEN @ \cup below ELSE @,
                !.choice = IF i \in below THEN c ELSE @,
                !.directDep = IF i = c THEN MakeOr(@, f.tree[n].dep) ELSE @,
                !.prompts = IF i = c /\ f.tree[n].prompt # None THEN @ \cup {f.tree[n].prompt} ELSE @,
                !.defaults = IF i = c THEN @ \o DefaultsOf(f.tree[n]) ELSE @]]

\* What is left to do for a node whose children are final.
FinishNode(f, n) ==
    LET level == IF f.tree[n].list = 0 THEN f.tree
                 ELSE RemoveIfs(Flatten(f.tree, f.tree[n].list), n)
        now == [f EXCEPT !.tree = level]
    IN  IF IsChoice(level[n]) THEN [now EXCEPT !.props = FinalizeChoice(now, n)] ELSE now

\* The nodes from n.next to last become the implicit submenu of n.
TiltUp(t, n, last) ==
    IF last = n THEN t
    ELSE [t EXCEPT ![n].list = t[n].next, ![n].next = t[last].next, ![last].next = 0]

RECURSIVE FinalizeNode(_, _, _), FinalizeLevel(_, _, _), Gather(_, _, _, _)

FinalizeNode(f, n, visible) ==
    IF IsSym(f.tree[n])
    THEN {FinishNode(done, n) :
             done \in Gather([f EXCEPT !.props = AddPropsToSym(@, f.tree[n])], n, n, visible)}
    ELSE IF f.tree[n].list = 0 THEN {FinishNode(f, n)}
    ELSE UNION {
        {FinishNode(done, n) :
            done \in FinalizeLevel([f EXCEPT !.tree = PropagateDeps(@, n, within)],
                                   f.tree[n].list, within)} :
        within \in {IF f.tree[n].kind = "menu" THEN MakeAnd(visible, f.tree[n].visibility)
                    ELSE visible}}

FinalizeLevel(f, n, visible) ==
    IF n = 0 THEN {f}
    ELSE UNION {FinalizeLevel(g, g.tree[n].next, visible) : g \in FinalizeNode(f, n, visible)}

\* Each node after cur that depends on n is finalized and put below n.
Gather(f, n, cur, visible) ==
    UNION {
        IF m = 0 \/ ~AutoMenuDep(f.tree, n, IF m = 0 THEN n ELSE m)
        THEN {[f EXCEPT !.tree = TiltUp(@, n, cur)]}
        ELSE UNION {Gather([g EXCEPT !.tree[m].parent = n], n, m, visible) :
                       g \in FinalizeNode(f, m, visible)} :
        m \in {f.tree[cur].next}}

\* The defaults of the configdefault nodes, each with the place it goes to and
\* the direct dependencies of the symbol added to its condition.
Pending(p) ==
    Seqs!FlattenSeq([k \in DOMAIN p.configdefaults |->
        [j \in DOMAIN p.configdefaults[k][2] |->
            LET d == p.configdefaults[k][2][j]
            IN  [at |-> p.configdefaults[k][1],
                 default |-> <<d[1], d[2],
                               {MakeAnd(x, y) : x \in p.directDep, y \in d[3]} \ {No}>>]]])

\* Mutant: later insertions do not count the earlier ones.
FinalizeSymUncounted(p) ==
    LET Insert(list, pending) == Seqs!InsertAt(list, pending.at + 1, pending.default)
    IN  [p EXCEPT !.defaults = Seqs!FoldLeft(Insert, @, Pending(p))]

\* Inserts the defaults of configdefault nodes where the symbol had got to.
FinalizeSym(p) ==
    LET Insert(list, k) == Seqs!InsertAt(list, Pending(p)[k].at + k, Pending(p)[k].default)
    IN  [p EXCEPT !.defaults = Seqs!FoldLeft(Insert, @, [k \in DOMAIN Pending(p) |-> k])]

\* _depend_on(): the symbols and choices in the conditions.
ItemsIn(conds) == UNION conds

DefaultConds(p)  == UNION {p.defaults[k][3] : k \in DOMAIN p.defaults}
DefaultValues(p) == {p.defaults[k][2] : k \in DOMAIN p.defaults}

\* Mutant: the selects of other symbols are forgotten.
MentionedByPlain(p, i) ==
    ItemsIn(p[i].prompts \cup DefaultConds(p[i]) \cup
                IF i \in Symbols
                THEN DefaultValues(p[i]) \cup p[i].weakRevDep \cup p[i].directDep ELSE {})

\* _build_dep(): the items that the properties of item i mention.
MentionedBy(p, i) ==
    ItemsIn(p[i].prompts \cup DefaultConds(p[i]) \cup
                IF i \in Symbols
                THEN DefaultValues(p[i]) \cup p[i].revDep \cup p[i].weakRevDep \cup p[i].directDep
                ELSE {})

\* The rest of Kconfig.__init__() up to the search for loops.
Finalize ==
    /\ verdict = "parsing" /\ blocks = <<>>
    /\ \E f \in FinalizeNode([tree |-> tree, props |-> props], TopId, Yes) :
       \E p \in {[i \in Items |-> FinalizeSym(f.props[i])]} :
          /\ tree' = f.tree
          /\ props' = p
          /\ choiceOf' = [s \in Symbols |-> p[s].choice]
          /\ members' = [c \in ChoiceSet |-> p[c].syms]
          /\ dependents' = [i \in Items |->
                {j \in Seqs!ToSet(roots) \cup ChoiceSet : i \in MentionedBy(p, j)}]
    /\ verdict' = "checking"
    /\ UNCHANGED <<roots, visited, stack, loop, clock, rank, blocks, lexical>>

TreeNext ==
    \/ \E st \in Statements : \/ ParseConfig(st) \/ ParseComment(st)
                              \/ ParseIf(st) \/ ParseMenu(st) \/ ParseChoice(st)
    \/ EndBlock \/ EndSourced \/ EndTop \/ SyntaxError \/ Finalize
    \/ \E f \in Files : Source(f)
    \/ CheckStep /\ UNCHANGED <<tree, blocks, lexical, props>>

TreeSpec == TreeInit /\ [][TreeNext]_mvars
----------------------------------------------------------------------------
(* Properties: what the files say, read from the blocks each node is in.    *)

Finalized == verdict \notin {"parsing", "error"}
NodeIds   == 1 .. Len(lexical)

\* The blocks around a node, the top node included.
Around == LET around[k \in NodeIds] ==
                  IF k = TopId THEN {} ELSE {lexical[k].parent} \cup around[lexical[k].parent]
          IN  around

All(conds) == IF No \in conds THEN No ELSE UNION conds

\* A node depends on the blocks around it, but from the nearest choice
\* outwards only on that choice.
RefDep(k) ==
    LET choices == {a \in Around[k] : IsChoice(lexical[a])}
        nearest == {a \in choices : \A b \in choices : b <= a}
        within  == {a \in Around[k] : \A b \in nearest : b < a}
    IN  All({lexical[a].dep : a \in {k} \cup within} \cup {{lexical[a].item} : a \in nearest})

RefPrompt(k) ==
    IF lexical[k].prompt = None THEN None
    ELSE All({lexical[k].prompt, RefDep(k)} \cup
             IF IsSym(lexical[k]) \/ IsChoice(lexical[k])
             THEN {lexical[a].visibility : a \in Around[k]} ELSE {})

\* An alternative of conditions: y if one of them is y.
Any(conds) == IF {} \in conds THEN {{}} ELSE conds \ {No}

DefinitionsOf(i) ==
    {k \in NodeIds : lexical[k].item = i /\ lexical[k].kind \in {"config", "menuconfig"}}

\* The alternatives that select or imply s, where targets[k] is what node k
\* selects or implies.
RefReverse(s, targets) ==
    Any(UNION {{All({{lexical[k].item}, sel[2], RefDep(k)}) :
                   sel \in {x \in targets[k] : x[1] = s}} : k \in NodeIds})

(***************************************************************************)
(* Whatever the nesting of ifs, menus, choices and implicit submenus, each *)
(* node ends up with the dependencies of the blocks that it is written in: *)
(* its own and theirs, once, up to the nearest choice, which stands for    *)
(* what is outside of it; its prompt with those and the 'visible if' of    *)
(* all menus around it; a symbol with the alternatives of its definitions  *)
(* and of the selects and the implies that name it.                        *)
(***************************************************************************)
DepsArePropagated ==
    Finalized =>
        /\ \A k \in NodeIds \ {TopId} : tree[k].dep = RefDep(k) /\ tree[k].prompt = RefPrompt(k)
        /\ \A s \in Symbols :
              /\ props[s].directDep = Any({RefDep(k) : k \in DefinitionsOf(s)})
              /\ props[s].revDep = RefReverse(s, [k \in NodeIds |-> lexical[k].selects])
              /\ props[s].weakRevDep = RefReverse(s, [k \in NodeIds |-> lexical[k].implies])

\* The condition by which a node may belong to the submenu of a symbol.
SubmenuCond(k) == IF lexical[k].prompt = None THEN RefDep(k) ELSE RefPrompt(k)

\* The node before k in its block.
Before(k) ==
    LET level == {j \in NodeIds \ {TopId} : j < k /\ lexical[j].parent = lexical[k].parent}
    IN  {j \in level : \A i \in level : i <= j}

\* Hosts[k]: k, and the nodes of its block whose implicit submenus it is in.
\* A node joins the innermost of the submenus of the node before it whose
\* symbol it depends on, and those around that.
Hosts ==
    LET hosts[k \in NodeIds] ==
            {k} \cup UNION {
                LET symbols == {h \in hosts[b] : IsSym(lexical[h]) /\ lexical[h].item \in SubmenuCond(k)}
                    inner == {h \in symbols : \A g \in symbols : g <= h}
                IN  UNION {hosts[h] : h \in inner} : b \in Before(k)}
    IN  hosts

\* Nodes that stay in the tree and may have children.
Stays(k) == lexical[k].prompt # None \/ IsChoice(lexical[k])

\* The innermost of the submenus and blocks around node k that stays.
RefParent ==
    LET hosts == Hosts
        above[k \in NodeIds] ==
            IF k = TopId THEN {}
            ELSE (hosts[k] \ {k}) \cup {lexical[k].parent} \cup above[lexical[k].parent]
                     \cup UNION {above[h] : h \in hosts[k] \ {k}}
    IN  [k \in NodeIds \ {TopId} |->
            CHOOSE p \in above[k] : Stays(p) /\ \A q \in above[k] : Stays(q) => q <= p]

\* The node after a node that is the last one of its level: next of the first
\* node above that has one.
RECURSIVE NextAbove(_)
NextAbove(n) ==
    LET p == tree[n].parent
    IN  IF p = 0 THEN 0 ELSE IF tree[p].next # 0 THEN tree[p].next ELSE NextAbove(p)

\* node_iter(): the nodes after n.  At most as many as there are, so that a tree
\* with a circle in it is walked too.
RECURSIVE NodeIter(_, _)
NodeIter(n, limit) ==
    LET after == IF tree[n].list # 0 THEN tree[n].list
                 ELSE IF tree[n].next # 0 THEN tree[n].next ELSE NextAbove(n)
    IN  IF after = 0 \/ limit = 0 THEN <<>> ELSE <<after>> \o NodeIter(after, limit - 1)

(***************************************************************************)
(* Tilting up the children of blocks and symbols, flattening and removing  *)
(* ifs moves pointers of nodes that other calls hold, yet no node is lost, *)
(* doubled or moved: node_iter() lists the nodes "in Kconfig definition    *)
(* order", without the ifs, and each is below the innermost menu, choice   *)
(* or prompted symbol whose block or implicit submenu it is in.            *)
(***************************************************************************)
TreeIsInFileOrder ==
    Finalized =>
        /\ <<TopId>> \o NodeIter(TopId, Len(tree)) =
              SelectSeq([k \in NodeIds |-> k], LAMBDA k : lexical[k].kind # "if")
        /\ \E parent \in {RefParent} : \A k \in NodeIds \ {TopId} :
              lexical[k].kind # "if" => tree[k].parent = parent[k]

(***************************************************************************)
(* "The original order of the default statements between nodes is          *)
(* preserved": the defaults of a symbol are those of its definitions and   *)
(* of its configdefaults, in the order of the files, although the latter   *)
(* are inserted once the whole tree is known.                              *)
(***************************************************************************)
DefaultsInFileOrder ==
    Finalized => \A s \in Symbols : \E ds \in {props[s].defaults} :
        /\ \A k \in 1 .. Len(ds) - 1 : ds[k][1] <= ds[k + 1][1]
        /\ {ds[k][1] : k \in DOMAIN ds} =
              {k \in NodeIds : lexical[k].item = s /\ lexical[k].defaults # {}}

DefinedItems == {lexical[k].item : k \in {k \in NodeIds : IsSym(lexical[k]) \/ IsChoice(lexical[k])}}

\* What is calculated for the items: visibility, tri_value, selection.
Results == {"vis", "value", "selection"} \X DefinedItems

Value(items) == {"value"} \X items
Mode(s) == IF choiceOf[s] = None THEN {} ELSE {<<"value", choiceOf[s]>>}

\* The results that the calculation of r may ask for on account of the
\* expressions that were written, and of the mode of the choice.
AsksNamed(r) ==
    LET i == r[2]
        p == props[i]
        others == p.revDep \cup p.weakRevDep
    IN  CASE r[1] = "vis" ->
                Value(ItemsIn(p.prompts)) \cup
                    IF i \in Symbols /\ {i, choiceOf[i]} \cap Tristates # {} THEN Mode(i) ELSE {}
          [] r[1] = "selection" ->
                Value({i} \cup ItemsIn(DefaultConds(p))) \cup
                    ({"vis"} \X (p.syms \cup ItemsIn(DefaultValues(p))))
          [] i \in ChoiceSet \/ choiceOf[i] # None -> {<<"vis", i>>}
          [] OTHER ->
                {<<"vis", i>>}
                    \cup Value(ItemsIn(DefaultConds(p) \cup DefaultValues(p) \cup others))
                    \cup IF others = {} THEN {} ELSE Value(ItemsIn(p.directDep))

\* A symbol of a choice in y mode is y if the choice has selected it.
AsksSelection(r) ==
    IF r[1] = "value" /\ r[2] \in Symbols /\ choiceOf[r[2]] # None
    THEN {<<"selection", choiceOf[r[2]]>>} ELSE {}

\* type: a tristate that would be m is a bool if MODULES is n.
AsksType(r) ==
    IF r[2] \in Tristates /\ (r[1] = "vis" \/ (r[1] = "value" /\ AsksSelection(r) = {}))
    THEN Value({Modules}) ELSE {}

Asks == [r \in Results |-> AsksNamed(r) \cup AsksSelection(r) \cup AsksType(r)]

\* The results whose calculation does not end: drop those that ask for none
\* of the others until nothing changes.
RECURSIVE Endless(_, _)
Endless(asks, rs) ==
    LET left == {r \in rs : asks[r] \cap rs # {}} IN IF left = rs THEN rs ELSE Endless(asks, left)

(***************************************************************************)
(* When the search finds no loop, every value can be calculated: the       *)
(* evaluation of symbols and choices, which has no protection of its own,  *)
(* never comes back to a result it is working on.                          *)
(***************************************************************************)
EvaluationEnds == verdict = "ok" => Endless(Asks, Results) = {}

\* A menu or choice in a choice: what is in it depends on the choice and is
\* not one of its symbols.
NestedInChoice ==
    \E k \in NodeIds : /\ lexical[k].kind \in {"menu", "choice"}
                      /\ \E a \in Around[k] : IsChoice(lexical[a])

(***************************************************************************)
(* The search finds every loop of what the files write, the modes of       *)
(* choices included, in whatever order it comes to the items and although  *)
(* it takes a choice without the symbol it came by: if it finds none, no   *)
(* calculation comes back to itself unless through the selection of a      *)
(* choice or a type, which are not written.  Not if a menu or choice is    *)
(* inside a choice.                                                        *)
(***************************************************************************)
NoWrittenLoopIsMissed ==
    verdict = "ok" /\ ~NestedInChoice => Endless([r \in Results |-> AsksNamed(r)], Results) = {}
=============================================================================
