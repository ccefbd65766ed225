----------------------------- MODULE LayerGraph -----------------------------
(***************************************************************************)
(* The dependency graph that mk/define_layer.mk, mk/build_layer.mk and the *)
(* top-level Makefile hand to GNU make for one recipe.                     *)
(*                                                                         *)
(* A layer is its position in the recipe: build_recipe.mk includes the     *)
(* layer files in the order of LAYERS, and every rule below is expanded    *)
(* while its layer file is read, so "already defined" means "smaller".     *)
(* Rules that only print (preamble, outro, info) are left out: whatever    *)
(* they wait for, the overlay_mount rule of the same layer waits for too.  *)
(***************************************************************************)
EXTENDS Integers, FiniteSets

CONSTANTS
    NumLayers,          \* number of layers in the recipe
    Tasks,              \* Tasks[l]: names of the stamp files added to $(L)
    Depends,            \* Depends[l]: layers named by DEPENDS +=
    RunAfter,           \* RunAfter[l]: layers named by RUNAFTER +=
    Sources,            \* Sources[l]: git_clone / get_archive checkouts
    CloneFirst,         \* layers whose file calls git_clone before $(L) +=
    NoDependFile,       \* layers with LAYER_NODEPEND_FILE:=y
    ParallelLayers,     \* ENABLE_PARALLEL_LAYERS is y
    OverlayFS           \* CONFIG_OVERLAYFS is y

Layers == 1 .. NumLayers

\* A recipe names a layer in DEPENDS only after listing it: the other order
\* closes a cycle with the serialisation below, which make would then cut.
ASSUME GraphAssumption ==
    /\ NumLayers \in Nat \ {0}
    /\ DOMAIN Tasks = Layers
    /\ Depends \in [Layers -> SUBSET Layers]
    /\ \A l \in Layers : \A d \in Depends[l] : d < l
    /\ RunAfter \in [Layers -> SUBSET Layers]
    /\ DOMAIN Sources = Layers
    /\ CloneFirst \subseteq Layers
    /\ NoDependFile \subseteq Layers
    /\ ParallelLayers \in BOOLEAN
    /\ OverlayFS \in BOOLEAN

----------------------------------------------------------------------------
(* Nodes of the graph: a kind, a layer and, for files of a layer, a name.   *)

Targets(l)  == {<<"target", l, t>> : t \in Tasks[l]}
BuildDir(l) == <<"builddir", l>>
LFile(l)    == <<"lfile", l>>
SrcIndex(l) == {<<"src", l, s>> : s \in Sources[l]}
Mount(l)    == <<"overlay_mount", l>>
Umount(l)   == <<"overlay_umount", l>>

AllTargets == UNION {Targets(l) : l \in Layers}
AllSources == UNION {SrcIndex(l) : l \in Layers}
BuildDirs  == {BuildDir(l) : l \in Layers}
LFiles     == {LFile(l) : l \in Layers}
Mounts     == {Mount(l) : l \in Layers}
Umounts    == {Umount(l) : l \in Layers}

Phony == Mounts \cup Umounts
Files == AllTargets \cup AllSources \cup BuildDirs \cup LFiles
Nodes == Files \cup Phony

LayerOf(n) == n[2]

----------------------------------------------------------------------------
(* The lists the layer files build up.                                      *)

Previous(l) == IF l = 1 THEN {} ELSE {l - 1}

\* Mutant: serialise_layers does not extend RUNAFTER.
RunAfterUnserialised(l) == RunAfter[l]

\* RUNAFTER as extended by serialise_layers, and of it the layers whose
\* $(L_dep) is not empty yet when the rule is expanded.
RunAfterList(l) ==
    RunAfter[l] \cup IF ParallelLayers THEN {} ELSE Previous(l)

TargetsOf(S)      == UNION {Targets(d) : d \in S}
DependsTargets(l) == TargetsOf(Depends[l])
RunAfterTargets(l) == TargetsOf({d \in RunAfterList(l) : d < l})

\* RUNAFTER_$(L) is only filled when layers are serialised.
RunAfterVariable(l) == IF ParallelLayers THEN {} ELSE RunAfterTargets(l)

----------------------------------------------------------------------------
(* Prerequisites.  A normal prerequisite that is newer, or phony, makes its *)
(* target out of date; an order-only one (after the |) is only waited for.  *)

\* $(call git_clone ...) adds the checkout to the targets $(L) holds so far.
LinkedSources(l) == IF l \in CloneFirst THEN {} ELSE SrcIndex(l)

\* Mutants: DEPENDS is order-only; RUNAFTER is a normal prerequisite.
NormalWithoutDepends(l) == {BuildDir(l), LFile(l)} \cup LinkedSources(l)
NormalWithRunAfter(l) ==
    {BuildDir(l), LFile(l)} \cup LinkedSources(l) \cup DependsTargets(l)
        \cup RunAfterTargets(l)

NormalOfTarget(l) ==
    {BuildDir(l)} \cup LinkedSources(l) \cup DependsTargets(l)
        \cup (IF l \in NoDependFile THEN {} ELSE {LFile(l)})

OrderOnlyOfTarget(l) ==
    AllSources \cup RunAfterTargets(l)
        \cup (IF OverlayFS THEN {Mount(l)} ELSE {})

\* Mutants: overlay_mount does not wait for the layer before it; the last
\* word of $(recipe), the layer itself, is taken for the one before it.
MountWithoutPrevious(l) == DependsTargets(l) \cup RunAfterVariable(l)
MountAfterLastWord(l) ==
    DependsTargets(l) \cup RunAfterVariable(l) \cup {Umount(l)}

OrderOnlyOfMount(l) ==
    DependsTargets(l) \cup RunAfterVariable(l)
        \cup {Umount(p) : p \in Previous(l)}

Normal(n) ==
    CASE n \in AllTargets -> NormalOfTarget(LayerOf(n))
      [] n \in Umounts /\ OverlayFS -> {Mount(LayerOf(n))}
      [] OTHER -> {}

OrderOnly(n) ==
    CASE n \in AllTargets -> OrderOnlyOfTarget(LayerOf(n))
      [] n \in Mounts -> OrderOnlyOfMount(LayerOf(n))
      [] n \in Umounts /\ OverlayFS -> Targets(LayerOf(n))
      [] OTHER -> {}

Prereqs(n) == Normal(n) \cup OrderOnly(n)

\* $(L).overlay_mount and $(L).overlay_umount only have a rule with overlayfs.
NoRule(n) == n \in Phony /\ ~OverlayFS

----------------------------------------------------------------------------
(* Goals of a make command line: 0 is "all", a layer l is L_<name>, and -1  *)
(* is source-checkout.                                                      *)

Goals == -1 .. NumLayers

SerialisedAfter(l) == IF ParallelLayers THEN {} ELSE Previous(l)

LayerPrereqs(l) ==
    Targets(l) \cup AllSources \cup {Umount(p) : p \in {l} \cup SerialisedAfter(l)}

GoalPrereqs(g) ==
    CASE g = -1 -> AllSources
      [] g = 0  -> UNION {LayerPrereqs(l) : l \in Layers}
      [] OTHER  -> LayerPrereqs(g)

\* Every node make visits for a goal: all paths of prerequisites from it.
Visit(S) == S \cup UNION {Prereqs(n) : n \in S}

Needed ==
    [g \in Goals |->
        LET Reach[k \in 0 .. 3 * NumLayers + 2] ==
                IF k = 0 THEN GoalPrereqs(g) ELSE Visit(Reach[k - 1])
        IN  Reach[3 * NumLayers + 2]]

=============================================================================
