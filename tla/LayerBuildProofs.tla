-------------------------- MODULE LayerBuildProofs --------------------------
(***************************************************************************)
(* The invariants of LayerBuild, proved for every recipe: any number of    *)
(* layers and tasks, any DEPENDS and RUNAFTER lists, any -j.               *)
(***************************************************************************)
EXTENDS LayerBuild, TLAPS

----------------------------------------------------------------------------
(* The graph.                                                               *)

\* The kinds of node are told apart by their tag.
LEMMA KindsDisjoint ==
    /\ AllTargets \cap (AllSources \cup BuildDirs \cup LFiles \cup Phony) = {}
    /\ Mounts \cap Umounts = {}
    /\ Files \cap Phony = {}
<1>1. \A n \in AllTargets : n[1] = "target"
  BY DEF AllTargets, Targets
<1>2. \A n \in AllSources : n[1] = "src"
  BY DEF AllSources, SrcIndex
<1>3. /\ \A n \in BuildDirs : n[1] = "builddir"
      /\ \A n \in LFiles : n[1] = "lfile"
  BY DEF BuildDirs, BuildDir, LFiles, LFile
<1>4. /\ \A n \in Mounts : n[1] = "overlay_mount"
      /\ \A n \in Umounts : n[1] = "overlay_umount"
  BY DEF Mounts, Mount, Umounts, Umount
<1> QED
  BY <1>1, <1>2, <1>3, <1>4 DEF Phony, Files

\* A task's stamp belongs to the layer LayerOf names.
LEMMA TargetLayer ==
    ASSUME NEW t \in AllTargets
    PROVE  LayerOf(t) \in Layers /\ t \in Targets(LayerOf(t))
BY DEF AllTargets, Targets, LayerOf

\* What belongs to layer l, and where: its mount and unmount targets, its
\* tasks, its build directory, its L file and its sources.
LEMMA MountLayer ==
    ASSUME NEW l \in Layers
    PROVE  /\ LayerOf(Mount(l)) = l /\ LayerOf(Umount(l)) = l
           /\ Mount(l) \in Mounts /\ Umount(l) \in Umounts
           /\ Mount(l) \in Nodes /\ Umount(l) \in Nodes
           /\ Targets(l) \subseteq AllTargets
           /\ BuildDir(l) \in BuildDirs
           /\ LFile(l) \in LFiles
           /\ SrcIndex(l) \subseteq AllSources
BY DEF LayerOf, Mount, Umount, Mounts, Umounts, Nodes, Phony, AllTargets,
       BuildDir, BuildDirs, LFile, LFiles, AllSources

\* At most one layer comes before l, and it is number l - 1.
LEMMA LayersOrdered ==
    ASSUME NEW l \in Layers
    PROVE  Previous(l) \subseteq Layers /\ \A p \in Previous(l) : p = l - 1
BY GraphAssumption DEF Previous, Layers

\* The rules of a task, of overlay_mount and of overlay_umount.
LEMMA RuleOfTarget ==
    ASSUME NEW t \in AllTargets
    PROVE  /\ Normal(t) = NormalOfTarget(LayerOf(t))
           /\ OrderOnly(t) = OrderOnlyOfTarget(LayerOf(t))
BY KindsDisjoint DEF Normal, OrderOnly, Phony

\* The rule of overlay_mount has order-only prerequisites alone.
LEMMA RuleOfMount ==
    ASSUME NEW l \in Layers
    PROVE  Normal(Mount(l)) = {} /\ OrderOnly(Mount(l)) = OrderOnlyOfMount(l)
BY KindsDisjoint, MountLayer DEF Normal, OrderOnly, Phony

\* The rule of overlay_umount: after the mount, once the tasks are done.
LEMMA RuleOfUmount ==
    ASSUME NEW l \in Layers, OverlayFS
    PROVE  Normal(Umount(l)) = {Mount(l)} /\ OrderOnly(Umount(l)) = Targets(l)
BY KindsDisjoint, MountLayer DEF Normal, OrderOnly, Phony

\* DEPENDS and RUNAFTER only name tasks of the build.
LEMMA DependsInLayers ==
    ASSUME NEW l \in Layers
    PROVE  /\ DependsTargets(l) \subseteq AllTargets
           /\ RunAfterTargets(l) \subseteq AllTargets
<1>1. Depends[l] \subseteq Layers
  BY GraphAssumption
<1>2. RunAfterList(l) \subseteq Layers
  BY GraphAssumption, LayersOrdered DEF RunAfterList
<1> QED
  BY <1>1, <1>2, MountLayer DEF DependsTargets, RunAfterTargets, TargetsOf

\* Every prerequisite is a node of the graph.
LEMMA PrereqsAreNodes ==
    ASSUME NEW n \in Nodes
    PROVE  Prereqs(n) \subseteq Nodes
<1>1. CASE n \in AllTargets
  <2> DEFINE l == LayerOf(n)
  <2>1. l \in Layers
    BY <1>1, TargetLayer
  <2>2. Normal(n) \subseteq Nodes
    BY <1>1, <2>1, RuleOfTarget, MountLayer, DependsInLayers
    DEF NormalOfTarget, LinkedSources, Nodes, Files
  <2>3. OrderOnly(n) \subseteq Nodes
    BY <1>1, <2>1, RuleOfTarget, MountLayer, DependsInLayers
    DEF OrderOnlyOfTarget, Nodes, Files
  <2> QED
    BY <2>2, <2>3 DEF Prereqs
<1>2. CASE n \in Mounts
  <2>1. PICK l \in Layers : n = Mount(l)
    BY <1>2 DEF Mounts
  <2>2. OrderOnlyOfMount(l) \subseteq Nodes
    BY <2>1, DependsInLayers, LayersOrdered, MountLayer
    DEF OrderOnlyOfMount, RunAfterVariable, Nodes, Files
  <2> QED
    BY <2>1, <2>2, RuleOfMount DEF Prereqs
<1>3. CASE n \in Umounts /\ OverlayFS
  <2>1. PICK l \in Layers : n = Umount(l)
    BY <1>3 DEF Umounts
  <2> QED
    BY <1>3, <2>1, RuleOfUmount, MountLayer DEF Prereqs, Nodes, Files
<1>4. CASE n \notin AllTargets /\ n \notin Mounts /\ ~(n \in Umounts /\ OverlayFS)
  BY <1>4 DEF Prereqs, Normal, OrderOnly
<1> QED
  BY <1>1, <1>2, <1>3, <1>4

----------------------------------------------------------------------------
(* Type correctness.                                                        *)

\* A file that is modified leaves the record of newer files well typed.
LEMMA ModifiedType ==
    ASSUME TypeOK, NEW f \in Files
    PROVE  Modified(f) \in [AllTargets -> SUBSET Files]
BY DEF Modified, TypeOK

\* A build directory is one of the files make knows.
LEMMA BuildDirIsFile ==
    ASSUME NEW l \in Layers
    PROVE  BuildDir(l) \in Files
BY MountLayer DEF Files

\* Every variable keeps its type, in every recipe.
THEOREM TypeCorrect == Spec => []TypeOK
<1>1. Init => TypeOK
  BY JobsAssumption, GraphAssumption DEF Init, TypeOK, Forgotten, Goals, Files, LFiles
<1>2. TypeOK /\ [Next]_vars => TypeOK'
  <2> SUFFICES ASSUME TypeOK, [Next]_vars PROVE TypeOK'
    OBVIOUS
  <2> USE JobsAssumption DEF TypeOK
  <2>1. ASSUME NEW g \in Goals, Make(g) PROVE TypeOK'
    BY <2>1 DEF Make, Forgotten, ovlVars, Quiet
  <2>2. ASSUME NEW n \in Nodes, UpToDate(n) PROVE TypeOK'
    BY <2>2 DEF UpToDate, fileVars, ovlVars, Quiet
  <2>3. ASSUME NEW n \in Nodes, GiveUp(n) PROVE TypeOK'
    BY <2>3 DEF GiveUp, fileVars, ovlVars, Quiet
  <2>4. ASSUME NEW n \in Nodes, Checkout(n) PROVE TypeOK'
    <3>1. n \in Files
      BY <2>4 DEF Checkout, Files
    <3> QED
      BY <2>4, <3>1, ModifiedType DEF Checkout, Done, StopMake, ovlVars, Quiet, Upset
  <2>5. ASSUME NEW n \in Nodes, MkBuildDir(n) PROVE TypeOK'
    <3>1. n \in Files
      BY <2>5 DEF MkBuildDir, Files
    <3> QED
      BY <2>5, <3>1, ModifiedType DEF MkBuildDir, Done, ovlVars, Quiet
  <2>6. ASSUME NEW l \in Layers, OverlayMount(l) PROVE TypeOK'
    BY <2>6, ModifiedType, BuildDirIsFile, MountLayer
    DEF OverlayMount, Done, StopMake, Quiet, Upset
  <2>7. ASSUME NEW l \in Layers, OverlayUmount(l) PROVE TypeOK'
    BY <2>7, MountLayer DEF OverlayUmount, Done, fileVars, Quiet
  <2>8. ASSUME NEW t \in AllTargets, StartTask(t) PROVE TypeOK'
    BY <2>8 DEF StartTask, Quiet
  <2>9. ASSUME NEW t \in AllTargets, AddProduct(t) PROVE TypeOK'
    BY <2>9, ModifiedType, BuildDirIsFile, TargetLayer, MountLayer
    DEF AddProduct, runVars, ovlVars, Quiet
  <2>10. ASSUME NEW t \in AllTargets, FinishTask(t) PROVE TypeOK'
    <3>1. t \in Files
      BY DEF Files
    <3> QED
      BY <2>10, <3>1, ModifiedType DEF FinishTask, Done, ovlVars, Quiet, Files
  <2>11. ASSUME NEW t \in AllTargets, FailTask(t) PROVE TypeOK'
    <3>1. st' \in [Nodes -> {"todo", "running", "done"}]
      BY <2>11 DEF FailTask, StopMake
    <3>2. phase' = "stopping" /\ upsets' \in 0 .. MaxUpsets
      BY <2>11 DEF FailTask, StopMake, Upset
    <3>3. UNCHANGED <<goal, result, calm>> /\ UNCHANGED fileVars /\ UNCHANGED ovlVars
      BY <2>11 DEF FailTask, StopMake
    <3> QED
      BY <3>1, <3>2, <3>3 DEF fileVars, ovlVars
  <2>12. CASE Succeed
    BY <2>12 DEF Succeed, ovlVars, Quiet
  <2>13. CASE ExitFailed
    BY <2>13 DEF ExitFailed, Forgotten, ovlVars, Quiet
  <2>14. ASSUME NEW f \in Files, Edit(f) PROVE TypeOK'
    BY <2>14, ModifiedType DEF Edit, Changed, Forgotten, ovlVars, Upset
  <2>15. ASSUME NEW l \in Layers, Invalidate(l) PROVE TypeOK'
    BY <2>15 DEF Invalidate, Changed, Forgotten, Upset
  <2>16. ASSUME NEW l \in Layers, InvalidateOverlay(l) PROVE TypeOK'
    BY <2>16 DEF InvalidateOverlay, runVars, Quiet
  <2>17. ASSUME NEW l \in Layers, CleanBuild(l) PROVE TypeOK'
    BY <2>17 DEF CleanBuild, Changed, Forgotten, ovlVars, Upset
  <2>18. CASE AbortInvalidate
    BY <2>18 DEF AbortInvalidate, fileVars, runVars, Quiet
  <2>19. CASE Interrupt
    BY <2>19 DEF Interrupt, Forgotten, ovlVars, Quiet
  <2>20. CASE UNCHANGED vars
    BY <2>20 DEF vars
  <2> QED
    BY <2>1, <2>2, <2>3, <2>4, <2>5, <2>6, <2>7, <2>8, <2>9, <2>10, <2>11, <2>12,
       <2>13, <2>14, <2>15, <2>16, <2>17, <2>18, <2>19, <2>20
    DEF Next, MakeStep, UserStep
<1> QED
  BY <1>1, <1>2, PTL DEF Spec

----------------------------------------------------------------------------
(* The inductive invariant.                                                 *)

\* A node is only taken up when all its prerequisites are done.
PrereqsDone ==
    \A n \in Nodes : st[n] # "todo" => \A p \in Prereqs(n) : st[p] = "done"

IdleIsQuiet == phase = "idle" => \A n \in Nodes : st[n] # "running"

\* Overlays are mounted one after the other ...
EarlierUnmounted ==
    OverlayFS =>
        \A l, j \in Layers :
            j < l /\ st[Mount(l)] = "done" => st[Umount(j)] = "done"

\* ... and stay mounted, and current, until they are unmounted.
MountedIsCurrent ==
    OverlayFS /\ phase # "idle" =>
        \A l \in Layers :
            st[Mount(l)] = "done" /\ st[Umount(l)] # "done" => l \in mounted \ stale

\* Without overlays the RUNAFTER chain alone orders the layers.
Chained == ~ParallelLayers /\ \A l \in Layers : Tasks[l] # {}

EarlierDone ==
    Chained =>
        \A t, u \in AllTargets :
            LayerOf(u) < LayerOf(t) /\ st[t] # "todo" => st[u] = "done"

InvalidatedIsUnstamped ==
    /\ phase # "idle" => invalidating = {}
    /\ \A l \in invalidating : Targets(l) \cap exists = {}

\* How a step changes what make has done: it forgets everything, leaves it
\* alone, or moves one node that was not done yet.
Advance(n, v) ==
    /\ st[n] # "done"
    /\ st' = [st EXCEPT ![n] = v]
    /\ v # "todo" => \A p \in Prereqs(n) : st[p] = "done"

\* A step forgets what make knows, leaves it alone, or advances one node
\* whose prerequisites are done.
LEMMA StatusStep ==
    ASSUME TypeOK, PrereqsDone, [Next]_vars
    PROVE  \/ st' = Forgotten
           \/ UNCHANGED st
           \/ \E n \in Nodes : \E v \in {"todo", "running", "done"} : Advance(n, v)
<1> USE DEF Advance, Ready, Done, StopMake
<1>1. ASSUME NEW n \in Nodes,
             UpToDate(n) \/ GiveUp(n) \/ Checkout(n) \/ MkBuildDir(n)
      PROVE  \/ UNCHANGED st
             \/ Advance(n, "done") \/ Advance(n, "todo")
  BY <1>1 DEF UpToDate, GiveUp, Checkout, MkBuildDir
<1>2. ASSUME NEW l \in Layers, OverlayMount(l) \/ OverlayUmount(l)
      PROVE  \/ Advance(Mount(l), "done") \/ Advance(Mount(l), "todo")
             \/ Advance(Umount(l), "done")
  BY <1>2 DEF OverlayMount, OverlayUmount
<1>3. ASSUME NEW t \in AllTargets,
             StartTask(t) \/ AddProduct(t) \/ FinishTask(t) \/ FailTask(t)
      PROVE  \/ UNCHANGED st
             \/ Advance(t, "running") \/ Advance(t, "done") \/ Advance(t, "todo")
  <2>1. t \in Nodes
    BY DEF Nodes, Files
  <2> QED
    BY <1>3, <2>1 DEF StartTask, AddProduct, FinishTask, FailTask, runVars, PrereqsDone
<1>4. ASSUME Succeed \/ ExitFailed \/ UserStep \/ UNCHANGED vars
      PROVE  UNCHANGED st \/ st' = Forgotten
  BY <1>4 DEF Succeed, ExitFailed, UserStep, Make, Edit, Invalidate, InvalidateOverlay,
              CleanBuild, AbortInvalidate, Interrupt, Changed, runVars, vars
<1> HIDE DEF Advance
<1> QED
  BY <1>1, <1>2, <1>3, <1>4, MountLayer DEF Next, MakeStep, Nodes, Files

\* Nothing waits for a node that is not done, so PrereqsDone survives.
LEMMA PrereqsDoneStep ==
    ASSUME TypeOK, PrereqsDone, [Next]_vars
    PROVE  PrereqsDone'
<1>1. CASE st' = Forgotten
  BY <1>1 DEF PrereqsDone, Forgotten
<1>2. CASE UNCHANGED st
  BY <1>2 DEF PrereqsDone
<1>3. ASSUME NEW m \in Nodes, NEW v \in {"todo", "running", "done"}, Advance(m, v)
      PROVE  PrereqsDone'
  <2> SUFFICES ASSUME NEW n \in Nodes, st'[n] # "todo", NEW p \in Prereqs(n)
               PROVE  st'[p] = "done"
    BY DEF PrereqsDone
  <2>1. p \in Nodes
    BY PrereqsAreNodes
  <2>2. st[p] = "done"
    BY <1>3 DEF Advance, PrereqsDone, TypeOK
  <2> QED
    BY <1>3, <2>1, <2>2 DEF Advance, TypeOK
<1> QED
  BY <1>1, <1>2, <1>3, StatusStep

----------------------------------------------------------------------------
(* The order of the layers.                                                 *)

\* Who waits for whom, in the terms the order argument needs.
LEMMA WaitsFor ==
    ASSUME PrereqsDone
    PROVE  /\ \A t \in AllTargets :
                 OverlayFS /\ st[t] # "todo" => st[Mount(LayerOf(t))] = "done"
           /\ \A l \in Layers :
                 OverlayFS /\ st[Umount(l)] # "todo" =>
                     /\ st[Mount(l)] = "done"
                     /\ \A t \in Targets(l) : st[t] = "done"
<1>1. ASSUME NEW t \in AllTargets, OverlayFS, st[t] # "todo"
      PROVE  st[Mount(LayerOf(t))] = "done"
  <2>1. Mount(LayerOf(t)) \in Prereqs(t)
    BY <1>1, RuleOfTarget DEF Prereqs, OrderOnlyOfTarget
  <2>2. t \in Nodes
    BY DEF Nodes, Files
  <2> QED
    BY <1>1, <2>1, <2>2 DEF PrereqsDone
<1>2. ASSUME NEW l \in Layers, OverlayFS, st[Umount(l)] # "todo"
      PROVE  st[Mount(l)] = "done" /\ \A t \in Targets(l) : st[t] = "done"
  BY <1>2, RuleOfUmount, MountLayer DEF PrereqsDone, Prereqs
<1> QED
  BY <1>1, <1>2

\* Every step keeps earlier overlays unmounted.
LEMMA EarlierUnmountedStep ==
    ASSUME TypeOK, PrereqsDone, EarlierUnmounted, [Next]_vars
    PROVE  EarlierUnmounted'
<1>1. CASE st' = Forgotten
  BY <1>1, MountLayer DEF EarlierUnmounted, Forgotten
<1>2. CASE UNCHANGED st
  BY <1>2 DEF EarlierUnmounted
<1>3. ASSUME NEW m \in Nodes, NEW v \in {"todo", "running", "done"}, Advance(m, v)
      PROVE  EarlierUnmounted'
  <2> SUFFICES ASSUME OverlayFS, NEW l \in Layers, NEW j \in Layers, j < l,
                      st'[Mount(l)] = "done"
               PROVE  st'[Umount(j)] = "done"
    BY DEF EarlierUnmounted
  <2>1. st[Umount(j)] = "done"
    <3>1. CASE st[Mount(l)] = "done"
      BY <3>1 DEF EarlierUnmounted
    <3>2. CASE st[Mount(l)] # "done"
      <4>1. m = Mount(l) /\ v = "done"
        BY <1>3, <3>2, MountLayer DEF Advance, TypeOK
      <4>2. l # 1 /\ l - 1 \in Layers /\ Previous(l) = {l - 1}
        BY GraphAssumption DEF Layers, Previous
      <4>3. Umount(l - 1) \in Prereqs(Mount(l))
        BY <4>2, RuleOfMount DEF Prereqs, OrderOnlyOfMount
      <4>4. st[Umount(l - 1)] = "done"
        BY <1>3, <4>1, <4>3 DEF Advance
      <4>5. st[Mount(l - 1)] = "done"
        BY <4>2, <4>4, WaitsFor
      <4>6. j = l - 1 \/ j < l - 1
        BY GraphAssumption DEF Layers
      <4> QED
        BY <4>2, <4>4, <4>5, <4>6 DEF EarlierUnmounted
    <3> QED
      BY <3>1, <3>2
  <2> QED
    BY <1>3, <2>1, MountLayer DEF Advance, TypeOK
<1> QED
  BY <1>1, <1>2, <1>3, StatusStep

\* Every step keeps the tasks of earlier layers ahead of later ones.
LEMMA EarlierDoneStep ==
    ASSUME TypeOK, PrereqsDone, EarlierDone, [Next]_vars
    PROVE  EarlierDone'
<1> AllTargets \subseteq Nodes
  BY DEF Nodes, Files
<1>1. CASE st' = Forgotten
  BY <1>1 DEF EarlierDone, Forgotten
<1>2. CASE UNCHANGED st
  BY <1>2 DEF EarlierDone
<1>3. ASSUME NEW m \in Nodes, NEW v \in {"todo", "running", "done"}, Advance(m, v)
      PROVE  EarlierDone'
  <2> SUFFICES ASSUME Chained, NEW t \in AllTargets, NEW u \in AllTargets,
                      LayerOf(u) < LayerOf(t), st'[t] # "todo"
               PROVE  st'[u] = "done"
    BY DEF EarlierDone
  <2>1. st[u] = "done"
    <3>1. CASE st[t] # "todo"
      BY <3>1 DEF EarlierDone
    <3>2. CASE st[t] = "todo"
      <4> DEFINE l == LayerOf(t)
                 k == LayerOf(u)
      <4>1. m = t /\ v # "todo"
        BY <1>3, <3>2 DEF Advance, TypeOK
      <4>2. l \in Layers /\ k \in Layers /\ k < l /\ u \in Targets(k)
        BY TargetLayer
      <4>3. l # 1 /\ l - 1 \in Layers /\ Previous(l) = {l - 1}
        BY <4>2, GraphAssumption DEF Layers, Previous
      <4>4. l - 1 < l
        BY <4>2, GraphAssumption DEF Layers
      <4>5. Targets(l - 1) \subseteq RunAfterTargets(l)
        <5>1. l - 1 \in RunAfterList(l)
          BY <4>3 DEF RunAfterList, Chained
        <5> QED
          BY <4>4, <5>1 DEF RunAfterTargets, TargetsOf
      <4>6. \A w \in Targets(l - 1) : st[w] = "done"
        BY <1>3, <4>1, <4>5, RuleOfTarget DEF Advance, Prereqs, OrderOnlyOfTarget
      <4>7. CASE k = l - 1
        BY <4>2, <4>6, <4>7
      <4>8. CASE k # l - 1
        <5>1. k < l - 1
          BY <4>2, <4>3, <4>8, GraphAssumption DEF Layers
        <5>2. PICK w \in Targets(l - 1) : TRUE
          BY <4>3 DEF Chained, Targets
        <5>3. w \in AllTargets /\ LayerOf(w) = l - 1
          BY <4>3, <5>2 DEF AllTargets, Targets, LayerOf
        <5>4. st[w] # "todo"
          BY <4>6, <5>2
        <5> QED
          BY <5>1, <5>3, <5>4 DEF EarlierDone
      <4> QED
        BY <4>7, <4>8
    <3> QED
      BY <3>1, <3>2
  <2> QED
    BY <1>3, <2>1 DEF Advance, TypeOK
<1> QED
  BY <1>1, <1>2, <1>3, StatusStep

OrderInv == TypeOK /\ PrereqsDone /\ EarlierUnmounted /\ EarlierDone

\* What make knows always respects the order of the layers.
LEMMA OrderInvariant == Spec => []OrderInv
<1>1. Init => PrereqsDone /\ EarlierUnmounted /\ EarlierDone
  BY MountLayer
  DEF Init, PrereqsDone, EarlierUnmounted, EarlierDone, Forgotten, AllTargets, Nodes, Files
<1>2. OrderInv /\ [Next]_vars => (PrereqsDone /\ EarlierUnmounted /\ EarlierDone)'
  BY PrereqsDoneStep, EarlierUnmountedStep, EarlierDoneStep DEF OrderInv
<1> QED
  BY <1>1, <1>2, TypeCorrect, PTL DEF Spec, OrderInv

\* README "Layer Serialisation", for every recipe: with overlays the mounts
\* order the layers (even those of a recipe that enables parallel layers);
\* without, the RUNAFTER chain of serialise_layers does,
\* provided that no layer is without tasks.
THEOREM SerialisedThm ==
    ASSUME OverlayFS \/ Chained
    PROVE  Spec => []Serialised
<1>1. ASSUME OrderInv PROVE Serialised
  <2> SUFFICES ASSUME NEW t \in AllTargets, NEW u \in AllTargets,
                      st[t] = "running", LayerOf(u) < LayerOf(t)
               PROVE  st[u] = "done"
    BY DEF Serialised
  <2>1. CASE OverlayFS
    <3>1. st[Mount(LayerOf(t))] = "done"
      BY <1>1, <2>1, WaitsFor DEF OrderInv
    <3>2. st[Umount(LayerOf(u))] = "done"
      BY <1>1, <2>1, <3>1, TargetLayer DEF OrderInv, EarlierUnmounted
    <3> QED
      BY <1>1, <2>1, <3>2, WaitsFor, TargetLayer DEF OrderInv
  <2>2. CASE Chained
    BY <1>1, <2>2 DEF OrderInv, EarlierDone
  <2> QED
    BY <2>1, <2>2
<1> QED
  BY <1>1, OrderInvariant, PTL

----------------------------------------------------------------------------
(* The overlays.                                                            *)

OverlayInv == OrderInv /\ IdleIsQuiet /\ MountedIsCurrent

\* Between makes nothing is running, and every step keeps it so.
LEMMA IdleIsQuietStep ==
    ASSUME TypeOK, IdleIsQuiet, [Next]_vars
    PROVE  IdleIsQuiet'
<1>1. ASSUME MakeStep PROVE IdleIsQuiet'
  <2>1. CASE Succeed \/ ExitFailed
    BY <2>1 DEF Succeed, ExitFailed, IdleIsQuiet, Running, Forgotten
  <2>2. ASSUME NEW n \in Nodes,
               UpToDate(n) \/ GiveUp(n) \/ Checkout(n) \/ MkBuildDir(n)
        PROVE  phase' # "idle"
    BY <2>2 DEF UpToDate, GiveUp, Checkout, MkBuildDir, Ready, Done, StopMake
  <2>3. ASSUME NEW l \in Layers, OverlayMount(l) \/ OverlayUmount(l)
        PROVE  phase' # "idle"
    BY <2>3 DEF OverlayMount, OverlayUmount, Ready, Done, StopMake
  <2>4. ASSUME NEW t \in AllTargets,
               StartTask(t) \/ AddProduct(t) \/ FinishTask(t) \/ FailTask(t)
        PROVE  phase' # "idle"
    BY <2>4 DEF StartTask, AddProduct, FinishTask, FailTask, Ready, Done, StopMake,
                runVars, IdleIsQuiet, Nodes, Files
  <2> QED
    BY <1>1, <2>1, <2>2, <2>3, <2>4 DEF MakeStep, IdleIsQuiet
<1>2. ASSUME UserStep \/ UNCHANGED vars PROVE IdleIsQuiet'
  BY <1>2 DEF UserStep, Make, Edit, Invalidate, InvalidateOverlay, CleanBuild,
              AbortInvalidate, Interrupt, Changed, Forgotten, runVars, vars, IdleIsQuiet
<1> QED
  BY <1>1, <1>2 DEF Next

\* Only a task of an earlier layer makes an overlay stale, and there is none
\* left to start once the overlay is mounted.
LEMMA MountedIsCurrentStep ==
    ASSUME OverlayInv, [Next]_vars
    PROVE  MountedIsCurrent'
<1> SUFFICES ASSUME OverlayFS, phase' # "idle", NEW l \in Layers,
                    st'[Mount(l)] = "done", st'[Umount(l)] # "done"
             PROVE  l \in mounted' \ stale'
  BY DEF MountedIsCurrent
<1> USE DEF OverlayInv, OrderInv
<1>0. /\ Mount(l) \in Nodes /\ Umount(l) \in Nodes
      /\ \A k \in Layers : /\ Mount(k) # Umount(l) /\ Umount(k) # Mount(l)
                           /\ k # l => Mount(k) # Mount(l) /\ Umount(k) # Umount(l)
      /\ \A n \in Files : n # Mount(l) /\ n # Umount(l)
  BY KindsDisjoint, MountLayer DEF Phony
<1>00. AllTargets \subseteq Files /\ BuildDirs \subseteq Files /\ AllSources \subseteq Files
  BY DEF Files
<1> DEFINE Was == st[Mount(l)] = "done" /\ st[Umount(l)] # "done" /\ phase # "idle"
<1>1. Was => l \in mounted \ stale
  BY DEF MountedIsCurrent
<1>2. ASSUME NEW n \in Nodes, UpToDate(n) \/ GiveUp(n)
      PROVE  l \in mounted' \ stale'
  <2>1. Was
    BY <1>0, <1>00, <1>2 DEF UpToDate, GiveUp, Ready, TypeOK
  <2> QED
    BY <1>1, <1>2, <2>1 DEF UpToDate, GiveUp, ovlVars
<1>3. ASSUME NEW n \in Nodes, Checkout(n) \/ MkBuildDir(n)
      PROVE  l \in mounted' \ stale'
  <2>1. Was
    BY <1>0, <1>00, <1>3 DEF Checkout, MkBuildDir, Ready, Done, StopMake, TypeOK
  <2> QED
    BY <1>1, <1>3, <2>1 DEF Checkout, MkBuildDir, ovlVars
<1>4. ASSUME NEW k \in Layers, OverlayMount(k)
      PROVE  l \in mounted' \ stale'
  <2>1. CASE k = l
    <3>1. Done(Mount(l))
      BY <1>0, <1>4, <2>1 DEF OverlayMount, StopMake, TypeOK
    <3>2. l \in mounted'
      BY <1>0, <1>4, <2>1, <3>1 DEF OverlayMount, Done, StopMake, TypeOK
    <3> QED
      BY <1>4, <2>1, <3>2 DEF OverlayMount
  <2>2. CASE k # l
    <3>1. Was
      BY <1>0, <1>4, <2>2, MountLayer DEF OverlayMount, Ready, Done, StopMake, TypeOK
    <3> QED
      BY <1>1, <1>4, <2>2, <3>1 DEF OverlayMount
  <2> QED
    BY <2>1, <2>2
<1>5. ASSUME NEW k \in Layers, OverlayUmount(k)
      PROVE  l \in mounted' \ stale'
  <2>1. k # l
    BY <1>0, <1>5 DEF OverlayUmount, Done, TypeOK
  <2>2. Was
    BY <1>0, <1>5, <2>1, MountLayer DEF OverlayUmount, Ready, Done, TypeOK
  <2> QED
    BY <1>1, <1>5, <2>1, <2>2 DEF OverlayUmount
<1>6. ASSUME NEW t \in AllTargets, StartTask(t)
      PROVE  l \in mounted' \ stale'
  <2>1. Was
    BY <1>0, <1>00, <1>6 DEF StartTask, Ready, TypeOK
  <2>2. ~(l > LayerOf(t))
    <3> SUFFICES ASSUME LayerOf(t) < l PROVE FALSE
      BY TargetLayer, GraphAssumption DEF Layers
    <3>1. st[Umount(LayerOf(t))] = "done"
      BY <2>1, TargetLayer DEF EarlierUnmounted
    <3>2. st[t] = "done"
      BY <3>1, WaitsFor, TargetLayer
    <3> QED
      BY <1>6, <3>2 DEF StartTask, Ready
  <2> QED
    BY <1>1, <1>6, <2>1, <2>2 DEF StartTask
<1>7. ASSUME NEW t \in AllTargets, AddProduct(t) \/ FinishTask(t) \/ FailTask(t)
      PROVE  l \in mounted' \ stale'
  <2>1. Was
    BY <1>0, <1>00, <1>7
    DEF AddProduct, FinishTask, FailTask, Done, StopMake, runVars, TypeOK, IdleIsQuiet,
        Nodes
  <2> QED
    BY <1>1, <1>7, <2>1 DEF AddProduct, FinishTask, FailTask, ovlVars
<1>8. ASSUME Succeed \/ ExitFailed \/ UserStep PROVE l \in mounted' \ stale'
  BY <1>0, <1>8
  DEF Succeed, ExitFailed, UserStep, Make, Edit, Invalidate, InvalidateOverlay, CleanBuild,
      AbortInvalidate, Interrupt, Changed, Forgotten, runVars
<1>9. CASE UNCHANGED vars
  BY <1>1, <1>9 DEF vars
<1> QED
  BY <1>2, <1>3, <1>4, <1>5, <1>6, <1>7, <1>8, <1>9 DEF Next, MakeStep

\* What is mounted always belongs to the layer that make has got to.
LEMMA OverlayInvariant == Spec => []OverlayInv
<1>1. Init => IdleIsQuiet /\ MountedIsCurrent
  BY DEF Init, IdleIsQuiet, MountedIsCurrent, Forgotten
<1>2. OverlayInv /\ [Next]_vars => (IdleIsQuiet /\ MountedIsCurrent)'
  BY IdleIsQuietStep, MountedIsCurrentStep DEF OverlayInv, OrderInv
<1> QED
  BY <1>1, <1>2, OrderInvariant, PTL DEF Spec, OverlayInv

\* Whatever was interrupted before, a task sees its own overlay, mounted after
\* the last write to any layer below it (build_layer.mk 227-264).
THEOREM OverlayIsCurrentThm == Spec => []OverlayIsCurrent
<1>1. ASSUME OverlayInv PROVE OverlayIsCurrent
  <2> SUFFICES ASSUME OverlayFS, NEW t \in AllTargets, st[t] = "running"
               PROVE  LayerOf(t) \in mounted \ stale
    BY DEF OverlayIsCurrent
  <2>1. phase # "idle"
    BY <1>1 DEF OverlayInv, IdleIsQuiet, Nodes, Files
  <2>2. st[Mount(LayerOf(t))] = "done"
    BY <1>1, WaitsFor DEF OverlayInv, OrderInv
  <2>3. st[Umount(LayerOf(t))] # "done"
    BY <1>1, WaitsFor, TargetLayer DEF OverlayInv, OrderInv
  <2> QED
    BY <1>1, <2>1, <2>2, <2>3, TargetLayer DEF OverlayInv, MountedIsCurrent
<1> QED
  BY <1>1, OverlayInvariant, PTL

----------------------------------------------------------------------------
(* The stamps.                                                              *)

StampInv == OverlayInv /\ InvalidatedIsUnstamped /\ TrustedStampIsComplete

\* Modifying a file other than the stamp itself never makes a stamp fresher.
LEMMA ModifiedGrows ==
    ASSUME TypeOK, NEW f, NEW t \in AllTargets, t # f
    PROVE  newer[t] \subseteq Modified(f)[t]
BY DEF Modified, TypeOK

\* A stamp that was just written is newer than everything.
LEMMA ModifiedFresh ==
    ASSUME NEW t \in AllTargets
    PROVE  Modified(t)[t] = {}
BY DEF Modified

\* A task is started because its stamp is missing or an input is newer:
\* nothing phony is a normal prerequisite of it.
LEMMA StartedForAReason ==
    ASSUME TypeOK, NEW t \in AllTargets, OutOfDate(t)
    PROVE  t \notin exists \/ newer[t] # {}
<1>1. Normal(t) \cap Phony = {}
  <2>1. NormalOfTarget(LayerOf(t)) \subseteq Files
    BY TargetLayer, MountLayer, DependsInLayers
    DEF NormalOfTarget, LinkedSources, Files
  <2> QED
    BY <2>1, RuleOfTarget, KindsDisjoint
<1> QED
  BY <1>1 DEF OutOfDate, SeenNewer, TypeOK

\* Every step leaves an invalidated task without a trusted stamp.
LEMMA InvalidatedStep ==
    ASSUME OverlayInv, InvalidatedIsUnstamped, [Next]_vars
    PROVE  InvalidatedIsUnstamped'
<1> USE DEF InvalidatedIsUnstamped
<1>1. ASSUME NEW n \in Nodes,
             UpToDate(n) \/ GiveUp(n) \/ Checkout(n) \/ MkBuildDir(n)
      PROVE  InvalidatedIsUnstamped'
  BY <1>1 DEF UpToDate, GiveUp, Checkout, MkBuildDir, Ready, ovlVars
<1>2. ASSUME NEW l \in Layers, OverlayMount(l) \/ OverlayUmount(l)
      PROVE  InvalidatedIsUnstamped'
  BY <1>2 DEF OverlayMount, OverlayUmount, Ready
<1>3. ASSUME NEW t \in AllTargets,
             StartTask(t) \/ AddProduct(t) \/ FinishTask(t) \/ FailTask(t)
      PROVE  InvalidatedIsUnstamped'
  <2>1. phase # "idle"
    BY <1>3 DEF StartTask, AddProduct, FinishTask, FailTask, Ready, OverlayInv,
                IdleIsQuiet, Nodes, Files
  <2> QED
    BY <1>3, <2>1 DEF StartTask, AddProduct, FinishTask, FailTask, ovlVars
<1>4. ASSUME Succeed \/ ExitFailed \/ Interrupt \/ AbortInvalidate \/ UNCHANGED vars
      PROVE  InvalidatedIsUnstamped'
  BY <1>4 DEF Succeed, ExitFailed, Interrupt, AbortInvalidate, fileVars, runVars,
              ovlVars, vars
<1>5. ASSUME NEW g \in Goals, Make(g) PROVE InvalidatedIsUnstamped'
  BY <1>5 DEF Make, ovlVars
<1>6. ASSUME NEW f \in Files, Edit(f) PROVE InvalidatedIsUnstamped'
  BY <1>6 DEF Edit, Changed, ovlVars
<1>7. ASSUME NEW l \in Layers, Invalidate(l) \/ InvalidateOverlay(l) \/ CleanBuild(l)
      PROVE  InvalidatedIsUnstamped'
  BY <1>7 DEF Invalidate, InvalidateOverlay, CleanBuild, Changed, runVars, ovlVars
<1> QED
  BY <1>1, <1>2, <1>3, <1>4, <1>5, <1>6, <1>7 DEF Next, MakeStep, UserStep

\* Every step keeps stamps that make trusts in front of complete outputs.
LEMMA TrustedStep ==
    ASSUME StampInv, [Next]_vars
    PROVE  TrustedStampIsComplete'
<1> USE DEF StampInv, OverlayInv, OrderInv
<1> SUFFICES ASSUME NEW u \in AllTargets, u \in exists', newer'[u] = {}
             PROVE  out'[u] = "full"
  BY DEF TrustedStampIsComplete
<1>0. u \in exists /\ newer[u] = {} => out[u] = "full"
  BY DEF TrustedStampIsComplete
<1>00. u \notin AllSources /\ u \notin BuildDirs /\ u \notin LFiles
  BY KindsDisjoint
<1>1. ASSUME NEW n \in Nodes,
             UpToDate(n) \/ GiveUp(n) \/ Checkout(n) \/ MkBuildDir(n)
      PROVE  out'[u] = "full"
  <2>1. newer' = newer \/ (newer' = Modified(n) /\ n # u)
    BY <1>1, <1>00 DEF UpToDate, GiveUp, Checkout, MkBuildDir, fileVars
  <2>2. newer[u] = {}
    BY <2>1, ModifiedGrows
  <2> QED
    BY <1>0, <1>00, <1>1, <2>2 DEF UpToDate, GiveUp, Checkout, MkBuildDir, fileVars
<1>2. ASSUME NEW l \in Layers, OverlayMount(l) \/ OverlayUmount(l)
      PROVE  out'[u] = "full"
  <2>0. BuildDir(l) # u
    BY <1>00, MountLayer
  <2>1. newer' = newer \/ newer' = Modified(BuildDir(l))
    BY <1>2 DEF OverlayMount, OverlayUmount, fileVars
  <2>2. newer[u] = {}
    BY <2>0, <2>1, ModifiedGrows
  <2> QED
    BY <1>0, <1>2, <2>0, <2>2 DEF OverlayMount, OverlayUmount, fileVars
<1>3. ASSUME NEW t \in AllTargets, StartTask(t)
      PROVE  out'[u] = "full"
  BY <1>0, <1>3, StartedForAReason DEF StartTask, TypeOK
<1>4. ASSUME NEW t \in AllTargets, AddProduct(t)
      PROVE  out'[u] = "full"
  <2>0. BuildDir(LayerOf(t)) # u
    BY <1>00, MountLayer, TargetLayer
  <2>1. newer[u] = {}
    BY <1>4, <2>0, ModifiedGrows DEF AddProduct
  <2> QED
    BY <1>0, <1>4, <2>1 DEF AddProduct
<1>5. ASSUME NEW t \in AllTargets, FinishTask(t)
      PROVE  out'[u] = "full"
  <2>1. CASE u = t
    BY <1>5, <2>1 DEF FinishTask, TypeOK
  <2>2. CASE u # t
    BY <1>0, <1>5, <2>2, ModifiedGrows DEF FinishTask, TypeOK
  <2> QED
    BY <2>1, <2>2
<1>6. ASSUME NEW t \in AllTargets, FailTask(t)
      PROVE  out'[u] = "full"
  BY <1>0, <1>6 DEF FailTask, fileVars
<1>7. ASSUME Succeed \/ ExitFailed \/ Interrupt \/ AbortInvalidate \/ UNCHANGED vars
      PROVE  out'[u] = "full"
  BY <1>0, <1>7 DEF Succeed, ExitFailed, Interrupt, AbortInvalidate, fileVars, vars
<1>8. ASSUME NEW g \in Goals, Make(g) PROVE out'[u] = "full"
  BY <1>0, <1>8 DEF Make
<1>9. ASSUME NEW f \in Files, Edit(f) PROVE out'[u] = "full"
  <2>1. newer[u] = {}
    BY <1>9, <1>00, ModifiedGrows DEF Edit
  <2> QED
    BY <1>0, <1>9, <2>1 DEF Edit
<1>10. ASSUME NEW l \in Layers, Invalidate(l) \/ CleanBuild(l)
      PROVE  out'[u] = "full"
  BY <1>0, <1>00, <1>10, MountLayer DEF Invalidate, CleanBuild
<1>11. ASSUME NEW l \in Layers, InvalidateOverlay(l)
      PROVE  out'[u] = "full"
  <2>1. u \notin Targets(l)
    BY <1>11 DEF InvalidateOverlay, InvalidatedIsUnstamped
  <2> QED
    BY <1>0, <1>11, <2>1 DEF InvalidateOverlay, TypeOK
<1> QED
  BY <1>1, <1>2, <1>3, <1>4, <1>5, <1>6, <1>7, <1>8, <1>9, <1>10, <1>11
  DEF Next, MakeStep, UserStep

\* Whatever failed, was cut short or removed, a stamp that the next make would
\* believe stands for finished output (environment.mk 68-72,
\* define_layer.mk 33-40).
THEOREM TrustedStampIsCompleteThm == Spec => []TrustedStampIsComplete
<1>1. Init => InvalidatedIsUnstamped /\ TrustedStampIsComplete
  BY KindsDisjoint DEF Init, InvalidatedIsUnstamped, TrustedStampIsComplete
<1>2. StampInv /\ [Next]_vars => (InvalidatedIsUnstamped /\ TrustedStampIsComplete)'
  BY InvalidatedStep, TrustedStep DEF StampInv
<1> QED
  BY <1>1, <1>2, OverlayInvariant, PTL DEF Spec, StampInv

----------------------------------------------------------------------------
(* Up to date means up to date.                                             *)

FreshInv == OverlayInv /\ DoneIsFresh

\* Modifying f makes at most f newer than a stamp.
LEMMA ModifiedAdds ==
    ASSUME TypeOK, NEW f, NEW t \in AllTargets
    PROVE  Modified(f)[t] \subseteq newer[t] \cup {f}
BY DEF Modified, TypeOK

\* With every git_clone below the $(L) += lines, the inputs of a layer are
\* normal prerequisites of its tasks.
LEMMA InputsArePrereqs ==
    ASSUME CloneFirst = {}, NEW t \in AllTargets
    PROVE  /\ NormalInputs(t) \subseteq Normal(t)
           /\ \A l \in Layers : BuildDir(l) \notin NormalInputs(t)
<1>1. NormalInputs(t) \subseteq Normal(t)
  BY RuleOfTarget DEF NormalInputs, NormalOfTarget, LinkedSources
<1>2. NormalInputs(t) \subseteq AllTargets \cup AllSources \cup LFiles
  BY TargetLayer, MountLayer, DependsInLayers DEF NormalInputs
<1>3. \A n \in BuildDirs : n \notin AllTargets \cup AllSources \cup LFiles
  <2>1. \A n \in AllSources : n[1] = "src"
    BY DEF AllSources, SrcIndex
  <2>2. /\ \A n \in BuildDirs : n[1] = "builddir"
        /\ \A n \in LFiles : n[1] = "lfile"
    BY DEF BuildDirs, BuildDir, LFiles, LFile
  <2> QED
    BY <2>1, <2>2, KindsDisjoint
<1> QED
  BY <1>1, <1>2, <1>3, MountLayer

\* Every step keeps the finished tasks up to date with their inputs.
LEMMA DoneIsFreshStep ==
    ASSUME CloneFirst = {}, FreshInv, [Next]_vars
    PROVE  DoneIsFresh'
<1> USE DEF FreshInv, OverlayInv, OrderInv
<1> SUFFICES ASSUME NEW u \in AllTargets, st'[u] = "done"
             PROVE  u \in exists' /\ newer'[u] \cap NormalInputs(u) = {}
  BY DEF DoneIsFresh
<1>0. u \in Nodes
  BY DEF Nodes, Files
<1> DEFINE Was == st[u] = "done"
<1>1. Was => u \in exists /\ newer[u] \cap NormalInputs(u) = {}
  BY DEF DoneIsFresh
<1>2. \A f \in NormalInputs(u) : Was => st[f] = "done"
  BY <1>0, InputsArePrereqs DEF PrereqsDone, Prereqs
<1>3. \A l \in Layers : BuildDir(l) \notin NormalInputs(u)
  BY InputsArePrereqs
<1>00. u \notin AllSources /\ u \notin BuildDirs /\ u \notin Phony
  BY KindsDisjoint
<1>4. ASSUME NEW n \in Nodes, UpToDate(n)
      PROVE  u \in exists' /\ newer'[u] \cap NormalInputs(u) = {}
  <2>1. CASE n = u
    <3>1. ~OutOfDate(u)
      BY <1>4, <2>1 DEF UpToDate
    <3>2. newer[u] \cap NormalInputs(u) = {}
      BY <1>3, <3>1, InputsArePrereqs, TargetLayer DEF OutOfDate, SeenNewer
    <3> QED
      BY <1>4, <3>1, <3>2 DEF UpToDate, OutOfDate, fileVars
  <2>2. CASE n # u
    BY <1>0, <1>1, <1>4, <2>2 DEF UpToDate, fileVars, TypeOK
  <2> QED
    BY <2>1, <2>2
<1>5. ASSUME NEW n \in Nodes, GiveUp(n)
      PROVE  u \in exists' /\ newer'[u] \cap NormalInputs(u) = {}
  BY <1>1, <1>5 DEF GiveUp, fileVars
<1>6. ASSUME NEW n \in Nodes, Checkout(n) \/ MkBuildDir(n)
      PROVE  u \in exists' /\ newer'[u] \cap NormalInputs(u) = {}
  <2>1. Was
    BY <1>0, <1>00, <1>6 DEF Checkout, MkBuildDir, Done, StopMake, TypeOK
  <2>2. n \notin NormalInputs(u)
    BY <1>2, <1>6, <2>1 DEF Checkout, MkBuildDir, Ready
  <2>3. newer' = newer \/ newer' = Modified(n)
    BY <1>6 DEF Checkout, MkBuildDir
  <2>4. newer'[u] \subseteq newer[u] \cup {n}
    BY <2>3, ModifiedAdds
  <2> QED
    BY <1>1, <1>6, <2>1, <2>2, <2>4 DEF Checkout, MkBuildDir
<1>7. ASSUME NEW l \in Layers, OverlayMount(l) \/ OverlayUmount(l)
      PROVE  u \in exists' /\ newer'[u] \cap NormalInputs(u) = {}
  <2>1. Was
    BY <1>0, <1>00, <1>7, MountLayer
    DEF OverlayMount, OverlayUmount, Done, StopMake, TypeOK, Phony
  <2>2. newer' = newer \/ newer' = Modified(BuildDir(l))
    BY <1>7 DEF OverlayMount, OverlayUmount, fileVars
  <2>3. newer'[u] \subseteq newer[u] \cup {BuildDir(l)}
    BY <2>2, ModifiedAdds
  <2> QED
    BY <1>1, <1>3, <1>7, <2>1, <2>3 DEF OverlayMount, OverlayUmount, fileVars
<1>8. ASSUME NEW t \in AllTargets, StartTask(t) \/ FailTask(t)
      PROVE  u \in exists' /\ newer'[u] \cap NormalInputs(u) = {}
  <2>1. Was
    BY <1>0, <1>8 DEF StartTask, FailTask, StopMake, TypeOK
  <2> QED
    BY <1>1, <1>8, <2>1 DEF StartTask, FailTask, fileVars
<1>9. ASSUME NEW t \in AllTargets, AddProduct(t)
      PROVE  u \in exists' /\ newer'[u] \cap NormalInputs(u) = {}
  <2>1. newer'[u] \subseteq newer[u] \cup {BuildDir(LayerOf(t))}
    BY <1>9, ModifiedAdds DEF AddProduct
  <2>2. BuildDir(LayerOf(t)) \notin NormalInputs(u)
    BY <1>3, TargetLayer
  <2> QED
    BY <1>1, <1>9, <2>1, <2>2 DEF AddProduct, runVars
<1>10. ASSUME NEW t \in AllTargets, FinishTask(t)
      PROVE  u \in exists' /\ newer'[u] \cap NormalInputs(u) = {}
  <2>1. CASE u = t
    BY <1>10, <2>1, ModifiedFresh DEF FinishTask
  <2>2. CASE u # t
    <3>1. Was
      BY <1>0, <1>10, <2>2 DEF FinishTask, Done, TypeOK
    <3>2. t \notin NormalInputs(u)
      BY <1>2, <1>10, <3>1 DEF FinishTask
    <3>3. newer'[u] \subseteq newer[u] \cup {t}
      BY <1>10, ModifiedAdds DEF FinishTask
    <3> QED
      BY <1>1, <1>10, <3>1, <3>2, <3>3 DEF FinishTask
  <2> QED
    BY <2>1, <2>2
<1>11. ASSUME Succeed \/ ExitFailed \/ Interrupt \/ AbortInvalidate \/ UNCHANGED vars
      PROVE  u \in exists' /\ newer'[u] \cap NormalInputs(u) = {}
  BY <1>0, <1>1, <1>11
  DEF Succeed, ExitFailed, Interrupt, AbortInvalidate, Forgotten, fileVars, runVars, vars
<1>12. ASSUME NEW l \in Layers, InvalidateOverlay(l)
      PROVE  u \in exists' /\ newer'[u] \cap NormalInputs(u) = {}
  BY <1>1, <1>12 DEF InvalidateOverlay, runVars
<1>13. ASSUME \/ \E g \in Goals : Make(g)
              \/ \E f \in Files : Edit(f)
              \/ \E l \in Layers : Invalidate(l) \/ CleanBuild(l)
      PROVE  FALSE
  BY <1>0, <1>13 DEF Make, Edit, Invalidate, CleanBuild, Changed, Forgotten
<1> QED
  BY <1>4, <1>5, <1>6, <1>7, <1>8, <1>9, <1>10, <1>11, <1>12, <1>13
  DEF Next, MakeStep, UserStep

\* build_layer.mk 22-40 and environment.mk 83-108, for every recipe whose layer
\* files call git_clone below their $(L) += lines: what make has dealt with is
\* up to date with the layer file, the checkouts and the DEPENDS layers.
THEOREM DoneIsFreshThm ==
    ASSUME CloneFirst = {}
    PROVE  Spec => []DoneIsFresh
<1>1. Init => DoneIsFresh
  BY DEF Init, DoneIsFresh, Forgotten, Nodes, Files
<1>2. FreshInv /\ [Next]_vars => DoneIsFresh'
  BY DoneIsFreshStep
<1> QED
  BY <1>1, <1>2, OverlayInvariant, PTL DEF Spec, FreshInv
----------------------------------------------------------------------------
(* What starts a task.                                                      *)

\* A task can only be out of date with the inputs its layer declares: what it
\* is run after, and its overlay mount, are order-only.
LEMMA NormalIsDeclared ==
    ASSUME NEW t \in AllTargets
    PROVE  Normal(t) \subseteq Inputs(t) /\ Normal(t) \cap Phony = {}
<1>1. Normal(t) \subseteq Inputs(t)
  BY RuleOfTarget DEF NormalOfTarget, LinkedSources, Inputs
<1>2. Inputs(t) \subseteq Files
  BY TargetLayer, MountLayer, DependsInLayers DEF Inputs, Files
<1> QED
  BY <1>1, <1>2, KindsDisjoint

\* Only StartTask makes a task run.
LEMMA OnlyStartTaskStarts ==
    ASSUME TypeOK, Next,
           NEW t \in AllTargets, st[t] # "running", st'[t] = "running"
    PROVE  StartTask(t)
<1>0. t \in Nodes
  BY DEF Nodes, Files
<1> USE DEF TypeOK
<1>1. ASSUME NEW n \in Nodes,
             UpToDate(n) \/ GiveUp(n) \/ Checkout(n) \/ MkBuildDir(n)
      PROVE  FALSE
  BY <1>0, <1>1 DEF UpToDate, GiveUp, Checkout, MkBuildDir, Done, StopMake
<1>2. ASSUME NEW l \in Layers, OverlayMount(l) \/ OverlayUmount(l)
      PROVE  FALSE
  BY <1>0, <1>2, MountLayer DEF OverlayMount, OverlayUmount, Done, StopMake
<1>3. ASSUME NEW u \in AllTargets, AddProduct(u) \/ FinishTask(u) \/ FailTask(u)
      PROVE  FALSE
  BY <1>0, <1>3 DEF AddProduct, FinishTask, FailTask, Done, StopMake, runVars
<1>4. ASSUME NEW u \in AllTargets, StartTask(u)
      PROVE  u = t
  BY <1>0, <1>4 DEF StartTask
<1>5. ASSUME Succeed \/ ExitFailed \/ UserStep
      PROVE  FALSE
  BY <1>0, <1>5 DEF Succeed, ExitFailed, UserStep, Make, Edit, Invalidate,
      InvalidateOverlay, CleanBuild, AbortInvalidate, Interrupt, Changed, Forgotten, runVars
<1> QED
  BY <1>1, <1>2, <1>3, <1>4, <1>5 DEF Next, MakeStep

\* README "Layer Dependencies", for every recipe: RUNAFTER, the serialisation
\* of the layers and the overlay mounts never make a task start; a missing
\* stamp or a changed input of its layer does.
THEOREM RunAfterDoesNotRebuildThm == Spec => RunAfterDoesNotRebuild
<1> DEFINE A == \A t \in AllTargets :
                    st[t] # "running" /\ st'[t] = "running" =>
                        t \notin exists \/ newer[t] \cap Inputs(t) # {}
<1>1. ASSUME TypeOK, [Next]_vars
      PROVE  [A]_vars
  <2> SUFFICES ASSUME Next, NEW t \in AllTargets, st[t] # "running", st'[t] = "running"
               PROVE  t \notin exists \/ newer[t] \cap Inputs(t) # {}
    BY <1>1
  <2>1. OutOfDate(t)
    BY <1>1, OnlyStartTaskStarts DEF StartTask
  <2> QED
    BY <2>1, NormalIsDeclared DEF OutOfDate, SeenNewer
<1> QED
  BY <1>1, TypeCorrect, PTL DEF Spec, RunAfterDoesNotRebuild

----------------------------------------------------------------------------
(* Two runs settle the tree.                                                *)

HomeDir(t) == BuildDir(LayerOf(t))

\* A stamp make does not compare with its build directory is older than that
\* directory only because of this run.
LateIsOfThisRun ==
    /\ phase = "idle" => late = {}
    /\ \A t \in late : HomeDir(t) \in exists

\* A stamp without the task's directory in $(BUILD) is older than $(BUILD)/$(L)
\* and make knows it: the directory was removed with $(BUILD)/$(L).
MissingIsSeen ==
    \A t \in AllTargets :
        t \in exists /\ HomeDir(t) \in exists /\ t \notin products =>
            HomeDir(t) \in newer[t] /\ t \notin late

\* What make has dealt with is there.
DoneIsThere ==
    /\ \A n \in Files : st[n] = "done" => n \in exists
    /\ \A t \in AllTargets : st[t] = "done" => t \in products

\* After a successful run nothing has to be made for the first time.
CalmIsComplete ==
    calm # 0 =>
        /\ late = {}
        /\ AllSources \subseteq exists
        /\ \A t \in AllTargets : t \in exists /\ t \in products /\ HomeDir(t) \in exists

\* The run after it leaves every stamp newer than all that it depends on ...
CalmRunSettles ==
    calm # 0 /\ phase # "idle" =>
        \A t \in AllTargets : st[t] = "done" => newer[t] \cap Normal(t) = {}

\* ... and then the stamps stay so.
Settled ==
    calm = 2 =>
        \A t \in AllTargets : newer[t] \cap Normal(t) = {} /\ st[t] # "running"

SettleInv ==
    /\ OverlayInv
    /\ LateIsOfThisRun /\ MissingIsSeen /\ DoneIsThere
    /\ CalmIsComplete /\ CalmRunSettles /\ Settled

\* The build directory of its layer is a normal prerequisite of a task, and no
\* other build directory is.
LEMMA HomeDirIsPrereq ==
    ASSUME NEW t \in AllTargets
    PROVE  /\ HomeDir(t) \in Normal(t) /\ HomeDir(t) \in Prereqs(t)
           /\ HomeDir(t) \in BuildDirs /\ HomeDir(t) \in Files /\ HomeDir(t) \in Nodes
           /\ HomeDir(t) \in Tracked(t)
           /\ \A d \in BuildDirs : d \in Normal(t) => d = HomeDir(t)
<1>1. HomeDir(t) \in Normal(t) /\ HomeDir(t) \in Prereqs(t)
  BY RuleOfTarget DEF HomeDir, NormalOfTarget, Prereqs
<1>2. HomeDir(t) \in BuildDirs /\ HomeDir(t) \in Files /\ HomeDir(t) \in Nodes
  BY TargetLayer, MountLayer DEF HomeDir, Files, Nodes
<1>3. HomeDir(t) \in Tracked(t)
  BY DEF HomeDir, Tracked, Inputs
<1>4. ASSUME NEW d \in BuildDirs, d \in Normal(t)
      PROVE  d = HomeDir(t)
  <2>1. /\ d \notin LinkedSources(LayerOf(t)) /\ d \notin DependsTargets(LayerOf(t))
        /\ d # LFile(LayerOf(t))
    <3>1. d[1] = "builddir"
      BY DEF BuildDirs, BuildDir
    <3>2. \A f \in AllSources : f[1] = "src"
      BY DEF AllSources, SrcIndex
    <3>3. LFile(LayerOf(t))[1] = "lfile"
      BY DEF LFile
    <3> QED
      BY <3>1, <3>2, <3>3, TargetLayer, MountLayer, DependsInLayers, KindsDisjoint
      DEF LinkedSources
  <2> QED
    BY <1>4, <2>1, RuleOfTarget DEF NormalOfTarget, HomeDir
<1> QED
  BY <1>1, <1>2, <1>3, <1>4

\* A task make takes as up to date has its directory in $(BUILD): without it
\* the stamp would be older than $(BUILD)/$(L), as make sees.
LEMMA UpToDateHasProduct ==
    ASSUME SettleInv, NEW t \in AllTargets, UpToDate(t)
    PROVE  t \in exists /\ t \in products
<1>1. t \in exists /\ SeenNewer(t) \cap Normal(t) = {}
  <2>1. ~OutOfDate(t)
    BY KindsDisjoint DEF UpToDate
  <2> QED
    BY <2>1 DEF OutOfDate
<1>2. HomeDir(t) \in exists
  BY HomeDirIsPrereq DEF UpToDate, Ready, SettleInv, DoneIsThere
<1>3. ASSUME t \notin products
      PROVE  FALSE
  <2>1. HomeDir(t) \in newer[t] /\ t \notin late
    BY <1>1, <1>2, <1>3 DEF SettleInv, MissingIsSeen
  <2> QED
    BY <1>1, <2>1, HomeDirIsPrereq DEF SeenNewer
<1> QED
  BY <1>1, <1>3

\* A task only runs inside a make.
LEMMA RunningIsBusy ==
    ASSUME SettleInv, NEW t \in AllTargets, st[t] = "running"
    PROVE  phase # "idle"
BY DEF SettleInv, OverlayInv, IdleIsQuiet, Nodes, Files

\* While make runs, files are only added, and only the rules that make them
\* do: nothing but the user's commands between runs removes one.
LEMMA ExistsGrows ==
    ASSUME SettleInv, [Next]_vars, phase # "idle"
    PROVE  exists \subseteq exists' /\ products \subseteq products'
<1>1. ASSUME NEW n \in Nodes,
             UpToDate(n) \/ GiveUp(n) \/ Checkout(n) \/ MkBuildDir(n)
      PROVE  exists \subseteq exists' /\ products \subseteq products'
  BY <1>1 DEF UpToDate, GiveUp, Checkout, MkBuildDir, fileVars
<1>2. ASSUME NEW l \in Layers, OverlayMount(l) \/ OverlayUmount(l)
      PROVE  exists \subseteq exists' /\ products \subseteq products'
  BY <1>2 DEF OverlayMount, OverlayUmount, fileVars
<1>3. ASSUME NEW t \in AllTargets,
             StartTask(t) \/ AddProduct(t) \/ FinishTask(t) \/ FailTask(t)
      PROVE  exists \subseteq exists' /\ products \subseteq products'
  BY <1>3 DEF StartTask, AddProduct, FinishTask, FailTask, fileVars
<1>4. ASSUME Succeed \/ ExitFailed \/ UserStep \/ UNCHANGED vars
      PROVE  exists \subseteq exists' /\ products \subseteq products'
  BY <1>4 DEF Succeed, ExitFailed, UserStep, Make, Edit, Invalidate, InvalidateOverlay,
              CleanBuild, AbortInvalidate, Interrupt, fileVars, vars
<1> QED
  BY <1>1, <1>2, <1>3, <1>4 DEF Next, MakeStep

\* How a step changes the stamps make looks at differently in this run: it
\* forgets them when it starts or exits, and AddProduct alone adds to them.
LEMMA LateStep ==
    ASSUME SettleInv, [Next]_vars
    PROVE  LateIsOfThisRun'
<1> USE DEF SettleInv, LateIsOfThisRun
<1>1. ASSUME NEW n \in Nodes,
             UpToDate(n) \/ GiveUp(n) \/ Checkout(n) \/ MkBuildDir(n)
      PROVE  LateIsOfThisRun'
  <2>1. phase # "idle" /\ phase' # "idle" /\ late' = late
    BY <1>1 DEF UpToDate, GiveUp, Checkout, MkBuildDir, Ready, Done, StopMake, fileVars
  <2> QED
    BY <2>1, ExistsGrows
<1>2. ASSUME NEW l \in Layers, OverlayMount(l) \/ OverlayUmount(l)
      PROVE  LateIsOfThisRun'
  <2>1. phase # "idle" /\ phase' # "idle" /\ late' = late
    BY <1>2 DEF OverlayMount, OverlayUmount, Ready, Done, StopMake, fileVars
  <2> QED
    BY <2>1, ExistsGrows
<1>3. ASSUME NEW t \in AllTargets, StartTask(t) \/ FinishTask(t) \/ FailTask(t)
      PROVE  LateIsOfThisRun'
  <2>1. phase # "idle" /\ phase' # "idle" /\ late' \subseteq late
    BY <1>3, RunningIsBusy
    DEF StartTask, FinishTask, FailTask, Ready, Done, StopMake, fileVars
  <2> QED
    BY <2>1, ExistsGrows
<1>4. ASSUME NEW t \in AllTargets, AddProduct(t)
      PROVE  LateIsOfThisRun'
  <2>1. phase # "idle" /\ phase' = phase /\ exists' = exists
    BY <1>4, RunningIsBusy DEF AddProduct, runVars
  <2>2. HomeDir(t) \in exists
    <3>1. st[HomeDir(t)] = "done"
      BY <1>4, HomeDirIsPrereq DEF AddProduct, OverlayInv, OrderInv, PrereqsDone, Nodes, Files
    <3> QED
      BY <3>1, HomeDirIsPrereq DEF DoneIsThere
  <2>3. \A u \in Targets(LayerOf(t)) : HomeDir(u) = HomeDir(t)
    BY DEF HomeDir, Targets, LayerOf
  <2> QED
    BY <1>4, <2>1, <2>2, <2>3 DEF AddProduct
<1>5. ASSUME Succeed \/ ExitFailed \/ Interrupt \/ \E g \in Goals : Make(g)
      PROVE  LateIsOfThisRun'
  BY <1>5 DEF Succeed, ExitFailed, Interrupt, Make
<1>6. ASSUME \/ \E f \in Files : Edit(f)
             \/ \E l \in Layers : Invalidate(l) \/ InvalidateOverlay(l) \/ CleanBuild(l)
             \/ AbortInvalidate
      PROVE  LateIsOfThisRun'
  BY <1>6 DEF Edit, Invalidate, InvalidateOverlay, CleanBuild, AbortInvalidate, Changed,
              fileVars, runVars
<1>7. CASE UNCHANGED vars
  BY <1>7 DEF vars
<1> QED
  BY <1>1, <1>2, <1>3, <1>4, <1>5, <1>6, <1>7 DEF Next, MakeStep, UserStep

\* Whatever make or the user does, a task's missing directory shows.
LEMMA MissingIsSeenStep ==
    ASSUME SettleInv, [Next]_vars
    PROVE  MissingIsSeen'
<1> USE DEF SettleInv, OverlayInv, OrderInv
<1> SUFFICES ASSUME NEW u \in AllTargets,
                    u \in exists', HomeDir(u) \in exists', u \notin products'
             PROVE  HomeDir(u) \in newer'[u] /\ u \notin late'
  BY DEF MissingIsSeen, HomeDir
<1> DEFINE d == HomeDir(u)
           Seen == d \in newer'[u] /\ u \notin late'
<1>0. u \in exists /\ d \in exists /\ u \notin products => d \in newer[u] /\ u \notin late
  BY DEF MissingIsSeen
<1>00. /\ u \notin AllSources /\ u \notin BuildDirs /\ u \notin LFiles
       /\ d \in BuildDirs /\ d \in Tracked(u) /\ d \notin AllTargets
  BY KindsDisjoint, HomeDirIsPrereq
<1>000. d \notin exists => u \notin late
  BY DEF LateIsOfThisRun
<1>1. ASSUME NEW f, newer' = newer \/ newer' = Modified(f),
             f # u, exists' = exists \/ (exists' = exists \cup {f} /\ newer' = Modified(f)),
             late' = late, products' = products
      PROVE  Seen
  <2>1. CASE d \in exists
    <3>1. d \in newer[u] /\ u \notin late
      BY <1>0, <1>1, <2>1
    <3> QED
      BY <1>1, <3>1, ModifiedGrows
  <2>2. CASE d \notin exists
    <3>1. f = d /\ newer' = Modified(d)
      BY <1>1, <2>2
    <3> QED
      BY <1>00, <1>000, <1>1, <2>2, <3>1 DEF Modified
  <2> QED
    BY <2>1, <2>2
<1> HIDE DEF d, Seen
<1>2. ASSUME NEW n \in Nodes, UpToDate(n) \/ GiveUp(n)
      PROVE  Seen
  BY <1>00, <1>1, <1>2 DEF UpToDate, GiveUp, fileVars
<1>3. ASSUME NEW n \in Nodes, Checkout(n) \/ MkBuildDir(n)
      PROVE  Seen
  <2>1. n # u
    BY <1>00, <1>3 DEF Checkout, MkBuildDir
  <2> QED
    BY <1>1, <1>3, <2>1 DEF Checkout, MkBuildDir
<1>4. ASSUME NEW l \in Layers, OverlayMount(l) \/ OverlayUmount(l)
      PROVE  Seen
  <2>1. BuildDir(l) # u
    BY <1>00, MountLayer
  <2>2. \/ newer' = newer /\ exists' = exists
        \/ newer' = Modified(BuildDir(l)) /\ exists' = exists \cup {BuildDir(l)}
    BY <1>4 DEF OverlayMount, OverlayUmount, fileVars
  <2>3. late' = late /\ products' = products
    BY <1>4 DEF OverlayMount, OverlayUmount, fileVars
  <2> QED
    BY <1>1, <2>1, <2>2, <2>3
<1>5. ASSUME NEW t \in AllTargets, StartTask(t) \/ FailTask(t)
      PROVE  Seen
  BY <1>00, <1>1, <1>5 DEF StartTask, FailTask, fileVars
<1>6. ASSUME NEW t \in AllTargets, AddProduct(t)
      PROVE  Seen
  <2>1. d \in newer[u] /\ u \notin late
    BY <1>0, <1>6 DEF AddProduct, d
  <2>2. HomeDir(t) # u
    BY <1>00, HomeDirIsPrereq
  <2>3. d \in newer'[u]
    BY <1>6, <2>1, <2>2, ModifiedGrows DEF AddProduct, HomeDir
  <2>4. u \in Targets(LayerOf(t)) => BuildDir(LayerOf(t)) = d
    BY DEF Targets, LayerOf, d, HomeDir
  <2> QED
    BY <1>6, <2>1, <2>3, <2>4 DEF AddProduct, Seen
<1>7. ASSUME NEW t \in AllTargets, FinishTask(t)
      PROVE  Seen
  <2>1. u # t
    BY <1>7 DEF FinishTask
  <2>2. d \in newer[u] /\ u \notin late
    BY <1>0, <1>00, <1>7, <2>1 DEF FinishTask, d
  <2> QED
    BY <1>7, <2>1, <2>2, ModifiedGrows DEF FinishTask, Seen
<1>8. ASSUME \/ Succeed \/ ExitFailed \/ Interrupt \/ AbortInvalidate
             \/ \E g \in Goals : Make(g)
             \/ \E l \in Layers : InvalidateOverlay(l)
             \/ UNCHANGED vars
      PROVE  Seen
  BY <1>0, <1>8 DEF Succeed, ExitFailed, Interrupt, AbortInvalidate, Make,
                    InvalidateOverlay, fileVars, vars, d, Seen
<1>9. ASSUME NEW f \in Files, Edit(f)
      PROVE  Seen
  <2>1. f # u
    BY <1>00, <1>9 DEF Edit
  <2> QED
    BY <1>1, <1>9, <2>1 DEF Edit
<1>10. ASSUME NEW l \in Layers, Invalidate(l) \/ CleanBuild(l)
      PROVE  Seen
  <2>1. /\ u \in exists /\ d \in exists
        /\ newer' = newer /\ late' = late
    BY <1>10 DEF Invalidate, CleanBuild, d
  <2>2. u \notin products
    <3>1. CASE Invalidate(l)
      BY <3>1 DEF Invalidate
    <3>2. CASE CleanBuild(l)
      <4>1. u \in Targets(l) => d = BuildDir(l)
        BY DEF Targets, LayerOf, d, HomeDir
      <4> QED
        BY <3>2, <4>1 DEF CleanBuild, d
    <3> QED
      BY <1>10, <3>1, <3>2
  <2> QED
    BY <1>0, <2>1, <2>2 DEF Seen
<1> QED
  BY <1>2, <1>3, <1>4, <1>5, <1>6, <1>7, <1>8, <1>9, <1>10
  DEF Next, MakeStep, UserStep, Seen, d

\* Every step that marks a node as done leaves its file, and the task's
\* directory; what removes files makes make forget.
LEMMA DoneIsThereStep ==
    ASSUME SettleInv, [Next]_vars
    PROVE  DoneIsThere'
<1> USE DEF SettleInv, OverlayInv, OrderInv
<1>0. TypeOK /\ Files \subseteq Nodes /\ AllTargets \subseteq Files
  BY DEF Nodes, Files
<1>1. ASSUME NEW n \in Nodes,
             st' = st \/ st' = [st EXCEPT ![n] = "todo"]
                \/ (st' = [st EXCEPT ![n] = "done"]
                      /\ (n \in Files => n \in exists')
                      /\ (n \in AllTargets => n \in products')),
             exists \subseteq exists', products \subseteq products'
      PROVE  DoneIsThere'
  BY <1>0, <1>1 DEF DoneIsThere, TypeOK
<1>2. ASSUME NEW n \in Nodes, UpToDate(n)
      PROVE  DoneIsThere'
  <2>1. n \in exists
    BY <1>2, UpToDateHasProduct DEF UpToDate
  <2>2. n \in AllTargets => n \in products
    BY <1>2, UpToDateHasProduct
  <2> QED
    BY <1>1, <1>2, <2>1, <2>2 DEF UpToDate, fileVars
<1>3. ASSUME NEW n \in Nodes, GiveUp(n)
      PROVE  DoneIsThere'
  BY <1>1, <1>3 DEF GiveUp, fileVars
<1>4. ASSUME NEW n \in Nodes, Checkout(n) \/ MkBuildDir(n)
      PROVE  DoneIsThere'
  <2>1. n \notin AllTargets
    BY <1>4, KindsDisjoint DEF Checkout, MkBuildDir
  <2> QED
    BY <1>1, <1>4, <2>1 DEF Checkout, MkBuildDir, Done, StopMake
<1>5. ASSUME NEW l \in Layers, OverlayMount(l) \/ OverlayUmount(l)
      PROVE  DoneIsThere'
  <2>1. /\ Mount(l) \notin Files /\ Umount(l) \notin Files
        /\ Mount(l) \in Nodes /\ Umount(l) \in Nodes
    BY MountLayer, KindsDisjoint DEF Phony
  <2> QED
    BY <1>0, <1>1, <1>5, <2>1 DEF OverlayMount, OverlayUmount, Done, StopMake, fileVars
<1>6. ASSUME NEW t \in AllTargets, StartTask(t)
      PROVE  DoneIsThere'
  BY <1>0, <1>6 DEF StartTask, DoneIsThere, TypeOK
<1>7. ASSUME NEW t \in AllTargets, AddProduct(t) \/ FinishTask(t) \/ FailTask(t)
      PROVE  DoneIsThere'
  <2>1. t \in Nodes
    BY <1>0
  <2> QED
    BY <1>1, <1>7, <2>1
    DEF AddProduct, FinishTask, FailTask, Done, StopMake, fileVars, runVars
<1>8. ASSUME \/ Succeed \/ AbortInvalidate \/ UNCHANGED vars
             \/ \E l \in Layers : InvalidateOverlay(l)
      PROVE  DoneIsThere'
  BY <1>8 DEF Succeed, AbortInvalidate, InvalidateOverlay, fileVars, runVars, vars, DoneIsThere
<1>9. ASSUME \/ ExitFailed \/ Interrupt
             \/ \E g \in Goals : Make(g)
             \/ \E f \in Files : Edit(f)
             \/ \E l \in Layers : Invalidate(l) \/ CleanBuild(l)
      PROVE  DoneIsThere'
  <2>1. st' = Forgotten
    BY <1>9 DEF ExitFailed, Interrupt, Make, Edit, Invalidate, CleanBuild, Changed
  <2> QED
    BY <1>0, <2>1 DEF Forgotten, DoneIsThere
<1> QED
  BY <1>2, <1>3, <1>4, <1>5, <1>6, <1>7, <1>8, <1>9 DEF Next, MakeStep, UserStep

\* A step that creates no file a task needs, adds nothing to its build
\* directory and touches nothing but the stamps of tasks that were running.
\* (A layer without tasks may still get its build directory.)
OnlyStampsTouched ==
    /\ late' = late /\ exists \subseteq exists' /\ products' = products
    /\ \/ newer' = newer
       \/ \E l \in Layers :
             /\ newer' = Modified(BuildDir(l))
             /\ \A t \in AllTargets : BuildDir(l) # HomeDir(t)
       \/ \E t \in AllTargets : FinishTask(t) /\ newer' = Modified(t)

\* After a successful run every step is such a one, until something fails or is
\* changed.
LEMMA CalmStep ==
    ASSUME SettleInv, [Next]_vars, calm # 0
    PROVE  calm' = 0 \/ OnlyStampsTouched
<1> USE DEF SettleInv, CalmIsComplete, OnlyStampsTouched
<1>1. ASSUME NEW n \in Nodes, UpToDate(n) \/ GiveUp(n)
      PROVE  OnlyStampsTouched
  BY <1>1 DEF UpToDate, GiveUp, fileVars
<1>2. ASSUME NEW n \in Nodes, Checkout(n)
      PROVE  FALSE
  BY <1>2 DEF Checkout
<1>3. ASSUME NEW n \in Nodes, MkBuildDir(n)
      PROVE  OnlyStampsTouched
  <2>1. PICK l \in Layers : n = BuildDir(l)
    BY <1>3 DEF MkBuildDir, BuildDirs
  <2>2. \A t \in AllTargets : BuildDir(l) # HomeDir(t)
    BY <1>3, <2>1 DEF MkBuildDir
  <2> QED
    BY <1>3, <2>1, <2>2 DEF MkBuildDir, Done
<1>4. ASSUME NEW l \in Layers, OverlayMount(l) \/ OverlayUmount(l)
      PROVE  OnlyStampsTouched
  <2>1. CASE BuildDir(l) \in exists \/ OverlayUmount(l) \/ UNCHANGED newer
    BY <1>4, <2>1 DEF OverlayMount, OverlayUmount, Done, StopMake, fileVars
  <2>2. CASE BuildDir(l) \notin exists /\ OverlayMount(l) /\ newer' # newer
    <3>1. \A t \in AllTargets : BuildDir(l) # HomeDir(t)
      BY <2>2
    <3> QED
      BY <2>2, <3>1 DEF OverlayMount, Done, StopMake
  <2> QED
    BY <1>4, <2>1, <2>2
<1>5. ASSUME NEW t \in AllTargets, StartTask(t) \/ FailTask(t)
      PROVE  OnlyStampsTouched
  BY <1>5 DEF StartTask, FailTask, StopMake, fileVars
<1>6. ASSUME NEW t \in AllTargets, AddProduct(t)
      PROVE  FALSE
  BY <1>6 DEF AddProduct
<1>7. ASSUME NEW t \in AllTargets, FinishTask(t)
      PROVE  OnlyStampsTouched
  BY <1>7 DEF FinishTask, Done
<1>8. CASE Succeed
  BY <1>8 DEF Succeed, OverlayInv, OrderInv, TypeOK
<1>9. ASSUME NEW g \in Goals, Make(g)
      PROVE  OnlyStampsTouched
  BY <1>9 DEF Make
<1>10. ASSUME NEW l \in Layers, InvalidateOverlay(l)
       PROVE  OnlyStampsTouched
  BY <1>10 DEF InvalidateOverlay, runVars
<1>11. ASSUME AbortInvalidate \/ UNCHANGED vars
       PROVE  OnlyStampsTouched
  BY <1>11 DEF AbortInvalidate, runVars, fileVars, vars
<1>12. ASSUME \/ ExitFailed \/ Interrupt
              \/ \E f \in Files : Edit(f)
              \/ \E l \in Layers : Invalidate(l) \/ CleanBuild(l)
       PROVE  calm' = 0
  BY <1>12 DEF ExitFailed, Interrupt, Edit, Invalidate, CleanBuild, Changed
<1> QED
  BY <1>1, <1>2, <1>3, <1>4, <1>5, <1>6, <1>7, <1>8, <1>9, <1>10, <1>11, <1>12
  DEF Next, MakeStep, UserStep

\* calm only grows when a run of "all" succeeds.
LEMMA CalmGrows ==
    ASSUME SettleInv, [Next]_vars, calm' # 0, calm' # calm
    PROVE  Succeed /\ goal = 0
<1>1. ASSUME NEW n \in Nodes,
             UpToDate(n) \/ GiveUp(n) \/ Checkout(n) \/ MkBuildDir(n)
      PROVE  FALSE
  BY <1>1 DEF UpToDate, GiveUp, Checkout, MkBuildDir, Done, StopMake
<1>2. ASSUME NEW l \in Layers, OverlayMount(l) \/ OverlayUmount(l)
      PROVE  FALSE
  BY <1>2 DEF OverlayMount, OverlayUmount, Done, StopMake
<1>3. ASSUME NEW t \in AllTargets,
             StartTask(t) \/ AddProduct(t) \/ FinishTask(t) \/ FailTask(t)
      PROVE  FALSE
  BY <1>3 DEF StartTask, AddProduct, FinishTask, FailTask, Done, StopMake, runVars
<1>4. ASSUME ExitFailed \/ UserStep \/ UNCHANGED vars
      PROVE  FALSE
  BY <1>4 DEF ExitFailed, UserStep, Make, Edit, Invalidate, InvalidateOverlay,
              CleanBuild, AbortInvalidate, Interrupt, Changed, runVars, vars
<1>5. Succeed
  BY <1>1, <1>2, <1>3, <1>4 DEF Next, MakeStep
<1> QED
  BY <1>5 DEF Succeed

\* A run of "all" that succeeds has dealt with every task and every checkout.
LEMMA AllIsDone ==
    ASSUME SettleInv, Succeed, goal = 0
    PROVE  /\ \A n \in AllTargets \cup AllSources : st[n] = "done"
           /\ \A t \in AllTargets : st[HomeDir(t)] = "done"
           /\ \A n \in Nodes : st[n] # "running"
<1>1. \A l \in Layers : LayerPrereqs(l) \subseteq GoalPrereqs(0)
  <2>1. GoalPrereqs(0) = UNION {LayerPrereqs(l) : l \in Layers}
    BY DEF GoalPrereqs
  <2> QED
    BY <2>1
<1>2. \A t \in AllTargets : st[t] = "done"
  BY <1>1, TargetLayer DEF Succeed, LayerPrereqs
<1>3. \A n \in AllSources : st[n] = "done"
  BY <1>1 DEF Succeed, LayerPrereqs, AllSources
<1>4. \A t \in AllTargets : st[HomeDir(t)] = "done"
  BY <1>2, HomeDirIsPrereq DEF SettleInv, OverlayInv, OrderInv, PrereqsDone, Nodes, Files
<1> QED
  BY <1>2, <1>3, <1>4 DEF Succeed, Running

\* After a successful run the tree stays complete until something is changed.
LEMMA CalmIsCompleteStep ==
    ASSUME SettleInv, [Next]_vars
    PROVE  CalmIsComplete'
<1> USE DEF SettleInv
<1>1. CASE calm' = 0
  BY <1>1 DEF CalmIsComplete
<1>2. CASE calm' # 0 /\ calm = 0
  <2>1. Succeed /\ goal = 0
    BY <1>2, CalmGrows
  <2>2. late' = {} /\ exists' = exists /\ products' = products
    BY <2>1 DEF Succeed
  <2>3. AllSources \subseteq exists
    BY <2>1, AllIsDone DEF DoneIsThere, Files
  <2>4. \A t \in AllTargets : t \in exists /\ t \in products /\ HomeDir(t) \in exists
    BY <2>1, AllIsDone, HomeDirIsPrereq DEF DoneIsThere, Files
  <2> QED
    BY <2>2, <2>3, <2>4 DEF CalmIsComplete
<1>3. CASE calm' # 0 /\ calm # 0
  <2>1. late' = late /\ exists \subseteq exists' /\ products' = products
    BY <1>3, CalmStep DEF OnlyStampsTouched
  <2> QED
    BY <1>3, <2>1 DEF CalmIsComplete
<1> QED
  BY <1>1, <1>2, <1>3

\* From then on a stamp only gets older than a prerequisite when the stamp of
\* a task it depends on is touched.
LEMMA CalmKeepsFresh ==
    ASSUME SettleInv, [Next]_vars, calm # 0, calm' # 0,
           NEW u \in AllTargets, newer[u] \cap Normal(u) = {},
           \A t \in AllTargets : t \in Normal(u) => st[t] # "running"
    PROVE  newer'[u] \cap Normal(u) = {}
<1> USE DEF SettleInv, OverlayInv, OrderInv
<1>1. CASE newer' = newer
  BY <1>1
<1>2. ASSUME NEW l \in Layers, newer' = Modified(BuildDir(l)),
             \A t \in AllTargets : BuildDir(l) # HomeDir(t)
      PROVE  newer'[u] \cap Normal(u) = {}
  <2>1. newer'[u] \subseteq newer[u] \cup {BuildDir(l)}
    BY <1>2, ModifiedAdds
  <2>2. BuildDir(l) \notin Normal(u)
    BY <1>2, HomeDirIsPrereq, MountLayer
  <2> QED
    BY <2>1, <2>2
<1>3. ASSUME NEW t \in AllTargets, FinishTask(t), newer' = Modified(t)
      PROVE  newer'[u] \cap Normal(u) = {}
  <2>1. newer'[u] \subseteq newer[u] \cup {t}
    BY <1>3, ModifiedAdds
  <2>2. t \notin Normal(u)
    BY <1>3 DEF FinishTask
  <2> QED
    BY <2>1, <2>2
<1> QED
  BY <1>1, <1>2, <1>3, CalmStep DEF OnlyStampsTouched

\* The next run deals with a task only after what it depends on, so no stamp
\* it has dealt with gets older than a prerequisite again.
LEMMA CalmRunSettlesStep ==
    ASSUME SettleInv, [Next]_vars
    PROVE  CalmRunSettles'
<1> USE DEF SettleInv, OverlayInv, OrderInv
<1> SUFFICES ASSUME calm' # 0, phase' # "idle", NEW u \in AllTargets, st'[u] = "done"
             PROVE  newer'[u] \cap Normal(u) = {}
  BY DEF CalmRunSettles
<1>0. u \in Nodes
  BY DEF Nodes, Files
<1>1. calm # 0 /\ calm' = calm
  BY CalmGrows DEF Succeed
<1>2. CASE st[u] = "done" /\ phase # "idle"
  <2>1. newer[u] \cap Normal(u) = {}
    BY <1>1, <1>2 DEF CalmRunSettles
  <2>2. \A p \in Normal(u) : st[p] # "running"
    BY <1>0, <1>2 DEF PrereqsDone, Prereqs
  <2> QED
    BY <1>1, <2>1, <2>2, CalmKeepsFresh
<1>3. CASE phase = "idle"
  <2>1. st' = Forgotten
    <3>1. ASSUME NEW n \in Nodes,
                 UpToDate(n) \/ GiveUp(n) \/ Checkout(n) \/ MkBuildDir(n)
          PROVE  FALSE
      BY <1>3, <3>1 DEF UpToDate, GiveUp, Checkout, MkBuildDir, Ready
    <3>2. ASSUME NEW l \in Layers, OverlayMount(l) \/ OverlayUmount(l)
          PROVE  FALSE
      BY <1>3, <3>2 DEF OverlayMount, OverlayUmount, Ready
    <3>3. ASSUME NEW t \in AllTargets,
                 StartTask(t) \/ AddProduct(t) \/ FinishTask(t) \/ FailTask(t)
          PROVE  FALSE
      BY <1>3, <3>3, RunningIsBusy
      DEF StartTask, AddProduct, FinishTask, FailTask, Ready
    <3>4. ASSUME Succeed \/ ExitFailed \/ UserStep \/ UNCHANGED vars
          PROVE  st' = Forgotten
      BY <1>3, <3>4 DEF Succeed, ExitFailed, UserStep, Make, Edit, Invalidate,
                        InvalidateOverlay, CleanBuild, AbortInvalidate, Interrupt,
                        Changed, runVars, vars
    <3> QED
      BY <3>1, <3>2, <3>3, <3>4 DEF Next, MakeStep
  <2> QED
    BY <1>0, <2>1 DEF Forgotten
<1>4. CASE st[u] # "done" /\ phase # "idle"
  <2>1. UpToDate(u) \/ FinishTask(u)
    <3>1. ASSUME NEW n \in Nodes,
                 UpToDate(n) \/ GiveUp(n) \/ Checkout(n) \/ MkBuildDir(n)
          PROVE  UpToDate(u)
      BY <1>0, <1>4, <3>1, KindsDisjoint
      DEF UpToDate, GiveUp, Checkout, MkBuildDir, Done, StopMake, TypeOK
    <3>2. ASSUME NEW l \in Layers, OverlayMount(l) \/ OverlayUmount(l)
          PROVE  FALSE
      BY <1>0, <1>4, <3>2, KindsDisjoint, MountLayer
      DEF OverlayMount, OverlayUmount, Done, StopMake, TypeOK, Phony
    <3>3. ASSUME NEW t \in AllTargets,
                 StartTask(t) \/ AddProduct(t) \/ FinishTask(t) \/ FailTask(t)
          PROVE  FinishTask(u)
      BY <1>0, <1>4, <3>3
      DEF StartTask, AddProduct, FinishTask, FailTask, Done, StopMake, runVars, TypeOK
    <3>4. ASSUME Succeed \/ ExitFailed \/ UserStep \/ UNCHANGED vars
          PROVE  FALSE
      BY <1>0, <1>4, <3>4
      DEF Succeed, ExitFailed, UserStep, Make, Edit, Invalidate, InvalidateOverlay,
          CleanBuild, AbortInvalidate, Interrupt, Changed, Forgotten, runVars, vars
    <3> QED
      BY <3>1, <3>2, <3>3, <3>4 DEF Next, MakeStep
  <2>2. CASE UpToDate(u)
    <3>1. ~OutOfDate(u) /\ newer' = newer
      BY <2>2, KindsDisjoint DEF UpToDate, fileVars
    <3>2. late = {}
      BY <1>1 DEF CalmIsComplete
    <3> QED
      BY <3>1, <3>2 DEF OutOfDate, SeenNewer
  <2>3. CASE FinishTask(u)
    BY <2>3, ModifiedFresh DEF FinishTask
  <2> QED
    BY <2>1, <2>2, <2>3
<1> QED
  BY <1>2, <1>3, <1>4

\* When the second run succeeds, every task was dealt with; nothing is out of
\* date any more, so no task starts that could touch a stamp.
LEMMA SettledStep ==
    ASSUME SettleInv, [Next]_vars
    PROVE  Settled'
<1> USE DEF SettleInv, OverlayInv, OrderInv
<1> SUFFICES ASSUME calm' = 2, NEW u \in AllTargets
             PROVE  newer'[u] \cap Normal(u) = {} /\ st'[u] # "running"
  BY DEF Settled
<1>0. u \in Nodes
  BY DEF Nodes, Files
<1>1. CASE calm # 2
  <2>1. Succeed /\ goal = 0
    BY <1>1, CalmGrows
  <2>2. calm # 0 /\ phase # "idle"
    BY <1>1, <2>1 DEF Succeed
  <2>3. st[u] = "done"
    BY <2>1, AllIsDone
  <2>4. newer[u] \cap Normal(u) = {}
    BY <2>2, <2>3 DEF CalmRunSettles
  <2> QED
    BY <2>1, <2>3, <2>4 DEF Succeed
<1>2. CASE calm = 2
  <2>1. \A t \in AllTargets : newer[t] \cap Normal(t) = {} /\ st[t] # "running"
    BY <1>2 DEF Settled
  <2>3. newer'[u] \cap Normal(u) = {}
    BY <1>2, <2>1, CalmKeepsFresh
  <2>4. st'[u] # "running"
    <3>1. ~OutOfDate(u)
      BY <1>2, <2>1, NormalIsDeclared DEF OutOfDate, SeenNewer, CalmIsComplete
    <3>2. CASE Next
      BY <2>1, <3>1, <3>2, OnlyStartTaskStarts DEF StartTask
    <3>3. CASE UNCHANGED vars
      BY <2>1, <3>3 DEF vars
    <3> QED
      BY <3>2, <3>3
  <2> QED
    BY <2>3, <2>4
<1> QED
  BY <1>1, <1>2

\* The invariant about settling holds throughout.
LEMMA SettleInvariant == Spec => []SettleInv
<1> DEFINE Parts == /\ LateIsOfThisRun /\ MissingIsSeen /\ DoneIsThere
                    /\ CalmIsComplete /\ CalmRunSettles /\ Settled
<1>1. Init => Parts
  BY KindsDisjoint DEF Init, LateIsOfThisRun, MissingIsSeen, DoneIsThere, CalmIsComplete,
                       CalmRunSettles, Settled, Forgotten, Nodes, Files
<1>2. SettleInv /\ [Next]_vars => Parts'
  BY LateStep, MissingIsSeenStep, DoneIsThereStep, CalmIsCompleteStep,
     CalmRunSettlesStep, SettledStep
<1>3. SettleInv <=> OverlayInv /\ Parts
  BY DEF SettleInv
<1> HIDE DEF Parts
<1> QED
  BY <1>1, <1>2, <1>3, OverlayInvariant, PTL DEF Spec

\* build_layer.mk 22-40 and environment.mk 68-72: for every recipe, two makes
\* of "all" that succeed with nothing changed in between leave nothing to do.
\* A later make, of any goal, runs no task.
THEOREM SettlesAfterTwoRunsThm == Spec => []SettlesAfterTwoRuns
<1>1. SettleInv => SettlesAfterTwoRuns
  BY DEF SettleInv, Settled, SettlesAfterTwoRuns
<1> QED
  BY <1>1, SettleInvariant, PTL

=============================================================================
