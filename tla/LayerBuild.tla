----------------------------- MODULE LayerBuild -----------------------------
(***************************************************************************)
(* `make [-jN] <goal>' working through the graph of LayerGraph, run after  *)
(* run: stamps, build directories, the overlay mounts of the layers, task  *)
(* failures, interrupts, layer invalidation and edits between the runs.    *)
(*                                                                         *)
(* Time stamps are kept as the relation newer: f \in newer[t] says that    *)
(* file f was modified after the stamp t was touched.                      *)
(***************************************************************************)
EXTENDS LayerGraph

CONSTANTS
    Jobs,       \* the N of make -jN
    MaxUpsets   \* bound: failures, edits and removals in a behaviour

ASSUME JobsAssumption == Jobs \in Nat \ {0} /\ MaxUpsets \in Nat

VARIABLES
    phase,      \* make: not running, building, or waiting to exit after a failure
    goal,       \* goal of the current or last run
    st,         \* st[n]: what the current or last run has done about node n
    result,     \* how the last run ended; "none" once the tree was changed since
    calm,       \* successful runs of "all" in a row, counted up to 2
    exists,     \* files present on disk
    newer,      \* newer[t]: files modified after stamp t was touched
    late,       \* stamps older than their build directory only since this run
    products,   \* tasks whose output directory is in $(BUILD)/$(L)
    out,        \* out[t]: what task t has written to the layer's upper directory
    mounted,    \* layers whose overlay is mounted
    stale,      \* mounted overlays with a lower layer written since the mount
    invalidating, \* layers whose stamps are removed and whose overlay is not yet
    upsets      \* failures, edits and removals so far

vars == <<phase, goal, st, result, calm, exists, newer, late, products, out,
          mounted, stale, invalidating, upsets>>

runVars  == <<phase, goal, st, result, calm>>
fileVars == <<exists, newer, late, products, out>>
ovlVars  == <<mounted, stale, invalidating>>

\* The files a task's stamp is compared with here: its inputs, as the layer
\* file declares them, and what the task is merely run after.
Inputs(t) ==
    LET l == LayerOf(t)
    IN  {BuildDir(l), LFile(l)} \cup SrcIndex(l) \cup DependsTargets(l)

\* Those of them the layer's tasks must be rebuilt for; the build directory
\* only matters to the next run.
NormalInputs(t) ==
    LET l == LayerOf(t)
    IN  SrcIndex(l) \cup DependsTargets(l)
            \cup (IF l \in NoDependFile THEN {} ELSE {LFile(l)})

Tracked(t) == Inputs(t) \cup RunAfterTargets(LayerOf(t))

TypeOK ==
    /\ phase \in {"idle", "running", "stopping"}
    /\ goal \in Goals
    /\ st \in [Nodes -> {"todo", "running", "done"}]
    /\ result \in {"none", "ok", "failed"}
    /\ calm \in 0 .. 2
    /\ exists \subseteq Files
    /\ newer \in [AllTargets -> SUBSET Files]
    /\ late \subseteq AllTargets
    /\ products \subseteq AllTargets
    /\ out \in [AllTargets -> {"none", "partial", "full"}]
    /\ mounted \subseteq Layers
    /\ stale \subseteq Layers
    /\ invalidating \subseteq Layers
    /\ upsets \in 0 .. MaxUpsets

\* What make knows is gone when it exits.
Forgotten == [n \in Nodes |-> "todo"]

Init ==
    /\ phase = "idle"
    /\ goal = 0
    /\ st = Forgotten
    /\ result = "none"
    /\ calm = 0
    /\ exists = LFiles
    /\ newer = [t \in AllTargets |-> {}]
    /\ late = {}
    /\ products = {}
    /\ out = [t \in AllTargets |-> "none"]
    /\ mounted = {}
    /\ stale = {}
    /\ invalidating = {}
    /\ upsets = 0

\* One more thing goes wrong or is changed; or not.
Upset == upsets < MaxUpsets /\ upsets' = upsets + 1
Quiet == UNCHANGED upsets

----------------------------------------------------------------------------
(* GNU make's own rules.                                                    *)

Running == {n \in Nodes : st[n] = "running"}

\* newer after file f has been modified
Modified(f) ==
    [t \in AllTargets |->
        IF t = f THEN {}
        ELSE IF f \in Tracked(t) THEN newer[t] \cup {f} ELSE newer[t]]

Ready(n) ==
    /\ phase = "running"
    /\ n \in Needed[goal]
    /\ st[n] = "todo"
    /\ \A p \in Prereqs(n) : st[p] = "done"

\* The modification time of a build directory is read once per run, before
\* the tasks of its layer: what they add to it afterwards is not noticed.
SeenNewer(t) ==
    IF t \in late THEN newer[t] \ {BuildDir(LayerOf(t))} ELSE newer[t]

OutOfDate(t) ==
    \/ t \notin exists
    \/ SeenNewer(t) \cap Normal(t) # {}
    \/ Normal(t) \cap Phony # {}

\* make <goal>
Make(g) ==
    /\ phase = "idle"
    /\ invalidating = {}
    /\ phase' = "running"
    /\ goal' = g
    /\ st' = Forgotten
    /\ result' = "none"
    /\ late' = {}
    /\ UNCHANGED <<calm, exists, newer, products, out>>
    /\ UNCHANGED ovlVars
    /\ Quiet

UpToDate(n) ==
    /\ Ready(n)
    /\ \/ n \in AllTargets /\ ~OutOfDate(n)
       \/ n \in (Files \ AllTargets) \cap exists
    /\ st' = [st EXCEPT ![n] = "done"]
    /\ UNCHANGED <<phase, goal, result, calm>>
    /\ UNCHANGED fileVars
    /\ UNCHANGED ovlVars
    /\ Quiet

\* A prerequisite that nothing makes: make gives up.
GiveUp(n) ==
    /\ phase = "running"
    /\ n \in Needed[goal]
    /\ NoRule(n)
    /\ phase' = "stopping"
    /\ UNCHANGED <<goal, st, result, calm>>
    /\ UNCHANGED fileVars
    /\ UNCHANGED ovlVars
    /\ Quiet

Succeed ==
    /\ phase = "running"
    /\ Running = {}
    /\ \A n \in GoalPrereqs(goal) : st[n] = "done"
    /\ phase' = "idle"
    /\ result' = "ok"
    /\ calm' = IF goal = 0 /\ calm < 2 THEN calm + 1 ELSE calm
    /\ late' = {}
    /\ UNCHANGED <<goal, st, exists, newer, products, out>>
    /\ UNCHANGED ovlVars
    /\ Quiet

\* After a failure make starts nothing more, waits for its jobs and exits.
ExitFailed ==
    /\ phase = "stopping"
    /\ Running = {}
    /\ phase' = "idle"
    /\ st' = Forgotten
    /\ result' = "failed"
    /\ calm' = 0
    /\ late' = {}
    /\ UNCHANGED <<goal, exists, newer, products, out>>
    /\ UNCHANGED ovlVars
    /\ Quiet

\* ^C, a reboot, the OOM killer: the jobs die with make, mounts may stay.
Interrupt ==
    /\ phase # "idle"
    /\ phase' = "idle"
    /\ st' = Forgotten
    /\ result' = "failed"
    /\ calm' = 0
    /\ late' = {}
    /\ UNCHANGED <<goal, exists, newer, products, out>>
    /\ UNCHANGED ovlVars
    /\ Quiet

----------------------------------------------------------------------------
(* The recipes of the rules.                                                *)

\* A recipe line has failed.
StopMake(n) ==
    /\ st' = [st EXCEPT ![n] = "todo"]
    /\ phase' = "stopping"
    /\ UNCHANGED <<goal, result, calm>>
    /\ Upset

Done(n) ==
    /\ st' = [st EXCEPT ![n] = "done"]
    /\ UNCHANGED <<phase, goal, result, calm>>
    /\ Quiet

\* git_clone, get_archive: make the checkout, or fail.  A fetch that fails
\* late (in git submodule or chown, in wget or tar) leaves the index or the
\* archive behind, which the next run takes for the finished checkout.
Checkout(n) ==
    /\ n \in AllSources \ exists
    /\ Ready(n)
    /\ \/ /\ Done(n)
          /\ exists' = exists \cup {n}
          /\ newer' = Modified(n)
       \/ /\ StopMake(n)
          /\ \/ UNCHANGED <<exists, newer>>
             \/ exists' = exists \cup {n} /\ newer' = Modified(n)
    /\ UNCHANGED <<late, products, out>>
    /\ UNCHANGED ovlVars

\* $(BUILD)/$(L): mkdir -p
MkBuildDir(n) ==
    /\ n \in BuildDirs \ exists
    /\ Ready(n)
    /\ Done(n)
    /\ exists' = exists \cup {n}
    /\ newer' = Modified(n)
    /\ UNCHANGED <<late, products, out>>
    /\ UNCHANGED ovlVars

\* Mutants: an overlay left mounted is kept; overlay_mount is not .PHONY and
\* leaves a file of its name.
OverlayMountKeepsOld(l) ==
    /\ OverlayFS
    /\ Ready(Mount(l))
    /\ Done(Mount(l))
    /\ mounted' = mounted \cup {l}
    /\ exists' = exists \cup {BuildDir(l)}
    /\ newer' = IF BuildDir(l) \in exists THEN newer ELSE Modified(BuildDir(l))
    /\ stale' = IF l \in mounted THEN stale ELSE stale \ {l}
    /\ UNCHANGED <<late, products, out, invalidating>>
OverlayMountLeavesFile(l) ==
    /\ OverlayFS
    /\ Ready(Mount(l))
    /\ Done(Mount(l))
    /\ mounted' = mounted \cup {l}
    /\ exists' = exists \cup {BuildDir(l), Mount(l)}
    /\ newer' = IF BuildDir(l) \in exists THEN newer ELSE Modified(BuildDir(l))
    /\ stale' = stale \ {l}
    /\ UNCHANGED <<late, products, out, invalidating>>

\* $(L).overlay_mount: drop an old mount, mount the overlay, make the build
\* directory if it is not there and bind it into the mount.  The mount may
\* fail, before or after the overlay itself is mounted.
OverlayMount(l) ==
    /\ OverlayFS
    /\ Ready(Mount(l))
    /\ \/ /\ Done(Mount(l))
          /\ mounted' = mounted \cup {l}
          /\ exists' = exists \cup {BuildDir(l)}
          /\ newer' = IF BuildDir(l) \in exists THEN newer ELSE Modified(BuildDir(l))
       \/ /\ StopMake(Mount(l))
          /\ mounted' \in {mounted \cup {l}, mounted \ {l}}
          /\ UNCHANGED <<exists, newer>>
    /\ stale' = stale \ {l}
    /\ UNCHANGED <<late, products, out, invalidating>>

\* $(L).overlay_umount
OverlayUmount(l) ==
    /\ OverlayFS
    /\ Ready(Umount(l))
    /\ Done(Umount(l))
    /\ mounted' = mounted \ {l}
    /\ stale' = stale \ {l}
    /\ UNCHANGED fileVars
    /\ UNCHANGED invalidating

\* A task starts: from here on the layer's upper directory is being written.
StartTask(t) ==
    /\ t \in AllTargets
    /\ Ready(t)
    /\ OutOfDate(t)
    /\ Cardinality(Running) < Jobs
    /\ st' = [st EXCEPT ![t] = "running"]
    /\ out' = [out EXCEPT ![t] = "partial"]
    /\ stale' = stale \cup {m \in mounted : m > LayerOf(t)}
    /\ UNCHANGED <<phase, goal, result, calm, exists, newer, late, products,
                   mounted, invalidating>>
    /\ Quiet

\* Mutant: the directory is removed and made anew each time.
AddProductAnew(t) ==
    LET d == BuildDir(LayerOf(t))
    IN  /\ st[t] = "running"
        /\ products' = products \cup {t}
        /\ newer' = Modified(d)
        /\ late' = late \cup {u \in Targets(LayerOf(t)) : d \notin newer[u]}
        /\ UNCHANGED <<exists, out>>
        /\ UNCHANGED runVars
        /\ UNCHANGED ovlVars
        /\ Quiet

\* A running task makes its directory in $(builddir), unless it is there
\* from an earlier run (mkdir -p): the build directory is modified.
AddProduct(t) ==
    LET l == LayerOf(t)
        d == BuildDir(LayerOf(t))
    IN  /\ t \in AllTargets \ products
        /\ st[t] = "running"
        /\ products' = products \cup {t}
        /\ newer' = Modified(d)
        /\ late' = late \cup {u \in Targets(l) : d \notin newer[u]}
        /\ UNCHANGED <<exists, out>>
        /\ UNCHANGED runVars
        /\ UNCHANGED ovlVars
        /\ Quiet

\* $(stamp) is the last line of the task.
FinishTask(t) ==
    /\ t \in AllTargets
    /\ st[t] = "running"
    /\ t \in products
    /\ Done(t)
    /\ exists' = exists \cup {t}
    /\ newer' = Modified(t)
    /\ late' = late \ {t}
    /\ out' = [out EXCEPT ![t] = "full"]
    /\ UNCHANGED products
    /\ UNCHANGED ovlVars

FailTask(t) ==
    /\ t \in AllTargets
    /\ st[t] = "running"
    /\ StopMake(t)
    /\ UNCHANGED fileVars
    /\ UNCHANGED ovlVars

----------------------------------------------------------------------------
(* Between runs: the user's other commands and edits.                       *)

Changed ==
    /\ st' = Forgotten
    /\ result' = "none"
    /\ calm' = 0
    /\ UNCHANGED <<phase, goal>>
    /\ Upset

\* The layer file is edited, or a git command changes a checkout's index.
Edit(f) ==
    /\ phase = "idle"
    /\ f \in LFiles \cup AllSources
    /\ f \in exists
    /\ newer' = Modified(f)
    /\ Changed
    /\ UNCHANGED <<exists, late, products, out>>
    /\ UNCHANGED ovlVars

\* Mutant: the overlay directories are removed before the stamps.
InvalidateOverlayFirst(l) ==
    /\ phase = "idle"
    /\ out' = [t \in AllTargets |-> IF t \in Targets(l) THEN "none" ELSE out[t]]
    /\ invalidating' = invalidating \cup {l}
    /\ Changed
    /\ UNCHANGED <<exists, newer, late, products, mounted, stale>>

\* make L_x.invalidate, first line: rm -rf $(L)
Invalidate(l) ==
    /\ phase = "idle"
    /\ exists' = exists \ Targets(l)
    /\ invalidating' = invalidating \cup {l}
    /\ Changed
    /\ UNCHANGED <<newer, late, products, out, mounted, stale>>

\* ... and the rest: umount the overlay, remove its directories, which
\* overlays of later layers that are still mounted show.
InvalidateOverlay(l) ==
    /\ phase = "idle"
    /\ l \in invalidating
    /\ invalidating' = invalidating \ {l}
    /\ mounted' = IF OverlayFS THEN mounted \ {l} ELSE mounted
    /\ stale' = IF OverlayFS THEN (stale \cup {m \in mounted : m > l}) \ {l}
                ELSE stale
    /\ out' = [t \in AllTargets |->
                 IF OverlayFS /\ t \in Targets(l) THEN "none" ELSE out[t]]
    /\ UNCHANGED <<exists, newer, late, products>>
    /\ UNCHANGED runVars
    /\ Quiet

\* ... unless it is interrupted in between.
AbortInvalidate ==
    /\ phase = "idle"
    /\ invalidating # {}
    /\ invalidating' = {}
    /\ UNCHANGED <<mounted, stale>>
    /\ UNCHANGED fileVars
    /\ UNCHANGED runVars
    /\ Quiet

\* $(L)._clean: rm -rf $(BUILD)/$(L).  (L_x.clean is invalidate and _clean.)
CleanBuild(l) ==
    /\ phase = "idle"
    /\ exists' = exists \ {BuildDir(l)}
    /\ products' = products \ Targets(l)
    /\ Changed
    /\ UNCHANGED <<newer, late, out>>
    /\ UNCHANGED ovlVars

----------------------------------------------------------------------------
MakeStep ==
    \/ \E n \in Nodes : UpToDate(n) \/ GiveUp(n) \/ Checkout(n) \/ MkBuildDir(n)
    \/ \E l \in Layers : OverlayMount(l) \/ OverlayUmount(l)
    \/ \E t \in AllTargets :
          StartTask(t) \/ AddProduct(t) \/ FinishTask(t) \/ FailTask(t)
    \/ Succeed
    \/ ExitFailed

UserStep ==
    \/ \E g \in Goals : Make(g)
    \/ \E f \in Files : Edit(f)
    \/ \E l \in Layers : Invalidate(l) \/ InvalidateOverlay(l) \/ CleanBuild(l)
    \/ AbortInvalidate
    \/ Interrupt

Next == MakeStep \/ UserStep

Spec == Init /\ [][Next]_vars

\* A started make goes on: its scheduler is a loop over ready nodes, and the
\* recipes are assumed to end, one way or the other.
FairSpec == Spec /\ WF_vars(MakeStep)

----------------------------------------------------------------------------
(* Properties.                                                              *)

\* README "Layer Serialisation": unless parallel layers are enabled, layers
\* are serialised in the order in which the recipe includes them.  While a
\* task of a layer runs, all tasks of the earlier layers are finished in this
\* run and none of a later layer runs.
Serialised ==
    \A t, u \in AllTargets :
        st[t] = "running" /\ LayerOf(u) < LayerOf(t) => st[u] = "done"

\* DEPENDS, the layer file and the checkouts (build_layer.mk 22-40,
\* environment.mk 83-108): a stamp make has dealt with in this run, or in the
\* last run if that succeeded, is there and no input of its task has changed
\* after it.
DoneIsFresh ==
    \A t \in AllTargets :
        st[t] = "done" => t \in exists /\ newer[t] \cap NormalInputs(t) = {}

\* overlay_mount / overlay_umount (build_layer.mk 230-264): a task only runs
\* while the overlay of its layer is mounted, and nothing has been written to
\* a layer below it since that mount, not even after an earlier run was cut
\* short and left overlays mounted.
OverlayIsCurrent ==
    OverlayFS =>
        \A t \in AllTargets :
            st[t] = "running" => LayerOf(t) \in mounted \ stale

\* $(stamp) after the work, stamps removed before the overlay
\* (define_layer.mk 35-40): a stamp that the next make would take as it is
\* stands for finished output, whatever was interrupted, failed or removed.
TrustedStampIsComplete ==
    \A t \in AllTargets :
        t \in exists /\ newer[t] = {} => out[t] = "full"

\* Once make has succeeded twice with nothing changed in between, a further
\* make runs no task.  (Once is not enough: a task that adds to the build
\* directory of its layer makes the stamps touched before it out of date.)
SettlesAfterTwoRuns ==
    calm = 2 => \A t \in AllTargets : st[t] # "running"

\* README "Layer Dependencies": a layer that is only run after another one is
\* not rebuilt because of it.  A task starts only if its stamp is missing or
\* one of the inputs its layer declares changed.
RunAfterDoesNotRebuild ==
    [][\A t \in AllTargets :
          st[t] # "running" /\ st'[t] = "running" =>
              t \notin exists \/ newer[t] \cap Inputs(t) # {}]_vars

\* No two rules wait for each other, so that GNU make has no "circular
\* dependency" to drop: a make that is left alone, and that waits for every
\* prerequisite of every rule, ends.
MakeEnds == phase # "idle" ~> phase = "idle"
=============================================================================
