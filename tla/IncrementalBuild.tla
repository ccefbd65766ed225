-------------------------- MODULE IncrementalBuild ---------------------------
(***************************************************************************)
(* What sync_deps() of kconfiglib.py promises a build: when a build is     *)
(* done, every source file has been compiled with the value that its       *)
(* symbol has in the header, as if everything had been compiled.           *)
(***************************************************************************)
CONSTANTS
    Names,              \* the symbols; source files by the symbol they use
    Configs,            \* configurations
    Header(_),          \* Header(c)[s]: what autoconf.h says of s
    CutLine(_),         \* what may be left of it by a write that is cut short
    Mentioned,          \* value of a symbol that only expressions refer to
    Values,             \* lines of autoconf.h
    None,               \* no line: the symbol is n, hidden or gone
    Sure                \* nothing wrong is believed of the symbol

VARIABLES
    config,             \* of the last build that was started
    obj,                \* obj[s]: what was seen when it was compiled
    build,              \* "reading", "running", "done" or "cut"
    lost                \* what is wrongly believed of a symbol, or Sure

vars == <<config, obj, build, lost>>

Init ==
    /\ config \in Configs
    /\ obj = [s \in Names |-> None]
    /\ build = "cut"
    /\ lost = [s \in Names |-> Sure]

Start ==
    /\ build \in {"done", "cut"}
    /\ build' = "reading"
    /\ UNCHANGED <<config, obj, lost>>

Read ==
    /\ build = "reading"
    /\ build' = "running"
    /\ config' \in Configs
    /\ UNCHANGED <<obj, lost>>

Compile(s) ==
    /\ build = "running"
    /\ obj' = [obj EXCEPT ![s] = Header(config)[s]]
    /\ UNCHANGED <<config, build, lost>>

\* It is noticed that a symbol has changed.
Notice(s) ==
    /\ build = "running"
    /\ lost' = [lost EXCEPT ![s] = Sure]
    /\ UNCHANGED <<config, obj, build>>

\* Symbols that are only mentioned are taken to be off, unnoticed.
Drop(D) ==
    /\ build = "running"
    /\ \A s \in D : config[s] = Mentioned
    /\ lost' = [s \in Names |-> IF s \in D THEN None ELSE lost[s]]
    /\ UNCHANGED <<config, obj, build>>

\* The only exception is a symbol that has become what it was taken to be.
UpToDate(s) == Header(config)[s] \in {obj[s], lost[s]}

Finish ==
    /\ build = "running"
    /\ \A s \in Names : UpToDate(s)
    /\ build' = "done"
    /\ UNCHANGED <<config, obj, lost>>

Cut ==
    /\ build \in {"reading", "running"}
    /\ build' = "cut"
    /\ lost' \in [Names -> Values \cup {None, Sure}]
    /\ \A s \in Names :
          \/ lost'[s] = lost[s]
          \/ build = "running" /\ lost'[s] \in CutLine(Header(config)[s])
    /\ UNCHANGED <<config, obj>>

Next ==
    \/ Start \/ Read \/ Finish \/ Cut
    \/ \E s \in Names : Compile(s) \/ Notice(s)
    \/ \E D \in SUBSET Names : Drop(D)

Spec == Init /\ [][Next]_vars
=============================================================================
