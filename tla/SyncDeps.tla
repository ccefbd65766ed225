------------------------------ MODULE SyncDeps -------------------------------
(***************************************************************************)
(* A build that uses sync_deps() of kconfiglib.py: the values are loaded,  *)
(* a file is touched for every symbol that differs from auto.conf,         *)
(* auto.conf is written, and the source files older than the file of their *)
(* symbol are compiled.  Any of these steps may be the last one before the *)
(* build is cut short.  The header, autoconf.h, is not kept in the state:  *)
(* each build writes it anew before something is compiled that reads it.   *)
(***************************************************************************)
CONSTANTS
    Names,              \* symbols, and the source files that use them
    Values,             \* values a header shows
    NotSet,             \* n, of a bool or tristate symbol
    Hidden,             \* not _write_to_conf
    Gone,               \* no longer in the Kconfig files
    Mentioned,          \* no longer defined there, but still in an expression
    None,               \* no line in auto.conf or autoconf.h
    Sure,               \* no line of auto.conf is wrong
    Shortened           \* what the line of a value reads as if it is cut off

ASSUME SyncAssumption ==
    /\ None \notin Values
    /\ NotSet \notin Values \cup {None}
    /\ Hidden \notin Values \cup {None, NotSet}
    /\ Gone \notin Values \cup {None, NotSet, Hidden}
    /\ Mentioned \notin Values \cup {None, NotSet, Hidden, Gone}
    /\ Sure \notin Values \cup {None}
    /\ Shortened \in [Values -> SUBSET Values]

VARIABLES
    config,             \* values of the symbols
    auto,               \* auto.conf: the line of each symbol
    touched,            \* source files older than the file of their symbol
    obj,                \* obj[s]: the header's line for s when last compiled
    pc, todo,           \* step of the build, symbols still to be compared
    cut,                \* was the last build cut short?
    lost                \* a wrong line in auto.conf, by symbol, or Sure

buildVars == <<config, auto, touched, obj, pc, todo, cut, lost>>

ConfigValues == Values \cup {NotSet, Hidden, Gone, Mentioned}
Lines        == [Names -> Values \cup {None}]

----------------------------------------------------------------------------

\* _autoconf_contents() and _old_vals_contents(): n is left out.
Header(c) == [s \in Names |-> IF c[s] \in Values THEN c[s] ELSE None]

Empty == [s \in Names |-> None]

\* A line with value v that a write has not finished: it is not there, or the
\* value ends early.
CutLine(v) == {None} \cup (IF v \in Values THEN Shortened[v] ELSE {})

\* A write that is cut short leaves some of the lines, and one of them cut.
Torn(l) ==
    UNION {{[s \in Names |-> IF s \in T THEN l[s] ELSE IF s = r THEN v ELSE None] :
                v \in CutLine(l[r])} : T \in SUBSET Names, r \in Names}

\* Mutant: n is compared like any other value.
ChangedSinceSimple(v, was) ==
    IF v \in {Hidden, Gone, Mentioned} THEN was # None ELSE v # was

\* Is a symbol with value v flagged?  Those that are gone are while the old
\* values are loaded, those that are defined by comparing values; a symbol that
\* is only mentioned is neither unknown nor compared.
ChangedSince(v, was) ==
    \/ v \in {Hidden, Gone, NotSet} /\ was # None
    \/ v \in Values /\ v # was

\* Symbols that leave auto.conf without having been flagged.
Dropped == {s \in Names \ touched : config[s] = Mentioned /\ auto[s] # None}

SyncInit ==
    /\ config = [s \in Names |-> Hidden]
    /\ auto = Empty
    /\ touched = Names          \* nothing has been compiled
    /\ obj = Empty
    /\ pc = "idle" /\ todo = {}
    /\ cut = TRUE
    /\ lost = [s \in Names |-> Sure]

\* load_config() has opened the file, and reads it.
BeginLoad ==
    /\ pc = "idle"
    /\ pc' = "load"
    /\ UNCHANGED <<config, auto, touched, obj, todo, cut, lost>>

Load(c) ==
    /\ pc = "load"
    /\ config' = c
    /\ pc' = "touch" /\ todo' = Names
    /\ UNCHANGED <<auto, touched, obj, cut, lost>>

CompareSym(s) ==
    /\ pc = "touch"
    /\ s \in todo
    /\ todo' = todo \ {s}
    /\ IF ChangedSince(config[s], auto[s])
       THEN touched' = touched \cup {s} /\ lost' = [lost EXCEPT ![s] = Sure]
       ELSE UNCHANGED <<touched, lost>>
    /\ UNCHANGED <<config, auto, obj, pc, cut>>

\* Mutant: auto.conf is written before the files are touched.
OpenAutoConfEarly ==
    /\ pc = "touch"
    /\ IF auto = Header(config)
       THEN pc' = "compile" /\ UNCHANGED auto
       ELSE pc' = "write" /\ auto' = Empty
    /\ UNCHANGED <<config, touched, obj, todo, cut, lost>>

\* _write_old_vals() comes last; the same contents are not written again.
OpenAutoConf ==
    /\ pc = "touch"
    /\ todo = {}
    /\ IF auto = Header(config)
       THEN pc' = "compile" /\ UNCHANGED <<auto, lost>>
       ELSE /\ pc' = "write"
            /\ auto' = Empty
            /\ lost' = [s \in Names |-> IF s \in Dropped THEN None ELSE lost[s]]
    /\ UNCHANGED <<config, touched, obj, todo, cut>>

WriteAutoConf ==
    /\ pc = "write"
    /\ auto' = Header(config)
    /\ pc' = "compile"
    /\ UNCHANGED <<config, touched, obj, todo, cut, lost>>

CompileSource(s) ==
    /\ pc = "compile"
    /\ s \in touched
    /\ obj' = [obj EXCEPT ![s] = Header(config)[s]]
    /\ touched' = touched \ {s}
    /\ UNCHANGED <<config, auto, pc, todo, cut, lost>>

FinishBuild ==
    /\ pc = "compile"
    /\ touched = {}
    /\ pc' = "idle"
    /\ cut' = FALSE
    /\ UNCHANGED <<config, auto, touched, obj, todo, lost>>

\* Killed, or OSError from any of the files.
CutBuild ==
    /\ pc # "idle"
    /\ pc' = "idle" /\ todo' = {}
    /\ cut' = TRUE
    /\ IF pc = "write"
       THEN /\ auto' \in Torn(Header(config))
            /\ lost' = [s \in Names |->
                           IF s \in touched \/ auto'[s] = Header(config)[s]
                           THEN lost[s] ELSE auto'[s]]
       ELSE UNCHANGED <<auto, lost>>
    /\ UNCHANGED <<config, touched, obj>>

SyncStep ==
    \/ OpenAutoConf \/ WriteAutoConf
    \/ \E s \in Names : CompareSym(s) \/ CompileSource(s)
    \/ FinishBuild \/ CutBuild

SyncNext == SyncStep \/ BeginLoad \/ \E c \in [Names -> ConfigValues] : Load(c)

SyncSpec == SyncInit /\ [][SyncNext]_buildVars

----------------------------------------------------------------------------

SyncTypeOK ==
    /\ config \in [Names -> ConfigValues]
    /\ auto \in Lines /\ obj \in Lines
    /\ touched \subseteq Names /\ todo \subseteq Names
    /\ lost \in [Names -> Values \cup {None, Sure}]
    /\ pc \in {"idle", "load", "touch", "write", "compile"}
    /\ cut \in BOOLEAN

(***************************************************************************)
(* "The source file will then get recompiled (only) when the symbol value  *)
(* changes": a file is touched only if the header does not say of its      *)
(* symbol what the source has seen when it was compiled - also in a build  *)
(* that repeats what was cut short.  The exceptions are wrong lines in     *)
(* auto.conf: those of a write that was cut short, and of a symbol that    *)
(* was mentioned without being defined and is defined again.               *)
(***************************************************************************)
OnlyChangedIsTouched ==
    [][\A s \in touched' \ touched :
          lost[s] = auto[s] \/ Header(config)[s] # obj[s]]_buildVars

Promise ==
    INSTANCE IncrementalBuild WITH
        Configs <- [Names -> ConfigValues],
        build <- CASE pc = "load" -> "reading"
                   [] pc = "idle" /\ cut -> "cut"
                   [] pc = "idle" /\ ~cut -> "done"
                   [] OTHER -> "running"

(***************************************************************************)
(* sync_deps() "can be safely rerun if it fails before this point":        *)
(* whatever was cut short before, a build that finishes leaves every       *)
(* source compiled with the current values.  Not noticed is only a change  *)
(* to what auto.conf wrongly says already: to the part of the old value    *)
(* that a write was cut off at, or to n after that or after the symbol was *)
(* only mentioned for a while.                                             *)
(***************************************************************************)
BuildRefines == Promise!Spec
=============================================================================
