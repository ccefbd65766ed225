---------------------------- MODULE ConfigBuild ------------------------------
(***************************************************************************)
(* An interface that saves the configuration and a build that reads it,    *)
(* which know nothing of each other: the build may start while the file is *)
(* moved away or half written.                                             *)
(***************************************************************************)
EXTENDS ConfigSave, SyncDeps

CONSTANTS
    Removable,      \* bound: symbols that the Kconfig files may lose
    Readable        \* values that a truncated or missing file may be read as

ASSUME BuildAssumption ==
    /\ Configs \subseteq Readable
    /\ Readable \subseteq [Names -> ConfigValues]
    /\ Removable \subseteq Names

VARIABLE seen           \* .config as the build has read it

cbVars == <<saveVars, buildVars, seen>>

\* c without the definitions of some symbols.
Without(c) ==
    {[s \in Names |-> IF s \in D THEN IF s \in E THEN Mentioned ELSE Gone ELSE c[s]] :
        D, E \in SUBSET Removable}

\* Mutant: a default configuration is loaded although there is a file.
LoadedFromDefault(f) == UNION {Without(c) : c \in Configs}

\* The values are those of the file, except of symbols that the Kconfig files
\* have lost since.
LoadedFrom(f) == UNION {Without(c) : c \in IF f \in Configs THEN {f} ELSE Readable}

OpenDot ==
    /\ BeginLoad
    /\ seen' = dot
    /\ UNCHANGED saveVars

\* The file is read line by line.
ReadDot ==
    /\ \E c \in LoadedFrom(seen) : Load(c)
    /\ UNCHANGED <<saveVars, seen>>

\* A save goes on meanwhile.  os.replace() leaves an open file as it is; open()
\* truncates it, and what is read may be part of the old and part of the new.
SaveBeside ==
    /\ SaveNext
    /\ seen' = IF pc = "load" /\ OpenConfig /\ dot # Absent THEN Partial ELSE seen
    /\ UNCHANGED buildVars

CBInit == SaveInit /\ SyncInit /\ seen = Absent

CBNext ==
    \/ SaveBeside
    \/ SyncStep /\ UNCHANGED <<saveVars, seen>>
    \/ OpenDot \/ ReadDot

CBSpec == CBInit /\ [][CBNext]_cbVars

----------------------------------------------------------------------------

(***************************************************************************)
(* If the build is done and the file it has read is the configuration that *)
(* was saved last, the sources are compiled with that configuration:       *)
(* saves and builds may overlap, and any number of both may have been cut  *)
(* short.  Left out are symbols that are not defined, and a value that     *)
(* auto.conf wrongly gave already.                                         *)
(***************************************************************************)
BuildIsOfLastSave ==
    pc = "idle" /\ ~cut /\ seen = last /\ last \in Configs =>
        \A s \in Names :
            config[s] \notin {Gone, Mentioned} => Header(last)[s] \in {obj[s], lost[s]}
=============================================================================
