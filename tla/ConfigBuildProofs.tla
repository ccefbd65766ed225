-------------------------- MODULE ConfigBuildProofs --------------------------
(***************************************************************************)
(* Saves and builds, alone and overlapping, for every set of symbols,      *)
(* values and configurations: the last saved configuration survives a save *)
(* that is cut short; a build with sync_deps() implements IncrementalBuild *)
(* and touches only what has changed; both keep these promises side by     *)
(* side, and a build that has read what was saved last compiles with it.   *)
(***************************************************************************)
EXTENDS ConfigBuild, TLAPS

----------------------------------------------------------------------------
(* Saves: ConfigSave.                                                     *)

\* Where the last saved configuration is, step by step.  While nothing has
\* gone wrong, .config is what was saved until it is moved or truncated, and
\* its backup is complete by then.
Kept ==
    /\ risk = 0 /\ step \in {"idle", "backup", "copy"} => dot = last
    /\ risk = 0 /\ step \in {"open", "write"} /\ last # Absent => old = last
    /\ risk = 1 /\ step = "idle" /\ last # Absent => last \in {dot, old}

SaveInv == SaveTypeOK /\ Kept

\* The file that is there at the start is taken as saved.
LEMMA SaveInitKept ==
    ASSUME SaveInit
    PROVE  SaveInv
BY DEF SaveInit, SaveInv, SaveTypeOK, Kept

\* Every step of write_config(), and its end at any of them.
LEMMA SaveNextKept ==
    ASSUME SaveInv, [SaveNext]_saveVars
    PROVE  SaveInv'
<1> USE DEF SaveInv, SaveTypeOK, Kept, files
<1>1. ASSUME NEW c \in Configs, SaveUnchanged(c)
      PROVE  SaveInv'
  BY <1>1 DEF SaveUnchanged, Returned
<1>2. ASSUME NEW c \in Configs, BeginSave(c)
      PROVE  SaveInv'
  BY <1>2 DEF BeginSave
<1>3. CASE MoveOld
  BY <1>3 DEF MoveOld
<1>4. CASE BeginCopy
  BY <1>4 DEF BeginCopy
<1>5. CASE EndCopy
  BY <1>5 DEF EndCopy
<1>6. CASE BackupFails
  BY <1>6 DEF BackupFails
<1>7. CASE OpenConfig
  BY <1>7 DEF OpenConfig
<1>8. CASE WriteContents
  BY <1>8 DEF WriteContents, Returned
<1>9. CASE CutShort
  BY <1>9 DEF CutShort
<1>10. CASE UNCHANGED saveVars
  BY <1>10 DEF saveVars
<1> QED
  BY <1>1, <1>2, <1>3, <1>4, <1>5, <1>6, <1>7, <1>8, <1>9, <1>10 DEF SaveNext

(***************************************************************************)
(* After any sequence of saves, failed backups and interruptions of        *)
(* write_config(), the last saved configuration is in .config or .old      *)
(* unless two have gone wrong.                                             *)
(***************************************************************************)
THEOREM LastSaveSurvivesThm == SaveSpec => []LastSaveSurvives
<1>1. SaveInit => SaveInv
  BY SaveInitKept
<1>2. SaveInv /\ [SaveNext]_saveVars => SaveInv'
  BY SaveNextKept
<1>3. SaveInv => LastSaveSurvives
  BY SaveAssumption DEF SaveInv, SaveTypeOK, Kept, LastSaveSurvives
<1> QED
  BY <1>1, <1>2, <1>3, PTL DEF SaveSpec

----------------------------------------------------------------------------
(* Builds: SyncDeps.                                                      *)

\* A source has been compiled with line l of its symbol, or is going to be
\* compiled, or l is known to be wrong.
Accounted(s, l) ==
    s \in touched \/ l \in {obj[s], lost[s]}

\* What auto.conf stands for.  It is only replaced when all the symbols that
\* differ from it have been touched, but for those that are only mentioned.
Recorded ==
    /\ pc # "write" => \A s \in Names : Accounted(s, auto[s])
    /\ pc = "touch" =>
          \A s \in Names \ todo :
              s \in touched \/ auto[s] = Header(config)[s] \/ config[s] = Mentioned
    /\ pc = "write" => \A s \in Names : Accounted(s, Header(config)[s])
    /\ pc = "compile" => auto = Header(config)

SyncInv == SyncTypeOK /\ Recorded

\* The header has a line for every symbol.
LEMMA HeaderType ==
    ASSUME NEW c \in [Names -> ConfigValues]
    PROVE  Header(c) \in Lines
BY DEF Header, Lines

\* What a cut write leaves are lines, each whole or cut.
LEMMA TornType ==
    ASSUME NEW l \in Lines, NEW a \in Torn(l)
    PROVE  a \in Lines /\ \A s \in Names : a[s] = l[s] \/ a[s] \in CutLine(l[s])
<1>0. PICK T \in SUBSET Names, r \in Names :
          a \in {[s \in Names |-> IF s \in T THEN l[s] ELSE IF s = r THEN v ELSE None] :
                   v \in CutLine(l[r])}
  BY DEF Torn
<1>1. PICK v \in CutLine(l[r]) :
          a = [s \in Names |-> IF s \in T THEN l[s] ELSE IF s = r THEN v ELSE None]
  BY <1>0
<1>2. v \in Values \cup {None}
  BY SyncAssumption DEF CutLine, Lines
<1> QED
  BY <1>1, <1>2 DEF Lines, CutLine

\* The cases of sync_deps() amount to comparing lines of the header.
LEMMA ChangedMeansNewLine ==
    ASSUME NEW c \in [Names -> ConfigValues], NEW l \in Lines, NEW s \in Names
    PROVE  ChangedSince(c[s], l[s]) <=> c[s] # Mentioned /\ Header(c)[s] # l[s]
BY SyncAssumption DEF ChangedSince, Header, Lines, ConfigValues

\* Before the first build nothing is recorded and everything is to be compiled.
LEMMA SyncInitRecorded ==
    ASSUME SyncInit
    PROVE  SyncInv
BY DEF SyncInit, SyncInv, SyncTypeOK, Recorded, Accounted, Empty, Lines, ConfigValues

\* One step per action of the build.
LEMMA SyncNextRecorded ==
    ASSUME SyncInv, [SyncNext]_buildVars
    PROVE  SyncInv'
<1>0. SyncTypeOK /\ Recorded
  BY DEF SyncInv
<1> USE DEF SyncTypeOK
<1>1. CASE BeginLoad
  BY <1>0, <1>1 DEF BeginLoad, SyncInv, Recorded, Accounted
<1>2. ASSUME NEW c \in [Names -> ConfigValues], Load(c)
      PROVE  SyncInv'
  BY <1>0, <1>2 DEF Load, SyncInv, Recorded, Accounted
<1>3. ASSUME NEW s \in Names, CompareSym(s)
      PROVE  SyncInv'
  <2>1. SyncTypeOK'
    BY <1>0, <1>3 DEF CompareSym
  <2>2. \A r \in Names : Accounted(r, auto[r])'
    BY <1>0, <1>3 DEF CompareSym, Recorded, Accounted
  <2>3. \A r \in Names \ todo' :
            r \in touched' \/ auto[r] = Header(config)[r] \/ config[r] = Mentioned
    <3>1. s \in touched' \/ auto[s] = Header(config)[s] \/ config[s] = Mentioned
      BY <1>0, <1>3, ChangedMeansNewLine DEF CompareSym
    <3> QED
      BY <1>0, <1>3, <3>1 DEF CompareSym, Recorded
  <2> QED
    BY <1>0, <1>3, <2>1, <2>2, <2>3 DEF CompareSym, SyncInv, Recorded
<1>4. CASE OpenAutoConf
  <2>1. \A s \in Names : (Accounted(s, Header(config)[s]))'
    <3> SUFFICES ASSUME NEW s \in Names
                 PROVE  Accounted(s, Header(config)[s])'
      OBVIOUS
    <3>1. s \in touched \/ auto[s] = Header(config)[s] \/ config[s] = Mentioned
      BY <1>0, <1>4 DEF OpenAutoConf, Recorded
    <3>2. Accounted(s, auto[s])
      BY <1>0, <1>4 DEF OpenAutoConf, Recorded
    <3>3. config[s] = Mentioned => Header(config)[s] = None
      BY SyncAssumption DEF Header
    <3> QED
      BY <1>0, <1>4, <3>1, <3>2, <3>3 DEF OpenAutoConf, Dropped, Accounted
  <2>2. Empty \in Lines
    BY DEF Empty, Lines
  <2> QED
    BY <1>0, <1>4, <2>1, <2>2 DEF OpenAutoConf, SyncInv, Recorded, Accounted
<1>5. CASE WriteAutoConf
  BY <1>0, <1>5, HeaderType DEF WriteAutoConf, SyncInv, Recorded, Accounted
<1>6. ASSUME NEW s \in Names, CompileSource(s)
      PROVE  SyncInv'
  <2>1. SyncTypeOK'
    <3>1. Header(config) \in Lines
      BY <1>0, HeaderType
    <3> QED
      BY <1>0, <1>6, <3>1 DEF CompileSource, Lines
  <2>2. \A r \in Names : Accounted(r, auto[r])'
    BY <1>0, <1>6 DEF CompileSource, Recorded, Accounted, Lines
  <2> QED
    BY <1>0, <1>6, <2>1, <2>2 DEF CompileSource, SyncInv, Recorded
<1>7. CASE FinishBuild
  BY <1>0, <1>7 DEF FinishBuild, SyncInv, Recorded, Accounted
<1>8. CASE CutBuild
  <2>1. CASE pc = "write"
    <3>1. Header(config) \in Lines
      BY <1>0, HeaderType
    <3>2. auto' \in Lines /\ auto' \in Torn(Header(config))
      BY <1>8, <2>1, <3>1, TornType DEF CutBuild
    <3>3. SyncTypeOK'
      BY <1>0, <1>8, <2>1, <3>2 DEF CutBuild, Lines
    <3>4. \A s \in Names : Accounted(s, auto[s])'
      BY <1>0, <1>8, <2>1, <3>2 DEF CutBuild, Recorded, Accounted
    <3> QED
      BY <1>8, <3>3, <3>4 DEF CutBuild, SyncInv, Recorded
  <2>2. CASE pc # "write"
    <3>1. SyncTypeOK'
      BY <1>0, <1>8, <2>2 DEF CutBuild, Empty, Lines
    <3> QED
      BY <1>0, <1>8, <2>2, <3>1 DEF CutBuild, SyncInv, Recorded, Accounted
  <2> QED
    BY <2>1, <2>2
<1>9. CASE UNCHANGED buildVars
  BY <1>0, <1>9 DEF buildVars, SyncInv, Recorded, Accounted
<1> QED
  BY <1>1, <1>2, <1>3, <1>4, <1>5, <1>6, <1>7, <1>8, <1>9 DEF SyncNext, SyncStep

\* The invariant holds throughout.
LEMMA RecordedAlways == SyncSpec => []SyncInv
<1>1. SyncInit => SyncInv
  BY SyncInitRecorded
<1>2. SyncInv /\ [SyncNext]_buildVars => SyncInv'
  BY SyncNextRecorded
<1> QED
  BY <1>1, <1>2, PTL DEF SyncSpec

(***************************************************************************)
(* sync_deps() touches only files of symbols whose source was compiled     *)
(* with another line, except where auto.conf is wrong: after a write of it *)
(* was cut short, or about a symbol that was only mentioned for a while.   *)
(***************************************************************************)
THEOREM OnlyChangedIsTouchedThm == SyncSpec => OnlyChangedIsTouched
<1> DEFINE A == \A s \in touched' \ touched : lost[s] = auto[s] \/ Header(config)[s] # obj[s]
<1>1. ASSUME SyncInv, [SyncNext]_buildVars
      PROVE  [A]_buildVars
  <2>1. ASSUME NEW s \in Names, CompareSym(s)
        PROVE  A
    BY <1>1, <2>1, ChangedMeansNewLine
       DEF SyncInv, SyncTypeOK, Recorded, Accounted, CompareSym
  <2>2. ASSUME NEW s \in Names, CompileSource(s)
        PROVE  A
    BY <2>2 DEF CompileSource
  <2>3. CASE BeginLoad \/ OpenAutoConf \/ WriteAutoConf \/ FinishBuild \/ CutBuild
    BY <2>3 DEF BeginLoad, OpenAutoConf, WriteAutoConf, FinishBuild, CutBuild
  <2>4. ASSUME NEW c \in [Names -> ConfigValues], Load(c)
        PROVE  A
    BY <2>4 DEF Load
  <2> QED
    BY <1>1, <2>1, <2>2, <2>3, <2>4 DEF SyncNext, SyncStep
<1> QED
  BY <1>1, RecordedAlways, PTL DEF SyncSpec, OnlyChangedIsTouched

\* The initial state is one of the promise.
LEMMA InitMaps ==
    ASSUME SyncInit
    PROVE  Promise!Init
BY DEF SyncInit, Promise!Init, Empty, ConfigValues

\* Every step is a step of the promise, or none.
LEMMA NextMaps ==
    ASSUME SyncInv, [SyncNext]_buildVars
    PROVE  [Promise!Next]_Promise!vars
<1> USE DEF Promise!Next, Promise!vars
<1>0. SyncTypeOK /\ Recorded
  BY DEF SyncInv
<1>1. ASSUME NEW c \in [Names -> ConfigValues], Load(c)
      PROVE  Promise!Read
  BY <1>0, <1>1 DEF Load, Promise!Read, SyncTypeOK
<1>2. CASE BeginLoad
  <2>1. Promise!Start
    BY <1>0, <1>2 DEF BeginLoad, Promise!Start, SyncTypeOK
  <2> QED
    BY <2>1
<1>3. CASE OpenAutoConf
  <2>1. CASE auto = Header(config)
    BY <1>3, <2>1 DEF OpenAutoConf
  <2>2. CASE auto # Header(config)
    <3>1. Promise!Drop(Dropped)
      BY <1>3, <2>2 DEF OpenAutoConf, Promise!Drop, Dropped
    <3> QED
      BY <3>1 DEF Dropped
  <2> QED
    BY <2>1, <2>2
<1>4. CASE WriteAutoConf
  BY <1>4 DEF WriteAutoConf
<1>5. ASSUME NEW s \in Names, CompareSym(s)
      PROVE  Promise!Notice(s) \/ UNCHANGED Promise!vars
  BY <1>5 DEF CompareSym, Promise!Notice
<1>6. ASSUME NEW s \in Names, CompileSource(s)
      PROVE  Promise!Compile(s)
  BY <1>0, <1>6 DEF CompileSource, Promise!Compile, Recorded
<1>7. CASE FinishBuild
  <2>1. \A s \in Names : Promise!UpToDate(s)
    BY <1>0, <1>7 DEF FinishBuild, Recorded, Accounted, Promise!UpToDate
  <2> QED
    BY <1>7, <2>1 DEF FinishBuild, Promise!Finish
<1>8. CASE CutBuild
  <2>1. pc \in {"load", "touch", "write", "compile"}
    BY <1>0, <1>8 DEF CutBuild, SyncTypeOK
  <2>2. CASE pc = "write"
    <3>1. Header(config) \in Lines
      BY <1>0, HeaderType DEF SyncTypeOK
    <3>2. /\ auto' \in Lines
          /\ \A s \in Names :
                auto'[s] = Header(config)[s] \/ auto'[s] \in CutLine(Header(config)[s])
      BY <1>8, <2>2, <3>1, TornType DEF CutBuild
    <3> QED
      BY <1>0, <1>8, <2>2, <3>2 DEF CutBuild, Promise!Cut, SyncTypeOK, Lines
  <2>3. CASE pc # "write"
    BY <1>0, <1>8, <2>1, <2>3 DEF CutBuild, Promise!Cut, SyncTypeOK
  <2> QED
    BY <2>2, <2>3
<1>9. CASE UNCHANGED buildVars
  BY <1>9 DEF buildVars
<1> QED
  BY <1>1, <1>2, <1>3, <1>4, <1>5, <1>6, <1>7, <1>8, <1>9 DEF SyncNext, SyncStep

(***************************************************************************)
(* A build that is cut short anywhere, any number of times, and then       *)
(* finishes has compiled every source with the current values, except for  *)
(* a change to what auto.conf wrongly said already: sync_deps() implements *)
(* IncrementalBuild.                                                       *)
(***************************************************************************)
THEOREM BuildRefinesThm == SyncSpec => BuildRefines
<1>1. SyncInit => Promise!Init
  BY InitMaps
<1>2. SyncInv /\ [SyncNext]_buildVars => [Promise!Next]_Promise!vars
  BY NextMaps
<1> QED
  BY <1>1, <1>2, RecordedAlways, PTL DEF SyncSpec, BuildRefines, Promise!Spec

----------------------------------------------------------------------------
(* Saves and builds that overlap: ConfigBuild.                            *)

\* What is loaded is a configuration of the symbols, whatever the file holds.
LEMMA LoadedType ==
    ASSUME NEW f, NEW c \in LoadedFrom(f)
    PROVE  /\ c \in [Names -> ConfigValues]
           /\ f \in Configs =>
                 \A s \in Names : c[s] \in {Gone, Mentioned} \/ c[s] = f[s]
<1>1. PICK b \in IF f \in Configs THEN {f} ELSE Readable : c \in Without(b)
  BY DEF LoadedFrom
<1>2. PICK D \in SUBSET Removable, E \in SUBSET Removable :
          c = [s \in Names |-> IF s \in D THEN IF s \in E THEN Mentioned ELSE Gone ELSE b[s]]
  BY <1>1 DEF Without
<1>3. b \in [Names -> ConfigValues]
  BY <1>1, BuildAssumption
<1> QED
  BY <1>1, <1>2, <1>3 DEF ConfigValues

\* A step of the two together is one of the save, or none ...
LEMMA SaveStepOfBoth ==
    ASSUME [CBNext]_cbVars
    PROVE  [SaveNext]_saveVars
BY DEF CBNext, SaveBeside, OpenDot, ReadDot, cbVars

\* ... and one of the build, or none: the file that is read is one of the
\* configurations a build may have.
LEMMA SyncStepOfBoth ==
    ASSUME [CBNext]_cbVars
    PROVE  [SyncNext]_buildVars
<1>1. CASE ReadDot
  <2>1. PICK c \in LoadedFrom(seen) : Load(c)
    BY <1>1 DEF ReadDot
  <2> QED
    BY <2>1, LoadedType DEF SyncNext
<1>2. CASE SaveBeside
  BY <1>2 DEF SaveBeside
<1>3. CASE SyncStep \/ OpenDot
  BY <1>3 DEF SyncNext, OpenDot
<1>4. CASE UNCHANGED cbVars
  BY <1>4 DEF cbVars
<1> QED
  BY <1>1, <1>2, <1>3, <1>4 DEF CBNext

(***************************************************************************)
(* write_config() and sync_deps() behave as they do alone when an          *)
(* interface and a build run at the same time: the build may load a file   *)
(* in any state, and what it loads is always a configuration it could have *)
(* been given.                                                             *)
(***************************************************************************)
THEOREM BothAsAlone == CBSpec => SaveSpec /\ SyncSpec
<1>1. CBInit => SaveInit /\ SyncInit
  BY DEF CBInit
<1>2. [CBNext]_cbVars => [SaveNext]_saveVars
  BY SaveStepOfBoth
<1>3. [CBNext]_cbVars => [SyncNext]_buildVars
  BY SyncStepOfBoth
<1> QED
  BY <1>1, <1>2, <1>3, PTL DEF CBSpec, SaveSpec, SyncSpec

(***************************************************************************)
(* A build that runs while write_config() is cut short does not cost the   *)
(* configuration that was saved last.                                      *)
(***************************************************************************)
THEOREM LastSaveSurvivesBuilds == CBSpec => []LastSaveSurvives
BY BothAsAlone, LastSaveSurvivesThm, PTL

(***************************************************************************)
(* sync_deps() touches only what has changed, also when it has loaded a    *)
(* .config that was moved away or half written.                            *)
(***************************************************************************)
THEOREM OnlyChangedIsTouchedBySaves == CBSpec => OnlyChangedIsTouched
BY BothAsAlone, OnlyChangedIsTouchedThm, PTL

(***************************************************************************)
(* The build still implements IncrementalBuild while saves go on.          *)
(***************************************************************************)
THEOREM BuildRefinesDuringSaves == CBSpec => BuildRefines
BY BothAsAlone, BuildRefinesThm, PTL

----------------------------------------------------------------------------
(* What the sources are compiled with.                                      *)

\* The values in memory are those of the file that was read ...
LoadedIsSeen ==
    pc # "load" /\ (pc = "idle" => ~cut) /\ seen \in Configs =>
        \A s \in Names : config[s] \in {Gone, Mentioned} \/ config[s] = seen[s]

\* ... and what a build that has ended has compiled with.
EndedIsCompiled ==
    pc = "idle" /\ ~cut =>
        touched = {} /\ \A s \in Names : Accounted(s, Header(config)[s])

CBInv == SyncInv /\ LoadedIsSeen /\ EndedIsCompiled

\* Saves change neither, except the file while it is read; ReadDot makes the
\* values those of the file; and only FinishBuild ends a build that was not
\* cut short.
LEMMA CBStep ==
    ASSUME CBInv, [CBNext]_cbVars
    PROVE  CBInv'
<1>0. SyncInv'
  BY SyncStepOfBoth, SyncNextRecorded DEF CBInv
<1>1. CASE ReadDot
  <2>1. PICK c \in LoadedFrom(seen) : Load(c)
    BY <1>1 DEF ReadDot
  <2>2. config' = c /\ seen' = seen /\ pc' = "touch"
    BY <1>1, <2>1 DEF ReadDot, Load
  <2>3. LoadedIsSeen'
    BY <2>2, LoadedType DEF LoadedIsSeen
  <2> QED
    BY <1>0, <2>2, <2>3 DEF CBInv, EndedIsCompiled
<1>2. CASE OpenDot
  BY <1>0, <1>2 DEF OpenDot, BeginLoad, CBInv, LoadedIsSeen, EndedIsCompiled
<1>3. CASE SyncStep /\ UNCHANGED <<saveVars, seen>>
  <2>1. config' = config /\ seen' = seen
    BY <1>3 DEF SyncStep, OpenAutoConf, WriteAutoConf, CompareSym, CompileSource,
                FinishBuild, CutBuild
  <2>2. CASE FinishBuild
    <3>1. \A s \in Names : Accounted(s, Header(config)[s])
      BY <2>2 DEF FinishBuild, CBInv, SyncInv, Recorded
    <3> QED
      BY <1>0, <2>1, <2>2, <3>1
      DEF FinishBuild, CBInv, LoadedIsSeen, EndedIsCompiled, Accounted
  <2>3. CASE CutBuild
    BY <1>0, <2>1, <2>3 DEF CutBuild, CBInv, LoadedIsSeen, EndedIsCompiled
  <2>4. CASE ~FinishBuild /\ ~CutBuild
    <3>1. pc \notin {"load", "idle"} /\ pc' \notin {"load", "idle"}
      BY <1>3, <2>4 DEF SyncStep, OpenAutoConf, WriteAutoConf, CompareSym, CompileSource
    <3> QED
      BY <1>0, <2>1, <3>1 DEF CBInv, LoadedIsSeen, EndedIsCompiled
  <2> QED
    BY <2>2, <2>3, <2>4
<1>4. CASE SaveBeside
  <2>1. UNCHANGED buildVars /\ (pc # "load" => seen' = seen)
    BY <1>4 DEF SaveBeside
  <2> QED
    BY <1>0, <2>1 DEF CBInv, LoadedIsSeen, EndedIsCompiled, Accounted, buildVars
<1>5. CASE UNCHANGED cbVars
  BY <1>0, <1>5 DEF CBInv, LoadedIsSeen, EndedIsCompiled, Accounted, buildVars, cbVars
<1> QED
  BY <1>1, <1>2, <1>3, <1>4, <1>5 DEF CBNext

(***************************************************************************)
(* If the build has ended and the .config it has read is what was saved    *)
(* last, the sources are compiled with what was saved last, however many   *)
(* saves and builds overlapped or were cut short before.  The exceptions   *)
(* are symbols without a definition, and what auto.conf wrongly gave.      *)
(***************************************************************************)
THEOREM BuildIsOfLastSaveThm == CBSpec => []BuildIsOfLastSave
<1>1. CBInit => CBInv
  <2> SUFFICES ASSUME CBInit PROVE CBInv
    OBVIOUS
  <2>1. SyncInv
    BY SyncInitRecorded DEF CBInit
  <2> QED
    BY <2>1 DEF CBInit, SyncInit, CBInv, LoadedIsSeen, EndedIsCompiled
<1>2. CBInv /\ [CBNext]_cbVars => CBInv'
  BY CBStep
<1>3. CBInv => BuildIsOfLastSave
  <2> SUFFICES ASSUME CBInv, pc = "idle", ~cut, seen = last, last \in Configs,
                      NEW s \in Names, config[s] \notin {Gone, Mentioned}
               PROVE  Header(last)[s] \in {obj[s], lost[s]}
    BY DEF BuildIsOfLastSave
  <2>1. Header(config)[s] \in {obj[s], lost[s]}
    BY DEF CBInv, EndedIsCompiled, Accounted
  <2>2. config[s] = last[s]
    BY DEF CBInv, LoadedIsSeen
  <2> QED
    BY <2>1, <2>2 DEF Header
<1> QED
  BY <1>1, <1>2, <1>3, PTL DEF CBSpec
=============================================================================
