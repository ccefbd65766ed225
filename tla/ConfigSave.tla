----------------------------- MODULE ConfigSave ------------------------------
(***************************************************************************)
(* write_config() of kconfiglib.py step by step: the old file is moved or  *)
(* copied to <filename>.old and the new one written in place.  The process *)
(* may be killed, or the write fail, between any two steps.                *)
(***************************************************************************)
EXTENDS Naturals

CONSTANTS
    Configs,            \* configurations: what a complete file holds
    Absent,             \* no file
    Partial             \* a file that is truncated or half written

ASSUME SaveAssumption == Absent \notin Configs /\ Partial \notin Configs

VARIABLES
    dot, old,           \* .config and .config.old
    link,               \* is .config a symbolic link?
    step,               \* of write_config()
    new,                \* contents
    last,               \* the configuration the last save that returned has saved
    risk                \* 1 after a save that was cut short and has cost .config,
                        \* 2 after two, or if _save_old() has failed

files    == <<dot, old>>
saveVars == <<dot, old, link, step, new, last, risk>>

----------------------------------------------------------------------------

SaveInit ==
    /\ dot \in Configs \cup {Absent}
    /\ old = Absent
    /\ link \in BOOLEAN
    /\ step = "idle"
    /\ new = Absent
    /\ last = dot
    /\ risk = 0

\* What is saved from now on.
Returned(c) == last' = c /\ risk' = 0

\* A file with the same contents is left untouched.
SaveUnchanged(c) ==
    /\ step = "idle"
    /\ dot = c
    /\ Returned(c)
    /\ UNCHANGED <<files, link, step, new>>

BeginSave(c) ==
    /\ step = "idle"
    /\ dot # c
    /\ new' = c
    /\ step' = "backup"
    /\ UNCHANGED <<files, link, last, risk>>

\* Mutant: the old file is left where it is.
NoBackup ==
    /\ step = "backup"
    /\ step' = "open"
    /\ UNCHANGED <<files, link, new, last, risk>>

\* os.replace(), unless there is no file.
MoveOld ==
    /\ step = "backup"
    /\ ~link
    /\ IF dot = Absent THEN UNCHANGED files
       ELSE old' = dot /\ dot' = Absent
    /\ step' = "open"
    /\ UNCHANGED <<link, new, last, risk>>

\* shutil.copyfile() preserves the link.
BeginCopy ==
    /\ step = "backup"
    /\ link
    /\ IF dot = Absent THEN step' = "open" /\ UNCHANGED old
       ELSE step' = "copy" /\ old' = Partial
    /\ UNCHANGED <<dot, link, new, last, risk>>

EndCopy ==
    /\ step = "copy"
    /\ old' = dot
    /\ step' = "open"
    /\ UNCHANGED <<dot, link, new, last, risk>>

\* Errors of the backup are ignored.
BackupFails ==
    /\ step \in {"backup", "copy"}
    /\ dot # Absent
    /\ step' = "open"
    /\ risk' = 2
    /\ UNCHANGED <<files, link, new, last>>

OpenConfig ==
    /\ step = "open"
    /\ dot' = Partial
    /\ step' = "write"
    /\ UNCHANGED <<old, link, new, last, risk>>

WriteContents ==
    /\ step = "write"
    /\ dot' = new
    /\ step' = "idle"
    /\ Returned(new)
    /\ new' = Absent
    /\ UNCHANGED <<old, link>>

\* Killed, or OSError from open() or write().
CutShort ==
    /\ step # "idle"
    /\ step' = "idle" /\ new' = Absent
    /\ risk' = IF dot = last \/ risk = 2 THEN risk ELSE risk + 1
    /\ UNCHANGED <<files, link, last>>

SaveNext ==
    \/ \E c \in Configs : SaveUnchanged(c) \/ BeginSave(c)
    \/ MoveOld \/ BeginCopy \/ EndCopy \/ BackupFails
    \/ OpenConfig \/ WriteContents \/ CutShort

SaveSpec == SaveInit /\ [][SaveNext]_saveVars

----------------------------------------------------------------------------

SaveTypeOK ==
    /\ dot \in Configs \cup {Absent, Partial}
    /\ old \in Configs \cup {Absent, Partial}
    /\ link \in BOOLEAN
    /\ step \in {"idle", "backup", "copy", "open", "write"}
    /\ new \in Configs \cup {Absent}
    /\ last \in Configs \cup {Absent}
    /\ risk \in 0 .. 2

(***************************************************************************)
(* "a copy of it will be saved to <filename>.old in the same directory     *)
(* before the new configuration is written": one save that is cut short,   *)
(* wherever that happens, does not cost the configuration saved last.  It  *)
(* is in .config or in .config.old until another save begins, unless the   *)
(* backup itself has failed.                                               *)
(***************************************************************************)
LastSaveSurvives ==
    last # Absent /\ (risk = 0 \/ (risk = 1 /\ step = "idle"))
        => last \in {dot, old}
=============================================================================
