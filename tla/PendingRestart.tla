---------------------------- MODULE PendingRestart ----------------------------
(***************************************************************************)
(* The files of a restore or a factory reset (src/maintenance.rs): a job   *)
(* of the running host stages replacements and writes a marker;            *)
(* apply_pending_restart moves them into place before SQLite opens, and    *)
(* moves everything back when a step fails.                                *)
(*                                                                         *)
(* Every operation on a file is a step of its own.  The process may be     *)
(* killed between any two of them, and every operation may fail; with      *)
(* RollbackFails so may the renames of the rollback, whose result the code *)
(* ignores.  The files survive, the progress of apply_pending_restart does *)
(* not.                                                                    *)
(*                                                                         *)
(* The content of a file is the library it belongs to.  A file that is     *)
(* created and not yet written in full is Torn.                            *)
(*                                                                         *)
(* An operator introduced by "Fault:" is a variant of the definition after *)
(* it with a bug that a property must catch.                               *)
(***************************************************************************)
EXTENDS Naturals

CONSTANTS
  Original,     \* the library before the first restore or reset
  Backup,       \* the backups that can be restored
  Partial,      \* the backups made while settings.json did not exist
  Factory,      \* the library of a factory reset
  Absent,       \* there is no such file
  Torn,         \* an incomplete file
  RollbackFails,  \* whether a rename that undoes another one may fail
  MaxStagings   \* bound: stagings between two restarts that apply one

ASSUME LibrariesAssumption ==
  /\ Partial \subseteq Backup
  /\ Absent \notin Backup \cup {Original, Factory, Torn}
  /\ RollbackFails \in BOOLEAN

Sidecar == {"wal", "shm"}
Data    == {"db", "settings", "config"}
File    == Data \cup Sidecar
Content == Backup \cup {Original, Factory, Absent, Torn}

Operation == {"restore", "factory_reset"}

VARIABLES
  live,       \* live[f]: the file the program uses
  rollback,   \* rollback[f]: the .pre-maintenance file
  staged,     \* staged[o][f]: the .restore-pending or .reset-pending file
  marker,     \* the pending-restart file: none, torn or an operation
  pc,         \* what the process does; "down" when there is none
  file,       \* the file it is at
  source,     \* what a staging job copies from
  replaced,   \* the files of the local replacements
  retired,    \* the files moved to rollback (had_live, moved)
  (* History: not in the program. *)
  lastRun,    \* the data files when the library was last opened
  intended,   \* the data files after the restart that is pending
  before,     \* live and staged files when apply_pending_restart began
  stagings    \* stagings begun since a restart applied one

fileVars    == <<live, rollback, staged, marker>>
applyVars   == <<replaced, retired, before>>
pastVars    == <<lastRun, intended, stagings>>
restartVars == <<fileVars, applyVars, pastVars, pc, file, source>>

Applying == {"clear", "retire", "install"}
Undoing  == {"undo_staged", "undo_live"}
Staging  == {"stage_create", "stage_copy", "marker_create", "marker_write"}

DataOf(files) == [f \in Data |-> files[f]]

RestartInit ==
  /\ live = [f \in File |-> IF f \in Data THEN Original ELSE Absent]
  /\ rollback = [f \in File |-> Absent]
  /\ staged = [o \in Operation |-> [f \in Data |-> Absent]]
  /\ marker = "none"
  /\ pc = "down"
  /\ file = "end"
  /\ source = Original
  /\ replaced = {} /\ retired = {}
  /\ lastRun = DataOf(live) /\ intended = DataOf(live)
  /\ before = [live |-> live, staged |-> staged]
  /\ stagings = 0

-----------------------------------------------------------------------------
(* The running host: stage_restore, stage_factory_reset, write_pending.    *)

SourceOperation(s) == IF s \in Backup THEN "restore" ELSE "factory_reset"

\* The entries of a backup, or the files a reset prepares.
Holds(s, f) ==
  CASE f = "db"       -> TRUE
    [] f = "settings" -> s \notin Partial
    [] f = "config"   -> s \in Backup

\* The first file after f that s holds.
NextEntry(s, f) ==
  IF f = "db" /\ Holds(s, "settings") THEN "settings"
  ELSE IF f # "config" /\ Holds(s, "config") THEN "config"
  ELSE "end"

BeginStaging(s) ==
  /\ pc = "running"
  /\ stagings < MaxStagings
  /\ stagings' = stagings + 1
  /\ source' = s
  /\ file' = "db"
  /\ pc' = "stage_create"
  /\ UNCHANGED <<fileVars, applyVars, lastRun, intended>>

CreateStaged ==
  /\ pc = "stage_create"
  /\ staged' = [staged EXCEPT ![SourceOperation(source)][file] = Torn]
  /\ pc' = "stage_copy"
  /\ UNCHANGED <<live, rollback, marker, applyVars, pastVars, file, source>>

CopyStaged ==
  /\ pc = "stage_copy"
  /\ staged' = [staged EXCEPT ![SourceOperation(source)][file] = source]
  /\ file' = NextEntry(source, file)
  /\ pc' = IF file' = "end" THEN "marker_create" ELSE "stage_create"
  /\ UNCHANGED <<live, rollback, marker, applyVars, pastVars, source>>

CreateMarker ==
  /\ pc = "marker_create"
  /\ marker' = "torn"
  /\ pc' = "marker_write"
  /\ UNCHANGED <<live, rollback, staged, applyVars, pastVars, file, source>>

\* What the library will be when the operation on s has been applied.
Outcome(s) == [f \in Data |-> IF Holds(s, f) THEN s ELSE lastRun[f]]

\* Fault: the marker names an operation apply_pending_restart does not know.
WriteMarkerUnknown ==
  /\ pc = "marker_write"
  /\ marker' = "reset"
  /\ intended' = Outcome(source)
  /\ pc' = "running"
  /\ UNCHANGED <<live, rollback, staged, applyVars, lastRun, stagings, file, source>>

WriteMarker ==
  /\ pc = "marker_write"
  /\ marker' = SourceOperation(source)
  /\ intended' = Outcome(source)
  /\ pc' = "running"
  /\ UNCHANGED <<live, rollback, staged, applyVars, lastRun, stagings, file, source>>

\* An error ends the job and leaves the staged files as they are.
FailStaging ==
  /\ pc \in Staging
  /\ pc' = "running"
  /\ UNCHANGED <<fileVars, applyVars, pastVars, file, source>>

-----------------------------------------------------------------------------
(* apply_pending_restart.                                                  *)

\* The marker can be read and its database is staged.
Pending == marker \in Operation /\ staged[marker]["db"] # Absent

\* Fault: a start that finds no staged database ignores the marker.
StartIgnoresMissing ==
  /\ pc = "down"
  /\ pc' = IF Pending THEN "clear" ELSE "opening"
  /\ before' = [live |-> live, staged |-> staged]
  /\ file' = "db"
  /\ replaced' = {} /\ retired' = {}
  /\ UNCHANGED <<fileVars, pastVars, source>>

\* Without a marker there is nothing to do.  A start that cannot read the
\* marker, or does not find the staged database, fails without a change.
Start ==
  /\ pc = "down"
  /\ pc' = IF marker = "none" THEN "opening"
           ELSE IF Pending THEN "clear" ELSE "failed"
  /\ before' = [live |-> live, staged |-> staged]
  /\ file' = "db"
  /\ replaced' = {} /\ retired' = {}
  /\ UNCHANGED <<fileVars, pastVars, source>>

\* Fault: the write-ahead log stays beside the new database.
AfterWithoutSidecars(f) ==
  CASE f = "db" -> "settings" [] f = "wal" -> "settings" [] f = "shm" -> "settings"
    [] f = "settings" -> "config" [] OTHER -> "end"

After(f) ==
  CASE f = "db" -> "wal" [] f = "wal" -> "shm" [] f = "shm" -> "settings"
    [] f = "settings" -> "config" [] OTHER -> "end"

\* The database and its sidecars always, the others when they are staged;
\* a reset keeps the configuration.
Applies(f) ==
  \/ f \in Sidecar \cup {"db"}
  \/ f \in Data /\ staged[marker][f] # Absent /\ (f = "config" => marker = "restore")

Skip ==
  /\ pc = "clear" /\ file \in Data
  /\ ~Applies(file)
  /\ file' = After(file)
  /\ UNCHANGED <<fileVars, applyVars, pastVars, pc, source>>

\* remove_if_exists of an old rollback file; a failure is ignored.
ClearRollback ==
  /\ pc = "clear" /\ file \in File
  /\ Applies(file)
  /\ \E left \in {Absent, rollback[file]} :
       rollback' = [rollback EXCEPT ![file] = left]
  /\ pc' = "retire"
  /\ UNCHANGED <<live, staged, marker, applyVars, pastVars, file, source>>

\* The live file becomes the rollback file.  That is all for a sidecar.
RetireLive ==
  /\ pc = "retire"
  /\ IF live[file] = Absent
     THEN UNCHANGED <<live, rollback, retired>>
     ELSE /\ rollback' = [rollback EXCEPT ![file] = live[file]]
          /\ live' = [live EXCEPT ![file] = Absent]
          /\ retired' = retired \cup {file}
  /\ IF file \in Sidecar
     THEN pc' = "clear" /\ file' = After(file)
     ELSE pc' = "install" /\ UNCHANGED file
  /\ UNCHANGED <<staged, marker, replaced, before, pastVars, source>>

InstallStaged ==
  /\ pc = "install"
  /\ live' = [live EXCEPT ![file] = staged[marker][file]]
  /\ staged' = [staged EXCEPT ![marker][file] = Absent]
  /\ replaced' = replaced \cup {file}
  /\ file' = After(file)
  /\ pc' = "clear"
  /\ UNCHANGED <<rollback, marker, retired, before, pastVars, source>>

\* A failed rename, or a failed create_dir_all, begins the rollback.
FailBeforeRename ==
  /\ pc \in {"clear", "retire"} /\ file \in File
  /\ Applies(file)
  /\ pc' = "undo_staged"
  /\ file' = "config"
  /\ UNCHANGED <<fileVars, applyVars, pastVars, source>>

\* replace_with_rollback undoes its own first rename when the second fails.
FailInstall ==
  /\ pc = "install"
  /\ \/ /\ file \in retired
        /\ live' = [live EXCEPT ![file] = rollback[file]]
        /\ rollback' = [rollback EXCEPT ![file] = Absent]
     \/ /\ file \in retired => RollbackFails
        /\ UNCHANGED <<live, rollback>>
  /\ retired' = retired \ {file}
  /\ pc' = "undo_staged"
  /\ file' = "config"
  /\ UNCHANGED <<staged, marker, replaced, before, pastVars, source>>

\* Fault: rollback_sidecar is not called.
BeforeWithoutSidecars(f) ==
  CASE f = "config" -> "settings" [] f = "settings" -> "db"
    [] OTHER -> "end"

\* The order of the rollback: replacements in reverse, then the sidecars.
Before(f) ==
  CASE f = "config" -> "settings" [] f = "settings" -> "db" [] f = "db" -> "shm"
    [] f = "shm" -> "wal" [] OTHER -> "end"

\* rollback_replacement, first half: the new file returns to where it was
\* staged.  Failures are ignored here and in the second half.
UndoStaged ==
  /\ pc = "undo_staged" /\ file \in File
  /\ pc' = "undo_live"
  /\ \/ /\ file \in replaced /\ live[file] # Absent
        /\ live' = [live EXCEPT ![file] = Absent]
        /\ staged' = IF staged[marker][file] # Absent THEN staged
                     ELSE [staged EXCEPT ![marker][file] = live[file]]
     \/ /\ file \in replaced /\ live[file] # Absent => RollbackFails
        /\ UNCHANGED <<live, staged>>
  /\ UNCHANGED <<rollback, marker, replaced, retired, before, pastVars, file, source>>

\* Second half, and rollback_sidecar: the old file returns.
UndoLive ==
  /\ pc = "undo_live"
  /\ \/ /\ file \in retired /\ rollback[file] # Absent
        /\ live' = [live EXCEPT ![file] = rollback[file]]
        /\ rollback' = [rollback EXCEPT ![file] = Absent]
     \/ /\ file \in retired /\ rollback[file] # Absent => RollbackFails
        /\ UNCHANGED <<live, rollback>>
  /\ file' = Before(file)
  /\ pc' = IF file' = "end" THEN "failed" ELSE "undo_staged"
  /\ UNCHANGED <<staged, marker, replaced, retired, before, pastVars, source>>

BeginCommit ==
  /\ pc = "clear" /\ file = "end"
  /\ pc' = "commit"
  /\ file' = "db"
  /\ UNCHANGED <<fileVars, applyVars, pastVars, source>>

RemoveRollback ==
  /\ pc = "commit" /\ file \in File
  /\ \E left \in {Absent, rollback[file]} :
       /\ file \notin replaced \cup Sidecar => left = rollback[file]
       /\ rollback' = [rollback EXCEPT ![file] = left]
  /\ file' = After(file)
  /\ UNCHANGED <<live, staged, marker, applyVars, pastVars, pc, source>>

\* The marker goes last.
RemoveMarker ==
  /\ pc = "commit" /\ file = "end"
  /\ \/ marker' = "none" /\ stagings' = 0
     \/ UNCHANGED <<marker, stagings>>
  /\ pc' = "opening"
  /\ UNCHANGED <<live, rollback, staged, applyVars, lastRun, intended, file, source>>

\* The rest of a start: SQLite opens the database and creates its sidecars.
OpenLibrary ==
  /\ pc = "opening"
  /\ live' = [f \in File |-> IF f \in Sidecar THEN live["db"] ELSE live[f]]
  /\ lastRun' = DataOf(live)
  /\ intended' = DataOf(live)
  /\ pc' = "running"
  /\ UNCHANGED <<rollback, staged, marker, applyVars, stagings, file, source>>

\* A clean shutdown checkpoints the log and removes the sidecars.
ShutDown ==
  /\ pc = "running"
  /\ live' = [f \in File |-> IF f \in Sidecar THEN Absent ELSE live[f]]
  /\ pc' = "down"
  /\ UNCHANGED <<rollback, staged, marker, applyVars, pastVars, file, source>>

\* The process is killed, or ends because its start failed.
Crash ==
  /\ pc # "down"
  /\ pc' = "down"
  /\ UNCHANGED <<fileVars, applyVars, pastVars, file, source>>

-----------------------------------------------------------------------------
RestartNext ==
  \/ \E s \in Backup \cup {Factory} : BeginStaging(s)
  \/ CreateStaged \/ CopyStaged \/ CreateMarker \/ WriteMarker \/ FailStaging
  \/ Start \/ Skip \/ ClearRollback \/ RetireLive \/ InstallStaged
  \/ FailBeforeRename \/ FailInstall \/ UndoStaged \/ UndoLive
  \/ BeginCommit \/ RemoveRollback \/ RemoveMarker
  \/ OpenLibrary \/ ShutDown \/ Crash

RestartSpec == RestartInit /\ [][RestartNext]_restartVars

-----------------------------------------------------------------------------
(* Properties.                                                             *)

\* Every file has a content, and the marker an operation that a start knows.
RestartTypeOK ==
  /\ live \in [File -> Content]
  /\ rollback \in [File -> Content]
  /\ staged \in [Operation -> [Data -> Content]]
  /\ marker \in Operation \cup {"none", "torn"}
  /\ pc \in Applying \cup Undoing \cup Staging
              \cup {"down", "commit", "opening", "running", "failed"}
  /\ file \in File \cup {"end"}
  /\ source \in Backup \cup {Original, Factory}
  /\ replaced \subseteq Data /\ retired \subseteq File

\* A database is never opened with the write-ahead log of another one, which
\* SQLite would replay into it.
SidecarsMatch ==
  pc \in {"opening", "running"} =>
    \A f \in Sidecar : live[f] \in {Absent, live["db"]}

\* A start that fails with an error has put every file back where it found it,
\* so the next start can try again.
FailedStartIsUndone ==
  pc = "failed" => [live |-> live, staged |-> staged] = before

\* The database the host last ran with is live or beside it, as the rollback
\* file, until every replacement has succeeded.
OriginalIsRetained ==
  pc \in Applying \cup Undoing =>
    lastRun["db"] \in {live["db"], rollback["db"]}

\* The host opens the library it last ran with, or the whole library of the
\* staged operation, never a mixture, an incomplete file or no database,
\* wherever starts and stagings were killed or failed.
AllOrNothing ==
  pc = "opening" => DataOf(live) \in {lastRun, intended}

\* "A staged restore/reset is reversible until every replacement has succeeded,
\* so an interrupted restart never silently leaves a half-restored database
\* behind" (maintenance.rs:766-768): both halves of the sentence, for any
\* number of stagings and interrupted starts.
RestartIsReversible == OriginalIsRetained /\ AllOrNothing
=============================================================================
