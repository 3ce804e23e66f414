---------------------------- MODULE LibraryIndex ----------------------------
(***************************************************************************)
(* How the files of one source become rows of the library                  *)
(* (src/downloader.rs, src/media_files.rs, src/lib.rs,                     *)
(* src/routes/library.rs).                                                 *)
(*                                                                         *)
(* While gallery-dl writes files and their sidecars, one consumer indexes  *)
(* batches of file system events, scheduled scans and a final scan.  After *)
(* a start of the process a recovery reconciles the rows with the files    *)
(* and scans as well, possibly beside a download.  A listing made ahead of *)
(* the download inserts placeholders, and a request for a file that is     *)
(* gone marks its row.  All of them read first and write later.            *)
(*                                                                         *)
(* Every path has one remote URL of its own.  At most two rows belong to   *)
(* it: the one with the path, and a placeholder that still has a name of   *)
(* its own and the URL.  Sidecars carry the URL; a file may come first.    *)
(* A path's .part file, its media type and its sidecar's other contents    *)
(* are left out, and so is what a row says of classification.              *)
(*                                                                         *)
(* The maintenance gate may refuse any lease.  An operator introduced by   *)
(* "Fault:" is a variant of the definition after it with a bug that a      *)
(* property must catch.                                                    *)
(***************************************************************************)
EXTENDS Naturals, FiniteSets

CONSTANTS
  Path,       \* the files the source may have
  Capacity,   \* events the watcher's channel holds
  Limit,      \* files the source's quota allows, all of one size
  MaxWrites,  \* bound: files written
  MaxDeletes, \* bound: files deleted
  MaxRuns,    \* bound: downloads of the source
  MaxKills,   \* bound: kills of the process
  None        \* no row, no job, no probe

ASSUME BoundsAssumption ==
  /\ IsFiniteSet(Path)
  /\ Capacity \in Nat \ {0}
  /\ Limit \in Nat \ {0}
  /\ MaxWrites \in Nat
  /\ MaxDeletes \in Nat
  /\ MaxRuns \in Nat
  /\ MaxKills \in Nat

VARIABLES
  disk,      \* disk[p]: the version of the file (0: none) and its sidecar
  real,      \* real[p]: the row whose path is p
  listed,    \* listed[p]: the placeholder of p's URL
  run,       \* the download
  events,    \* paths in the watcher's channel
  watcher,   \* the consumer of the download
  recovery,  \* the recovery after a start of the process
  probe,     \* the path a request found absent, or None
  listing,   \* how far the listing ahead of the download is
  count,     \* writes, deletions, runs and kills so far
  annotated  \* history: the path whose file the user has rated and tagged

tables == <<real, listed>>
vars   == <<disk, real, listed, run, events, watcher, recovery, probe,
            listing, count, annotated>>

Version == 0..MaxWrites
Present(p) == disk[p].version # 0
Files == {p \in Path : Present(p)}
OverLimit == Cardinality(Files) > Limit

-----------------------------------------------------------------------------
(* Rows. *)

(* own: the row was made for the file, not for the listing.                *)
Row ==
  [own : BOOLEAN, origin : BOOLEAN, downloaded : BOOLEAN, stamp : Version,
   human : BOOLEAN, tags : BOOLEAN]

FileRow == [own |-> TRUE, origin |-> FALSE, downloaded |-> FALSE, stamp |-> 0,
            human |-> FALSE, tags |-> FALSE]

Placeholder == [FileRow EXCEPT !.own = FALSE, !.origin = TRUE]

(* mark_missing, and the statements like it: WHERE downloaded=1.  A row    *)
(* with a path is either downloaded or missing.                            *)
Missing(row) == IF row = None THEN None ELSE [row EXCEPT !.downloaded = FALSE]

(* Fault: the tags of the row that is deleted go with it. *)
MergedWithoutTags(row, placeholder) == placeholder

(* The placeholder takes the tags of the row that is deleted.  Its column  *)
(* human_rating is left as it is.                                          *)
Merged(row, placeholder) ==
  [placeholder EXCEPT !.tags = @ \/ row.tags]

(* What index_file makes of path p, of which it has read a stamp, whether  *)
(* the sidecar had a URL and whose row was there.                          *)

(* No row had the path, and now both a row and a placeholder are in the    *)
(* way of the insertion.                                                   *)
Fails(job) ==
  /\ job.origin
  /\ job.existing = None
  /\ real[job.path] # None
  /\ listed[job.path] # None

(* The row was merged by another meanwhile.  It is now its own placeholder *)
(* and the ratings that are copied from the one that is gone are NULL.     *)
(* The copy is an error unless the row has ratings already.                *)
MayFail(job) ==
  /\ job.origin
  /\ job.existing # None
  /\ real[job.path] # None
  /\ real[job.path].own # job.existing

Outcomes(job) ==
  IF Fails(job) THEN {"error"}
  ELSE IF MayFail(job) THEN {"error", "ok"} ELSE {"ok"}

Target(job) ==
  LET row         == real[job.path]
      placeholder == listed[job.path]
  IN  IF job.origin /\ placeholder # None
      THEN IF row # None THEN Merged(row, placeholder) ELSE placeholder
      ELSE IF row # None THEN row ELSE FileRow

Upserted(job) ==
  [Target(job) EXCEPT !.origin = @ \/ job.origin, !.downloaded = TRUE,
                      !.stamp = job.stamp]

-----------------------------------------------------------------------------
(* The files, and the events of the watcher. *)

(* A full channel loses the event: that is logged at the next scan.        *)
Notify(p) ==
  events' = IF run = "off" \/ Cardinality(events) >= Capacity THEN events
            ELSE events \cup {p}

(* A scan that is going on need not have seen p as it is now. *)
Unclean(task, p) == [task EXCEPT !.clean = @ \ {p}]

Touched(p) ==
  /\ watcher'  = Unclean(watcher, p)
  /\ recovery' = Unclean(recovery, p)

WriteFile(p) ==
  /\ run = "downloading"
  /\ count.writes < MaxWrites
  /\ disk' = [disk EXCEPT ![p].version = count.writes + 1]
  /\ count' = [count EXCEPT !.writes = @ + 1]
  /\ Notify(p)
  /\ Touched(p)
  /\ UNCHANGED <<tables, run, probe, listing, annotated>>

WriteSidecar(p) ==
  /\ run = "downloading"
  /\ Present(p)
  /\ ~disk[p].sidecar
  /\ disk' = [disk EXCEPT ![p].sidecar = TRUE]
  /\ Notify(p)
  /\ Touched(p)
  /\ UNCHANGED <<tables, run, probe, listing, count, annotated>>

(* By the user, with its sidecar. *)
DeleteFile(p) ==
  /\ Present(p)
  /\ count.deletes < MaxDeletes
  /\ count' = [count EXCEPT !.deletes = @ + 1]
  /\ disk' = [disk EXCEPT ![p] = [version |-> 0, sidecar |-> FALSE]]
  /\ Notify(p)
  /\ Touched(p)
  /\ UNCHANGED <<tables, run, probe, listing, annotated>>

-----------------------------------------------------------------------------
(* index_file, by the watcher's consumer and by the recovery. *)

Resting == [pc |-> "off", todo |-> {}, job |-> None, clean |-> {},
            final |-> FALSE, indexed |-> FALSE]

(* Fault: a row with the same stamp is current although it is missing. *)
CurrentByStamp(p) ==
  /\ real[p] # None
  /\ real[p].stamp = disk[p].version
  /\ disk[p].sidecar => real[p].origin

Current(p) ==
  /\ real[p] # None
  /\ real[p].stamp = disk[p].version
  /\ real[p].downloaded
  /\ disk[p].sidecar => real[p].origin

Own(p) == IF real[p] = None THEN None ELSE real[p].own

Job(p) ==
  [path |-> p, stamp |-> disk[p].version, origin |-> disk[p].sidecar,
   existing |-> IF disk[p].sidecar THEN Own(p) ELSE None]

(* The next path of the batch or scan, up to the start of the transaction. *)
(* Of an absent one only the watcher takes note.                           *)
Taken(task, p) ==
  [task EXCEPT !.todo = @ \ {p},
               !.job = IF Present(p) /\ Current(p) THEN None ELSE Job(p)]

(* The transaction.  A statement that fails ends the batch or the scan.    *)
Commit(job) ==
  /\ real' = [real EXCEPT ![job.path] = Upserted(job)]
  /\ listed' = IF job.origin THEN [listed EXCEPT ![job.path] = None] ELSE listed

Committed(task) == [task EXCEPT !.job = None, !.indexed = TRUE]
Aborted(task) ==
  [task EXCEPT !.job = None, !.todo = {}, !.clean = {}, !.indexed = FALSE]

-----------------------------------------------------------------------------
(* The watcher's consumer: index_download. *)

Batch == [Resting EXCEPT !.pc = "working", !.todo = events]
Scan  == [Resting EXCEPT !.pc = "working", !.todo = Files, !.clean = Path]

Idle == [Resting EXCEPT !.pc = "idle"]

(* A batch is taken from the channel before the lease; without one it is   *)
(* gone.                                                                   *)
TakeBatch ==
  /\ watcher.pc = "idle"
  /\ events # {}
  /\ \/ watcher' = Batch
     \/ UNCHANGED watcher
  /\ events' = {}
  /\ UNCHANGED <<disk, tables, run, recovery, probe, listing, count, annotated>>

ScheduledScan ==
  /\ watcher.pc = "idle"
  /\ run # "off"
  /\ watcher' = Scan
  /\ UNCHANGED <<disk, tables, run, events, recovery, probe, listing, count,
                 annotated>>

FinalScan ==
  /\ watcher.pc = "idle"
  /\ run = "finishing"
  /\ watcher' = [Scan EXCEPT !.final = TRUE]
  /\ UNCHANGED <<disk, tables, run, events, recovery, probe, listing, count,
                 annotated>>

(* Without a lease there is no final scan. *)
FinalScanRefused ==
  /\ watcher.pc = "idle"
  /\ run = "finishing"
  /\ watcher' = Resting
  /\ run' = "off"
  /\ events' = {}
  /\ UNCHANGED <<disk, tables, recovery, probe, listing, count, annotated>>

WatcherReads(p) ==
  /\ watcher.pc = "working"
  /\ watcher.job = None
  /\ p \in watcher.todo
  /\ watcher' = Taken(watcher, p)
  /\ UNCHANGED <<disk, tables, run, events, recovery, probe, listing, count,
                 annotated>>

(* The file was absent when it was looked for. *)
WatcherMarks ==
  /\ watcher.job # None
  /\ watcher.job.stamp = 0
  /\ real' = [real EXCEPT ![watcher.job.path] = Missing(@)]
  /\ watcher' = [Unclean(watcher, watcher.job.path) EXCEPT !.job = None]
  /\ recovery' = Unclean(recovery, watcher.job.path)
  /\ UNCHANGED <<disk, listed, run, events, probe, listing, count, annotated>>

(* active_sync_pause follows each file that was indexed: over the limit    *)
(* the rest of the batch is left and the download is stopped.              *)
WatcherCommits ==
  /\ watcher.job # None
  /\ watcher.job.stamp # 0
  /\ "ok" \in Outcomes(watcher.job)
  /\ Commit(watcher.job)
  /\ IF OverLimit
     THEN /\ watcher' = [Committed(watcher) EXCEPT !.todo = {}, !.clean = {}]
          /\ run' = IF run = "downloading" THEN "finishing" ELSE run
     ELSE /\ watcher' = Committed(watcher)
          /\ UNCHANGED run
  /\ recovery' = Unclean(recovery, watcher.job.path)
  /\ UNCHANGED <<disk, events, probe, listing, count, annotated>>

WatcherFails ==
  /\ watcher.job # None
  /\ watcher.job.stamp # 0
  /\ "error" \in Outcomes(watcher.job)
  /\ watcher' = Aborted(watcher)
  /\ UNCHANGED <<disk, tables, run, events, recovery, probe, listing, count,
                 annotated>>

(* pause_after_active_storage_limit looks once more after a batch that     *)
(* indexed something.                                                      *)
WatcherEnds ==
  /\ watcher.pc = "working"
  /\ watcher.job = None
  /\ watcher.todo = {}
  /\ IF watcher.final
     THEN watcher' = Resting /\ run' = "off" /\ events' = {}
     ELSE /\ watcher' = Idle
          /\ run' = IF watcher.indexed /\ OverLimit
                    THEN "finishing" ELSE run
          /\ UNCHANGED events
  /\ UNCHANGED <<disk, tables, recovery, probe, listing, count, annotated>>

-----------------------------------------------------------------------------
(* The download. *)

(* source_sync_admission: a source that is full is not started.            *)
StartRun ==
  /\ run = "off"
  /\ count.runs < MaxRuns
  /\ Cardinality(Files) < Limit
  /\ run' = "downloading"
  /\ watcher' = Idle
  /\ events' = {}
  /\ count' = [count EXCEPT !.runs = @ + 1]
  /\ UNCHANGED <<disk, tables, recovery, probe, listing, annotated>>

ChildExits ==
  /\ run = "downloading"
  /\ run' = "finishing"
  /\ UNCHANGED <<disk, tables, events, watcher, recovery, probe, listing,
                 count, annotated>>

(* populate_placeholders: not for a source with files of unknown URL.      *)
CollectListing ==
  /\ run = "downloading"
  /\ listing = "no"
  /\ \A p \in Path : real[p] # None /\ real[p].downloaded => real[p].origin
  /\ listing' = "collected"
  /\ UNCHANGED <<disk, tables, run, events, watcher, recovery, probe, count,
                 annotated>>

(* Fault: the URL of a file that was indexed gets a placeholder again. *)
ListedNow(p) == IF listed[p] = None THEN Placeholder ELSE listed[p]

(* A URL that has a row keeps it; the others get placeholders. *)
Listed(p) ==
  IF listed[p] = None /\ ~(real[p] # None /\ real[p].origin)
  THEN Placeholder ELSE listed[p]

PersistListing ==
  /\ listing = "collected"
  /\ listing' = "done"
  /\ listed' = [p \in Path |-> Listed(p)]
  /\ UNCHANGED <<disk, real, run, events, watcher, recovery, probe, count,
                 annotated>>

-----------------------------------------------------------------------------
(* The recovery after a start. *)

Starting == [Resting EXCEPT !.pc = "start"]

(* Fault: a file that is gone leaves its row as it is. *)
ReconciledPresent(p) ==
  IF real[p] # None /\ Present(p) /\ ~Current(p)
  THEN [real[p] EXCEPT !.downloaded = TRUE, !.stamp = disk[p].version]
  ELSE real[p]

Reconciled(p) ==
  IF real[p] = None THEN None
  ELSE IF Present(p)
       THEN [real[p] EXCEPT !.downloaded = TRUE, !.stamp = disk[p].version]
       ELSE Missing(real[p])

(* reconcile_cancellable looks at the file of every row; scan_and_index    *)
(* then at every file.  The rows of a batch are selected just before its   *)
(* transaction: as one step.                                               *)
Reconcile ==
  /\ recovery.pc = "start"
  /\ real' = [p \in Path |-> Reconciled(p)]
  /\ recovery' = Scan
  /\ UNCHANGED <<disk, listed, run, events, watcher, probe, listing, count,
                 annotated>>

RecoveryReads(p) ==
  /\ recovery.pc = "working"
  /\ recovery.job = None
  /\ p \in recovery.todo
  /\ recovery' = IF Present(p) THEN Taken(recovery, p)
                 ELSE [recovery EXCEPT !.todo = @ \ {p}]
  /\ UNCHANGED <<disk, tables, run, events, watcher, probe, listing, count,
                 annotated>>

RecoveryCommits ==
  /\ recovery.job # None
  /\ "ok" \in Outcomes(recovery.job)
  /\ Commit(recovery.job)
  /\ recovery' = [recovery EXCEPT !.job = None]
  /\ UNCHANGED <<disk, run, events, watcher, probe, listing, count, annotated>>

RecoveryFails ==
  /\ recovery.job # None
  /\ "error" \in Outcomes(recovery.job)
  /\ recovery' = Aborted(recovery)
  /\ UNCHANGED <<disk, tables, run, events, watcher, probe, listing, count,
                 annotated>>

RecoveryEnds ==
  /\ recovery.pc = "working"
  /\ recovery.job = None
  /\ recovery.todo = {}
  /\ recovery' = Resting
  /\ UNCHANGED <<disk, tables, run, events, watcher, probe, listing, count,
                 annotated>>

-----------------------------------------------------------------------------
(* Requests, the user, and kills. *)

(* reconcile_not_found: the file is looked for, *)
ProbeMissing(p) ==
  /\ probe = None
  /\ real[p] # None
  /\ ~Present(p)
  /\ probe' = p
  /\ UNCHANGED <<disk, tables, run, events, watcher, recovery, listing, count,
                 annotated>>

(* and its row is marked. *)
MarkProbed ==
  /\ probe # None
  /\ real' = [real EXCEPT ![probe] = Missing(@)]
  /\ probe' = None
  /\ Touched(probe)
  /\ UNCHANGED <<disk, listed, run, events, listing, count, annotated>>

(* The user rates and tags what the library shows of p. *)
Annotated(row) == [row EXCEPT !.human = TRUE, !.tags = TRUE]

Annotate(p) ==
  /\ annotated = None
  /\ \/ /\ real[p] # None
        /\ real' = [real EXCEPT ![p] = Annotated(@)]
        /\ UNCHANGED listed
     \/ /\ listed[p] # None
        /\ listed' = [listed EXCEPT ![p] = Annotated(@)]
        /\ UNCHANGED real
  /\ annotated' = p
  /\ UNCHANGED <<disk, run, events, watcher, recovery, probe, listing, count>>

(* What was only in memory is gone; the next process recovers.             *)
Kill ==
  /\ count.kills < MaxKills
  /\ run' = "off"
  /\ events' = {}
  /\ watcher' = Resting
  /\ recovery' = Starting
  /\ probe' = None
  /\ listing' = IF listing = "collected" THEN "done" ELSE listing
  /\ count' = [count EXCEPT !.kills = @ + 1]
  /\ UNCHANGED <<disk, tables, annotated>>

-----------------------------------------------------------------------------

Init ==
  /\ disk = [p \in Path |-> [version |-> 0, sidecar |-> FALSE]]
  /\ real = [p \in Path |-> None]
  /\ listed = [p \in Path |-> None]
  /\ run = "off"
  /\ events = {}
  /\ watcher = Resting
  /\ recovery = Resting
  /\ probe = None
  /\ listing = "no"
  /\ count = [writes |-> 0, deletes |-> 0, runs |-> 0, kills |-> 0]
  /\ annotated = None

Next ==
  \/ \E p \in Path :
       \/ WriteFile(p) \/ WriteSidecar(p) \/ DeleteFile(p)
       \/ WatcherReads(p) \/ RecoveryReads(p)
       \/ ProbeMissing(p) \/ Annotate(p)
  \/ TakeBatch \/ ScheduledScan \/ FinalScan \/ FinalScanRefused
  \/ WatcherMarks \/ WatcherCommits \/ WatcherFails \/ WatcherEnds
  \/ StartRun \/ ChildExits \/ CollectListing \/ PersistListing
  \/ Reconcile \/ RecoveryCommits \/ RecoveryFails \/ RecoveryEnds
  \/ MarkProbed \/ Kill

Spec == Init /\ [][Next]_vars

-----------------------------------------------------------------------------
(* Properties. *)

Jobs ==
  [path : Path, stamp : Version, origin : BOOLEAN,
   existing : BOOLEAN \cup {None}]

Task ==
  [pc : {"off", "idle", "start", "working"}, todo : SUBSET Path,
   job : Jobs \cup {None}, clean : SUBSET Path, final : BOOLEAN,
   indexed : BOOLEAN]

ASSUME NoneAssumption == None \notin Path \cup Row \cup Jobs

(* Types; a placeholder has never had a file, a row with a path has; only  *)
(* the consumer of a download works, and the recovery has no work of an    *)
(* absent file.                                                            *)
TypeOK ==
  /\ disk \in [Path -> [version : Version, sidecar : BOOLEAN]]
  /\ real \in [Path -> Row \cup {None}]
  /\ listed \in [Path -> Row \cup {None}]
  /\ run \in {"off", "downloading", "finishing"}
  /\ events \subseteq Path /\ Cardinality(events) <= Capacity
  /\ watcher \in Task /\ watcher.pc # "start"
  /\ recovery \in Task /\ recovery.pc # "idle"
  /\ probe \in Path \cup {None}
  /\ listing \in {"no", "collected", "done"}
  /\ count \in [writes : 0..MaxWrites, deletes : 0..MaxDeletes,
                runs : 0..MaxRuns, kills : 0..MaxKills]
  /\ annotated \in Path \cup {None}
  /\ \A p \in Path :
       /\ real[p] # None => real[p].stamp # 0
       /\ listed[p] # None =>
            /\ ~listed[p].own /\ listed[p].origin
            /\ ~listed[p].downloaded /\ listed[p].stamp = 0
  /\ run = "off" => watcher = Resting /\ events = {}
  /\ recovery.job # None => recovery.job.stamp # 0

(* No two rows have the same URL or the same path: the row of a path with  *)
(* a known URL has taken the place of its placeholder, whoever merged them *)
(* and whatever they had read before.                                      *)
OneRowPerUrl ==
  \A p \in Path : real[p] # None /\ real[p].origin => listed[p] = None

(* Tags of the user stay, on the row of the path or on its placeholder,    *)
(* through merges, deletions, kills and files that come back (index_file:  *)
(* "retaining the placeholder ID, ratings and both tag sets").             *)
TagsSurvive ==
  annotated # None =>
    \/ real[annotated] # None /\ real[annotated].tags
    \/ listed[annotated] # None /\ listed[annotated].tags

(* The same of the user's rating.                                          *)
HumanRatingSurvives ==
  annotated # None =>
    \/ real[annotated] # None /\ real[annotated].human
    \/ listed[annotated] # None /\ listed[annotated].human

(* A whole scan makes up for whatever was lost before it (events in a full *)
(* channel, batches without a lease, marks that came too late, a kill):    *)
(* when it ends without an error, every file that did not change meanwhile *)
(* has a row that says downloaded.                                         *)
Ending(task) ==
  /\ task.pc = "working"
  /\ task.todo = {}
  /\ task.job = None

Indexed(p) == real[p] # None /\ real[p].downloaded

ScanIndexesAll ==
  Ending(watcher) => \A p \in watcher.clean \cap Files : Indexed(p)

(* The recovery after a start moreover finds the files that went away      *)
(* while nobody watched.                                                   *)
RecoveryAgreesWithDisk ==
  Ending(recovery) => \A p \in recovery.clean : Indexed(p) = Present(p)

=============================================================================
