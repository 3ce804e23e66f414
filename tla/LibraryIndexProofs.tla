------------------------- MODULE LibraryIndexProofs -------------------------
(***************************************************************************)
(* Proofs about LibraryIndex, for every finite set of files, every         *)
(* capacity of the channel, and any number of writes, deletions, downloads *)
(* and kills.                                                              *)
(*                                                                         *)
(* OneRowPerUrl and TagsSurvive are inductive once the types are known: a  *)
(* transaction decides by the rows it finds, whatever the indexer has read *)
(* before, so that nothing has to be known of stale jobs but their type.   *)
(* What the scans find is inductive with what is left of them (ScansCover).*)
(***************************************************************************)
EXTENDS LibraryIndex, FiniteSetTheorems, TLAPS

RowTypes ==
  /\ real \in [Path -> Row \cup {None}]
  /\ listed \in [Path -> Row \cup {None}]

StampsArePresent == \A p \in Path : real[p] # None => real[p].stamp # 0

PlaceholdersHaveNoFile ==
  \A p \in Path : listed[p] # None =>
    /\ ~listed[p].own /\ listed[p].origin
    /\ ~listed[p].downloaded /\ listed[p].stamp = 0

\* What is left of a scan covers the files that have no row yet, ...
Covers(task) ==
  \A p \in task.clean : Present(p) =>
    \/ p \in task.todo
    \/ task.job # None /\ task.job.path = p /\ task.job.stamp # 0
    \/ Indexed(p)

\* ... and no row that is downloaded is left of a file that is gone.
Settles(task) ==
  \A p \in task.clean : ~Present(p) =>
    /\ ~Indexed(p)
    /\ task.job # None => task.job.path # p

ScansCover ==
  /\ watcher.pc = "working" => Covers(watcher)
  /\ recovery.pc = "working" => Covers(recovery) /\ Settles(recovery)

IInv == TypeOK /\ OneRowPerUrl /\ TagsSurvive /\ ScansCover

-----------------------------------------------------------------------------
(* Rows.                                                                   *)

LEMMA FileRowIsRow == FileRow \in Row
BY BoundsAssumption DEF FileRow, Row, Version, BoundsAssumption

LEMMA PlaceholderIsRow ==
  /\ Placeholder \in Row
  /\ ~Placeholder.own /\ Placeholder.origin /\ ~Placeholder.downloaded
  /\ Placeholder.stamp = 0 /\ ~Placeholder.tags
<1>1. FileRow \in Row /\ FileRow.stamp = 0 /\ ~FileRow.downloaded /\ ~FileRow.tags
  BY FileRowIsRow DEF FileRow
<1> QED
  BY <1>1 DEF Placeholder, Row

\* What a transaction makes of its path: a row of the job's stamp, whose URL is
\* known if either knew it, with the tags of the row and of the placeholder that
\* it takes in.
LEMMA UpsertedRow ==
  ASSUME RowTypes, NEW job \in Jobs
  PROVE  /\ Upserted(job) \in Row
         /\ Upserted(job).stamp = job.stamp
         /\ Upserted(job).origin /\ ~job.origin =>
              real[job.path] # None /\ real[job.path].origin
         /\ real[job.path] # None /\ real[job.path].tags => Upserted(job).tags
         /\ job.origin /\ listed[job.path] # None /\ listed[job.path].tags =>
              Upserted(job).tags
<1>1. /\ job.path \in Path /\ job.stamp \in Version /\ job.origin \in BOOLEAN
  BY DEF Jobs
<1>2. /\ real[job.path] \in Row \cup {None}
      /\ listed[job.path] \in Row \cup {None}
  BY <1>1 DEF RowTypes
<1>3. /\ Target(job) \in Row
      /\ Target(job).origin /\ ~job.origin =>
           real[job.path] # None /\ real[job.path].origin
      /\ real[job.path] # None /\ real[job.path].tags => Target(job).tags
      /\ job.origin /\ listed[job.path] # None /\ listed[job.path].tags =>
           Target(job).tags
  <2>1. CASE job.origin /\ listed[job.path] # None /\ real[job.path] # None
    BY <1>2, <2>1 DEF Target, Merged, Row
  <2>2. CASE job.origin /\ listed[job.path] # None /\ real[job.path] = None
    BY <1>2, <2>2 DEF Target
  <2>3. CASE ~(job.origin /\ listed[job.path] # None) /\ real[job.path] # None
    BY <1>2, <2>3 DEF Target
  <2>4. CASE ~(job.origin /\ listed[job.path] # None) /\ real[job.path] = None
    BY <1>2, <2>4, FileRowIsRow DEF Target, FileRow
  <2> QED
    BY <2>1, <2>2, <2>3, <2>4
<1> QED
  BY <1>1, <1>3 DEF Upserted, Row

-----------------------------------------------------------------------------
(* Tasks.                                                                  *)

LEMMA RestingTask ==
  /\ Resting \in Task /\ Resting.pc = "off" /\ Resting.job = None
  /\ Idle \in Task /\ Idle.pc = "idle" /\ Idle.job = None
  /\ Starting \in Task /\ Starting.pc = "start" /\ Starting.job = None
<1>1. Resting \in Task /\ Resting.pc = "off" /\ Resting.job = None
  BY DEF Resting, Task
<1> QED
  BY <1>1 DEF Idle, Starting, Task

LEMMA ScanTask ==
  /\ Scan \in Task /\ Scan.pc = "working" /\ Scan.job = None
  /\ [Scan EXCEPT !.final = TRUE] \in Task
  /\ [Scan EXCEPT !.final = TRUE].pc = "working"
<1>1. Files \subseteq Path
  BY DEF Files
<1>2. Scan \in Task /\ Scan.pc = "working" /\ Scan.job = None
  BY <1>1, RestingTask DEF Scan, Task
<1> QED
  BY <1>2 DEF Task

LEMMA BatchTask ==
  ASSUME events \subseteq Path
  PROVE  Batch \in Task /\ Batch.pc = "working" /\ Batch.job = None
BY RestingTask DEF Batch, Task

LEMMA UncleanTask ==
  ASSUME NEW work \in Task, NEW p
  PROVE  /\ Unclean(work, p) \in Task
         /\ Unclean(work, p).pc = work.pc
         /\ Unclean(work, p).job = work.job
BY DEF Unclean, Task

LEMMA UncleanResting ==
  ASSUME NEW p
  PROVE  Unclean(Resting, p) = Resting
<1>1. Resting.clean \ {p} = Resting.clean
  BY DEF Resting
<1>2. Unclean(Resting, p) = [Resting EXCEPT !.clean = Resting.clean \ {p}]
  BY DEF Unclean
<1>3. [Resting EXCEPT !.clean = Resting.clean] = Resting
  BY DEF Resting
<1> QED
  BY ONLY <1>1, <1>2, <1>3

LEMMA JobIsJob ==
  ASSUME TypeOK, NEW p \in Path
  PROVE  Job(p) \in Jobs /\ Job(p).path = p /\ Job(p).stamp = disk[p].version
<1>1. disk[p].version \in Version /\ disk[p].sidecar \in BOOLEAN
  BY DEF TypeOK
<1>2. Own(p) \in BOOLEAN \cup {None}
  BY DEF TypeOK, Own, Row
<1> QED
  BY <1>1, <1>2 DEF Job, Jobs

LEMMA TakenTask ==
  ASSUME TypeOK, NEW work \in Task, NEW p \in Path
  PROVE  /\ Taken(work, p) \in Task
         /\ Taken(work, p).pc = work.pc
         /\ Taken(work, p).job \in {None, Job(p)}
BY JobIsJob DEF Taken, Task

LEMMA CommittedTask ==
  ASSUME NEW work \in Task
  PROVE  /\ Committed(work) \in Task
         /\ Committed(work).pc = work.pc
         /\ Committed(work).job = None
         /\ [Committed(work) EXCEPT !.todo = {}, !.clean = {}] \in Task
         /\ [Committed(work) EXCEPT !.todo = {}, !.clean = {}].pc = work.pc
<1>1. /\ Committed(work) \in Task
      /\ Committed(work).pc = work.pc
      /\ Committed(work).job = None
  BY DEF Committed, Task
<1> QED
  BY <1>1 DEF Task

LEMMA AbortedTask ==
  ASSUME NEW work \in Task
  PROVE  /\ Aborted(work) \in Task
         /\ Aborted(work).pc = work.pc
         /\ Aborted(work).job = None
BY DEF Aborted, Task

LEMMA JoblessTask ==
  ASSUME NEW work \in Task
  PROVE  /\ [work EXCEPT !.job = None] \in Task
         /\ [work EXCEPT !.job = None].pc = work.pc
         /\ [work EXCEPT !.job = None].job = None
BY DEF Task

LEMMA FinishedTask ==
  ASSUME NEW work \in Task, NEW p
  PROVE  /\ [work EXCEPT !.todo = @ \ {p}] \in Task
         /\ [work EXCEPT !.todo = @ \ {p}].pc = work.pc
         /\ [work EXCEPT !.todo = @ \ {p}].job = work.job
BY DEF Task

\* The job of a task that has one.
LEMMA TaskHasJob ==
  ASSUME NEW work \in Task, work.job # None
  PROVE  /\ work.job \in Jobs /\ work.job.path \in Path
         /\ work.job.stamp \in Version
BY DEF Task, Jobs

LEMMA Noticed ==
  ASSUME TypeOK, NEW p \in Path, Notify(p)
  PROVE  /\ events' \subseteq Path /\ Cardinality(events') <= Capacity
         /\ run = "off" => events' = events
<1>1. IsFiniteSet(events) /\ Cardinality(events) \in Nat
  BY BoundsAssumption, FS_Subset, FS_CardinalityType DEF TypeOK, BoundsAssumption
<1>2. CASE events' = events
  BY <1>2 DEF TypeOK
<1>3. CASE events' = events \cup {p} /\ run # "off" /\ ~(Cardinality(events) >= Capacity)
  <2>1. Cardinality(events') \in {Cardinality(events), Cardinality(events) + 1}
    BY <1>1, <1>3, FS_AddElement
  <2> QED
    BY <1>1, <1>3, <2>1, BoundsAssumption DEF TypeOK, BoundsAssumption
<1> QED
  BY <1>2, <1>3 DEF Notify

LEMMA CommittedRows ==
  ASSUME TypeOK, NEW job \in Jobs, job.stamp # 0, Commit(job)
  PROVE  RowTypes' /\ StampsArePresent' /\ PlaceholdersHaveNoFile'
<1>1. RowTypes /\ job.path \in Path
  BY DEF TypeOK, RowTypes, Jobs
<1>2. Upserted(job) \in Row /\ Upserted(job).stamp # 0
  BY <1>1, UpsertedRow
<1>3. real' = [real EXCEPT ![job.path] = Upserted(job)]
  BY DEF Commit
<1>4. real' \in [Path -> Row \cup {None}] /\ StampsArePresent'
  BY <1>1, <1>2, <1>3 DEF RowTypes, StampsArePresent, TypeOK
<1>5. \A p \in Path : listed'[p] \in {listed[p], None}
  BY <1>1 DEF Commit, RowTypes
<1>6. listed' \in [Path -> Row \cup {None}]
  BY <1>1 DEF Commit, RowTypes
<1>7. PlaceholdersHaveNoFile'
  BY <1>5 DEF PlaceholdersHaveNoFile, TypeOK
<1> QED
  BY <1>4, <1>6, <1>7 DEF RowTypes

LEMMA MissingRow ==
  ASSUME NEW row \in Row \cup {None}
  PROVE  /\ Missing(row) \in Row \cup {None}
         /\ Missing(row) = None <=> row = None
         /\ row # None => /\ Missing(row).stamp = row.stamp
                          /\ Missing(row).origin = row.origin
                          /\ Missing(row).tags = row.tags
<1>1. CASE row = None
  BY <1>1 DEF Missing
<1>2. CASE row \in Row /\ row # None
  <2>1. /\ [row EXCEPT !.downloaded = FALSE] \in Row
        /\ [row EXCEPT !.downloaded = FALSE].stamp = row.stamp
        /\ [row EXCEPT !.downloaded = FALSE].origin = row.origin
        /\ [row EXCEPT !.downloaded = FALSE].tags = row.tags
    BY <1>2 DEF Row
  <2> QED
    BY <1>2, <2>1, NoneAssumption DEF Missing, NoneAssumption
<1> QED
  BY <1>1, <1>2

LEMMA ReconciledRow ==
  ASSUME TypeOK, NEW p \in Path
  PROVE  /\ Reconciled(p) \in Row \cup {None}
         /\ Reconciled(p) = None <=> real[p] = None
         /\ real[p] # None => /\ Reconciled(p).stamp # 0
                              /\ Reconciled(p).origin = real[p].origin
                              /\ Reconciled(p).tags = real[p].tags
<1>1. real[p] \in Row \cup {None} /\ disk[p].version \in Version
  BY DEF TypeOK
<1>2. CASE real[p] = None
  BY <1>2 DEF Reconciled
<1>3. CASE real[p] # None /\ Present(p)
  <2> DEFINE new == [real[p] EXCEPT !.downloaded = TRUE, !.stamp = disk[p].version]
  <2>1. /\ new \in Row /\ new.stamp = disk[p].version
        /\ new.origin = real[p].origin /\ new.tags = real[p].tags
    BY <1>1, <1>3 DEF Row
  <2>2. Reconciled(p) = new
    BY <1>3 DEF Reconciled
  <2> QED
    BY <1>3, <2>1, <2>2, NoneAssumption DEF NoneAssumption, Present
<1>4. CASE real[p] # None /\ ~Present(p)
  BY <1>1, <1>4, MissingRow DEF Reconciled, TypeOK
<1> QED
  BY <1>2, <1>3, <1>4

LEMMA ListedRow ==
  ASSUME TypeOK, NEW p \in Path
  PROVE  /\ Listed(p) \in Row \cup {None}
         /\ Listed(p) # None => /\ ~Listed(p).own /\ Listed(p).origin
                                /\ ~Listed(p).downloaded /\ Listed(p).stamp = 0
         /\ listed[p] # None => Listed(p) = listed[p]
         /\ real[p] # None /\ real[p].origin => Listed(p) = listed[p]
BY PlaceholderIsRow DEF Listed, TypeOK

LEMMA AnnotatedRow ==
  ASSUME NEW row \in Row
  PROVE  /\ Annotated(row) \in Row /\ Annotated(row) # None
         /\ Annotated(row).own = row.own
         /\ Annotated(row).origin = row.origin
         /\ Annotated(row).downloaded = row.downloaded
         /\ Annotated(row).stamp = row.stamp
         /\ Annotated(row).tags
<1>1. /\ Annotated(row) \in Row
      /\ Annotated(row).own = row.own
      /\ Annotated(row).origin = row.origin
      /\ Annotated(row).downloaded = row.downloaded
      /\ Annotated(row).stamp = row.stamp
      /\ Annotated(row).tags
  BY DEF Annotated, Row
<1> QED
  BY <1>1, NoneAssumption DEF NoneAssumption

-----------------------------------------------------------------------------
(* The type invariant.                                                     *)

LEMMA TypeInit == Init => TypeOK
<1> SUFFICES ASSUME Init PROVE TypeOK
  OBVIOUS
<1>1. 0 \in Version /\ Cardinality({}) <= Capacity
  BY BoundsAssumption, FS_EmptySet DEF Version, BoundsAssumption
<1>2. /\ disk \in [Path -> [version : Version, sidecar : BOOLEAN]]
      /\ count \in [writes : 0..MaxWrites, deletes : 0..MaxDeletes,
                    runs : 0..MaxRuns, kills : 0..MaxKills]
  BY <1>1, BoundsAssumption DEF Init, BoundsAssumption
<1> QED
  BY <1>1, <1>2, RestingTask DEF Init, TypeOK

LEMMA TypeStep ==
  ASSUME TypeOK, Next
  PROVE  TypeOK'
<1> USE DEF tables
<1>1. ASSUME NEW p \in Path, WriteFile(p) PROVE TypeOK'
  <2>1. count'.writes = count.writes + 1 /\ count' \in
          [writes : 0..MaxWrites, deletes : 0..MaxDeletes, runs : 0..MaxRuns,
           kills : 0..MaxKills]
    BY <1>1, BoundsAssumption DEF WriteFile, TypeOK, BoundsAssumption
  <2>2. disk' \in [Path -> [version : Version, sidecar : BOOLEAN]]
    BY <1>1, BoundsAssumption DEF WriteFile, TypeOK, Version, BoundsAssumption
  <2> QED
    BY <1>1, <2>1, <2>2, Noticed, UncleanTask DEF WriteFile, TypeOK, Touched
<1>2. ASSUME NEW p \in Path, WriteSidecar(p) PROVE TypeOK'
  <2>1. disk' \in [Path -> [version : Version, sidecar : BOOLEAN]]
    BY <1>2 DEF WriteSidecar, TypeOK
  <2> QED
    BY <1>2, <2>1, Noticed, UncleanTask DEF WriteSidecar, TypeOK, Touched
<1>3. ASSUME NEW p \in Path, DeleteFile(p) PROVE TypeOK'
  <2>1. count' \in [writes : 0..MaxWrites, deletes : 0..MaxDeletes,
                    runs : 0..MaxRuns, kills : 0..MaxKills]
    BY <1>3, BoundsAssumption DEF DeleteFile, TypeOK, BoundsAssumption
  <2>2. disk' \in [Path -> [version : Version, sidecar : BOOLEAN]]
    BY <1>3, BoundsAssumption DEF DeleteFile, TypeOK, Version, BoundsAssumption
  <2>3. run = "off" => watcher' = Resting /\ events' = {}
    BY <1>3, Noticed, UncleanResting DEF DeleteFile, TypeOK, Touched
  <2> QED
    BY <1>3, <2>1, <2>2, <2>3, Noticed, UncleanTask DEF DeleteFile, TypeOK, Touched
<1>4. ASSUME TakeBatch PROVE TypeOK'
  <2>1. Cardinality({}) <= Capacity
    BY BoundsAssumption, FS_EmptySet DEF BoundsAssumption
  <2> QED
    BY <1>4, <2>1, BatchTask DEF TakeBatch, TypeOK
<1>5. ASSUME ScheduledScan PROVE TypeOK'
  BY <1>5, ScanTask DEF ScheduledScan, TypeOK
<1>6. ASSUME FinalScan PROVE TypeOK'
  BY <1>6, ScanTask DEF FinalScan, TypeOK
<1>7. ASSUME FinalScanRefused PROVE TypeOK'
  <2>1. Cardinality({}) <= Capacity
    BY BoundsAssumption, FS_EmptySet DEF BoundsAssumption
  <2> QED
    BY <1>7, <2>1, RestingTask DEF FinalScanRefused, TypeOK
<1>8. ASSUME NEW p \in Path, WatcherReads(p) PROVE TypeOK'
  <2>1. run # "off"
    BY <1>8, RestingTask DEF WatcherReads, TypeOK
  <2> QED
    BY <1>8, <2>1, TakenTask DEF WatcherReads, TypeOK
<1>9. ASSUME WatcherMarks PROVE TypeOK'
  <2>1. run # "off" /\ watcher.job.path \in Path
    BY <1>9, RestingTask, TaskHasJob DEF WatcherMarks, TypeOK
  <2>2. real' \in [Path -> Row \cup {None}] /\ StampsArePresent'
    BY <1>9, <2>1, MissingRow DEF WatcherMarks, TypeOK, StampsArePresent
  <2>3. watcher' \in Task /\ watcher'.pc = watcher.pc
    BY <1>9, UncleanTask, JoblessTask DEF WatcherMarks, TypeOK
  <2> QED
    BY <1>9, <2>1, <2>2, <2>3, UncleanTask
      DEF WatcherMarks, TypeOK, StampsArePresent
<1>10. ASSUME WatcherCommits PROVE TypeOK'
  <2>1. run # "off" /\ watcher.job \in Jobs
    BY <1>10, RestingTask, TaskHasJob DEF WatcherCommits, TypeOK
  <2>2. RowTypes' /\ StampsArePresent' /\ PlaceholdersHaveNoFile'
    BY <1>10, <2>1, CommittedRows DEF WatcherCommits
  <2>3. watcher' \in Task /\ watcher'.pc = watcher.pc
    <3>1. watcher \in Task
      BY DEF TypeOK
    <3>2. \/ watcher' = Committed(watcher)
          \/ watcher' = [Committed(watcher) EXCEPT !.todo = {}, !.clean = {}]
      BY <1>10 DEF WatcherCommits
    <3> QED
      BY ONLY <3>1, <3>2, CommittedTask
  <2>4. run' \in {"downloading", "finishing"}
    BY <1>10, <2>1 DEF WatcherCommits, TypeOK
  <2> QED
    BY <1>10, <2>2, <2>3, <2>4, UncleanTask
      DEF WatcherCommits, TypeOK, RowTypes, StampsArePresent, PlaceholdersHaveNoFile
<1>11. ASSUME WatcherFails PROVE TypeOK'
  <2>1. run # "off"
    BY <1>11, RestingTask DEF WatcherFails, TypeOK
  <2> QED
    BY <1>11, <2>1, AbortedTask DEF WatcherFails, TypeOK
<1>12. ASSUME WatcherEnds PROVE TypeOK'
  <2>1. run # "off"
    BY <1>12, RestingTask DEF WatcherEnds, TypeOK
  <2>2. Cardinality({}) <= Capacity
    BY BoundsAssumption, FS_EmptySet DEF BoundsAssumption
  <2> QED
    BY <1>12, <2>1, <2>2, RestingTask DEF WatcherEnds, TypeOK
<1>13. ASSUME StartRun PROVE TypeOK'
  <2>1. count' \in [writes : 0..MaxWrites, deletes : 0..MaxDeletes,
                    runs : 0..MaxRuns, kills : 0..MaxKills]
    BY <1>13, BoundsAssumption DEF StartRun, TypeOK, BoundsAssumption
  <2>2. Cardinality({}) <= Capacity
    BY BoundsAssumption, FS_EmptySet DEF BoundsAssumption
  <2> QED
    BY <1>13, <2>1, <2>2, RestingTask DEF StartRun, TypeOK
<1>14. ASSUME ChildExits PROVE TypeOK'
  BY <1>14 DEF ChildExits, TypeOK
<1>15. ASSUME CollectListing PROVE TypeOK'
  BY <1>15 DEF CollectListing, TypeOK
<1>16. ASSUME PersistListing PROVE TypeOK'
  <2>1. listed' \in [Path -> Row \cup {None}] /\ PlaceholdersHaveNoFile'
    BY <1>16, ListedRow DEF PersistListing, PlaceholdersHaveNoFile
  <2> QED
    BY <1>16, <2>1 DEF PersistListing, TypeOK, PlaceholdersHaveNoFile
<1>17. ASSUME Reconcile PROVE TypeOK'
  <2>1. real' \in [Path -> Row \cup {None}] /\ StampsArePresent'
    BY <1>17, ReconciledRow DEF Reconcile, StampsArePresent
  <2> QED
    BY <1>17, <2>1, ScanTask DEF Reconcile, TypeOK, StampsArePresent
<1>18. ASSUME NEW p \in Path, RecoveryReads(p) PROVE TypeOK'
  <2>1. /\ recovery' \in Task /\ recovery'.pc = recovery.pc
        /\ recovery'.job # None => Present(p) /\ recovery'.job = Job(p)
    BY <1>18, TakenTask, FinishedTask DEF RecoveryReads, TypeOK
  <2>2. recovery'.job # None => recovery'.job.stamp # 0
    BY <2>1, JobIsJob DEF Present
  <2> QED
    BY <1>18, <2>1, <2>2 DEF RecoveryReads, TypeOK
<1>19. ASSUME RecoveryCommits PROVE TypeOK'
  <2>1. recovery.job \in Jobs /\ recovery.job.stamp # 0
    BY <1>19, TaskHasJob DEF RecoveryCommits, TypeOK
  <2>2. RowTypes' /\ StampsArePresent' /\ PlaceholdersHaveNoFile'
    BY <1>19, <2>1, CommittedRows DEF RecoveryCommits
  <2> QED
    BY <1>19, <2>2, JoblessTask
      DEF RecoveryCommits, TypeOK, RowTypes, StampsArePresent, PlaceholdersHaveNoFile
<1>20. ASSUME RecoveryFails PROVE TypeOK'
  BY <1>20, AbortedTask DEF RecoveryFails, TypeOK
<1>21. ASSUME RecoveryEnds PROVE TypeOK'
  BY <1>21, RestingTask DEF RecoveryEnds, TypeOK
<1>22. ASSUME NEW p \in Path, ProbeMissing(p) PROVE TypeOK'
  BY <1>22 DEF ProbeMissing, TypeOK
<1>23. ASSUME MarkProbed PROVE TypeOK'
  <2>1. probe \in Path
    BY <1>23 DEF MarkProbed, TypeOK
  <2>2. real' \in [Path -> Row \cup {None}] /\ StampsArePresent'
    BY <1>23, <2>1, MissingRow DEF MarkProbed, TypeOK, StampsArePresent
  <2>3. run = "off" => watcher' = Resting
    BY <1>23, UncleanResting DEF MarkProbed, TypeOK, Touched
  <2> QED
    BY <1>23, <2>2, <2>3, UncleanTask
      DEF MarkProbed, TypeOK, StampsArePresent, Touched
<1>24. ASSUME NEW p \in Path, Annotate(p) PROVE TypeOK'
  <2>1. RowTypes' /\ StampsArePresent' /\ PlaceholdersHaveNoFile'
    <3>1. CASE real[p] # None /\ real' = [real EXCEPT ![p] = Annotated(@)] /\ listed' = listed
      BY <3>1, AnnotatedRow
        DEF TypeOK, RowTypes, StampsArePresent, PlaceholdersHaveNoFile
    <3>2. CASE listed[p] # None /\ listed' = [listed EXCEPT ![p] = Annotated(@)] /\ real' = real
      BY <3>2, AnnotatedRow
        DEF TypeOK, RowTypes, StampsArePresent, PlaceholdersHaveNoFile
    <3> QED
      BY <1>24, <3>1, <3>2 DEF Annotate
  <2> QED
    BY <1>24, <2>1
      DEF Annotate, TypeOK, RowTypes, StampsArePresent, PlaceholdersHaveNoFile
<1>25. ASSUME Kill PROVE TypeOK'
  <2>1. count' \in [writes : 0..MaxWrites, deletes : 0..MaxDeletes,
                    runs : 0..MaxRuns, kills : 0..MaxKills]
    BY <1>25, BoundsAssumption DEF Kill, TypeOK, BoundsAssumption
  <2>2. Cardinality({}) <= Capacity
    BY BoundsAssumption, FS_EmptySet DEF BoundsAssumption
  <2> QED
    BY <1>25, <2>1, <2>2, RestingTask DEF Kill, TypeOK
<1> QED
  BY <1>1, <1>2, <1>3, <1>4, <1>5, <1>6, <1>7, <1>8, <1>9, <1>10, <1>11, <1>12,
     <1>13, <1>14, <1>15, <1>16, <1>17, <1>18, <1>19, <1>20, <1>21, <1>22,
     <1>23, <1>24, <1>25 DEF Next

-----------------------------------------------------------------------------
(* The rows of a path, by the kinds of steps that there are.               *)

\* Every step that changes a row is a mark of a missing file, a transaction of
\* index_file, the listing, the reconciliation or the user's.
MarksMissing(p) ==
  /\ real' = [real EXCEPT ![p] = Missing(@)]
  /\ UNCHANGED <<listed, annotated>>

Indexes(job) ==
  /\ Commit(job)
  /\ UNCHANGED annotated

LEMMA RowSteps ==
  ASSUME TypeOK, Next
  PROVE  \/ UNCHANGED <<real, listed, annotated>>
         \/ \E p \in Path : MarksMissing(p)
         \/ \E job \in Jobs : Indexes(job)
         \/ PersistListing
         \/ Reconcile
         \/ \E p \in Path : Annotate(p)
<1>1. ASSUME NEW p \in Path,
             \/ WriteFile(p) \/ WriteSidecar(p) \/ DeleteFile(p)
             \/ WatcherReads(p) \/ RecoveryReads(p) \/ ProbeMissing(p)
      PROVE  UNCHANGED <<real, listed, annotated>>
  BY <1>1 DEF WriteFile, WriteSidecar, DeleteFile, WatcherReads, RecoveryReads,
              ProbeMissing, tables
<1>2. ASSUME \/ TakeBatch \/ ScheduledScan \/ FinalScan \/ FinalScanRefused
             \/ WatcherFails \/ WatcherEnds \/ StartRun \/ ChildExits
             \/ CollectListing \/ RecoveryFails \/ RecoveryEnds \/ Kill
      PROVE  UNCHANGED <<real, listed, annotated>>
  BY <1>2 DEF TakeBatch, ScheduledScan, FinalScan, FinalScanRefused,
              WatcherFails, WatcherEnds, StartRun, ChildExits, CollectListing,
              RecoveryFails, RecoveryEnds, Kill, tables
<1>3. ASSUME WatcherMarks
      PROVE  \E p \in Path : MarksMissing(p)
  BY <1>3, TaskHasJob DEF WatcherMarks, MarksMissing, TypeOK
<1>4. ASSUME MarkProbed
      PROVE  \E p \in Path : MarksMissing(p)
  BY <1>4 DEF MarkProbed, MarksMissing, TypeOK
<1>5. ASSUME WatcherCommits \/ RecoveryCommits
      PROVE  \E job \in Jobs : Indexes(job)
  BY <1>5, TaskHasJob DEF WatcherCommits, RecoveryCommits, Indexes, TypeOK
<1> QED
  BY <1>1, <1>2, <1>3, <1>4, <1>5 DEF Next

LEMMA UniqueStep ==
  ASSUME TypeOK, OneRowPerUrl, Next
  PROVE  OneRowPerUrl'
<1>1. CASE UNCHANGED <<real, listed, annotated>>
  BY <1>1 DEF OneRowPerUrl
<1>2. ASSUME NEW q \in Path, MarksMissing(q) PROVE OneRowPerUrl'
  BY <1>2, MissingRow DEF MarksMissing, OneRowPerUrl, TypeOK
<1>3. ASSUME NEW job \in Jobs, Indexes(job) PROVE OneRowPerUrl'
  <2>1. RowTypes /\ job.path \in Path /\ job.origin \in BOOLEAN
    BY DEF TypeOK, RowTypes, Jobs
  <2>2. CASE job.origin
    BY <1>3, <2>1, <2>2 DEF Indexes, Commit, OneRowPerUrl, RowTypes
  <2>3. CASE ~job.origin
    <3>1. Upserted(job).origin => real[job.path] # None /\ real[job.path].origin
      BY <2>1, <2>3, UpsertedRow
    <3> QED
      BY <1>3, <2>1, <2>3, <3>1 DEF Indexes, Commit, OneRowPerUrl, RowTypes
  <2> QED
    BY <2>1, <2>2, <2>3
<1>4. CASE PersistListing
  BY <1>4, ListedRow DEF PersistListing, OneRowPerUrl
<1>5. CASE Reconcile
  BY <1>5, ReconciledRow DEF Reconcile, OneRowPerUrl
<1>6. ASSUME NEW q \in Path, Annotate(q) PROVE OneRowPerUrl'
  BY <1>6, AnnotatedRow DEF Annotate, OneRowPerUrl, TypeOK
<1> QED
  BY <1>1, <1>2, <1>3, <1>4, <1>5, <1>6, RowSteps

LEMMA TagsStep ==
  ASSUME TypeOK, TagsSurvive, Next
  PROVE  TagsSurvive'
<1> DEFINE Tagged(p) == \/ real[p] # None /\ real[p].tags
                        \/ listed[p] # None /\ listed[p].tags
<1>1. CASE UNCHANGED <<real, listed, annotated>>
  BY <1>1 DEF TagsSurvive
<1>2. ASSUME NEW q \in Path, MarksMissing(q) PROVE TagsSurvive'
  BY <1>2, MissingRow DEF MarksMissing, TagsSurvive, TypeOK
<1>3. ASSUME NEW job \in Jobs, Indexes(job) PROVE TagsSurvive'
  <2>1. RowTypes /\ job.path \in Path
    BY DEF TypeOK, RowTypes, Jobs
  <2>2. /\ Upserted(job) # None
        /\ real[job.path] # None /\ real[job.path].tags => Upserted(job).tags
        /\ job.origin /\ listed[job.path] # None /\ listed[job.path].tags =>
             Upserted(job).tags
    BY <2>1, UpsertedRow, NoneAssumption DEF NoneAssumption
  <2>3. ASSUME NEW p \in Path, Tagged(p) PROVE Tagged(p)'
    <3>1. CASE p # job.path
      BY <1>3, <2>1, <2>3, <3>1 DEF Indexes, Commit, RowTypes
    <3>2. CASE p = job.path
      BY <1>3, <2>1, <2>2, <2>3, <3>2 DEF Indexes, Commit, RowTypes
    <3> QED
      BY <3>1, <3>2
  <2> QED
    BY <1>3, <2>3 DEF Indexes, TagsSurvive, TypeOK
<1>4. CASE PersistListing
  BY <1>4, ListedRow DEF PersistListing, TagsSurvive, TypeOK
<1>5. CASE Reconcile
  BY <1>5, ReconciledRow DEF Reconcile, TagsSurvive, TypeOK
<1>6. ASSUME NEW q \in Path, Annotate(q) PROVE TagsSurvive'
  BY <1>6, AnnotatedRow DEF Annotate, TagsSurvive, TypeOK
<1> QED
  BY <1>1, <1>2, <1>3, <1>4, <1>5, <1>6, RowSteps

-----------------------------------------------------------------------------
(* Scans.                                                                  *)

LEMMA UncleanFields ==
  ASSUME NEW work \in Task, NEW p
  PROVE  /\ Unclean(work, p).clean = work.clean \ {p}
         /\ Unclean(work, p).todo = work.todo
         /\ Unclean(work, p).job = work.job
         /\ Unclean(work, p).pc = work.pc
BY DEF Unclean, Task

LEMMA TakenFields ==
  ASSUME NEW work \in Task, NEW p \in Path
  PROVE  /\ Taken(work, p).clean = work.clean
         /\ Taken(work, p).todo = work.todo \ {p}
         /\ Taken(work, p).pc = work.pc
         /\ Present(p) /\ Current(p) => Taken(work, p).job = None
         /\ ~(Present(p) /\ Current(p)) => Taken(work, p).job = Job(p)
BY DEF Taken, Task

LEMMA JoblessFields ==
  ASSUME NEW work \in Task
  PROVE  /\ [work EXCEPT !.job = None].clean = work.clean
         /\ [work EXCEPT !.job = None].todo = work.todo
         /\ [work EXCEPT !.job = None].job = None
         /\ [work EXCEPT !.job = None].pc = work.pc
BY DEF Task

\* After its transaction the row of a path has a file, and no other row has
\* changed.
LEMMA CommitIndexes ==
  ASSUME TypeOK, NEW job \in Jobs, Commit(job)
  PROVE  /\ job.path \in Path
         /\ real'[job.path] # None /\ real'[job.path].downloaded
         /\ \A q \in Path : q # job.path => real'[q] = real[q]
<1>1. job.path \in Path /\ RowTypes
  BY DEF Jobs, TypeOK, RowTypes
<1>2. Upserted(job) \in Row /\ Upserted(job) # None
  BY <1>1, UpsertedRow, NoneAssumption DEF NoneAssumption
<1>3. Target(job) \in Row
  BY <1>1, FileRowIsRow DEF Target, Merged, RowTypes, Row
<1>4. Upserted(job).downloaded
  BY <1>3 DEF Upserted, Row
<1> QED
  BY <1>1, <1>2, <1>4 DEF Commit, RowTypes

LEMMA ReconciledIndexes ==
  ASSUME TypeOK, NEW p \in Path
  PROVE  ~Present(p) => Reconciled(p) = None \/ ~Reconciled(p).downloaded
<1>1. real[p] \in Row \cup {None}
  BY DEF TypeOK
<1> QED
  BY <1>1 DEF Reconciled, Missing, Row

LEMMA ScansStep ==
  ASSUME TypeOK, ScansCover, Next
  PROVE  ScansCover'
<1> USE DEF tables
<1>0. /\ watcher \in Task /\ recovery \in Task
      /\ watcher.clean \subseteq Path /\ recovery.clean \subseteq Path
      /\ real \in [Path -> Row \cup {None}]
      /\ disk \in [Path -> [version : Version, sidecar : BOOLEAN]]
  BY DEF TypeOK, Task
<1> DEFINE Same == UNCHANGED <<disk, real>>
<1>1. CASE Same /\ UNCHANGED <<watcher, recovery>>
  BY <1>1 DEF ScansCover, Covers, Settles, Present, Indexed
<1>2. ASSUME NEW p \in Path, WriteFile(p) \/ WriteSidecar(p) \/ DeleteFile(p)
      PROVE  ScansCover'
  <2>1. /\ watcher' = Unclean(watcher, p) /\ recovery' = Unclean(recovery, p)
        /\ real' = real /\ \A q \in Path : q # p => disk'[q] = disk[q]
    BY <1>0, <1>2 DEF WriteFile, WriteSidecar, DeleteFile, Touched
  <2> QED
    BY <1>0, <2>1, UncleanFields DEF ScansCover, Covers, Settles, Present, Indexed
<1>3. CASE MarkProbed
  <2>1. /\ watcher' = Unclean(watcher, probe) /\ recovery' = Unclean(recovery, probe)
        /\ disk' = disk /\ \A q \in Path : q # probe => real'[q] = real[q]
    BY <1>0, <1>3 DEF MarkProbed, Touched
  <2> QED
    BY <1>0, <2>1, UncleanFields DEF ScansCover, Covers, Settles, Present, Indexed
<1>4. ASSUME NEW p \in Path, Annotate(p) PROVE ScansCover'
  <2>1. \A q \in Path : Indexed(q)' = Indexed(q)
    BY <1>0, <1>4, AnnotatedRow DEF Annotate, Indexed
  <2> QED
    BY <1>0, <1>4, <2>1 DEF Annotate, ScansCover, Covers, Settles, Present
<1>5. CASE TakeBatch
  BY <1>5, RestingTask DEF TakeBatch, Batch, Resting, ScansCover, Covers, Settles, Present, Indexed
<1>6. CASE ScheduledScan \/ FinalScan
  <2>1. /\ watcher'.todo = Files /\ Same /\ recovery' = recovery
        /\ watcher'.clean = Path
    BY <1>6 DEF ScheduledScan, FinalScan, Scan, Resting
  <2> QED
    BY <2>1 DEF ScansCover, Covers, Settles, Files, Present, Indexed
<1>7. CASE FinalScanRefused \/ WatcherEnds \/ StartRun
  <2>1. watcher'.pc # "working" /\ Same /\ recovery' = recovery
    BY <1>7, RestingTask DEF FinalScanRefused, WatcherEnds, StartRun
  <2> QED
    BY <2>1 DEF ScansCover, Covers, Settles, Present, Indexed
<1>8. CASE Kill
  BY <1>8, RestingTask DEF Kill, ScansCover
<1>9. ASSUME NEW p \in Path, WatcherReads(p) PROVE ScansCover'
  <2>1. /\ Same /\ recovery' = recovery /\ watcher.pc = "working"
        /\ watcher'.todo = watcher.todo \ {p} /\ watcher'.clean = watcher.clean
        /\ watcher.job = None
        /\ watcher'.job = IF Present(p) /\ Current(p) THEN None ELSE Job(p)
    BY <1>0, <1>9, TakenFields DEF WatcherReads
  <2>2. Present(p) => Job(p).path = p /\ Job(p).stamp # 0 /\ Job(p) # None
    BY JobIsJob, NoneAssumption DEF NoneAssumption, Present
  <2>3. Current(p) => Indexed(p)
    BY DEF Current, Indexed
  <2> QED
    BY <1>0, <2>1, <2>2, <2>3 DEF ScansCover, Covers, Settles, Present, Indexed
<1>10. CASE WatcherMarks
  <2>1. watcher.job # None /\ watcher.job.path \in Path /\ watcher.job.stamp = 0
    BY <1>0, <1>10, TaskHasJob DEF WatcherMarks
  <2>2. /\ disk' = disk /\ recovery' = Unclean(recovery, watcher.job.path)
        /\ \A q \in Path : q # watcher.job.path => real'[q] = real[q]
        /\ watcher'.todo = watcher.todo /\ watcher'.job = None
        /\ watcher'.clean = watcher.clean \ {watcher.job.path}
        /\ watcher'.pc = watcher.pc
    BY <1>0, <1>10, <2>1, UncleanFields, UncleanTask, JoblessFields DEF WatcherMarks
  <2> QED
    BY <1>0, <2>1, <2>2, UncleanFields DEF ScansCover, Covers, Settles, Present, Indexed
<1>11. CASE WatcherCommits
  <2>1. watcher.job \in Jobs /\ watcher.job.path \in Path
    BY <1>0, <1>11, TaskHasJob DEF WatcherCommits
  <2>2. /\ real'[watcher.job.path] # None /\ real'[watcher.job.path].downloaded
        /\ \A q \in Path : q # watcher.job.path => real'[q] = real[q]
    BY <1>11, <2>1, CommitIndexes DEF WatcherCommits
  <2>3. /\ disk' = disk /\ recovery' = Unclean(recovery, watcher.job.path)
        /\ watcher'.pc = watcher.pc
        /\ \/ watcher'.clean = {}
           \/ /\ watcher'.clean = watcher.clean /\ watcher'.job = None
              /\ watcher'.todo = watcher.todo
    BY <1>0, <1>11 DEF WatcherCommits, Committed, Task
  <2> QED
    BY <1>0, <2>1, <2>2, <2>3, UncleanFields
      DEF ScansCover, Covers, Settles, Present, Indexed
<1>12. CASE WatcherFails
  <2>1. Same /\ recovery' = recovery /\ watcher'.clean = {}
    BY <1>0, <1>12 DEF WatcherFails, Aborted, Task
  <2> QED
    BY <2>1 DEF ScansCover, Covers, Settles, Present, Indexed
<1>13. CASE Reconcile
  <2>1. /\ disk' = disk /\ watcher' = watcher
        /\ recovery'.todo = Files /\ recovery'.job = None /\ recovery'.clean = Path
    BY <1>13 DEF Reconcile, Scan, Resting
  <2>2. \A p \in Path : ~Present(p) => ~Indexed(p)'
    BY <1>13, ReconciledIndexes DEF Reconcile, Indexed
  <2>3. \A p \in Path : Present(p) /\ Indexed(p) => Indexed(p)'
    <3>1. ASSUME NEW p \in Path, Present(p), Indexed(p) PROVE Indexed(p)'
      <4>1. Reconciled(p) = [real[p] EXCEPT !.downloaded = TRUE, !.stamp = disk[p].version]
        BY <3>1 DEF Reconciled, Indexed
      <4>2. Reconciled(p) # None /\ Reconciled(p).downloaded
        BY <1>0, <3>1, <4>1, ReconciledRow DEF Indexed, Row
      <4> QED
        BY <1>13, <4>2 DEF Reconcile, Indexed
    <3> QED
      BY <3>1
  <2> QED
    BY <1>0, <2>1, <2>2, <2>3 DEF ScansCover, Covers, Settles, Files, Present
<1>14. ASSUME NEW p \in Path, RecoveryReads(p) PROVE ScansCover'
  <2>1. /\ Same /\ watcher' = watcher /\ recovery.pc = "working"
        /\ recovery'.todo = recovery.todo \ {p} /\ recovery'.clean = recovery.clean
        /\ recovery.job = None
        /\ recovery'.job = IF Present(p) /\ ~Current(p) THEN Job(p) ELSE None
    <3>1. CASE Present(p)
      BY <1>0, <1>14, <3>1, TakenFields DEF RecoveryReads
    <3>2. CASE ~Present(p)
      BY <1>0, <1>14, <3>2 DEF RecoveryReads, Task
    <3> QED
      BY <3>1, <3>2
  <2>2. Present(p) => Job(p).path = p /\ Job(p).stamp # 0 /\ Job(p) # None
    BY JobIsJob, NoneAssumption DEF NoneAssumption, Present
  <2>3. Current(p) => Indexed(p)
    BY DEF Current, Indexed
  <2> QED
    BY <1>0, <2>1, <2>2, <2>3 DEF ScansCover, Covers, Settles, Present, Indexed
<1>15. CASE RecoveryCommits
  <2>1. recovery.job \in Jobs /\ recovery.job.path \in Path /\ recovery.job # None
    BY <1>0, <1>15, TaskHasJob DEF RecoveryCommits
  <2>2. /\ real'[recovery.job.path] # None /\ real'[recovery.job.path].downloaded
        /\ \A q \in Path : q # recovery.job.path => real'[q] = real[q]
    BY <1>15, <2>1, CommitIndexes DEF RecoveryCommits
  <2>3. /\ disk' = disk /\ watcher' = watcher
        /\ recovery'.pc = recovery.pc /\ recovery'.clean = recovery.clean
        /\ recovery'.job = None /\ recovery'.todo = recovery.todo
    BY <1>0, <1>15, JoblessFields DEF RecoveryCommits
  <2> QED
    BY <1>0, <2>1, <2>2, <2>3 DEF ScansCover, Covers, Settles, Present, Indexed
<1>16. CASE RecoveryFails
  <2>1. Same /\ watcher' = watcher /\ recovery'.clean = {}
    BY <1>0, <1>16 DEF RecoveryFails, Aborted, Task
  <2> QED
    BY <2>1 DEF ScansCover, Covers, Settles, Present, Indexed
<1>17. CASE RecoveryEnds
  BY <1>17, RestingTask DEF RecoveryEnds, ScansCover, Covers, Settles, Present, Indexed
<1> QED
  BY <1>1, <1>2, <1>3, <1>4, <1>5, <1>6, <1>7, <1>8, <1>9, <1>10, <1>11, <1>12,
     <1>13, <1>14, <1>15, <1>16, <1>17
    DEF Next, ChildExits, CollectListing, PersistListing, ProbeMissing

-----------------------------------------------------------------------------
(* The theorems.                                                           *)

LEMMA InvariantInit == Init => IInv
<1>1. Init => OneRowPerUrl /\ TagsSurvive /\ ScansCover
  BY RestingTask DEF Init, OneRowPerUrl, TagsSurvive, ScansCover
<1> QED
  BY <1>1, TypeInit DEF IInv

LEMMA InvariantStep == IInv /\ [Next]_vars => IInv'
<1> SUFFICES ASSUME IInv, [Next]_vars PROVE IInv'
  OBVIOUS
<1>1. CASE Next
  BY <1>1, TypeStep, UniqueStep, TagsStep, ScansStep DEF IInv
<1>2. CASE UNCHANGED vars
  BY <1>2 DEF vars, tables, IInv, TypeOK, OneRowPerUrl, TagsSurvive, ScansCover,
    Covers, Settles, Present, Indexed, Resting
<1> QED
  BY <1>1, <1>2

LEMMA InvariantHolds == Spec => []IInv
BY InvariantInit, InvariantStep, PTL DEF Spec

\* Placeholders never have files, rows with paths always have had one, and the
\* consumer rests when no download runs.
THEOREM TypeCorrect == Spec => []TypeOK
<1>1. IInv => TypeOK
  BY DEF IInv
<1> QED
  BY <1>1, InvariantHolds, PTL

\* However the consumer, the recovery, the listing and the user's requests
\* interleave, and whatever they had read before, no remote URL has two rows.
THEOREM RowsAreUnique == Spec => []OneRowPerUrl
<1>1. IInv => OneRowPerUrl
  BY DEF IInv
<1> QED
  BY <1>1, InvariantHolds, PTL

\* No interleaving, deletion or kill loses the user's tags.
THEOREM TagsAreKept == Spec => []TagsSurvive
<1>1. IInv => TagsSurvive
  BY DEF IInv
<1> QED
  BY <1>1, InvariantHolds, PTL

\* A scan that ends without an error has seen to every file that stayed as it
\* was, whatever the channel, the gate or a kill lost before.
THEOREM ScansAreComplete == Spec => []ScanIndexesAll
<1>1. IInv => ScanIndexesAll
  BY DEF IInv, ScansCover, Covers, ScanIndexesAll, Ending, Files
<1> QED
  BY <1>1, InvariantHolds, PTL

\* And after the recovery the rows agree with the disk in both directions.
THEOREM RecoveryReconciles == Spec => []RecoveryAgreesWithDisk
<1>1. IInv => RecoveryAgreesWithDisk
  <2> SUFFICES ASSUME IInv, Ending(recovery), NEW p \in recovery.clean
               PROVE  Indexed(p) = Present(p)
    BY DEF RecoveryAgreesWithDisk
  <2>1. /\ Present(p) => Indexed(p)
        /\ ~Present(p) => ~Indexed(p)
    BY DEF IInv, ScansCover, Covers, Settles, Ending
  <2>2. p \in Path /\ Indexed(p) \in BOOLEAN /\ Present(p) \in BOOLEAN
    BY DEF IInv, TypeOK, Task, Row, Indexed, Present
  <2> QED
    BY <2>1, <2>2
<1> QED
  BY <1>1, InvariantHolds, PTL

=============================================================================
