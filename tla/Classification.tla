--------------------------- MODULE Classification ---------------------------
(***************************************************************************)
(* How files get their automatic rating (src/nsfw.rs, src/duration.rs),    *)
(* beside indexing, clean-up and the user (src/downloader.rs,              *)
(* src/media_files.rs, src/storage.rs, src/services/media.rs).             *)
(*                                                                         *)
(* One loop selects rows, claims them one by one, has the classifier's     *)
(* worker process look at the file and stores the verdict.  It holds a     *)
(* lease of the maintenance gate from before the claim until after the     *)
(* verdict.  A supervisor keeps the worker process; another loop probes    *)
(* the duration of videos.  Meanwhile files are replaced, deleted and      *)
(* indexed again, a retention rule removes files that nobody has rated,    *)
(* the user rates and takes ratings back, a statement of the loops may     *)
(* fail, which they ignore, and the process may be killed at any point.    *)
(*                                                                         *)
(* Versions stand for the contents of a file; a verdict, a duration and a  *)
(* stamp are the version they were taken from, 0 for none.  The P-HAR      *)
(* worker is the same supervisor over again: its answer is one step.       *)
(* Indexing, ratings and the retention rule report a statement that fails: *)
(* it is as if they had not come to it.  An operator introduced by         *)
(* "Fault:" is a variant of the definition after it with a bug that a      *)
(* property must catch.                                                    *)
(***************************************************************************)
EXTENDS Naturals, FiniteSets

CONSTANTS
  Image, Video,  \* the media
  Tries,         \* attempts at a version of a file (3 in the code)
  MaxVersion,    \* bound: versions of a file
  MaxChanges,    \* bound: files written, deleted or offered to the clean-up
  MaxFaults,     \* bound: kills of the process and statements that fail
  None           \* no media

ASSUME ClassificationAssumption ==
  /\ Image \cap Video = {}
  /\ None \notin Image \cup Video
  /\ Tries \in Nat \ {0}
  /\ MaxVersion \in Nat \ {0}
  /\ MaxChanges \in Nat
  /\ MaxFaults \in Nat

Media   == Image \cup Video
Version == 0..MaxVersion

VARIABLES
  disk,     \* disk[m]: the version of the file, 0: none
  written,  \* written[m]: the last version of it
  row,      \* the rows of the media
  loop,     \* the classification loop
  worker,   \* what the supervisor does with the worker process
  probe,    \* the duration probe: the media and the version it looked at
  cleanup,  \* the clean-up: its candidates, and the one whose file is removed
  count,    \* changes of files, and faults, so far
  raced,    \* history: media indexed again while somebody worked on them
  cut       \* history: media of whose last attempt not all was stored

history == <<raced, cut>>
vars == <<disk, written, row, loop, worker, probe, cleanup, count, history>>

Present(m) == disk[m] # 0

-----------------------------------------------------------------------------
(* Rows. *)

Row ==
  [downloaded : BOOLEAN, stamp : Version, state : {"pending", "working",
     "done", "failed", "manual_review", "missing"}, attempts : 0..Tries,
   retry : {"due", "later", "never"}, verdict : Version, duration : Version,
   probed : BOOLEAN, auto : BOOLEAN, human : BOOLEAN, shown : {"none", "auto", "human"}]

Missing(r) ==
  IF r.downloaded THEN [r EXCEPT !.downloaded = FALSE, !.state = "missing"]
  ELSE r

(* Fault: only the attempts are reset. *)
IndexedKeepsState(r, v) ==
  [r EXCEPT !.downloaded = TRUE, !.stamp = v, !.attempts = 0, !.retry = "due",
            !.probed = FALSE, !.duration = 0]

(* The upserts of index_file and of reconcile_cancellable.  (A file that   *)
(* comes back as it was keeps its duration in the former.)                 *)
Indexed(r, v) ==
  [r EXCEPT !.downloaded = TRUE, !.stamp = v, !.state = "pending",
            !.attempts = 0, !.retry = "due", !.verdict = 0, !.probed = FALSE,
            !.duration = 0]

(* fetch_pending_batch *)
Selected(r) ==
  /\ r.downloaded
  /\ r.state \in {"pending", "working"}
  /\ r.retry = "due"
  /\ r.attempts < Tries

(* claim *)
Claimable(r) ==
  /\ r.downloaded
  /\ r.state \in {"pending", "working"}
  /\ r.retry = "due"

Claimed(r) ==
  [r EXCEPT !.state = "working", !.retry = "later", !.attempts = @ + 1]

(* Fault: the verdict is shown although the user has rated. *)
JudgedOverHuman(r, v) ==
  IF r.downloaded
  THEN [r EXCEPT !.verdict = v, !.state = "done", !.auto = TRUE, !.shown = "auto"]
  ELSE r

(* persist_nudenet, persist_video_nudenet, persist_action *)
Judged(r, v) ==
  IF r.downloaded
  THEN [r EXCEPT !.verdict = v, !.state = "done", !.auto = TRUE,
                 !.shown = IF r.human THEN "human" ELSE "auto"]
  ELSE r

(* mark_manual_review *)
Reviewed(r) ==
  IF r.downloaded
  THEN [r EXCEPT !.state = "manual_review", !.retry = "never"]
  ELSE r

(* Fault: the last attempt is one attempt too late. *)
RetriedOnceMore(r) ==
  [r EXCEPT !.state = IF r.attempts > Tries THEN "failed" ELSE "pending",
            !.retry = "later"]

(* After an error of the worker; whatever has become of the row.           *)
Retried(r) ==
  [r EXCEPT !.state = IF r.attempts >= Tries THEN "failed" ELSE "pending",
            !.retry = "later"]

Store(m, r) == row' = [row EXCEPT ![m] = r]

-----------------------------------------------------------------------------
(* Files, indexing, and the user. *)

(* Somebody is between reading m and storing what came of it.              *)
InUse(m) == (loop.cur = m /\ loop.seen # 0) \/ probe.media = m

Changes ==
  /\ count.changes < MaxChanges
  /\ count' = [count EXCEPT !.changes = @ + 1]

Fault ==
  /\ count.faults < MaxFaults
  /\ count' = [count EXCEPT !.faults = @ + 1]

Write(m) ==
  /\ written[m] < MaxVersion
  /\ Changes
  /\ written' = [written EXCEPT ![m] = @ + 1]
  /\ disk' = [disk EXCEPT ![m] = written[m] + 1]
  /\ UNCHANGED <<row, loop, worker, probe, cleanup, history>>

Delete(m) ==
  /\ Present(m)
  /\ Changes
  /\ disk' = [disk EXCEPT ![m] = 0]
  /\ UNCHANGED <<written, row, loop, worker, probe, cleanup, history>>

(* Whoever indexes: a watcher, a scan or the recovery after a start.       *)
Index(m) ==
  /\ \/ /\ Present(m)
        /\ ~row[m].downloaded \/ row[m].stamp # disk[m]
        /\ LET new == Indexed(row[m], disk[m])
           IN  \/ /\ Store(m, new)
                  /\ raced' = IF InUse(m) THEN raced \cup {m} ELSE raced \ {m}
               \/ /\ row[m].stamp = disk[m]
                  /\ Store(m, [new EXCEPT !.duration = row[m].duration])
                  /\ raced' = IF InUse(m) THEN raced \cup {m} ELSE raced
        /\ cut' = cut \ {m}
     \/ /\ ~Present(m)
        /\ row[m].downloaded
        /\ Store(m, Missing(row[m]))
        /\ UNCHANGED <<raced, cut>>
  /\ UNCHANGED <<disk, written, loop, worker, probe, cleanup, count>>

(* review and rate_many *)
Rate(m) ==
  /\ ~row[m].human
  /\ Store(m, [row[m] EXCEPT !.human = TRUE, !.shown = "human"])
  /\ UNCHANGED <<disk, written, loop, worker, probe, cleanup, count, history>>

(* undo_review: the last verdict is shown again, be it of an older file.   *)
UndoRating(m) ==
  /\ row[m].human
  /\ Store(m, [row[m] EXCEPT !.human = FALSE,
                             !.shown = IF row[m].auto THEN "auto" ELSE "none"])
  /\ UNCHANGED <<disk, written, loop, worker, probe, cleanup, count, history>>

(* The time of every retry comes.                                          *)
TimePasses ==
  /\ \E m \in Media : row[m].retry = "later"
  /\ row' = [m \in Media |->
       [row[m] EXCEPT !.retry = IF @ = "later" THEN "due" ELSE @]]
  /\ UNCHANGED <<disk, written, loop, worker, probe, cleanup, count, history>>

-----------------------------------------------------------------------------
(* The classification loop. *)

Resting == [pc |-> "idle", todo |-> {}, known |-> {}, cur |-> None,
            seen |-> 0, answer |-> "none"]

(* The lease is given back and the loop looks for the next row. *)
Released(l) ==
  [l EXCEPT !.pc = "batch", !.cur = None, !.seen = 0, !.answer = "none"]

(* Nothing is selected before the worker is ready, which a worker that has *)
(* failed is until the next one starts.  The duration of a video is read   *)
(* here.                                                                   *)
Fetch ==
  LET batch == {m \in Media : Selected(row[m])}
  IN  /\ loop.pc = "idle"
      /\ worker \in {"ready", "failed"}
      /\ batch # {}
      /\ loop' = [Resting EXCEPT !.pc = "batch", !.todo = batch,
                    !.known = {m \in batch \cap Video : row[m].duration # 0}]
      /\ UNCHANGED <<disk, written, row, worker, probe, cleanup, count, history>>

LoopEnds ==
  /\ loop.pc = "idle"
  /\ worker = "gone"
  /\ loop' = [loop EXCEPT !.pc = "ended"]
  /\ UNCHANGED <<disk, written, row, worker, probe, cleanup, count, history>>

(* The batch is done, or the gate refuses a lease. *)
BatchEnds ==
  /\ loop.pc = "batch"
  /\ loop' = Resting
  /\ UNCHANGED <<disk, written, row, worker, probe, cleanup, count, history>>

(* The next row, in any order: under a lease it is claimed, if the file is *)
(* there, the row still is what was selected, and the claim is stored.     *)
Take(m) ==
  /\ loop.pc = "batch"
  /\ m \in loop.todo
  /\ \/ /\ ~Present(m)
        /\ Store(m, Missing(row[m]))
        /\ loop' = [loop EXCEPT !.todo = @ \ {m}]
        /\ UNCHANGED <<cut, count>>
     \/ /\ IF Present(m) /\ ~Claimable(row[m]) THEN UNCHANGED count ELSE Fault
        /\ loop' = [loop EXCEPT !.todo = @ \ {m}]
        /\ UNCHANGED <<row, cut>>
     \/ /\ Present(m) /\ Claimable(row[m])
        /\ Store(m, Claimed(row[m]))
        /\ loop' = [loop EXCEPT !.todo = @ \ {m}, !.pc = "claimed", !.cur = m]
        /\ cut' = cut \ {m}
        /\ UNCHANGED count
  /\ UNCHANGED <<disk, written, worker, probe, cleanup, raced>>

(* What the loop stores of its row, unless the statement fails.            *)
StoreOutcome(r) ==
  \/ Store(loop.cur, r) /\ UNCHANGED <<cut, count>>
  \/ Fault /\ cut' = cut \cup {loop.cur} /\ UNCHANGED row

(* A video of unknown or too great length, or that ffmpeg cannot sample.   *)
LeaveToUser ==
  /\ loop.pc = "claimed"
  /\ loop.cur \in Video
  /\ StoreOutcome(Reviewed(row[loop.cur]))
  /\ loop' = Released(loop)
  /\ UNCHANGED <<disk, written, worker, probe, cleanup, raced>>

Answered(l, answer) == [l EXCEPT !.pc = "answered", !.answer = answer]

(* classify_batch: a job in the channel of the supervisor, or an error.    *)
(* The frames of a video are taken before.                                 *)
Ask ==
  /\ loop.pc = "claimed"
  /\ \/ /\ loop.cur \in Image
        /\ loop' = IF ~Present(loop.cur) \/ worker = "gone"
                   THEN Answered(loop, "error")
                   ELSE [loop EXCEPT !.pc = "asked"]
     \/ /\ loop.cur \in loop.known
        /\ Present(loop.cur)
        /\ LET sampled == [loop EXCEPT !.seen = disk[loop.cur]]
           IN  loop' = IF worker = "gone" THEN Answered(sampled, "error")
                       ELSE [sampled EXCEPT !.pc = "asked"]
  /\ UNCHANGED <<disk, written, row, worker, probe, cleanup, count, history>>

(* What the loop stores of an answer, under the same lease. *)
Persist ==
  LET m == loop.cur
  IN  /\ loop.pc = "answered"
      /\ \/ /\ loop.answer = "verdict"
            /\ StoreOutcome(Judged(row[m], loop.seen))
            /\ loop' = IF m \in Video THEN [loop EXCEPT !.pc = "fast"]
                       ELSE Released(loop)
         \/ /\ loop.answer = "error"
            /\ StoreOutcome(IF m \in Video THEN Reviewed(row[m])
                            ELSE Retried(row[m]))
            /\ loop' = Released(loop)
      /\ UNCHANGED <<disk, written, worker, probe, cleanup, raced>>

(* Then the P-HAR worker sees the video, or is not available.              *)
PersistFast ==
  LET m == loop.cur
  IN  /\ loop.pc = "fast"
      /\ \/ Present(m) /\ StoreOutcome(Judged(row[m], row[m].verdict))
         \/ StoreOutcome(Reviewed(row[m]))
      /\ loop' = Released(loop)
      /\ UNCHANGED <<disk, written, worker, probe, cleanup, raced>>

-----------------------------------------------------------------------------
(* The supervisor and its worker process: nude_supervisor_loop. *)

(* Fault: who waits in the channel goes on waiting. *)
DrainedNobody(l) == l

(* drain_nude_jobs: who waits in the channel gets an error.                *)
Drained(l) == IF l.pc = "asked" THEN Answered(l, "error") ELSE l

WorkerStarts ==
  /\ worker = "starting"
  /\ worker' = "ready"
  /\ UNCHANGED <<disk, written, row, loop, probe, cleanup, count, history>>

(* It could not be launched, was not ready after 60 seconds, speaks        *)
(* another protocol, or lacks what it needs for good.                      *)
StartFails ==
  /\ worker = "starting"
  /\ worker' \in {"backoff", "gone"}
  /\ loop' = Drained(loop)
  /\ UNCHANGED <<disk, written, row, probe, cleanup, count, history>>

BackoffEnds ==
  /\ worker \in {"backoff", "failed"}
  /\ worker' = "starting"
  /\ UNCHANGED <<disk, written, row, loop, probe, cleanup, count, history>>

(* The worker reads an image now; a file that is gone is not shown to it.  *)
Answer ==
  /\ worker = "ready"
  /\ loop.pc = "asked"
  /\ \/ /\ loop.cur \in Video
        /\ loop' = Answered(loop, "verdict")
     \/ /\ loop.cur \in Image
        /\ Present(loop.cur)
        /\ loop' = Answered([loop EXCEPT !.seen = disk[loop.cur]], "verdict")
     \/ loop' = Answered(loop, "error")
  /\ UNCHANGED <<disk, written, row, worker, probe, cleanup, count, history>>

(* No answer in 45 seconds, the end of the process, or an answer to        *)
(* something else: the process is killed; a new one starts after a while.  *)
WorkerFails ==
  /\ worker = "ready"
  /\ loop.pc = "asked"
  /\ loop' = Answered(loop, "error")
  /\ worker' = "failed"
  /\ UNCHANGED <<disk, written, row, probe, cleanup, count, history>>

-----------------------------------------------------------------------------
(* The duration probe: spawn_backfill_loop of src/duration.rs. *)

NoProbe == [media |-> None, version |-> 0]

ProbeReads(m) ==
  /\ probe = NoProbe
  /\ row[m].downloaded /\ row[m].duration = 0 /\ ~row[m].probed
  /\ \/ /\ Present(m)
        /\ probe' = [media |-> m, version |-> disk[m]]
        /\ UNCHANGED row
     \/ /\ ~Present(m)
        /\ Store(m, Missing(row[m]))
        /\ UNCHANGED probe
  /\ UNCHANGED <<disk, written, loop, worker, cleanup, count, history>>

(* What ffprobe said, or that it said nothing, unless it is not stored.    *)
ProbeStores ==
  LET m == probe.media
  IN  /\ probe # NoProbe
      /\ \/ /\ row[m].duration = 0
            /\ \E v \in {0, probe.version} :
                 Store(m, [row[m] EXCEPT !.duration = v, !.probed = TRUE])
            /\ UNCHANGED count
         \/ row[m].duration # 0 /\ UNCHANGED <<row, count>>
         \/ Fault /\ UNCHANGED row
      /\ probe' = NoProbe
      /\ UNCHANGED <<disk, written, loop, worker, cleanup, history>>

-----------------------------------------------------------------------------
(* The clean-up: cleanup_source_keep_newest. *)

NoCleanup == [todo |-> {}, cur |-> None]

(* protected_cleanup_candidates: nothing the user has rated.  The cover    *)
(* and the newest files are left out in turn, so that any other may be it. *)
CleanupSelects ==
  /\ cleanup = NoCleanup
  /\ Changes
  /\ \E todo \in SUBSET {m \in Media : row[m].downloaded /\ ~row[m].human} :
       /\ todo # {}
       /\ cleanup' = [NoCleanup EXCEPT !.todo = todo]
  /\ UNCHANGED <<disk, written, row, loop, worker, probe, history>>

(* A file that cannot be removed ends the clean-up, which is then one that *)
(* selected fewer.                                                         *)
CleanupRemoves(m) ==
  /\ cleanup.cur = None
  /\ m \in cleanup.todo
  /\ disk' = [disk EXCEPT ![m] = 0]
  /\ cleanup' = [todo |-> cleanup.todo \ {m}, cur |-> m]
  /\ UNCHANGED <<written, row, loop, worker, probe, count, history>>

(* Whatever has become of the row; its state is left as it is.  A failure  *)
(* ends the clean-up.                                                      *)
CleanupMarks ==
  /\ cleanup.cur # None
  /\ \/ /\ Store(cleanup.cur, [row[cleanup.cur] EXCEPT !.downloaded = FALSE])
        /\ cleanup' = [cleanup EXCEPT !.cur = None]
        /\ UNCHANGED count
     \/ Fault /\ cleanup' = NoCleanup /\ UNCHANGED row
  /\ UNCHANGED <<disk, written, loop, worker, probe, history>>

-----------------------------------------------------------------------------
(* Kills, and the whole. *)

(* The attempt of a row that was claimed counts. *)
Kill ==
  /\ Fault
  /\ cut' = IF loop.cur # None THEN cut \cup {loop.cur} ELSE cut
  /\ loop' = Resting
  /\ worker' = "starting"
  /\ probe' = NoProbe
  /\ cleanup' = NoCleanup
  /\ UNCHANGED <<disk, written, row, raced>>

(* Each file has been downloaded and indexed.                              *)
Init ==
  /\ disk = [m \in Media |-> 1]
  /\ written = [m \in Media |-> 1]
  /\ row = [m \in Media |->
       [downloaded |-> TRUE, stamp |-> 1, state |-> "pending", attempts |-> 0,
        retry |-> "due", verdict |-> 0, duration |-> 0, probed |-> FALSE,
        auto |-> FALSE, human |-> FALSE, shown |-> "none"]]
  /\ loop = Resting
  /\ worker = "starting"
  /\ probe = NoProbe
  /\ cleanup = NoCleanup
  /\ count = [changes |-> 0, faults |-> 0]
  /\ raced = {}
  /\ cut = {}

LoopStep ==
  \/ Fetch \/ LoopEnds \/ BatchEnds \/ LeaveToUser \/ Ask \/ Persist
  \/ PersistFast \/ \E m \in Media : Take(m)

SupervisorStep ==
  WorkerStarts \/ StartFails \/ BackoffEnds \/ Answer \/ WorkerFails

Next ==
  \/ \E m \in Media :
       \/ Write(m) \/ Delete(m) \/ Index(m) \/ Rate(m)
       \/ UndoRating(m) \/ CleanupRemoves(m)
  \/ \E m \in Video : ProbeReads(m)
  \/ TimePasses \/ LoopStep \/ SupervisorStep \/ ProbeStores
  \/ CleanupSelects \/ CleanupMarks \/ Kill

(* The loop goes on as long as it can; each step of the supervisor has a   *)
(* timeout.                                                                *)
Spec == Init /\ [][Next]_vars /\ WF_vars(LoopStep) /\ WF_vars(SupervisorStep)

-----------------------------------------------------------------------------
(* Properties. *)

TypeOK ==
  /\ disk \in [Media -> Version]
  /\ written \in [Media -> Version]
  /\ row \in [Media -> Row]
  /\ loop \in [pc : {"idle", "batch", "claimed", "asked", "answered", "fast",
                     "ended"},
               todo : SUBSET Media, known : SUBSET Video,
               cur : Media \cup {None}, seen : Version,
               answer : {"none", "verdict", "error"}]
  /\ worker \in {"starting", "ready", "failed", "backoff", "gone"}
  /\ probe \in [media : Video \cup {None}, version : Version]
  /\ cleanup \in [todo : SUBSET Media, cur : Media \cup {None}]
  /\ count \in [changes : 0..MaxChanges, faults : 0..MaxFaults]
  /\ raced \subseteq Media
  /\ cut \subseteq Media
  /\ loop.cur # None <=> loop.pc \in {"claimed", "asked", "answered", "fast"}

(* A rating by the user is what is shown until the user takes it back, and *)
(* only until then, whatever verdict was under way at either time and      *)
(* whatever comes after it.                                                *)
HumanRatingWins == \A m \in Media : row[m].human <=> row[m].shown = "human"

(* What is stored of a file was taken from the contents it has now, once   *)
(* the row has their stamp: a row that was indexed again is not done with  *)
(* what an older file was.  Neither the loop nor the probe looks at the    *)
(* stamp when it stores, so a row that was indexed again between their     *)
(* reading and their storing is excepted (raced).  A video whose verdict   *)
(* was not stored may be done without one: the action model decided (cut). *)
StoredIsOfTheFile ==
  \A m \in Media \ raced :
    row[m].downloaded /\ row[m].stamp = disk[m] =>
      /\ row[m].state = "done" =>
           row[m].verdict = disk[m] \/ (row[m].verdict = 0 /\ m \in cut \cap Video)
      /\ row[m].duration \in {0, disk[m]}

(* "a three-attempt limit per file version": after it the row has failed.  *)
(* No row is left in the queue that no batch will select again, except one *)
(* whose last attempt ended with the process, or with a statement that     *)
(* failed.                                                                 *)
NoRowIsForgotten ==
  \A m \in Media :
    row[m].downloaded /\ row[m].state \in {"pending", "working"} =>
      \/ row[m].attempts < Tries /\ row[m].retry # "never"
      \/ loop.cur = m
      \/ m \in cut

(* The lease of a row that was claimed is given back, although the worker  *)
(* may hang, die or never start: the maintenance gate waits for it.        *)
LeaseIsReleased ==
  (loop.cur # None) ~> (loop.cur = None)
=============================================================================
