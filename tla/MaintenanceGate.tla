--------------------------- MODULE MaintenanceGate ---------------------------
(***************************************************************************)
(* MaintenanceController (src/maintenance.rs): the lease that background   *)
(* workers, requests and downloads hold around a change of library state,  *)
(* the maintenance job that closes admission, drains the leases and runs   *)
(* its transaction, and the global pause it puts the downloads in          *)
(* meanwhile (src/services/downloads.rs).                                  *)
(*                                                                         *)
(* A worker is a task that asks for a lease again and again.  Atomic loads *)
(* and read-modify-writes are single steps, so a job may begin between any *)
(* two of them.  The two atomics are accessed with acquire/release         *)
(* ordering; on the x86-64 builds that are released their                  *)
(* read-modify-writes are full barriers, so the steps interleave.          *)
(*                                                                         *)
(* An operator introduced by "Fault:" is not part of the specification: it *)
(* is a variant of the action after it with a bug that a property must     *)
(* catch.                                                                  *)
(***************************************************************************)
EXTENDS Integers, FiniteSets

CONSTANTS
  Downloader,   \* sources whose run_download holds a lease for its whole run
  Mutator,      \* requests, classifiers, index batches: lease, change, drop
  Client,       \* callers of pause_typed and resume_typed
  Job,          \* maintenance jobs; each is started at most once
  Nobody        \* no holder of a lock

Worker == Downloader \cup Mutator \cup Client

ASSUME ConstantsAssumption ==
  /\ IsFiniteSet(Worker)
  /\ Nobody \notin Job \cup Client
  /\ Downloader \cap Mutator = {}
  /\ Client \cap (Downloader \cup Mutator) = {}
  /\ Job \cap Client = {}

VARIABLES
  active,             \* MaintenanceController.active
  backgroundWorkers,  \* MaintenanceController.background_workers
  serial,             \* holder of MaintenanceController.serial
  phase,              \* phase[j]: the public phase of job j
  jpc,                \* jpc[j]: where the task of job j is
  wasPaused,          \* wasPaused[j]: the local was_paused of the task
  wpc,                \* wpc[w]: where worker w is
  runningSources,     \* AppState.running_sources
  downloadsPaused,    \* AppState.downloads_paused
  control             \* holder of AppState.download_control

workerVars   == <<wpc, backgroundWorkers, runningSources>>
jobVars      == <<jpc, phase, wasPaused, serial, active>>
downloadVars == <<downloadsPaused, control>>
vars         == <<workerVars, jobVars, downloadVars>>

\* A worker in one of these states may change library state.
Leased  == {"leased", "running", "controlling", "left"}
\* A worker in one of these states is included in backgroundWorkers.
Counted == Leased \cup {"counted", "backing_out"}

WorkerStates == Counted \cup {"idle", "admitted"}

\* The states of a job between its compare-exchange and its store of FALSE into
\* active.  A job whose request was dropped in between never gets there.
Closing == {"claimed", "dropped", "queued", "serialized", "pausing", "waiting",
            "draining", "busy", "transaction", "settling"}
JobStates == Closing \cup {"none", "resuming", "resuming_locked", "done"}

Init ==
  /\ active = FALSE
  /\ backgroundWorkers = 0
  /\ serial = Nobody
  /\ phase = [j \in Job |-> "none"]
  /\ jpc = [j \in Job |-> "none"]
  /\ wasPaused = [j \in Job |-> FALSE]
  /\ wpc = [w \in Worker |-> "idle"]
  /\ runningSources = {}
  /\ downloadsPaused = FALSE
  /\ control = Nobody

-----------------------------------------------------------------------------
(* Leases: try_acquire_background_worker and Drop for the lease.           *)

\* The first check.  When active is set the call returns None at once.
FirstCheck(w) ==
  /\ wpc[w] = "idle"
  /\ ~active
  /\ wpc' = [wpc EXCEPT ![w] = "admitted"]
  /\ UNCHANGED <<backgroundWorkers, runningSources, jobVars, downloadVars>>

Count(w) ==
  /\ wpc[w] = "admitted"
  /\ backgroundWorkers' = backgroundWorkers + 1
  /\ wpc' = [wpc EXCEPT ![w] = "counted"]
  /\ UNCHANGED <<runningSources, jobVars, downloadVars>>

\* The second check decides between a lease and backing out.
SecondCheck(w) ==
  /\ wpc[w] = "counted"
  /\ wpc' = [wpc EXCEPT ![w] = IF active THEN "backing_out" ELSE "leased"]
  /\ UNCHANGED <<backgroundWorkers, runningSources, jobVars, downloadVars>>

\* Fault: an early return that forgets the fetch_sub.
BackOutKeepsCount(w) ==
  /\ wpc[w] = "backing_out"
  /\ wpc' = [wpc EXCEPT ![w] = "idle"]
  /\ UNCHANGED <<backgroundWorkers, runningSources, jobVars, downloadVars>>

BackOut(w) ==
  /\ wpc[w] = "backing_out"
  /\ backgroundWorkers' = backgroundWorkers - 1
  /\ wpc' = [wpc EXCEPT ![w] = "idle"]
  /\ UNCHANGED <<runningSources, jobVars, downloadVars>>

\* A lease is dropped when its work is over: a download after it has left
\* running_sources (or found itself there already), a client after its control
\* call, anything else at any time.
DropLease(w) ==
  /\ \/ wpc[w] = "left"
     \/ w \in Mutator /\ wpc[w] = "leased"
     \/ w \in Downloader \cap runningSources /\ wpc[w] = "leased"
  /\ backgroundWorkers' = backgroundWorkers - 1
  /\ wpc' = [wpc EXCEPT ![w] = "idle"]
  /\ UNCHANGED <<runningSources, jobVars, downloadVars>>

(* run_download: the source is in running_sources for the whole run.       *)

\* Fault: the lease covers only the start of the run.
BeginRunDropsLease(w) ==
  /\ w \in Downloader \ runningSources
  /\ wpc[w] = "leased"
  /\ runningSources' = runningSources \cup {w}
  /\ backgroundWorkers' = backgroundWorkers - 1
  /\ wpc' = [wpc EXCEPT ![w] = "running"]
  /\ UNCHANGED <<jobVars, downloadVars>>

BeginRun(w) ==
  /\ w \in Downloader \ runningSources
  /\ wpc[w] = "leased"
  /\ runningSources' = runningSources \cup {w}
  /\ wpc' = [wpc EXCEPT ![w] = "running"]
  /\ UNCHANGED <<backgroundWorkers, jobVars, downloadVars>>

EndRun(w) ==
  /\ wpc[w] = "running"
  /\ runningSources' = runningSources \ {w}
  /\ wpc' = [wpc EXCEPT ![w] = "left"]
  /\ UNCHANGED <<backgroundWorkers, jobVars, downloadVars>>

\* Fault: a lease without a Drop.
PanicKeepsCount(w) ==
  /\ wpc[w] = "running"
  /\ wpc' = [wpc EXCEPT ![w] = "idle"]
  /\ UNCHANGED <<backgroundWorkers, runningSources, jobVars, downloadVars>>

\* A panic inside the run (its pool.get().unwrap()) unwinds the task: the lease
\* is dropped, the entry in running_sources has no guard and stays.
Panic(w) ==
  /\ wpc[w] = "running"
  /\ backgroundWorkers' = backgroundWorkers - 1
  /\ wpc' = [wpc EXCEPT ![w] = "idle"]
  /\ UNCHANGED <<runningSources, jobVars, downloadVars>>

-----------------------------------------------------------------------------
(* Pause and resume by a client, under the lease and download_control.     *)

PauseUnchecked ==
  /\ control = Nobody
  /\ downloadsPaused' = TRUE

ClientPause(c) ==
  /\ c \in Client /\ wpc[c] = "leased"
  /\ PauseUnchecked
  /\ wpc' = [wpc EXCEPT ![c] = "left"]
  /\ UNCHANGED <<backgroundWorkers, runningSources, jobVars, control>>

ClientTakeControl(c) ==
  /\ c \in Client /\ wpc[c] = "leased"
  /\ control = Nobody
  /\ control' = c
  /\ wpc' = [wpc EXCEPT ![c] = "controlling"]
  /\ UNCHANGED <<backgroundWorkers, runningSources, jobVars, downloadsPaused>>

\* The loop of resume_unchecked: it is left when the runs that a pause stopped
\* are gone, or at once when nothing was paused.
RunsStopped == downloadsPaused => runningSources = {}

\* A resume that finds the database unavailable gives up, and leaves the pause.
ResumeUnchecked ==
  /\ RunsStopped
  /\ downloadsPaused' \in {FALSE, downloadsPaused}

ClientResume(c) ==
  /\ wpc[c] = "controlling"
  /\ ResumeUnchecked
  /\ control' = Nobody
  /\ wpc' = [wpc EXCEPT ![c] = "left"]
  /\ UNCHANGED <<backgroundWorkers, runningSources, jobVars>>

-----------------------------------------------------------------------------
(* The task of a maintenance job.                                          *)

\* start(): the compare-exchange admits one job at a time.
ClaimJob(j) ==
  /\ jpc[j] = "none"
  /\ ~active
  /\ active' = TRUE
  /\ jpc' = [jpc EXCEPT ![j] = "claimed"]
  /\ UNCHANGED <<phase, wasPaused, serial, workerVars, downloadVars>>

\* Once it has the lock of the jobs, start() enters the job and spawns its task.
SpawnJob(j) ==
  /\ jpc[j] = "claimed"
  /\ phase' = [phase EXCEPT ![j] = "queued"]
  /\ jpc' = [jpc EXCEPT ![j] = "queued"]
  /\ UNCHANGED <<active, wasPaused, serial, workerVars, downloadVars>>

\* A client that goes away while start() waits for that lock takes the handler
\* with it, and nobody is left to reset active.
DropRequest(j) ==
  /\ jpc[j] = "claimed"
  /\ jpc' = [jpc EXCEPT ![j] = "dropped"]
  /\ UNCHANGED <<active, phase, wasPaused, serial, workerVars, downloadVars>>

TakeSerial(j) ==
  /\ jpc[j] = "queued"
  /\ serial = Nobody
  /\ serial' = j
  /\ phase' = [phase EXCEPT ![j] = "running"]
  /\ jpc' = [jpc EXCEPT ![j] = "serialized"]
  /\ UNCHANGED <<active, wasPaused, workerVars, downloadVars>>

ReadPaused(j) ==
  /\ jpc[j] = "serialized"
  /\ wasPaused' = [wasPaused EXCEPT ![j] = downloadsPaused]
  /\ jpc' = [jpc EXCEPT ![j] = "pausing"]
  /\ UNCHANGED <<active, phase, serial, workerVars, downloadVars>>

PauseForMaintenance(j) ==
  /\ jpc[j] = "pausing"
  /\ PauseUnchecked
  /\ jpc' = [jpc EXCEPT ![j] = "waiting"]
  /\ UNCHANGED <<active, phase, wasPaused, serial, control, workerVars>>

\* wait_for_quiescence reads running_sources first and the counter second;
\* when either is in use it sleeps and reads both again, until its deadline.
ReadRunningSources(j) ==
  /\ jpc[j] = "waiting"
  /\ jpc' = [jpc EXCEPT ![j] = IF runningSources = {} THEN "draining"
                                                      ELSE "busy"]
  /\ UNCHANGED <<active, phase, wasPaused, serial, workerVars, downloadVars>>

\* Fault: quiescence means that no download runs.
ReadBackgroundWorkersOmitted(j) ==
  /\ jpc[j] = "draining"
  /\ jpc' = [jpc EXCEPT ![j] = "transaction"]
  /\ UNCHANGED <<active, phase, wasPaused, serial, workerVars, downloadVars>>

ReadBackgroundWorkers(j) ==
  /\ jpc[j] = "draining"
  /\ jpc' = [jpc EXCEPT ![j] = IF backgroundWorkers = 0 THEN "transaction"
                                                        ELSE "busy"]
  /\ UNCHANGED <<active, phase, wasPaused, serial, workerVars, downloadVars>>

PollAgain(j) ==
  /\ jpc[j] = "busy"
  /\ jpc' = [jpc EXCEPT ![j] = "waiting"]
  /\ UNCHANGED <<active, phase, wasPaused, serial, workerVars, downloadVars>>

TimeOut(j) ==
  /\ jpc[j] = "busy"
  /\ phase' = [phase EXCEPT ![j] = "failed"]
  /\ jpc' = [jpc EXCEPT ![j] = "settling"]
  /\ UNCHANGED <<active, wasPaused, serial, workerVars, downloadVars>>

\* run_blocking, and the cache invalidation and phase that follow it.
FinishTransaction(j) ==
  /\ jpc[j] = "transaction"
  /\ \E outcome \in {"succeeded", "failed"} :
       phase' = [phase EXCEPT ![j] = outcome]
  /\ jpc' = [jpc EXCEPT ![j] = "settling"]
  /\ UNCHANGED <<active, wasPaused, serial, workerVars, downloadVars>>

\* Fault: a failed job returns without storing FALSE into active.
ReopenAfterSuccess(j) ==
  /\ jpc[j] = "settling"
  /\ active' = (phase[j] = "failed")
  /\ jpc' = [jpc EXCEPT ![j] = IF wasPaused[j] THEN "done" ELSE "resuming"]
  /\ serial' = IF wasPaused[j] THEN Nobody ELSE serial
  /\ UNCHANGED <<phase, wasPaused, workerVars, downloadVars>>

\* Admission reopens before the downloads are resumed.  A job that found the
\* downloads paused leaves them so and its task ends, which drops serial.
Reopen(j) ==
  /\ jpc[j] = "settling"
  /\ active' = FALSE
  /\ jpc' = [jpc EXCEPT ![j] = IF wasPaused[j] THEN "done" ELSE "resuming"]
  /\ serial' = IF wasPaused[j] THEN Nobody ELSE serial
  /\ UNCHANGED <<phase, wasPaused, workerVars, downloadVars>>

JobTakeControl(j) ==
  /\ jpc[j] = "resuming"
  /\ control = Nobody
  /\ control' = j
  /\ jpc' = [jpc EXCEPT ![j] = "resuming_locked"]
  /\ UNCHANGED <<active, phase, wasPaused, serial, downloadsPaused, workerVars>>

\* The job ignores how its resume ended.
ResumeAfterMaintenance(j) ==
  /\ jpc[j] = "resuming_locked"
  /\ ResumeUnchecked
  /\ control' = Nobody
  /\ serial' = Nobody
  /\ jpc' = [jpc EXCEPT ![j] = "done"]
  /\ UNCHANGED <<active, phase, wasPaused, workerVars>>

-----------------------------------------------------------------------------
LeaseStep(w) ==
  \/ FirstCheck(w) \/ Count(w) \/ SecondCheck(w) \/ BackOut(w)
  \/ DropLease(w) \/ BeginRun(w) \/ EndRun(w)

ClientStep(c) ==
  ClientPause(c) \/ ClientTakeControl(c) \/ ClientResume(c)

JobStep(j) ==
  \/ ClaimJob(j) \/ SpawnJob(j)
  \/ TakeSerial(j) \/ ReadPaused(j) \/ PauseForMaintenance(j)
  \/ ReadRunningSources(j) \/ ReadBackgroundWorkers(j) \/ PollAgain(j)
  \/ TimeOut(j) \/ FinishTransaction(j) \/ Reopen(j)
  \/ JobTakeControl(j) \/ ResumeAfterMaintenance(j)

Next ==
  \/ \E w \in Worker : LeaseStep(w)
  \/ \E c \in Client : ClientStep(c)
  \/ \E j \in Job : JobStep(j)

Spec == Init /\ [][Next]_vars

\* The same system when a download worker may panic.
PanicNext == Next \/ \E w \in Downloader : Panic(w)

PanicSpec == Init /\ [][PanicNext]_vars

\* The same when requests may be dropped as well.
AbruptNext == PanicNext \/ \E j \in Job : DropRequest(j)

AbruptSpec == Init /\ [][AbruptNext]_vars

\* Tasks that have begun go on: runs end once their child process does, a
\* request or classifier finishes its unit of work.  tokio's mutex queues its
\* waiters, and a resume polls for as long as it takes, so steps that wait for
\* download_control or for stopped runs are not passed over for ever.  A request
\* that claimed a job goes on to spawn it.  Nothing makes a worker, a client or
\* a user begin, and the deadline is not needed.
Fairness ==
  /\ \A w \in Worker :
       /\ WF_vars(Count(w) \/ SecondCheck(w) \/ BackOut(w) \/ DropLease(w))
       /\ WF_vars(BeginRun(w) \/ EndRun(w))
  /\ \A c \in Client : /\ SF_vars(ClientPause(c) \/ ClientTakeControl(c))
                       /\ SF_vars(ClientResume(c))
  /\ \A j \in Job :
       /\ WF_vars(SpawnJob(j) \/ TakeSerial(j) \/ ReadPaused(j))
       /\ WF_vars(ReadRunningSources(j))
       /\ WF_vars(ReadBackgroundWorkers(j) \/ PollAgain(j) \/ TimeOut(j))
       /\ WF_vars(FinishTransaction(j) \/ Reopen(j))
       /\ SF_vars(PauseForMaintenance(j))
       /\ SF_vars(JobTakeControl(j))
       /\ SF_vars(ResumeAfterMaintenance(j))

FairSpec == Spec /\ Fairness

\* With panics, the deadline of wait_for_quiescence is assumed as well.
PanicFairSpec == PanicSpec /\ Fairness /\ \A j \in Job : SF_vars(TimeOut(j))

-----------------------------------------------------------------------------
(* Properties.                                                             *)

\* Every variable of the coordinator has its type.
TypeOK ==
  /\ active \in BOOLEAN
  /\ backgroundWorkers \in Nat
  /\ serial \in Job \cup {Nobody}
  /\ phase \in [Job -> {"none", "queued", "running", "succeeded", "failed"}]
  /\ jpc \in [Job -> JobStates]
  /\ wasPaused \in [Job -> BOOLEAN]
  /\ wpc \in [Worker -> WorkerStates]
  /\ runningSources \subseteq Downloader
  /\ downloadsPaused \in BOOLEAN
  /\ control \in Client \cup Job \cup {Nobody}

\* While a job runs run_blocking, nothing else holds a lease: no download,
\* request or classifier changes the library under a backup or a rollback.
ExclusiveTransaction ==
  \A j \in Job : jpc[j] = "transaction" => \A w \in Worker : wpc[w] \notin Leased

\* The counter is the number of leases and of attempts that will back out;
\* a job that reads zero has waited for all of them, and one lost decrement
\* would make every later job time out.
CounterIsExact ==
  backgroundWorkers = Cardinality({w \in Worker : wpc[w] \in Counted})

\* At most one job is between its compare-exchange and its reopening, and
\* serial keeps the resume of the previous job apart from the next job's
\* reading of downloads_paused.
OneJobAtATime ==
  \A j, k \in Job :
    /\ jpc[j] \in Closing /\ jpc[k] \in Closing => j = k
    /\ /\ jpc[j] \in {"resuming", "resuming_locked"}
       /\ jpc[k] \in Closing
       => jpc[k] \in {"claimed", "dropped", "queued"}

\* No download is in running_sources during a transaction, although the two
\* conditions of wait_for_quiescence are read at different times.
NoRunDuringTransaction ==
  (\E j \in Job : jpc[j] = "transaction") => runningSources = {}

\* The coordinator implements exclusive access to the library.
Access == INSTANCE ExclusiveAccess WITH
  holders <- {w \in Worker : wpc[w] \in Leased},
  owner   <- IF \E j \in Job : jpc[j] = "transaction"
             THEN CHOOSE j \in Job : jpc[j] = "transaction" ELSE Nobody

ImplementsAccess == Access!AccessSpec

\* A job that was started ends, with its outcome public.
JobsEnd == \A j \in Job : jpc[j] = "queued" ~> jpc[j] = "done"

\* Maintenance mode never stays on: admission closes only for a while, as long
\* as no request is dropped between the claim of a job and its spawn.
AdmissionReopens == active ~> ~active
=============================================================================
