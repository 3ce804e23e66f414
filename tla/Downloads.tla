------------------------------ MODULE Downloads ------------------------------
(***************************************************************************)
(* The downloader (src/downloader.rs) and its controls                     *)
(* (src/services/downloads.rs, src/services/sources.rs,                    *)
(* src/routes/sources.rs): a run_download task claims its source, waits    *)
(* for the provider and for a permit, supervises one gallery-dl child and  *)
(* records the outcome, while clients pause, resume, resync and delete     *)
(* sources, retry timers fire, and the program shuts down or dies.         *)
(*                                                                         *)
(* A step ends where the code awaits a lock, a timer or a child, or has    *)
(* read a flag that it acts on later.  A spawned run that has not begun    *)
(* holds nothing, so it is a count; it takes a task when it registers.     *)
(* Maintenance mode is in MaintenanceGate: admission is open here.         *)
(*                                                                         *)
(* Three conditions of the environment are left open: how long a provider  *)
(* cooldown lasts, whether storage admits a source, and whether the        *)
(* database answers: what needs an answer ends without one, and the rest   *)
(* goes on with the row as it was.                                         *)
(*                                                                         *)
(* An operator introduced by "Fault:" is not part of the specification: it *)
(* is a variant of the action after it with a bug that a property must     *)
(* catch.                                                                  *)
(***************************************************************************)
EXTENDS Integers, FiniteSets

CONSTANTS
  Source,         \* sources that clients may create
  Task,           \* bound: registered runs at one time
  NoTask,         \* no entry in a map of tasks
  MaxConcurrent,  \* permits of download_semaphore
  MaxRetries,     \* MAX_TRANSIENT_RETRIES
  MaxCommands,    \* bound: client commands
  MaxRestarts     \* bound: ends of the process

ASSUME ConstantsAssumption ==
  /\ Source # {}
  /\ NoTask \notin Task

VARIABLES
  row,              \* row[s]: sources.status, "absent" without a row
  attempts,         \* attempts[s]: sources.retry_attempts
  queued,           \* queued[s]: spawned runs of s that have not begun
  timers,           \* timers[s]: sleeping retry timers of s
  stage,            \* stage[t]: where the run of task t is
  of,               \* of[t]: its source
  child,            \* child[t]: its gallery-dl process
  tries,            \* tries[t]: its local retry_attempts
  outcome,          \* outcome[t]: its local interrupted and returncode, then status
  runningSources,   \* AppState.running_sources
  cancellations,    \* AppState.source_cancellations: the task whose token it is
  cancelled,        \* tasks whose token is cancelled
  activeProcesses,  \* AppState.active_processes: the task whose child it is
  pausedSourceIds,  \* AppState.paused_source_ids
  storagePauses,    \* AppState.storage_pauses
  permits,          \* tasks that hold a permit of download_semaphore
  downloadsPaused,  \* AppState.downloads_paused
  control,          \* step of the holder of download_control
  subject,          \* the sources that step is about
  deleting,         \* deleting[s]: where a call of delete is
  shutdown,         \* AppState.shutdown
  orphans,          \* sources with a child of a process that has died
  commands,         \* client commands so far
  restarts          \* ends of the process so far

rowVars     == <<row, attempts>>
spawnVars   == <<queued, timers>>
localVars   == <<child, tries, outcome>>
sharedVars  == <<cancellations, cancelled, activeProcesses, pausedSourceIds,
                 storagePauses, permits>>
taskVars    == <<stage, of, localVars, runningSources, sharedVars>>
controlVars == <<downloadsPaused, control, subject>>
clientVars  == <<deleting, commands>>
lifeVars    == <<shutdown, orphans, restarts>>
vars == <<rowVars, spawnVars, taskVars, controlVars, clientVars, lifeVars>>

Statuses == {"pending", "downloading", "paused", "storage_limit", "retrying",
             "error", "done"}

Exists(s) == row[s] # "absent"
Busy(t)   == stage[t] # "free"
RunOf(s)  == {t \in Task : Busy(t) /\ of[t] = s}

\* The source of a task that is free
AnySource == CHOOSE s \in Source : TRUE

\* The rows after UPDATE sources SET status = status for the sources of S
Marked(S, status) == [s \in Source |-> IF s \in S /\ Exists(s) THEN status ELSE row[s]]

\* The update of one row; nobody looks whether it succeeds.
SetStatus(s, status) == row' \in {row, Marked({s}, status)}

GoTo(t, next) == stage' = [stage EXCEPT ![t] = next]

\* tokio::spawn of run_download for each source of S
Spawn(S) == queued' = [s \in Source |-> queued[s] + IF s \in S THEN 1 ELSE 0]

\* The tokens of the sources of S, as far as they are in the map
TokensOf(S) == {cancellations[s] : s \in S} \ {NoTask}

\* kill_pid for the registered children of S: one that has exited stays so
Killed(S) ==
  [t \in Task |-> IF child[t] = "running" /\ t \in {activeProcesses[s] : s \in S}
                  THEN "failed" ELSE child[t]]

Init ==
  /\ row = [s \in Source |-> "absent"]
  /\ attempts = [s \in Source |-> 0]
  /\ queued = [s \in Source |-> 0]
  /\ timers = [s \in Source |-> 0]
  /\ stage = [t \in Task |-> "free"]
  /\ of = [t \in Task |-> AnySource]
  /\ child = [t \in Task |-> "none"]
  /\ tries = [t \in Task |-> 0]
  /\ outcome = [t \in Task |-> "none"]
  /\ runningSources = {}
  /\ cancellations = [s \in Source |-> NoTask]
  /\ cancelled = {}
  /\ activeProcesses = [s \in Source |-> NoTask]
  /\ pausedSourceIds = {}
  /\ storagePauses = {}
  /\ permits = {}
  /\ downloadsPaused = FALSE
  /\ control = "free"
  /\ subject = {}
  /\ deleting = [s \in Source |-> "no"]
  /\ shutdown = FALSE
  /\ orphans = {}
  /\ commands = 0
  /\ restarts = 0

-----------------------------------------------------------------------------
(* run_download, up to the child process.                                  *)

\* A queued run that finds shutdown or another run of its source just ends.
DropRun(s) ==
  /\ queued[s] > 0
  /\ shutdown \/ s \in runningSources
  /\ queued' = [queued EXCEPT ![s] = @ - 1]
  /\ UNCHANGED <<rowVars, timers, taskVars, controlVars, clientVars, lifeVars>>

\* Fault: two runs of one source.
RegisterUnchecked(t, s) ==
  /\ stage[t] = "free"
  /\ queued[s] > 0 /\ ~shutdown
  /\ queued' = [queued EXCEPT ![s] = @ - 1]
  /\ runningSources' = runningSources \cup {s}
  /\ of' = [of EXCEPT ![t] = s]
  /\ GoTo(t, "registered")
  /\ UNCHANGED <<rowVars, timers, localVars, sharedVars, controlVars, clientVars, lifeVars>>

Register(t, s) ==
  /\ stage[t] = "free"
  /\ queued[s] > 0 /\ ~shutdown /\ s \notin runningSources
  /\ queued' = [queued EXCEPT ![s] = @ - 1]
  /\ runningSources' = runningSources \cup {s}
  /\ of' = [of EXCEPT ![t] = s]
  /\ GoTo(t, "registered")
  /\ UNCHANGED <<rowVars, timers, localVars, sharedVars, controlVars, clientVars, lifeVars>>

PublishToken(t) ==
  /\ stage[t] = "registered"
  /\ cancellations' = [cancellations EXCEPT ![of[t]] = t]
  /\ GoTo(t, "starting")
  /\ UNCHANGED <<rowVars, spawnVars, of, localVars, runningSources, cancelled,
                 activeProcesses, pausedSourceIds, storagePauses, permits,
                 controlVars, clientVars, lifeVars>>

\* The three loads of downloads_paused before the child.  The status is
\* written afterwards, in RecordPaused.
CheckPaused(t) ==
  /\ \/ stage[t] = "starting"  /\ GoTo(t, IF downloadsPaused THEN "pausing" ELSE "admission")
     \/ stage[t] = "cooled"    /\ GoTo(t, IF downloadsPaused THEN "pausing" ELSE "claiming")
     \/ stage[t] = "permitted" /\ GoTo(t, IF downloadsPaused THEN "pausing" ELSE "reading")
  /\ UNCHANGED <<rowVars, spawnVars, of, localVars, runningSources, sharedVars,
                 controlVars, clientVars, lifeVars>>

RecordPaused(t) ==
  /\ stage[t] = "pausing"
  /\ SetStatus(of[t], "paused")
  /\ GoTo(t, "leaving")
  /\ UNCHANGED <<attempts, spawnVars, of, localVars, runningSources, sharedVars,
                 controlVars, clientVars, lifeVars>>

\* source_sync_admission: a limit ends the run, as does a row that cannot be read.
Refuse(t) ==
  /\ stage[t] = "admission"
  /\ SetStatus(of[t], "storage_limit")
  /\ GoTo(t, "leaving")
  /\ UNCHANGED <<attempts, spawnVars, of, localVars, runningSources, sharedVars,
                 controlVars, clientVars, lifeVars>>

Admit(t) ==
  /\ stage[t] = "admission"
  /\ Exists(of[t])
  /\ storagePauses' = storagePauses \ {of[t]}
  /\ GoTo(t, "cooldown")
  /\ UNCHANGED <<rowVars, spawnVars, of, localVars, runningSources, cancellations,
                 cancelled, activeProcesses, pausedSourceIds, permits,
                 controlVars, clientVars, lifeVars>>

\* wait_for_provider_cooldown
CoolDown(t) ==
  /\ stage[t] = "cooldown"
  /\ \/ GoTo(t, "cooled")
     \/ (shutdown \/ t \in cancelled) /\ GoTo(t, "pausing")
  /\ UNCHANGED <<rowVars, spawnVars, of, localVars, runningSources, sharedVars,
                 controlVars, clientVars, lifeVars>>

\* Without a connection the run ends.
Claim(t) ==
  /\ stage[t] = "claiming"
  /\ \/ SetStatus(of[t], "downloading") /\ GoTo(t, "waiting_permit")
     \/ UNCHANGED row /\ GoTo(t, "leaving")
  /\ UNCHANGED <<attempts, spawnVars, of, localVars, runningSources, sharedVars,
                 controlVars, clientVars, lifeVars>>

\* The select over shutdown, the token and the permit takes any branch that
\* is ready.
AcquirePermit(t) ==
  /\ stage[t] = "waiting_permit"
  /\ Cardinality(permits) < MaxConcurrent
  /\ permits' = permits \cup {t}
  /\ GoTo(t, "permitted")
  /\ UNCHANGED <<rowVars, spawnVars, of, localVars, runningSources, cancellations,
                 cancelled, activeProcesses, pausedSourceIds, storagePauses,
                 controlVars, clientVars, lifeVars>>

GiveUpPermit(t) ==
  /\ stage[t] = "waiting_permit"
  /\ \/ shutdown /\ GoTo(t, "pausing")
     \/ t \in cancelled /\ GoTo(t, "leaving")
  /\ UNCHANGED <<rowVars, spawnVars, of, localVars, runningSources, sharedVars,
                 controlVars, clientVars, lifeVars>>

\* run_download_inner reads the row; without it the run ends.
ReadSource(t) ==
  /\ stage[t] = "reading"
  /\ \/ /\ Exists(of[t])
        /\ tries' = [tries EXCEPT ![t] = attempts[of[t]]]
        /\ GoTo(t, "spawning")
     \/ GoTo(t, "leaving") /\ UNCHANGED tries
  /\ UNCHANGED <<rowVars, spawnVars, of, child, outcome, runningSources, sharedVars,
                 controlVars, clientVars, lifeVars>>

SpawnFails(t) ==
  /\ stage[t] = "spawning"
  /\ SetStatus(of[t], "error")
  /\ GoTo(t, "leaving")
  /\ UNCHANGED <<attempts, spawnVars, of, localVars, runningSources, sharedVars,
                 controlVars, clientVars, lifeVars>>

SpawnChild(t) ==
  /\ stage[t] = "spawning"
  /\ child' = [child EXCEPT ![t] = "running"]
  /\ GoTo(t, "spawned")
  /\ UNCHANGED <<rowVars, spawnVars, of, tries, outcome, runningSources, sharedVars,
                 controlVars, clientVars, lifeVars>>

-----------------------------------------------------------------------------
(* run_download_inner, from the child process to the end of the run.       *)

RegisterChild(t) ==
  /\ stage[t] = "spawned"
  /\ activeProcesses' = [activeProcesses EXCEPT ![of[t]] = t]
  /\ GoTo(t, "registered_child")
  /\ UNCHANGED <<rowVars, spawnVars, of, localVars, runningSources, cancellations,
                 cancelled, pausedSourceIds, storagePauses, permits,
                 controlVars, clientVars, lifeVars>>

\* The load of downloads_paused after the spawn kills the child at once.
CheckPausedAfterSpawn(t) ==
  /\ stage[t] = "registered_child"
  /\ IF downloadsPaused
       THEN /\ pausedSourceIds' = pausedSourceIds \cup {of[t]}
            /\ child' = [child EXCEPT ![t] = IF @ = "running" THEN "failed" ELSE @]
       ELSE UNCHANGED <<pausedSourceIds, child>>
  /\ GoTo(t, "supervising")
  /\ UNCHANGED <<rowVars, spawnVars, of, tries, outcome, runningSources, cancellations,
                 cancelled, activeProcesses, storagePauses, permits,
                 controlVars, clientVars, lifeVars>>

\* gallery-dl ends by itself.
ChildExits(t) ==
  /\ child[t] = "running"
  /\ \E result \in {"ok", "failed"} : child' = [child EXCEPT ![t] = result]
  /\ UNCHANGED <<rowVars, spawnVars, stage, of, tries, outcome, runningSources, sharedVars,
                 controlVars, clientVars, lifeVars>>

\* index_download, in its last scan after the child has ended too, finds that
\* an indexed file reached a storage limit, records it and kills the child.
HitStorageLimit(t) ==
  /\ stage[t] = "supervising" \/ (stage[t] = "reaped" /\ outcome[t] # "interrupted")
  /\ storagePauses' = storagePauses \cup {of[t]}
  /\ child' = Killed({of[t]})
  /\ UNCHANGED <<rowVars, spawnVars, stage, of, tries, outcome, runningSources, cancellations,
                 cancelled, activeProcesses, pausedSourceIds, permits,
                 controlVars, clientVars, lifeVars>>

\* Fault: the select does not wait for the token.
ReapWithoutToken(t) ==
  /\ stage[t] = "supervising"
  /\ \/ /\ shutdown
        /\ outcome' = [outcome EXCEPT ![t] = "interrupted"]
     \/ /\ child[t] \in {"ok", "failed"}
        /\ outcome' = [outcome EXCEPT ![t] = child[t]]
  /\ child' = [child EXCEPT ![t] = "none"]
  /\ GoTo(t, "reaped")
  /\ UNCHANGED <<rowVars, spawnVars, of, tries, runningSources, sharedVars,
                 controlVars, clientVars, lifeVars>>

\* Fault: the select does not wait for shutdown.
ReapWithoutShutdown(t) ==
  /\ stage[t] = "supervising"
  /\ \/ /\ t \in cancelled
        /\ outcome' = [outcome EXCEPT ![t] = "interrupted"]
     \/ /\ child[t] \in {"ok", "failed"}
        /\ outcome' = [outcome EXCEPT ![t] = child[t]]
  /\ child' = [child EXCEPT ![t] = "none"]
  /\ GoTo(t, "reaped")
  /\ UNCHANGED <<rowVars, spawnVars, of, tries, runningSources, sharedVars,
                 controlVars, clientVars, lifeVars>>

\* The select over shutdown or the token and child.wait()
Reap(t) ==
  /\ stage[t] = "supervising"
  /\ \/ /\ shutdown \/ t \in cancelled
        /\ outcome' = [outcome EXCEPT ![t] = "interrupted"]
     \/ /\ child[t] \in {"ok", "failed"}
        /\ outcome' = [outcome EXCEPT ![t] = child[t]]
  /\ child' = [child EXCEPT ![t] = "none"]
  /\ GoTo(t, "reaped")
  /\ UNCHANGED <<rowVars, spawnVars, of, tries, runningSources, sharedVars,
                 controlVars, clientVars, lifeVars>>

UnregisterChild(t) ==
  /\ stage[t] = "reaped"
  /\ activeProcesses' = [activeProcesses EXCEPT ![of[t]] = NoTask]
  /\ GoTo(t, "settling")
  /\ UNCHANGED <<rowVars, spawnVars, of, localVars, runningSources, cancellations,
                 cancelled, pausedSourceIds, storagePauses, permits,
                 controlVars, clientVars, lifeVars>>

\* The status that the run decides on.  Size skips turn a failure into "done";
\* transient failures are retried while the budget lasts.
Verdicts(t) ==
  IF of[t] \in storagePauses THEN {"storage_limit"}
  ELSE IF of[t] \in pausedSourceIds \/ outcome[t] = "interrupted" THEN {"paused"}
  ELSE IF outcome[t] = "ok" THEN {"done"}
  ELSE {"done", "error"} \cup (IF tries[t] < MaxRetries THEN {"retrying"} ELSE {})

\* Fault: the storage limit stays on record.
SettleKeepsStoragePause(t) ==
  /\ stage[t] = "settling"
  /\ \E status \in Verdicts(t) : outcome' = [outcome EXCEPT ![t] = status]
  /\ GoTo(t, "settled")
  /\ UNCHANGED <<rowVars, spawnVars, of, child, tries, runningSources, cancellations,
                 cancelled, activeProcesses, pausedSourceIds, storagePauses, permits,
                 controlVars, clientVars, lifeVars>>

Settle(t) ==
  /\ stage[t] = "settling"
  /\ \E status \in Verdicts(t) : outcome' = [outcome EXCEPT ![t] = status]
  /\ storagePauses' = storagePauses \ {of[t]}
  /\ GoTo(t, "settled")
  /\ UNCHANGED <<rowVars, spawnVars, of, child, tries, runningSources, cancellations,
                 cancelled, activeProcesses, pausedSourceIds, permits,
                 controlVars, clientVars, lifeVars>>

\* The status is stored, or stays as it was; what was stored as a retry also
\* starts its timer, even when the row has gone meanwhile.
Persist(t) ==
  /\ stage[t] = "settled"
  /\ \/ /\ row' = Marked({of[t]}, outcome[t])
        /\ attempts' = [attempts EXCEPT ![of[t]] = IF ~Exists(of[t]) THEN @
                                                   ELSE IF outcome[t] = "retrying" THEN @ + 1
                                                   ELSE IF outcome[t] \in {"done", "error"} THEN 0
                                                   ELSE @]
        /\ timers' = [timers EXCEPT ![of[t]] = IF outcome[t] = "retrying" THEN @ + 1 ELSE @]
     \/ UNCHANGED <<row, attempts, timers>>
  /\ GoTo(t, "leaving")
  /\ UNCHANGED <<queued, of, localVars, runningSources, sharedVars,
                 controlVars, clientVars, lifeVars>>

\* Fault: the source leaves running_sources first, and its token, or that of
\* its next run, is removed later.
WithdrawTokenLast(t) ==
  /\ \/ /\ stage[t] = "leaving"
        /\ permits' = permits \ {t}
        /\ runningSources' = runningSources \ {of[t]}
        /\ UNCHANGED cancellations
        /\ GoTo(t, "withdrawing")
     \/ /\ stage[t] = "withdrawing"
        /\ cancellations' = [cancellations EXCEPT ![of[t]] = NoTask]
        /\ UNCHANGED <<permits, runningSources>>
        /\ GoTo(t, "left")
  /\ UNCHANGED <<rowVars, spawnVars, of, localVars, cancelled,
                 activeProcesses, pausedSourceIds, storagePauses,
                 controlVars, clientVars, lifeVars>>

\* The permit is dropped, then the token.
WithdrawToken(t) ==
  /\ stage[t] = "leaving"
  /\ permits' = permits \ {t}
  /\ cancellations' = [cancellations EXCEPT ![of[t]] = NoTask]
  /\ GoTo(t, "left")
  /\ UNCHANGED <<rowVars, spawnVars, of, localVars, runningSources, cancelled,
                 activeProcesses, pausedSourceIds, storagePauses,
                 controlVars, clientVars, lifeVars>>

Unregister(t) ==
  /\ stage[t] = "left"
  /\ runningSources' = runningSources \ {of[t]}
  /\ stage' = [stage EXCEPT ![t] = "free"]
  /\ of' = [of EXCEPT ![t] = AnySource]
  /\ tries' = [tries EXCEPT ![t] = 0]
  /\ outcome' = [outcome EXCEPT ![t] = "none"]
  /\ cancelled' = cancelled \ {t}
  /\ UNCHANGED <<rowVars, spawnVars, child, cancellations, activeProcesses,
                 pausedSourceIds, storagePauses, permits, controlVars, clientVars, lifeVars>>

\* schedule_retry: with the downloads paused the row is paused, otherwise a
\* row that is still retrying gets a run.  A timer started before a later
\* retry_at was stored finds the retry not due yet, as does one that cannot
\* read the row.
TimerFires(s) ==
  /\ timers[s] > 0
  /\ timers' = [timers EXCEPT ![s] = @ - 1]
  /\ \/ shutdown /\ UNCHANGED <<row, queued>>
     \/ /\ downloadsPaused
        /\ row' \in {row, Marked({s} \cap {r \in Source : row[r] = "retrying"}, "paused")}
        /\ UNCHANGED queued
     \/ /\ ~downloadsPaused
        /\ row[s] = "retrying"
        /\ Spawn({s})
        /\ UNCHANGED row
     \/ /\ ~downloadsPaused
        /\ UNCHANGED <<row, queued>>
  /\ UNCHANGED <<attempts, taskVars, controlVars, clientVars, lifeVars>>

-----------------------------------------------------------------------------
(* Controls: one at a time holds download_control.  The shutdown check of  *)
(* a caller may be long past when it gets the lock, so it guards nothing.  *)

Command == /\ commands < MaxCommands
           /\ commands' = commands + 1

TakeControl(step, S) ==
  /\ Command
  /\ control = "free"
  /\ control' = step
  /\ subject' = S

ReleaseControl == /\ control' = "free"
                  /\ subject' = {}

\* pause_unchecked: the flag first
Pause ==
  /\ TakeControl("pausing_rows", {})
  /\ downloadsPaused' = TRUE
  /\ UNCHANGED <<rowVars, spawnVars, taskVars, deleting, lifeVars>>

PauseRows ==
  /\ control = "pausing_rows"
  /\ row' \in {row, Marked({s \in Source : row[s] \in {"pending", "retrying"}}, "paused")}
  /\ control' = "pausing_active"
  /\ UNCHANGED <<attempts, spawnVars, taskVars, downloadsPaused, subject, clientVars, lifeVars>>

\* Fault: the sources with a child are recorded, and no more.
PauseActiveRecordsOnly ==
  /\ control = "pausing_active"
  /\ LET S == {s \in Source : activeProcesses[s] # NoTask}
     IN /\ pausedSourceIds' = pausedSourceIds \cup S
        /\ subject' = S
  /\ control' = "pausing_others"
  /\ UNCHANGED <<rowVars, spawnVars, stage, of, localVars, runningSources, cancellations, cancelled,
                 activeProcesses, storagePauses, permits, downloadsPaused, clientVars, lifeVars>>

\* Sources with a registered child: recorded, cancelled and killed.
PauseActive ==
  /\ control = "pausing_active"
  /\ LET S == {s \in Source : activeProcesses[s] # NoTask}
     IN /\ pausedSourceIds' = pausedSourceIds \cup S
        /\ cancelled' = cancelled \cup TokensOf(S)
        /\ child' = Killed(S)
        /\ subject' = S
  /\ control' = "pausing_others"
  /\ UNCHANGED <<rowVars, spawnVars, stage, of, tries, outcome, runningSources, cancellations,
                 activeProcesses, storagePauses, permits, downloadsPaused, clientVars, lifeVars>>

\* The other sources with a token: recorded, cancelled and their rows paused.
PauseOthers ==
  /\ control = "pausing_others"
  /\ LET S == {s \in Source \ subject : cancellations[s] # NoTask}
     IN /\ pausedSourceIds' = pausedSourceIds \cup S
        /\ cancelled' = cancelled \cup TokensOf(S)
        /\ \E T \in SUBSET {s \in S : row[s] = "downloading"} : row' = Marked(T, "paused")
  /\ ReleaseControl
  /\ UNCHANGED <<attempts, spawnVars, stage, of, localVars, runningSources, cancellations,
                 activeProcesses, storagePauses, permits, downloadsPaused, clientVars, lifeVars>>

Resume ==
  /\ TakeControl("resuming", {})
  /\ UNCHANGED <<rowVars, spawnVars, taskVars, downloadsPaused, deleting, lifeVars>>

\* Fault: it waits for the runs to end even when nothing told them to.
ResumeRowsWaitsAlways ==
  /\ control = "resuming"
  /\ runningSources = {}
  /\ \/ /\ control' = "reopening"
        /\ \E S \in SUBSET {s \in Source : row[s] = "paused"} :
             subject' = S /\ row' = Marked(S, "pending")
     \/ ReleaseControl /\ UNCHANGED row
  /\ UNCHANGED <<attempts, spawnVars, taskVars, downloadsPaused, clientVars, lifeVars>>

\* resume_unchecked: while the downloads are paused it waits for every run to
\* end, then requeues the rows it can read.  If they cannot be stored it ends,
\* and the downloads stay paused.
ResumeRows ==
  /\ control = "resuming"
  /\ downloadsPaused => runningSources = {}
  /\ \/ /\ control' = "reopening"
        /\ \E S \in SUBSET {s \in Source : row[s] = "paused"} :
             subject' = S /\ row' = Marked(S, "pending")
     \/ ReleaseControl /\ UNCHANGED row
  /\ UNCHANGED <<attempts, spawnVars, taskVars, downloadsPaused, clientVars, lifeVars>>

ResumeRuns ==
  /\ control = "reopening"
  /\ pausedSourceIds' = {}
  /\ downloadsPaused' = FALSE
  /\ Spawn(subject)
  /\ ReleaseControl
  /\ UNCHANGED <<rowVars, timers, stage, of, localVars, runningSources, cancellations,
                 cancelled, activeProcesses, storagePauses, permits, clientVars, lifeVars>>

\* pause_source: the run is stopped, then the row is paused.
PauseSource(s) ==
  /\ Exists(s)
  /\ TakeControl("pausing_source", {s})
  /\ pausedSourceIds' = pausedSourceIds \cup {s}
  /\ cancelled' = cancelled \cup TokensOf({s})
  /\ child' = Killed({s})
  /\ UNCHANGED <<rowVars, spawnVars, stage, of, tries, outcome, runningSources, cancellations,
                 activeProcesses, storagePauses, permits, downloadsPaused, deleting, lifeVars>>

PauseSourceRow ==
  /\ control = "pausing_source"
  /\ row' \in {row, Marked(subject, "paused")}
  /\ ReleaseControl
  /\ UNCHANGED <<attempts, spawnVars, taskVars, downloadsPaused, clientVars, lifeVars>>

\* resume_source: the row is requeued, then the run is spawned.
ResumeSource(s) ==
  /\ ~downloadsPaused
  /\ row[s] \in {"paused", "storage_limit", "error", "done", "retrying"}
  /\ TakeControl("resuming_source", {s})
  /\ row' = Marked({s}, "pending")
  /\ UNCHANGED <<attempts, spawnVars, taskVars, downloadsPaused, deleting, lifeVars>>

ResumeSourceRun ==
  /\ control = "resuming_source"
  /\ pausedSourceIds' = pausedSourceIds \ subject
  /\ Spawn(subject)
  /\ ReleaseControl
  /\ UNCHANGED <<rowVars, timers, stage, of, localVars, runningSources, cancellations,
                 cancelled, activeProcesses, storagePauses, permits, downloadsPaused,
                 clientVars, lifeVars>>

-----------------------------------------------------------------------------
(* Requests that do not take download_control.                             *)

\* The rows are inserted one by one; one that fails leaves those before it
\* without a run.
Create(S) ==
  /\ Command
  /\ S # {} /\ \A s \in S : ~Exists(s) /\ deleting[s] # "deleted"
  /\ row' = [s \in Source |-> IF s \in S THEN "pending" ELSE row[s]]
  /\ Spawn(S) \/ UNCHANGED queued
  /\ UNCHANGED <<attempts, timers, taskVars, controlVars, deleting, lifeVars>>

\* resync of one source and resync_all, which ignores rows that are not stored
Resync(S) ==
  /\ Command
  /\ ~downloadsPaused
  /\ S # {} /\ \A s \in S : Exists(s) /\ row[s] \notin {"pending", "downloading"}
  /\ \E T \in SUBSET S : row' = Marked(T, "pending")
  /\ Spawn(S)
  /\ UNCHANGED <<attempts, timers, taskVars, controlVars, deleting, lifeVars>>

Delete(s) ==
  /\ Command
  /\ Exists(s) /\ deleting[s] = "no"
  /\ cancelled' = cancelled \cup TokensOf({s})
  /\ deleting' = [deleting EXCEPT ![s] = "waiting"]
  /\ UNCHANGED <<rowVars, spawnVars, stage, of, localVars, runningSources, cancellations,
                 activeProcesses, pausedSourceIds, storagePauses, permits,
                 controlVars, lifeVars>>

\* One poll of delete: shutdown ends the call, a run is cancelled again.
PollDelete(s) ==
  /\ deleting[s] = "waiting"
  /\ deleting' = [deleting EXCEPT ![s] = IF shutdown THEN "no"
                                         ELSE IF s \in runningSources THEN @ ELSE "quiet"]
  /\ cancelled' = cancelled \cup (IF s \in runningSources THEN TokensOf({s}) ELSE {})
  /\ UNCHANGED <<rowVars, spawnVars, stage, of, localVars, runningSources, cancellations,
                 activeProcesses, pausedSourceIds, storagePauses, permits,
                 commands, controlVars, lifeVars>>

\* Identifiers are AUTOINCREMENT: a deleted source does not come back.  A
\* shutdown, or a statement that fails, ends the call without it.
DeleteRow(s) ==
  /\ deleting[s] = "quiet"
  /\ \/ /\ row' = [row EXCEPT ![s] = "absent"]
        /\ attempts' = [attempts EXCEPT ![s] = 0]
        /\ deleting' = [deleting EXCEPT ![s] = "deleted"]
     \/ /\ deleting' = [deleting EXCEPT ![s] = "no"]
        /\ UNCHANGED <<row, attempts>>
  /\ UNCHANGED <<spawnVars, taskVars, controlVars, commands, lifeVars>>

-----------------------------------------------------------------------------
(* The end of the process and the next start.                              *)

Shutdown ==
  /\ ~shutdown /\ restarts < MaxRestarts
  /\ shutdown' = TRUE
  /\ UNCHANGED <<rowVars, spawnVars, taskVars, controlVars, clientVars, orphans, restarts>>

\* The process dies, after a shutdown or without one.  What survives is the
\* database and, where nothing ties gallery-dl to its host, the children; the
\* next start pauses the rows that were downloading and knows of no child.
Restart ==
  /\ restarts < MaxRestarts
  /\ restarts' = restarts + 1
  /\ row' = [s \in Source |-> IF row[s] = "downloading" THEN "paused" ELSE row[s]]
  /\ queued' = [s \in Source |-> 0]
  /\ timers' = [s \in Source |-> 0]
  /\ stage' = [t \in Task |-> "free"]
  /\ of' = [t \in Task |-> AnySource]
  /\ child' = [t \in Task |-> "none"]
  /\ \E T \in SUBSET {t \in Task : child[t] = "running"} :
       orphans' = orphans \cup {of[t] : t \in T}
  /\ tries' = [t \in Task |-> 0]
  /\ outcome' = [t \in Task |-> "none"]
  /\ runningSources' = {}
  /\ cancellations' = [s \in Source |-> NoTask]
  /\ cancelled' = {}
  /\ activeProcesses' = [s \in Source |-> NoTask]
  /\ pausedSourceIds' = {}
  /\ storagePauses' = {}
  /\ permits' = {}
  /\ downloadsPaused' = FALSE
  /\ ReleaseControl
  /\ deleting' = [s \in Source |-> IF deleting[s] = "deleted" THEN "deleted" ELSE "no"]
  /\ shutdown' = FALSE
  /\ UNCHANGED <<attempts, commands>>

\* A child that outlived its process ends by itself: nothing else can stop it.
OrphanExits(s) ==
  /\ s \in orphans
  /\ orphans' = orphans \ {s}
  /\ UNCHANGED <<rowVars, spawnVars, taskVars, controlVars, clientVars, shutdown, restarts>>

-----------------------------------------------------------------------------

\* What the task of a run does by itself
RunStep(t) ==
  \/ PublishToken(t) \/ CheckPaused(t) \/ RecordPaused(t) \/ Refuse(t) \/ Admit(t)
  \/ CoolDown(t) \/ Claim(t) \/ AcquirePermit(t) \/ GiveUpPermit(t) \/ ReadSource(t)
  \/ SpawnFails(t) \/ SpawnChild(t) \/ RegisterChild(t) \/ CheckPausedAfterSpawn(t)
  \/ Reap(t) \/ UnregisterChild(t) \/ Settle(t) \/ Persist(t)
  \/ WithdrawToken(t) \/ Unregister(t)

BeginRun(s) == DropRun(s) \/ \E t \in Task : Register(t, s)

Environment == \/ \E t \in Task : ChildExits(t) \/ HitStorageLimit(t)
               \/ \E s \in Source : OrphanExits(s)

ControlStep == \/ PauseRows \/ PauseActive \/ PauseOthers \/ PauseSourceRow
               \/ ResumeRows \/ ResumeRuns \/ ResumeSourceRun

DeleteStep(s) == PollDelete(s) \/ DeleteRow(s)

Client ==
  \/ Pause \/ Resume
  \/ \E s \in Source : PauseSource(s) \/ ResumeSource(s) \/ Delete(s)
  \/ \E S \in SUBSET Source : Create(S) \/ Resync(S)

Next ==
  \/ \E t \in Task : RunStep(t)
  \/ \E s \in Source : BeginRun(s) \/ TimerFires(s) \/ DeleteStep(s)
  \/ ControlStep \/ Client \/ Environment \/ Shutdown \/ Restart

Spec == Init /\ [][Next]_vars

\* The runtime polls every task that can go on; sleeps and cooldowns end.
\* gallery-dl may run for ever, and clients and the host owe nothing.
Fairness ==
  /\ \A t \in Task : WF_vars(RunStep(t))
  /\ \A s \in Source : WF_vars(BeginRun(s)) /\ WF_vars(TimerFires(s)) /\ WF_vars(DeleteStep(s))
  /\ WF_vars(ControlStep)

FairSpec == Spec /\ Fairness

-----------------------------------------------------------------------------
(* Properties.                                                             *)

Stages == {"free", "registered", "starting", "admission", "cooldown", "cooled",
           "claiming", "waiting_permit", "permitted", "pausing", "reading",
           "spawning", "spawned", "registered_child", "supervising", "reaped",
           "settling", "settled", "leaving", "left"}

\* Types of the state.
TypeOK ==
  /\ row \in [Source -> Statuses \cup {"absent"}]
  /\ attempts \in [Source -> Nat]
  /\ queued \in [Source -> Nat]
  /\ timers \in [Source -> Nat]
  /\ stage \in [Task -> Stages]
  /\ of \in [Task -> Source]
  /\ child \in [Task -> {"none", "running", "ok", "failed"}]
  /\ tries \in [Task -> Nat]
  /\ outcome \in [Task -> {"none", "ok", "failed", "interrupted"} \cup Statuses]
  /\ runningSources \subseteq Source
  /\ cancellations \in [Source -> Task \cup {NoTask}]
  /\ cancelled \subseteq Task
  /\ activeProcesses \in [Source -> Task \cup {NoTask}]
  /\ pausedSourceIds \subseteq Source
  /\ storagePauses \subseteq Source
  /\ permits \subseteq Task
  /\ downloadsPaused \in BOOLEAN
  /\ control \in {"free", "pausing_rows", "pausing_active", "pausing_others",
                  "pausing_source", "resuming", "reopening", "resuming_source"}
  /\ subject \subseteq Source
  /\ deleting \in [Source -> {"no", "waiting", "quiet", "deleted"}]
  /\ shutdown \in BOOLEAN
  /\ orphans \subseteq Source
  /\ commands \in Nat
  /\ restarts \in Nat

\* A source has at most one run, and is in running_sources exactly while it
\* has one: what the wait in resume, delete and maintenance relies on
\* (src/downloader.rs:1007, 1018).
OneRunPerSource ==
  /\ \A t, u \in Task : Busy(t) /\ Busy(u) /\ of[t] = of[u] => t = u
  /\ runningSources = {of[t] : t \in {u \in Task : Busy(u)}}

\* Pause, delete and pause_source reach every child that this process runs: the
\* token in source_cancellations is the one its own run waits on
\* (src/downloader.rs:1010-1018, 1344).  They reach no child of an earlier process.
ChildCanBeCancelled ==
  \A t \in Task : child[t] = "running" => cancellations[of[t]] = t

\* A storage limit that stopped one run is gone before the source's next run
\* reaches the child whose outcome it would decide (src/downloader.rs:1103, 1418).
StoragePauseIsFresh ==
  \A s \in storagePauses : \E t \in RunOf(s) : stage[t] \in {"supervising", "reaped", "settling"}

\* A pause stops every run, those that wait for a permit or are about to spawn
\* a child included, unless the downloads are resumed first.
PauseQuiesces == downloadsPaused ~> (~downloadsPaused \/ runningSources = {})

\* Whoever holds download_control lets go of it: the wait of a resume for the
\* runs to stop (src/services/downloads.rs:338) ends.
ControlIsReleased == control # "free" ~> control = "free"

\* delete stops waiting for the run of its source (src/services/sources.rs:233).
DeleteEnds == \A s \in Source : deleting[s] = "waiting" ~> deleting[s] # "waiting"

\* After a shutdown every run and every retry timer ends, so that
\* download_tasks.wait() returns (src/lib.rs:649).
ShutdownDrains ==
  shutdown ~> \/ ~shutdown
              \/ /\ \A t \in Task : ~Busy(t)
                 /\ \A s \in Source : queued[s] = 0 /\ timers[s] = 0

=============================================================================
