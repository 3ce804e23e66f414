# Curator: specifications and proofs

TLA+ modules for the Rust core of Curator (`src/src/`) and the embedded player of
its desktop application (`src/desktop/src/`), the TLC configurations
that check them on small instances, and proofs, checked by TLAPS, that hold for
every instance. `PROJECT.json` lists the components, runs, mutants, hazards and
theorems, and maps each definition to the lines it models.

Source paths below are relative to the repository's crate, `src/src/`, or, for
`player.rs` and `desktop/lib.rs`, to `src/desktop/src/`.

## 1. The system

Curator keeps a local media library: it downloads from *sources* with
gallery-dl, indexes and classifies what arrives, plays it in timed sessions, and
offers maintenance (backup, restore, factory reset). One process holds an
`AppState` of locked maps, atomic flags and a SQLite pool; tokio tasks, blocking
closures and a few child processes work on it concurrently.

| component | state | operations | what is hard | correct when |
|---|---|---|---|---|
| Maintenance coordinator (`maintenance.rs`) | `active`, `background_workers`, `serial`, jobs | acquire and drop a lease; start a job, pause, drain, transaction, resume, reopen | two-check admission against compare-exchange; a deadline; panics; jobs back to back; clients that pause meanwhile | a transaction is alone; the counter is exact; every job ends; admission reopens |
| Pending restart (`maintenance.rs`, `routes/admin.rs`) | live, staged and rollback files, the marker | stage a restore or a reset; apply it at the next start; roll back; clean up | a kill or an error between any two file operations; repeated starts; SQLite's write-ahead log | the host opens the old library or the whole new one |
| Downloader and controls (`downloader.rs`, `services/downloads.rs`, `services/sources.rs`) | source rows; `running_sources`, `source_cancellations`, `active_processes`, `storage_pauses`, permits, the pause flag, `download_control` | `run_download`, retry timers, pause, resume, pause and resume of a source, resync, create, delete, shutdown, start | all of them interleave at each await; four maps that must agree; child processes; statements that fail; rows that outlive tasks | one run per source; every child can be stopped; pauses, deletions and shutdowns finish |
| Session engine and service (`session.rs`, `services/session.rs`, `lib.rs`) | clock readings, active and paused time, phase, events; the runner; the observer that stores the summary | start, tick, pause, resume, end, interrupt; store once | late ticks; readings taken before a lock; replaced runners; a terminal update that races shutdown | time is counted once, but for late readings; late ticks change nothing; a running session has its runner; an end is stored |
| Library index (`downloader.rs`, `media_files.rs`, `routes/library.rs`, `services/media.rs`) | media rows and files, placeholders, the watcher's channel | index a batch, scan, listing, merge, recovery, missing file, rating and tags | event overflow, batches without a lease, paths that return, rows read before the transaction that writes them | one row per URL; annotations stay; a scan makes up for what was lost; after a recovery rows and files agree |
| Classifier supervisor (`nsfw.rs`, `duration.rs`) | `nsfw_state`, `nsfw_attempts`, `nsfw_retry_at`; the worker process | claim, classify, persist, fail, restart the worker, probe durations | results for rows that changed; a user who rates, or takes a rating back, meanwhile; a worker that hangs; kills and failed stores during an attempt | the user's rating wins; a verdict is of the file; every row is decided, or failed, or will be tried; the lease comes back |
| Storage quotas and clean-up (`storage.rs`, `routes/storage.rs`) | limits, usage, one-time permits | admit, stop a run, remove old media | checks that are stale when used; a file removed and its row not | no protected file is removed; the row follows the file |
| P-HAR installation (`phar.rs`) | a phase on disk, a cancel file, a thread | start, cancel, repair | none yet: no installation gets past its checks in this build | it says why it failed |
| Remote listener (`remote.rs`) | sockets, `bound_addresses`, `extra_listeners`, `primary`, `primary_lan`, `start_lock` | start, swap of the mode, Tailscale's addresses, refresh, drain, shutdown | a refresher without the lock; sockets that drain; binds that fail | the host serves the mode that was set last, and Tailscale's addresses in the other one; a shutdown ends |
| Embedded player (`player.rs`, `desktop/lib.rs`) | generation and status of the UI's side; libmpv and its locals on the worker's; two bounded queues, a frame, the panic flag | load, stop, pause, panic and restore, drain, advance, shut down | neither thread waits for the other; reports of a medium that was replaced; full queues; the flag overtakes commands | a report is about the medium that plays; an end advances; the last pause or resume that was sent is in force; the shutdown ends |
| Everything else (routes, native client, settings, discovery, playback, exports, the rest of the desktop, viewer, workers) | none that several actors change | adapters, queries, files | none a model would reach | covered by their own tests |

How they interact:

- A download, a request that changes the library, a classifier batch and an
  index batch each hold a **lease** of the coordinator; a maintenance job waits
  for all of them and for `running_sources` to be empty.
- A job pauses the downloads through the same `downloads_paused` and
  `download_control` as the clients do, and resumes them if it paused them.
- A restore or a reset only stages files and a marker; **the next start** applies
  them before the database opens.
- Clients, timers and resumes spawn `run_download`; the run alone decides,
  through `running_sources`, whether it may go on, and clients reach a run only
  through its cancellation token and its child's process id.
- The download's consumer, the recovery after a start and requests write the
  same media rows; the classifier reads what they wrote, and **indexing a changed
  file puts its row back into the classifier's queue**. Clean-up removes files,
  and marks rows, of both.
- Saving the settings may swap the listeners; the refresher repairs them later.
- The player is the desktop's: its queue of media, feeds and reviews advance when
  the tick sees that a medium ended.
- The session engine is passive; the service stamps commands, a runner ticks it,
  and an observer stores its end.

`hazards` in `PROJECT.json` lists, at its line, everything found in this code
that a test would hardly reach, with the properties that watch it or the reason
why none does.

## 2. The modules at a glance

In the order of what would hurt most if it were wrong.

| module | models | proofs |
|---|---|---|
| `ExclusiveAccess` | abstract: many leases, or one transaction | |
| `MaintenanceGate` | the coordinator; implements `ExclusiveAccess` | `MaintenanceProofs` |
| `PendingRestart` | staging, and its application at the next start | `MaintenanceProofs` |
| `Downloads` | runs, retries and the controls over them | `DownloadsProofs` |
| `LibraryIndex` | rows and files of one source | `LibraryIndexProofs` |
| `Classification` | ratings, attempts, the worker, clean-up | `ClassificationProofs` |
| `SessionEngine` | one session's phases, events and time | `SessionEngineProofs` |
| `SessionService` | callers, runner, observer and shutdown around it | `SessionServiceProofs` |
| `RemoteListener` | the sockets of the host | `RemoteListenerProofs` |
| `PlayerBridge` | the two threads of the embedded player | `PlayerBridgeProofs` |

How they fit together: each module leaves its neighbours open rather than
assuming the best of them. `Downloads` may be refused admission at any time, as
by a gate in a transaction; `LibraryIndex` may be refused any lease; a
`Mutator` of the gate is any of the others under a lease, and what the gate needs
of them, that they give the lease back, is `LeaseIsReleased` and
`ControlIsReleased`. `SessionService` has the engine reduced to status and time,
`Classification` the index reduced to the statement that resets a row.

## 3. The modules

### ExclusiveAccess and MaintenanceGate

`MaintenanceGate` models `MaintenanceController` with one action per atomic
operation or awaited lock. `FirstCheck`, `Count`, `SecondCheck`, `BackOut` and
`DropLease` are `try_acquire_background_worker` and the `Drop` of the lease: first
check of `active`, increment, second check, decrement. `ClaimJob` is the
compare-exchange of `start`, `SpawnJob` what follows its wait for the lock of the
jobs, `DropRequest` a handler future that is dropped in that wait; `TakeSerial` to
`Reopen` are the task it spawns, with
`wait_for_quiescence` split into its two reads, the poll and the deadline, then
`run_blocking`'s transaction, `resume_after_maintenance` and the reopening. A
resume, of a job or of a client, may end without a database and leave the pause
(`ResumeUnchecked`); the job takes no notice.
`Downloader`s hold a lease for a run and are in `running_sources` for part of it;
`Mutator`s stand for everything else under a lease; `Client`s are the callers of
`pause_typed` and `resume_typed`. `Panic` lets a download unwind: its lease is
dropped, its entry in `running_sources` stays. `Spec` has neither panics nor dropped
requests, `PanicSpec` the former, `AbruptSpec` both.

`ExclusiveAccess` says only: many leases, or one transaction, never both. The
refinement maps `holders` to the workers past the second check and `owner` to the
job inside its transaction.

### PendingRestart

Files are functions to contents (the library they belong to, absent, or torn).
`BeginStaging` to `FailStaging` are the job that stages, `Start` to `RemoveMarker`
the body of `apply_pending_restart`: `replace_with_rollback`, `move_with_rollback`,
`rollback_replacement` and the clean-up, one action per file operation and one per
failure. `Crash` may come anywhere; the files survive. `OpenLibrary` and
`ShutDown` are SQLite's part: sidecars appear and are checkpointed away. The
history variables `lastRun`, `intended`, `before` and `stagings` state the
properties and bound the runs; the code has no such state. Its specification is
`RestartSpec`, so that the proofs about it and about the gate, two halves of
`maintenance.rs`, can share a module.

### Downloads

A run is a task in one of the `stage`s between two awaits of `run_download` and
`run_download_impl`: `Register` (the insertion into `running_sources`),
`PublishToken`, the checks of the pause flag, `Refuse`/`Admit`, cooldown, `Claim`
(the row becomes downloading), the permit, `SpawnChild` and the entry in
`active_processes`, `Reap`, `Settle` (the verdict from exit, token and storage
limit), `Persist` (row and retry timer), `WithdrawToken`, `Unregister`. Pause,
resume and their variants for one source hold `download_control` across several
steps (`PauseRows`, `PauseActive`, `PauseOthers`, `ResumeRows`, `ResumeRuns`).
`Delete` cancels, polls and deletes the row. `Shutdown` sets the flag;
`Restart` ends the process at any moment and keeps the rows, after the repair of
`lib.rs`; a running child may outlive it (`orphans`), as gallery-dl does outside
Windows, and then ends by itself only (`OrphanExits`). A spawned run that has not begun is a count, since it holds nothing.

Left open: when gallery-dl ends and how, how long a cooldown lasts, whether
storage admits a source, and whether the database answers: a run without a
connection ends, a status that cannot be written stays as it was, a resume that
cannot read or store the rows leaves the pause, a retry that is not stored has no
timer. Left out: local folder imports, the one-time storage
permit, a changed limit of concurrent downloads. The index of a run is
`LibraryIndex`.

### LibraryIndex

One source. `disk` is what gallery-dl and the user do to the files; `real[p]` the
row whose path is `p`, `listed[p]` the placeholder of its URL. The consumer of
`index_download` is `watcher`: it takes a batch of `events`, or starts a scheduled
or a final scan, and for each path reads (`WatcherReads`: `Taken`, the part of
`index_file` before its transaction), then marks it missing or commits
(`Commit`: `Upserted`, with the merge of an early row into its placeholder, and
its failure on a URL that has a row by then). The `recovery` after a start is
`reconcile_cancellable` and the same `index_file`, possibly beside a new
download. `CollectListing`/`PersistListing` are `populate_placeholders`,
`ProbeMissing`/`MarkProbed` the request that gets a 404, `Annotate` the user's
rating and tags, `Kill` the end of the process at any point. A full channel and a
refused lease lose work, as in the code.

### Classification

One loop: `Fetch` selects, `Take` claims under a lease and counts the attempt,
`Ask` and `Answered` are `classify_batch`, `Persist` stores the verdict or the
failure, `PersistFast` the second statement of a video. The worker process fails
to start, hangs and dies; `Drained` is `drain_nude_jobs`, which answers whoever
waits. `ProbeReads`/`ProbeStores` are the duration probe, `Index` the upsert of a
changed file, `CleanupSelects` to `CleanupMarks` the retention rule, `Rate` and
`UndoRating` the user. What the two loops store may fail (`StoreOutcome`, a `Fault`
like a kill): the code takes no notice. Versions stand for contents, so a verdict
on an old file can be told from one on the new.

### SessionEngine

The record `engine` holds status, active and paused time, phase, current event,
history, number of draws and the two stored readings. The operators follow the
methods: `AdvanceToActive` passes milestone after milestone (`PassNext` is one turn
of the loop), `UpdatePhase` and `SchedulePhaseEvents` choose phases and events: a
fold over the phase's event list, in which `Offer` does nothing more once an event
has been started and consumes a draw exactly where the code calls the generator. `Start`, `Tick`,
`Pause`, `Resume` and `End` are `dispatch`; a command in a state that ignores it
is not a step. The seed is `luck`, a sequence of outcomes that repeats after
`Draws`. Readings come in order here; concurrent callers belong to
`SessionService`. `Pause` keeps an oddity of the code: the tick it
begins with may complete the session, which is then `paused` all the same and can
be resumed and ended again; what a client and the stored summary see of that is
for `SessionService`. Tempo is left out: its smoothing is per call and *does* depend
on how time is cut into ticks, so the equivalence below is about phases, events
and draws only.

### SessionService

`CallControl` reads the clock before `Control` gets the engine, so readings
overtake each other; `Create`, `StopOldRunner`, `DispatchStart` and `StartRunner`
are the steps of `start_running`. Updates go into a bounded channel that drops the
oldest; `Receive`, `Recover` and `StoreOutcome` are the observer, `InterruptActive`
to `Drain` the shutdown. `ledger` is history: first outcomes, by how much
readings came late, sessions that a pause revived, overlapping starts.

### RemoteListener

A primary address is `"v4"`, `"v6"` (loopback) or `"any"` (LAN mode); `extra` are
Tailscale's. `sock` is the socket, `draining` the closed listeners of that address
whose requests go on, `bound` the register `bound_addresses` that decides
`running()`: the three come apart, which is what the module is about. `TailCheck`
to `ExtrasDone` are `refresh_tailscale_listeners`, `Compare` and `Restart`
`refresh_lan_listener`, `ReadSetting` to `SetPrimary` `start_primary`, `Swap` to
`Unbound` `swap_primary`, one step between two awaits. The program starts with
either setting saved.
The start of the program, callers of `apply_settings_patch` and the refresher go
through the same steps as `task`s. Another program may hold the port on an
interface (LAN mode cannot bind) or on all of them (nothing can).

### PlayerBridge

The user interface's thread takes one event at a time: `Play` and
`PlayUnplayable` (`play_media_item`, the latter without a source for the medium),
`Stop`, `SetPaused` and `Set` (`on_player_control`), `Hide` (`panic_hide`),
`Unsuspend` and `Restore` (`panic_restore`, cut where the worker may see the flag),
`Tick` (`drain_events` and what the timer makes of the last status), `Stall`,
`Shutdown` and `Joined` (`teardown`). `Sent` is the `try_send` that every command
goes through, with what a full queue does to the status. The worker is `Start`, a
turn (`TurnCommand`, `TurnIdle` or `TurnEnds`: one `recv_timeout`, then
`Suspending`), `Pull` (events, progress, frame) and `End`. libmpv, external,
`Opens`, `Breaks` or `Finishes` a medium between any two steps. A medium is named
by the generation of its Load, so a report about one can be told from a report
*labelled* with another; the code has the labels only. `left`, `lost` and `asked`
are history: what libmpv had announced of a medium when it was replaced; whether a
report of the medium, or the flag that its end was acted on, is gone; the pause
states that may be in force.

## 4. What the runs show

| run | configuration | shows |
|---|---|---|
| `gate` | 1 download, 1 client, 2 jobs | the gate implements `ExclusiveAccess`; no download is registered in a transaction; each job ends, admission reopens, also when the resumes of jobs and clients fail |
| `gate_panic` | 1 download that may panic, 2 jobs | *violated*: a panicking download keeps maintenance mode on for ever |
| `restart` | a full and a partial backup, resets, one staging per applied restart | matching sidecars, failed starts undone |
| `restart_killed` | the same, two stagings per applied restart | *violated*: a killed restart is not reversible, since the next start deletes the only original |
| `downloads` | 1 source, 2 tasks, 1 permit, 1 retry, 3 commands, 1 restart, any statement may fail | run exclusion, cancellable children of this process, fresh storage limits; pauses, controls, deletions and shutdowns end |
| `library` | 2 files, a channel of 1, a quota of 1, 2 writes, 1 deletion, 1 download, 1 kill | one row per URL; tags stay; scans and recoveries make up for what was lost |
| `library_merge` | 1 file | *violated*: a merge loses the user's rating |
| `classification` | an image and a video, 2 attempts, 2 versions, 1 change, 1 kill or failed statement | the user's rating is shown as long as it stands; verdicts are of the file, and no row is forgotten, but for the exceptions below; the lease comes back |
| `session` | three small games, 3 draws, delays up to 4 | late ticks equal timely ones, time is counted once, events keep their time and limits |
| `session_service` | 1 thread that starts, 1 that controls, a channel of 1, 2 sessions | no time is lost below the duration, and none is counted twice but what readings came late, which is; a running session has its runner; an end is stored |
| `remote` | 1 Tailscale address, 2 callers, 2 changes, 1 event, 1 slow request | *violated*: after a swap that could bind neither mode, and a setting changed back, the host has no listener for ever |
| `player` | 2 loads, and a pause with a panic, two of either, or 1 other event, failure or time limit; 2 commands, 1 status in the queues | reports are about the medium that plays, an end advances, the last pause or resume that was sent is in force also across a panic, each with the exceptions below; the shutdown joins the worker |

A violated run checks a sentence of the repository's docs, comments or change
log; `findings` quotes it with what the code does instead. Each of two of them
breaks in more ways than its trace shows:

- `RestartIsReversible` has two halves, as the comment has. The other half,
  `AllOrNothing`, is violated alone too, in that run's configuration: a restore is
  staged with its marker; a second restore begins and overwrites the staged database;
  a kill leaves it half-written; the next start finds the marker of the first and
  opens the torn database. Theorem `OnlyRestagingTears` says that without a second
  staging over a pending one this half holds.
- `ModeIsServed`: with `MaxChanges = 3` and `MaxEvents = 0` TLC shows that a
  listener whose requests end after its successor has bound the same address takes
  that address off `bound_addresses` (`remote.rs:264`). `running()` is then false, and
  after the next change every refresh tries to start on a port the host itself holds,
  although `remote.rs:390-393` says that the next refresh recovers.

Each property of a passing run has a mutant: an operator introduced by `Fault:` in
its module that, put in place of the definition it precedes, makes TLC find the
property violated.

Some properties hold only with an exception that the code forces on them. Each is
named in the property, and is itself an observation about the code:

- `ledger.late`: a reading that waited for the engine takes the last reading back, and
  the time between is counted twice (`session.rs:518`). `SurplusIsLateness` says that
  this is all the surplus there is; it does not forbid it.
- `ledger.overlap`: of two overlapping starts, the one whose session was ended
  first may cancel the other's runner (`session.rs:588`). The run has one thread that
  starts sessions, so only `RunnersAreKept` is about several.
- `cut`: a kill during a row's last attempt, or an outcome that is not stored because
  the pool gives no connection (`nsfw.rs:1037`, `1064`, `1070`, `1082`, `1088`), leaves
  it `working`, and no batch selects it again (`nsfw.rs:852`, `867`). A video whose
  verdict was not stored is done without one when the action model decides it.
- `raced`: a verdict or a duration is stored without a look at the stamp; a file
  that was indexed again meanwhile is done with the verdict on the old one.
- `left`: the worker labels what libmpv reports with the generation of the command
  it took last, so a medium that was loaded and ended, or failed, between two turns
  passes for the one that replaced it (`player.rs:438`, `474`, `482`). The comments
  at `player.rs:112-113` and `desktop/lib.rs:6075-6077` exclude it. So does what is said
  of a medium that goes on playing because the Load or Stop after it was refused.
- `lost`: an end whose report, or whose load's report, met a full queue of statuses
  advances nothing. Nor does one after which a medium without a source was to be
  played (`desktop/lib.rs:953-956`): the flag `ended_handled` is reset, and nothing is
  sent.
- `asked` has both pause states once a pause or resume was refused by a full queue, and
  when one is sent after a panic that hid no video and before the worker has seen its
  end: the worker then gives back, after that command, what it found when the panic
  began (`player.rs:451-468`).

Disagreements with the repository's text that the models show and that are in no run:

- A pause whose tick completes the session sets `paused` over `completed`
  (`session.rs:683`); the session can be resumed, and the summary that is stored may
  say `paused`. `lib.rs:704-706` has it that "only the update that carries the engine's
  first terminal transition may request a summary insert", and `lib.rs:723` that what is
  stored is "an immutable terminal outcome". Theorem `OnlyPausesReplaceOutcomes`: in no
  other way is another outcome stored than the first.
- A row that waits for a retry when the program ends is never retried, since nothing
  at a start reads `retry_at` or spawns its timer (`lib.rs:374` repairs only rows that
  were downloading). `db.rs:392-394` has it that "a background process can safely recover
  its queue after a desktop-window or machine restart", `downloader.rs:1566` that
  "`retry_at` is durable for restart recovery".

Other things the models do that no text of the repository excludes: a claim overwrites the pause that came between
the check of the flag and it, and the row stays downloading with no run
(`downloader.rs:1143`); a resume of a source whose run still winds down is lost
(`services/downloads.rs:476`); a run whose outcome is not stored leaves a row that says
downloading (`downloader.rs:1560`); a maintenance job whose resume finds no database
leaves the downloads paused (`maintenance.rs:307`); a request that is dropped between
the claim of a job and its spawn leaves admission closed (`maintenance.rs:258`); outside
Windows a gallery-dl outlives its host, and the next run of the source works beside it
(`process.rs:22-23`). `CHANGELOG.md:18` speaks of
"Startup and hourly reconciliation", but the code reconciles at startup and in a
maintenance job only (`maintenance.rs:483`); `docs/DOCS.txt:5-7` says the host
"never binds an ordinary LAN interface", which predates LAN mode.

### Bounds, and why they are enough

- *Gate.* A download and a client are two holders that race each step of the
  two-check protocol; the second job meets the resume of the first. The theorems
  cover any number of each, requests and panics included.
- *PendingRestart.* `MaxStagings` is the number of stagings since a restart applied
  one; the number of starts, kills and failures is not bounded. One is enough for what
  `restart` claims, whose theorems are for any number.
- *Downloads.* `MaxCommands = 3` allows create, pause, resume, or create, pause,
  delete, with every interleaving of two runs of one source; a fourth command or a
  second source exceeds the time of a run, so no run waits for another source's permit.
  What two sources share is the permit,
  `download_control` and the pause flag; the safety theorems cover any number of
  them, the liveness properties do not.
- *LibraryIndex.* Paths interact only through the channel, the quota and the scan's
  set, so two suffice to fill each; two writes are a first version and a second,
  or two files. All its properties are proved for any number.
- *Classification.* An image and a video are the two ways through `Persist`; two
  attempts have a first and a last one. One fault is a kill or one statement that is
  not stored, at any point. All safety properties are proved for any
  number of media and attempts.
- *SessionEngine.* `MaxDelay` exceeds the shorter phases and events, so one tick
  jumps over several milestones; `MaxClock` bounds only when pauses begin and end.
  The games include a boundary inside an event, one that coincides with a
  deadline, phases longer and shorter than the session, and a required event under
  cooldown.
- *SessionService.* A channel of one update overflows at once; the second session
  meets the first one's runner, observer and controls. With one thread that starts
  sessions, overlapping starts do not occur; the proofs are for any number of them.
- *PlayerBridge.* `MaxLoads = 2` has a medium and its successor, by the user's choice
  or an advance; a queue of two commands is full after a load and one more. A pause
  and the panic key cost one of `MaxEvents = 2`, everything else two, so that a pause
  and a panic, or two panics, meet in one behaviour. A queue of one status drops whatever
  follows in the same batch, so an audio report after "loaded" never arrives in the run;
  the proofs are for any capacities and numbers.
- *RemoteListener.* Two changes are a mode and its reversal, or two callers' races;
  one event is a Tailscale address or a program that takes the port; one slow
  request lets a listener outlive its successor's bind. Without IPv6,
  whose loopback is bound and closed along with the other.

`CHECK_DEADLOCK FALSE` stands where the system really stops: a gate whose jobs are
over or stuck, downloads when the clients have used their commands, an ended
session, rows that are all decided, a host that was shut down.

### Fairness

- *Gate.* Steps of a task that has begun are weakly fair: tokio polls ready tasks.
  Steps that wait for `download_control` or for the end of stopped runs are
  strongly fair: tokio's mutex queues its waiters and the polls go on for as long
  as it takes. Nobody is obliged to begin a run, a job or a pause. Only
  `gate_panic` assumes the deadline.
- *Downloads.* The steps of a run, of a control and of a delete are weakly fair,
  and timers fire. gallery-dl may run for ever unless it is cancelled; clients,
  shutdowns, restarts and the database are owed nothing.
- *Classification.* The loop and the supervisor are weakly fair: their waits have
  timeouts. Statements need not succeed. A worker is owed no answer, files and users nothing.
- *RemoteListener.* The tasks, the refresher's sleep and accept loops are weakly
  fair; requests end, and another program leaves the port in the end, since no code
  could serve a port that stays taken. `WaitEnds` waits for closed sockets: the
  code gives a cancelled accept loop two seconds, and it needs one poll.
- *PlayerBridge.* The timer and the worker's thread are weakly fair. `Pull` of all
  pending events together with a progress report and a frame is strongly fair:
  reports come every 100 ms, turns every 16 ms. Time limits (`Tick(TRUE)`), the user and
  libmpv are owed nothing.
- *PendingRestart, LibraryIndex, SessionEngine, SessionService.* Safety only.

## 5. What is proved

The proofs assume only the named assumptions on the constants, and finiteness of
`Worker` for its cardinality. `ListenerAssumption` is no ASSUME but a hypothesis of the
theorem, as `~RollbackFails` and the absence of a second staging are of theirs.

| theorem | argument |
|---|---|
| `MaintenanceProofs`: `TypeCorrect`, `TransactionsAreExclusive`, `CounterExact`, `JobsDoNotOverlap` | one inductive invariant. Exclusion alone is not inductive: a job enters its transaction on the strength of the counter and stays alone because `active` makes every second check fail. So `IInv` adds that the counter is the number of counted workers, that `active` is set exactly for one closing job, and that a serialized job holds `serial`. Lemmas `CountUp`, `CountDown` and `CountSame` carry the cardinality. Proved with panics and dropped requests included |
| `GateImplementsAccess` | step simulation: every step is a grant, a return, an own, a disown or a stutter of `ExclusiveAccess` |
| `NoRunsInTransactions` | a registered run is leased; then from exclusion. Without panics |
| `RestartTypeCorrect`, `SidecarsAlwaysMatch` | the invariant says how far the loop is when sidecars are retired and when they return; it holds also when renames of a rollback fail |
| `FailureRestoresFiles` | for `RollbackFails = FALSE`, any number of stagings. `UndoInv` compares every file with what the start found (`before`): before the first rename nothing differs, in the loop exactly the files on record do (`Recorded`), and the rollback returns them one by one (`HalfRestored`, `Undone`). That a file has its rollback file while it is on record is what makes it return |
| `OnlyRestagingTears` | for `RollbackFails = FALSE` and behaviours without a second staging over a pending one (`[]Single`; `MaxStagings` is any number). Staged files, marker and rollback files belong to one staging (`OneStaging`), and wherever a start is killed (`KilledStart`) either the database is replaced and no later start finds one staged, so that none opens, or nothing but the database has moved. With a second staging it is false, as `restart_killed` shows; if a rename of a rollback fails nothing is promised |
| `DownloadsProofs`: `TypeCorrect`, `RunsAreExclusive`, `ChildrenCanBeCancelled`, `StoragePausesAreFresh` | one task is busy per source, it owns the source's token from its publication to its withdrawal, a child runs only in between, and a storage limit is on record only while the run it stopped has yet to settle. A status that is not stored changes none of this (`SetStatusType`). For any sets of sources and tasks, any permits, retries, commands and restarts |
| `LibraryIndexProofs`: `TypeCorrect`, `RowsAreUnique`, `TagsAreKept`, `ScansAreComplete`, `RecoveryReconciles` | the five properties of the run, each for any files, limits and bounds. The first three and `ScansCover` are inductive together: a path of a scan that nobody changed is still to do, under way with a job that was read from the file as it is, or indexed (`Covers`); the recovery moreover has its missing files behind it (`Settles`). The last two follow when nothing is left to do |
| `ClassificationProofs`: `TypeCorrect`, `HumanRatingIsKept`, `VerdictsAreOfTheFile`, `RowsAreRemembered` | stated per row (`Known`). `VerdictsAreOfTheFile` needs what is *about* to be stored: the loop's answer and the probe's reading are of the version they saw (`Seen`), and a new version has a number that no stamp has had (`FileIsNew`). A row that is not decided has no verdict (`Unjudged`), so what a failed store leaves is no older verdict but none. `RowsAreRemembered` needs that a row in the rest of a batch has attempts left (`Batched`) |
| `PlayerBridgeProofs`: `PauseRestored` | the invariant follows the last pause or resume through the queue (`Promise`): while it is queued it is what was asked for last, or either after a refusal or a panic that hid no video; once it is not, what libmpv has, or what the worker will give back, is. The worker gives back after the first command it takes when the panic is over, so that command must not be the last pause or resume: `panic_restore` sends the volume first. What drains the reports is a fold and stays opaque; this proof needs nothing of it |
| `PlayerBridgeProofs`: `StatusBelongs`, `TypeCorrect` | the invariant (`OwnInv`) follows what is said of a medium on its way from libmpv's events through the queue of reports to the status (`StatusInv`). Along the queue to the worker generations never go back (`Ordered`), and the first command of a generation is a `Load` or a `Stop` (`Begins`) unless one was refused, which fails the status; so whatever libmpv still says of an older medium when the worker comes to a generation is in `left`. An end is believed only after a `loaded`, and libmpv announces no end without the `loaded` of the same medium before it (`Sequenced`), hence both are in `left`. The reports are drained and labelled by folds over queues of any length: their steps are named by a function on `Nat` and followed by induction in the form of sets (`NatSetInduction`, from the well-foundedness of `<`), which needs no operator parameter. `TypeOK` bounds the generations by a budget: what a time limit, an end and the view's own limit may still add (`Budget`) |
| `SessionEngineProofs`: `TypeCorrect`, `LateIsTimely`, `EachUnitCounted`, `EventsDoNotOverlap`, `LimitsAreKept` | the five properties of the run, for every configuration that passes validation, every seed, delay and number of commands. The invariant (`SoundInv`) holds after every command: the phase is the one of the active time, an event is over when the next one starts, the occurrences of each keep to its limits (`GameInv`), and active and paused time add up to the last reading until the session is over (`TimeInv`). The choice of an event keeps it (`OfferKeeps`, along the fold), and so does a milestone (`MilestoneKeeps`); each takes a unit of time, so the loop reaches its target (`AdvanceArrives`). A late tick does what timely ones do by induction on the time up to the timely one: a milestone before it is the next one for both ticks (`SameMilestone`), and without one the timely tick moves the active time and nothing else (`QuietTick`), after which the late one finds the same milestone |
| `SessionServiceProofs`: `TypeCorrect`, `SurplusIsTheLateness`, `RunnersAreKept`, `OnlyPausesReplaceOutcomes`, `EndsAreStored` | the three properties of the run, the types and what may replace an outcome, for any number of callers, sessions and updates in the channel. A ready session belongs to the one call that prepares it (`StartOrder`), so no start is ignored and the account of time begins at one place (`Account`). Without overlapping starts there is one start at a time, and it is of the session in the slot (`OneStart`), so the runner it leaves is the right one (`LiveRunner`). Whatever is in the channel, with the observer or with shutdown says the first end of its session (`Writers`), or is of one that a pause revived. An end that is not stored is in the channel, with the observer, or will be looked for because of lag (`Ends`) |
| `RemoteListenerProofs`: `TypeCorrect` | what the sockets' registers and `start_lock` say of each other, for any callers and addresses. A key has no listener exactly while a task is about to bind it: inductive because that task is the only one for its address and does nothing else meanwhile (`OneBinder`), and because who holds no lock takes no step of a swap (`Locked`). That a drained listener was counted (`Counted`) is for the bound only |

`TypeCorrect` of the gate, of `Downloads`, `LibraryIndex`, `Classification`,
`SessionService` and `RemoteListener`, `OnlyRestagingTears` and
`OnlyPausesReplaceOutcomes` are proved and in no passing run: the proof says what the
run would.

Only model-checked: every liveness property (fairness and `ENABLED` are outside
the prover).

## 6. Not modelled

Components with status `not_modelled` in `PROJECT.json` give their reason: pure
adapters, queries, input and output formats, user interface, and P-HAR, whose
installation cannot get past its checks in this build. Within the modelled ones:
the copying of database pages and the ZIP format of a backup, the listing of
jobs, imports of local folders (a scan of the same kind), the feeds and still images
around the player, what the window shows of a panic key pressed twice before the
next report, media types and sidecar
contents, gallery-dl's `.part` files (`downloader.rs:419-423`) and errors of a directory
walk, the batches of 256 in which the recovery reconciles (one step here), `undo_review`
in `LibraryIndex` (it is in `Classification`), scores and thresholds, tempo and effects of a session, permissions,
logging and messages. A mutex is a holder
or a single step, a poisoned one is not modelled. Atomics interleave; the orderings
weaker than that which the memory model allows do not occur on the x86-64 builds
the repository releases.

## 7. Running

    tlc -config Downloads.cfg Downloads.tla
    tlc -config LibraryIndex.cfg MCLibraryIndex.tla
    tlc -config SessionEngine.cfg MCSessionEngine.tla
    tlapm LibraryIndexProofs.tla

The `MC` modules give constants that a configuration cannot write down: symmetry
for the library, games for the session. `PROJECT.json` names module
and configuration of each run.
