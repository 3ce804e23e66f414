--------------------------- MODULE SessionService ---------------------------
(***************************************************************************)
(* The service that shares one session engine (src/session.rs,             *)
(* SessionService), the observer that stores its outcome and the shutdown  *)
(* of the process (src/lib.rs), seen by several callers at once.           *)
(*                                                                         *)
(* A caller reads the clock before it waits for the engine's lock, so a    *)
(* reading may reach the engine after a later one.  A session is started   *)
(* in steps: create, stop the old runner, start, start the new runner.     *)
(* Every handled command is broadcast; the observer stores the first       *)
(* update that says the session has ended, and looks at the engine when    *)
(* it was too slow and the channel has dropped updates.                    *)
(*                                                                         *)
(* The engine is reduced to its status and its account of time: phases and *)
(* events are the module SessionEngine, and so are the commands that only  *)
(* pass through: for the channel they are like one that is ignored.        *)
(* A call that is refused changes nothing; one that was admitted before    *)
(* the shutdown may still come while it waits.                             *)
(*                                                                         *)
(* An operator introduced by "Fault:" is a variant of the definition after *)
(* it with a bug that a property must catch.                               *)
(***************************************************************************)
EXTENDS Naturals, Sequences, FiniteSets

CONSTANTS
  Starter,      \* threads that start sessions
  Controller,   \* threads that pause, resume and end them
  Duration,     \* active time after which a session completes
  Capacity,     \* updates the channel holds for the observer
  MaxSessions,  \* bound: sessions started
  MaxClock,     \* bound: the last reading of the clock
  None          \* no engine, no reading, no update, no outcome

ASSUME BoundsAssumption ==
  /\ Duration \in Nat \ {0}
  /\ Capacity \in Nat \ {0}
  /\ MaxSessions \in Nat
  /\ MaxClock \in Nat

VARIABLES
  engine,    \* the session in the slot, or None
  sequence,  \* the number of sessions created, SESSION_SEQUENCE
  clock,     \* the monotonic clock
  calls,     \* calls[c]: how far the call of a caller is
  runner,    \* the session whose runner's token is in the slot, or None
  runners,   \* runners[s]: the task that ticks session s
  updates,   \* the updates the observer has not received, oldest first
  lagged,    \* updates were dropped since it last received
  observer,  \* the task that stores outcomes
  stored,    \* stored[s]: the outcome in the database
  quitting,  \* how far shutdown is
  ledger     \* history: what each session's outcome was, when it started,
             \* by how much readings came late, and what went wrong

svars == <<engine, sequence, updates, lagged, ledger>>
vars  == <<engine, sequence, clock, calls, runner, runners, updates, lagged,
           observer, stored, quitting, ledger>>

Session  == 1..MaxSessions
Reading  == 0..MaxClock
Terminal == {"completed", "cancelled", "interrupted"}
Status   == {"ready", "running", "paused"} \cup Terminal
Controls == {"pause", "resume", "end"}

Engine ==
  [id : Session, status : Status, active : 0..Duration, paused : Nat,
   last : Reading \cup {None}, pausedStarted : Reading \cup {None}]

End == [id : Session, status : Status]

ASSUME NoneAssumption == None \notin Nat \cup Status \cup Engine \cup End

Smaller(a, b) == IF a < b THEN a ELSE b
Excess(a, b)  == IF a > b THEN a - b ELSE 0

-----------------------------------------------------------------------------
(* The engine: its status and the time it has counted. *)

NewEngine(s) ==
  [id |-> s, status |-> "ready", active |-> 0, paused |-> 0,
   last |-> None, pausedStarted |-> None]

Active(e) == e # None /\ e.status \in {"ready", "running", "paused"}

(* Fault: the reading is taken for the time since the last one. *)
AdvancedFromZero(e, now) ==
  [e EXCEPT !.active = Smaller(@ + now, Duration), !.last = now]

Advanced(e, now) ==
  [e EXCEPT !.active = Smaller(@ + Excess(now, e.last), Duration), !.last = now]

(* What an ended session has counted is left out: SessionEngine has it.     *)
Ended(e, status) == [NewEngine(e.id) EXCEPT !.status = status]

Ticked(e, now) ==
  LET advanced == Advanced(e, now)
  IN  IF advanced.active >= Duration THEN Ended(e, "completed") ELSE advanced

Started(e, now) == [e EXCEPT !.status = "running", !.last = now]

(* The tick inside a pause may end the session; the pause then overwrites  *)
(* its status.                                                             *)
Paused(e, now) ==
  [Advanced(e, now) EXCEPT !.status = "paused", !.pausedStarted = now,
                           !.last = None]

Resumed(e, now) ==
  [e EXCEPT !.paused = @ + Excess(now, e.pausedStarted),
            !.pausedStarted = None, !.status = "running", !.last = now]

(* What the engine makes of a command and a reading. *)
After(e, command, now) ==
  CASE command = "start"  /\ e.status = "ready"   -> Started(e, now)
    [] command = "tick"   /\ e.status = "running" -> Ticked(e, now)
    [] command = "pause"  /\ e.status = "running" -> Paused(e, now)
    [] command = "resume" /\ e.status = "paused"  -> Resumed(e, now)
    [] command = "end" /\ e.status \in {"running", "paused"} ->
         Ended(e, "cancelled")
    [] command = "interrupt" /\ e.status \in {"running", "paused"} ->
         Ended(e, "interrupted")
    [] OTHER -> e

(* The status of the EndSession effect, or None. *)
EndEffect(e, command, now) ==
  LET after == IF command = "pause" THEN After(e, "tick", now)
               ELSE After(e, command, now)
  IN  IF e.status \notin Terminal /\ after.status \in Terminal
      THEN after.status
      ELSE None

-----------------------------------------------------------------------------
(* Dispatch: the engine changes and the update is broadcast under its lock.*)

(* An update without an EndSession effect only takes its place in the      *)
(* channel.                                                                *)
Update(e, command, now) ==
  IF EndEffect(e, command, now) = None THEN None
  ELSE [id |-> e.id, status |-> After(e, command, now).status]

(* A full channel drops its oldest update; without a receiver all are lost.*)
Send(update) ==
  IF observer.pc = "stopped" THEN UNCHANGED <<updates, lagged>>
  ELSE IF Len(updates) < Capacity
       THEN updates' = Append(updates, update) /\ UNCHANGED lagged
       ELSE updates' = Append(Tail(updates), update) /\ lagged' = TRUE

(* By how much a reading is behind the last one that counts for a session  *)
(* that goes on.                                                           *)
Lateness(e, command, now) ==
  CASE command \in {"tick", "pause"} /\ e.status = "running" -> Excess(e.last, now)
    [] command = "resume" /\ e.status = "paused" -> Excess(e.pausedStarted, now)
    [] OTHER -> 0

Record(e, command, now) ==
  LET end  == EndEffect(e, command, now)
      goes == Active(After(e, command, now))
  IN  [ledger EXCEPT
         !.outcome[e.id] = IF @ = None THEN end ELSE @,
         !.startedAt = IF ~goes THEN 0 ELSE IF command = "start" THEN now ELSE @,
         !.late = IF goes THEN @ + Lateness(e, command, now) ELSE 0,
         !.revived = IF command = "pause" /\ end # None
                     THEN @ \cup {e.id} ELSE @]

Dispatch(command, now) ==
  IF engine = None THEN UNCHANGED svars
  ELSE /\ engine' = After(engine, command, now)
       /\ Send(Update(engine, command, now))
       /\ ledger' = Record(engine, command, now)
       /\ UNCHANGED sequence

-----------------------------------------------------------------------------
(* Callers. *)

Task(pc, stamp) == [pc |-> pc, stamp |-> stamp, cancelled |-> FALSE]

Idle == [pc |-> "idle", control |-> None, stamp |-> None, id |-> None]

Admitted == quitting.pc \notin {"cancelled", "drained"}

(* control reads the clock before it waits for the engine; what End makes  *)
(* of the reading is left out.                                             *)
CallControl(c) ==
  /\ calls[c] = Idle
  /\ Admitted
  /\ \E control \in Controls :
       calls' = [calls EXCEPT ![c] =
                   [Idle EXCEPT !.pc = "control", !.control = control,
                                !.stamp = IF control = "end" THEN 0 ELSE clock]]
  /\ UNCHANGED <<svars, clock, runner, runners, observer, stored, quitting>>


Control(c) ==
  /\ calls[c].pc = "control"
  /\ Dispatch(calls[c].control, calls[c].stamp)
  /\ calls' = [calls EXCEPT ![c] = Idle]
  /\ UNCHANGED <<clock, runner, runners, observer, stored, quitting>>

Starting == {c \in Starter : calls[c].pc \in {"created", "stopped", "started"}}

(* start: refused while a session is active; otherwise a new one is in the *)
(* slot.  The account of lateness begins anew with it.                     *)
Create(c) ==
  /\ calls[c] = Idle
  /\ Admitted
  /\ ~Active(engine)
  /\ sequence < MaxSessions
  /\ sequence' = sequence + 1
  /\ engine' = NewEngine(sequence')
  /\ ledger' = [ledger EXCEPT !.overlap = @ \/ Starting # {},
                              !.startedAt = 0, !.late = 0]
  /\ calls' = [calls EXCEPT ![c].pc = "created"]
  /\ UNCHANGED <<updates, lagged, clock, runner, runners, observer, stored,
                 quitting>>

CancelRunner(tasks) ==
  IF runner = None THEN tasks ELSE [tasks EXCEPT ![runner].cancelled = TRUE]

(* stop_runner, then the reading for Start. *)
StopOldRunner(c) ==
  /\ calls[c].pc = "created"
  /\ runner' = None
  /\ runners' = CancelRunner(runners)
  /\ calls' = [calls EXCEPT ![c].pc = "stopped", ![c].stamp = clock]
  /\ UNCHANGED <<svars, clock, observer, stored, quitting>>

DispatchStart(c) ==
  /\ calls[c].pc = "stopped"
  /\ Dispatch("start", calls[c].stamp)
  /\ calls' = [calls EXCEPT ![c].pc = "started", ![c].id = engine.id]
  /\ UNCHANGED <<clock, runner, runners, observer, stored, quitting>>

(* Fault: the runner is spawned, its token is not kept. *)
StartRunnerDetached(c) ==
  /\ calls[c].pc = "started"
  /\ runner' = runner
  /\ runners' = [runners EXCEPT ![calls[c].id] =
                   Task("waiting", None)]
  /\ calls' = [calls EXCEPT ![c] = Idle]
  /\ UNCHANGED <<svars, clock, observer, stored, quitting>>

(* start_runner: the new token replaces and cancels the previous one. *)
StartRunner(c) ==
  /\ calls[c].pc = "started"
  /\ runner' = calls[c].id
  /\ runners' = [CancelRunner(runners) EXCEPT ![calls[c].id] =
                   Task("waiting", None)]
  /\ calls' = [calls EXCEPT ![c] = Idle]
  /\ UNCHANGED <<svars, clock, observer, stored, quitting>>

-----------------------------------------------------------------------------
(* The runner of session s. *)

Stop(s) == runners' = [runners EXCEPT ![s] = Task("stopped", None)]

(* The interval fires (select may prefer it to the cancellation): the      *)
(* runner looks whose session it is and reads the clock.                   *)
Wake(s) ==
  /\ runners[s].pc = "waiting"
  /\ IF engine.id # s
     THEN Stop(s)
     ELSE runners' = [runners EXCEPT ![s].pc = "ticking", ![s].stamp = clock]
  /\ UNCHANGED <<svars, clock, calls, runner, observer, stored, quitting>>

TickSession(s) ==
  /\ runners[s].pc = "ticking"
  /\ IF engine.id # s
     THEN Stop(s) /\ UNCHANGED svars
     ELSE /\ Dispatch("tick", runners[s].stamp)
          /\ IF After(engine, "tick", runners[s].stamp).status \in Terminal
             THEN Stop(s)
             ELSE runners' = [runners EXCEPT ![s].pc = "waiting",
                                             ![s].stamp = None]
  /\ UNCHANGED <<clock, calls, runner, observer, stored, quitting>>

RunnerCancelled(s) ==
  /\ runners[s].pc = "waiting"
  /\ runners[s].cancelled
  /\ Stop(s)
  /\ UNCHANGED <<svars, clock, calls, runner, observer, stored, quitting>>

-----------------------------------------------------------------------------
(* The observer. *)

Observe(pc, held) == observer' = [pc |-> pc, held |-> held]

(* recv: an error first if updates were dropped, then the oldest one. *)
Receive ==
  /\ observer.pc = "receiving"
  /\ IF lagged
     THEN /\ lagged' = FALSE
          /\ Observe("lagged", None)
          /\ UNCHANGED updates
     ELSE /\ updates # <<>>
          /\ updates' = Tail(updates)
          /\ IF Head(updates) = None
             THEN UNCHANGED observer
             ELSE Observe("storing", Head(updates))
          /\ UNCHANGED lagged
  /\ UNCHANGED <<engine, sequence, clock, calls, runner, runners, stored,
                 quitting, ledger>>

(* Fault: the dropped updates are not looked for. *)
RecoverNothing ==
  /\ observer.pc = "lagged"
  /\ Observe("receiving", None)
  /\ UNCHANGED <<svars, clock, calls, runner, runners, stored, quitting>>

(* The engine's snapshot stands in for the updates that were dropped. *)
Recover ==
  /\ observer.pc = "lagged"
  /\ IF engine # None /\ engine.status \in Terminal
     THEN Observe("storing", [id |-> engine.id, status |-> engine.status])
     ELSE Observe("receiving", None)
  /\ UNCHANGED <<svars, clock, calls, runner, runners, stored, quitting>>

(* INSERT ... ON CONFLICT DO NOTHING *)
Inserted(update) ==
  [stored EXCEPT ![update.id] = IF @ = None THEN update.status ELSE @]

StoreOutcome ==
  /\ observer.pc = "storing"
  /\ stored' = Inserted(observer.held)
  /\ Observe("receiving", None)
  /\ UNCHANGED <<svars, clock, calls, runner, runners, quitting>>

(* Both places where the observer waits also wait for the shutdown token:  *)
(* for an update, and for the next attempt after one that failed, which    *)
(* changes nothing.                                                        *)
ObserverCancelled ==
  /\ quitting.pc = "cancelled"
  /\ observer.pc \in {"receiving", "storing"}
  /\ Observe("stopped", None)
  /\ updates' = <<>>
  /\ lagged' = FALSE
  /\ UNCHANGED <<engine, sequence, clock, calls, runner, runners, stored,
                 quitting, ledger>>

-----------------------------------------------------------------------------
(* shutdown: interrupt, store, stop the runner, cancel the token, wait.    *)

Quit(pc, held) == quitting' = [pc |-> pc, held |-> held]

(* interrupt_active; only an update that ends the session is stored.  What *)
(* Interrupt makes of its reading is left out.                             *)
InterruptActive ==
  /\ quitting.pc = "no"
  /\ Dispatch("interrupt", 0)
  /\ IF engine # None /\ EndEffect(engine, "interrupt", 0) # None
     THEN Quit("storing", Update(engine, "interrupt", 0))
     ELSE Quit("stopping", None)
  /\ UNCHANGED <<clock, calls, runner, runners, observer, stored>>

(* A failure is logged; shutdown does not try again. *)
StoreInterrupted ==
  /\ quitting.pc = "storing"
  /\ \/ stored' = Inserted(quitting.held)
     \/ UNCHANGED stored
  /\ Quit("stopping", None)
  /\ UNCHANGED <<svars, clock, calls, runner, runners, observer>>

(* stop_runner, and the token of all tasks. *)
CancelTasks ==
  /\ quitting.pc = "stopping"
  /\ runner' = None
  /\ runners' = CancelRunner(runners)
  /\ Quit("cancelled", None)
  /\ UNCHANGED <<svars, clock, calls, observer, stored>>

(* The observer is one of the tasks that shutdown waits for. *)
Drain ==
  /\ quitting.pc = "cancelled"
  /\ observer.pc = "stopped"
  /\ Quit("drained", None)
  /\ UNCHANGED <<svars, clock, calls, runner, runners, observer, stored>>

-----------------------------------------------------------------------------

TimePasses ==
  /\ clock < MaxClock
  /\ clock' = clock + 1
  /\ UNCHANGED <<svars, calls, runner, runners, observer, stored, quitting>>

Init ==
  /\ engine = None
  /\ sequence = 0
  /\ clock = 0
  /\ calls = [c \in Starter \cup Controller |-> Idle]
  /\ runner = None
  /\ runners = [s \in Session |-> Task("none", None)]
  /\ updates = <<>>
  /\ lagged = FALSE
  /\ observer = [pc |-> "receiving", held |-> None]
  /\ stored = [s \in Session |-> None]
  /\ quitting = [pc |-> "no", held |-> None]
  /\ ledger = [outcome |-> [s \in Session |-> None], startedAt |-> 0,
               late |-> 0, revived |-> {}, overlap |-> FALSE]

CallSteps(c) ==
  \/ Control(c)
  \/ StopOldRunner(c)
  \/ DispatchStart(c)
  \/ StartRunner(c)

RunnerSteps(s) == Wake(s) \/ TickSession(s) \/ RunnerCancelled(s)

ObserverSteps == Receive \/ Recover

ShutdownSteps ==
  StoreInterrupted \/ CancelTasks \/ Drain

Next ==
  \/ TimePasses
  \/ \E c \in Starter : Create(c)
  \/ \E c \in Controller : CallControl(c)
  \/ \E c \in Starter \cup Controller : CallSteps(c)
  \/ \E s \in Session : RunnerSteps(s)
  \/ ObserverSteps
  \/ ObserverCancelled
  \/ StoreOutcome
  \/ InterruptActive
  \/ ShutdownSteps

Spec == Init /\ [][Next]_vars

-----------------------------------------------------------------------------
(* Properties. *)

(* The variables keep their types; a running engine has a last reading and *)
(* a paused one the start of its pause, which every settlement relies on.  *)
TypeOK ==
  /\ engine \in Engine \cup {None}
  /\ engine # None =>
       /\ engine.id = sequence
       /\ (engine.last # None) = (engine.status = "running")
       /\ engine.status = "paused" => engine.pausedStarted # None
       /\ engine.status = "running" => engine.pausedStarted = None
  /\ sequence \in 0..MaxSessions
  /\ clock \in Reading
  /\ calls \in [Starter \cup Controller ->
       [pc : {"idle", "created", "stopped", "started", "control"},
        control : Controls \cup {None}, stamp : Reading \cup {None},
        id : Session \cup {None}]]
  /\ runner \in Session \cup {None}
  /\ runners \in [Session ->
       [pc : {"none", "waiting", "ticking", "stopped"},
        stamp : Reading \cup {None}, cancelled : BOOLEAN]]
  /\ updates \in Seq(End \cup {None}) /\ Len(updates) <= Capacity
  /\ lagged \in BOOLEAN
  /\ observer \in
       [pc : {"receiving", "lagged", "storing", "stopped"},
        held : End \cup {None}]
  /\ stored \in [Session -> Status \cup {None}]
  /\ quitting \in
       [pc : {"no", "storing", "stopping", "cancelled", "drained"},
        held : End \cup {None}]
  /\ ledger \in
       [outcome : [Session -> Terminal \cup {None}], startedAt : Reading,
        late : Nat, revived : SUBSET Session, overlap : BOOLEAN]

(* Readings of callers and of the runner overtake each other on their way  *)
(* to the engine.  A reading that comes late is counted twice: it takes    *)
(* last_tick back (advance_running_time), so the next one counts the time  *)
(* between them again.  That is the only surplus: active and paused time   *)
(* are the time since the start and by how much readings came late, and    *)
(* below the configured duration none is lost.                             *)
SurplusIsLateness ==
  engine # None /\ engine.status \in {"running", "paused"} =>
    LET settled == IF engine.status = "running" THEN engine.last
                   ELSE engine.pausedStarted
        counted == engine.active + engine.paused + ledger.startedAt
    IN  /\ counted <= settled + ledger.late
        /\ engine.active < Duration => counted = settled + ledger.late

(* A stored outcome that is not the first end of its session belongs to a  *)
(* session that completed inside a pause, whose status the pause overwrote *)
(* (SessionEngine::dispatch).  Such sessions exist, although               *)
(* persist_terminal_update expects that "only the update that carries the  *)
(* engine's first terminal transition may request a summary insert".       *)
ReplacedOutcomesAreRevived ==
  {s \in Session : stored[s] \notin {None, ledger.outcome[s]}} \subseteq ledger.revived

(* A running session has a runner whose token can still stop it, whatever  *)
(* starts were refused, replaced or raced by controls meanwhile            *)
(* (start_running: "A racing rejected Start must leave that runner         *)
(* alive"), unless two accepted starts overlapped or the process quits.    *)
RunningIsTicked ==
  /\ engine # None
  /\ engine.status = "running"
  /\ Starting = {}
  /\ ~ledger.overlap
  /\ quitting.pc = "no"
  => /\ runner = engine.id
     /\ runners[engine.id].pc \in {"waiting", "ticking"}
     /\ ~runners[engine.id].cancelled

(* The end of a session is stored before the observer rests, although a    *)
(* full channel drops the update that says so, at any moment and more than *)
(* once; unless another session has replaced it or the process quits.      *)
EndIsStored ==
  /\ engine # None
  /\ engine.status \in Terminal
  /\ observer.pc = "receiving"
  /\ updates = <<>>
  /\ ~lagged
  /\ quitting.pc = "no"
  => stored[engine.id] # None

=============================================================================
