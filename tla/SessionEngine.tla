---------------------------- MODULE SessionEngine ----------------------------
(***************************************************************************)
(* The engine of an interactive session (src/session.rs, SessionEngine):   *)
(* its account of active and paused time, its phases and its timed events. *)
(* Every command carries a reading of the monotonic clock and settles the  *)
(* time since the last one before it takes effect; a tick that comes late  *)
(* has to pass every phase boundary and event deadline in between.         *)
(*                                                                         *)
(* Time is counted in units; the runner of the service ticks every 50 ms,  *)
(* or late.  Readings reach the engine in order here.  The random numbers  *)
(* of the seed are `luck': whether a draw falls below the probability of   *)
(* an event that is neither certain nor impossible.  Tempo, instructions,  *)
(* statistics and the effects sent to clients are left out, and so are the *)
(* commands that change nothing else.                                      *)
(*                                                                         *)
(* An operator introduced by "Fault:" is a variant of the definition after *)
(* it with a bug that a property must catch.                               *)
(***************************************************************************)
EXTENDS Naturals, Sequences, FiniteSetsExt, SequencesExt

CONSTANTS
  GameConfigs,  \* the configurations a session may be started with
  Draws,        \* number of draws after which luck repeats
  MaxDelay,     \* bound: units between two commands
  MaxClock,     \* bound: no pause begins or ends after this reading
  None          \* no event, no reading

(* GameConfig::validate.  A phase has a duration and the names of its      *)
(* events; an event its limits and the phases it is allowed in, {} for all.*)
Valid(c) ==
  /\ c.duration \in Nat \ {0}
  /\ c.phases # <<>>
  /\ c.phases \in Seq([duration : Nat \ {0}, events : Seq(DOMAIN c.events)])
  /\ c.events \in [DOMAIN c.events ->
                     [minimum : Nat, maximum : Nat, cooldown : Nat,
                      duration : Nat \ {0}, chance : {"never", "maybe", "always"},
                      allowed : SUBSET (DOMAIN c.phases)]]
  /\ \A name \in DOMAIN c.events : c.events[name].minimum <= c.events[name].maximum

ASSUME ConfigsAssumption == \A c \in GameConfigs : Valid(c)
ASSUME BoundsAssumption ==
  Draws \in Nat \ {0} /\ MaxDelay \in Nat /\ MaxClock \in Nat
ASSUME NoneAssumption ==
  None \notin Nat \cup [name : UNION {DOMAIN c.events : c \in GameConfigs}, start : Nat]

VARIABLES
  config,   \* the configuration of the session
  luck,     \* luck[i]: the outcome of draw i, i + Draws, ...
  engine,   \* status, active, paused, phase, event, history, drawn, last,
            \* pausedStarted
  clock     \* the last reading of the monotonic clock

vars == <<config, luck, engine, clock>>

Terminal == {"completed", "cancelled", "interrupted"}
Status   == {"ready", "running", "paused"} \cup Terminal

Ended(e, status) == [e EXCEPT !.status = status, !.last = None]

-----------------------------------------------------------------------------
(* Phases.  The last one runs until the session ends. *)

LastPhase == Len(config.phases)

PhaseEnd[i \in 0..LastPhase] ==
  IF i = 0 THEN 0 ELSE PhaseEnd[i - 1] + config.phases[i].duration

PhaseAt(active) ==
  Min({i \in 1..LastPhase : active < PhaseEnd[i] \/ i = LastPhase})

PhaseDeadlines(e) == {PhaseEnd[i] : i \in 1..(LastPhase - 1)}

-----------------------------------------------------------------------------
(* Events.  One is chosen when a phase or an event ends: the first of the  *)
(* phase that is still required, or that may occur again and is drawn.     *)

Definition(record) == config.events[record.name]
Deadline(record)   == record.start + Definition(record).duration

Occurrences(e, name) == {i \in DOMAIN e.history : e.history[i].name = name}
Count(e, name)       == Cardinality(Occurrences(e, name))

(* Fault: the first event of that name. *)
CooldownMetOfFirst(e, name) ==
  \/ Count(e, name) = 0
  \/ LET first == e.history[Min(Occurrences(e, name))]
     IN  e.active - first.start >= config.events[name].cooldown

CooldownMet(e, name) ==
  \/ Count(e, name) = 0
  \/ LET latest == e.history[Max(Occurrences(e, name))]
     IN  e.active - latest.start >= config.events[name].cooldown

Allowed(e, name) ==
  LET phases == config.events[name].allowed
  IN  phases = {} \/ e.phase \in phases

Required(e, name) == Count(e, name) < config.events[name].minimum

IsDrawn(e, name) ==
  /\ ~Required(e, name)
  /\ Count(e, name) < config.events[name].maximum
  /\ CooldownMet(e, name)

Lucky(e, name) ==
  \/ config.events[name].chance = "always"
  \/ config.events[name].chance = "maybe" /\ luck[e.drawn]

AfterDraw(e, name) ==
  IF IsDrawn(e, name) THEN [e EXCEPT !.drawn = (@ + 1) % Draws] ELSE e

StartEvent(e, name) ==
  LET record == [name |-> name, start |-> e.active]
  IN  [e EXCEPT !.event = record, !.history = Append(@, record)]

(* What becomes of x, which was e, when name is offered: nothing any more  *)
(* when an event has been started.                                         *)
Offer(e, x, name) ==
  IF x.history # e.history \/ ~Allowed(x, name) THEN x
  ELSE IF Required(x, name) \/ (IsDrawn(x, name) /\ Lucky(x, name))
       THEN StartEvent(AfterDraw(x, name), name)
       ELSE AfterDraw(x, name)

SchedulePhaseEvents(e) ==
  FoldLeft(LAMBDA x, name : Offer(e, x, name), e, config.phases[e.phase].events)

-----------------------------------------------------------------------------
(* The passage of active time, milestone by milestone. *)

(* Fault: the new phase schedules over an event that is still running. *)
UpdatePhaseOverEvent(e) ==
  LET moved == [e EXCEPT !.phase = PhaseAt(e.active)]
  IN  IF moved # e /\ e.active < config.duration
      THEN SchedulePhaseEvents(moved)
      ELSE moved

UpdatePhase(e) ==
  LET moved == [e EXCEPT !.phase = PhaseAt(e.active)]
  IN  IF moved # e /\ e.event = None /\ e.active < config.duration
      THEN SchedulePhaseEvents(moved)
      ELSE moved

EventDeadlines(e) == IF e.event = None THEN {} ELSE {Deadline(e.event)}

(* Fault: an event that ends in a later phase is noticed too late. *)
NextMilestoneOfPhase(e, target) ==
  Min({m \in {target} \cup PhaseDeadlines(e) : m > e.active})

(* Fault: phase boundaries inside the interval are not visited. *)
NextMilestoneOfEvent(e, target) ==
  Min({m \in {target} \cup EventDeadlines(e) : m > e.active})

NextMilestone(e, target) ==
  Min({m \in {target} \cup EventDeadlines(e) \cup PhaseDeadlines(e) :
         m > e.active})

EndEvent(e) ==
  LET over == [e EXCEPT !.event = None]
  IN  IF over.active < config.duration THEN SchedulePhaseEvents(over) ELSE over

PassMilestone(e, next) ==
  LET moved == UpdatePhase([e EXCEPT !.active = next])
  IN  IF next \in EventDeadlines(e) THEN EndEvent(moved) ELSE moved

PassNext(e, target) ==
  IF e.active < target THEN PassMilestone(e, NextMilestone(e, target)) ELSE e

(* A milestone takes a unit of time at least, so as many are enough. *)
AdvanceToActive(e, target) ==
  LET passed[n \in 0..(target - e.active)] ==
        IF n = 0 THEN e ELSE PassNext(passed[n - 1], target)
  IN  UpdatePhase(passed[target - e.active])

(* Fault: active time runs past the end of the session. *)
AdvanceRunningTimeUncapped(e, now) ==
  LET previous == IF e.last = None THEN now ELSE e.last
  IN  AdvanceToActive([e EXCEPT !.last = now], e.active + (now - previous))

AdvanceRunningTime(e, now) ==
  LET previous == IF e.last = None THEN now ELSE e.last
      target   == Min({e.active + (now - previous), config.duration})
  IN  AdvanceToActive([e EXCEPT !.last = now], target)

Ticked(e, now) ==
  LET advanced == AdvanceRunningTime(e, now)
  IN  IF advanced.active >= config.duration
      THEN Ended(advanced, "completed")
      ELSE advanced

PauseSettled(e, now) ==
  IF e.pausedStarted = None THEN e
  ELSE [e EXCEPT !.paused = @ + (now - e.pausedStarted),
                 !.pausedStarted = None]

(* Fault: a session that ends while it is paused loses the last pause. *)
SettleRunningTime(e, now) ==
  IF e.status = "running" THEN AdvanceRunningTime(e, now) ELSE e

SettleTerminalTime(e, now) ==
  IF e.status = "running" THEN AdvanceRunningTime(e, now) ELSE PauseSettled(e, now)

-----------------------------------------------------------------------------
(* The commands.  In the states they are not enabled in they do nothing.   *)

(* A new engine; the readings are counted from its start. *)
Init ==
  /\ config \in GameConfigs
  /\ luck \in [0..(Draws - 1) -> BOOLEAN]
  /\ engine = [status |-> "ready", active |-> 0, paused |-> 0, phase |-> 1,
               event |-> None, history |-> <<>>, drawn |-> 0, last |-> None,
               pausedStarted |-> None]
  /\ clock = 0

Dispatch(e) ==
  /\ engine' = e
  /\ UNCHANGED <<config, luck>>

Start ==
  /\ engine.status = "ready"
  /\ clock' = clock
  /\ Dispatch(SchedulePhaseEvents(
       [engine EXCEPT !.status = "running", !.last = clock]))

Tick ==
  /\ engine.status = "running"
  /\ \E d \in 0..MaxDelay :
       /\ clock' = clock + d
       /\ Dispatch(Ticked(engine, clock + d))

(* The tick of a pause may complete the session; it is paused all the same.*)
Pause ==
  /\ engine.status = "running"
  /\ \E d \in 0..MaxDelay :
       /\ clock + d <= MaxClock
       /\ clock' = clock + d
       /\ Dispatch([Ticked(engine, clock + d) EXCEPT
                      !.status = "paused",
                      !.pausedStarted = clock + d,
                      !.last = None])

Resume ==
  /\ engine.status = "paused"
  /\ \E d \in 0..MaxDelay :
       /\ clock + d <= MaxClock
       /\ clock' = clock + d
       /\ Dispatch([PauseSettled(engine, clock + d) EXCEPT
                      !.status = "running", !.last = clock + d])

(* The command End with either outcome, or Interrupt at shutdown. *)
End ==
  /\ engine.status \in {"running", "paused"}
  /\ \E d \in 0..MaxDelay, outcome \in Terminal :
       /\ clock' = clock + d
       /\ Dispatch(Ended(SettleTerminalTime(engine, clock + d), outcome))

Next == Start \/ Tick \/ Pause \/ Resume \/ End

Spec == Init /\ [][Next]_vars

-----------------------------------------------------------------------------
(* Properties. *)

Reading == Nat \cup {None}

(* The engine keeps its types, and active time stays within the configured *)
(* duration however late the commands come.                                *)
TypeOK ==
  /\ config \in GameConfigs
  /\ luck \in [0..(Draws - 1) -> BOOLEAN]
  /\ clock \in Nat
  /\ engine.status \in Status
  /\ engine.active \in 0..config.duration
  /\ engine.paused \in Nat
  /\ engine.phase \in DOMAIN config.phases
  /\ engine.drawn \in 0..(Draws - 1)
  /\ engine.last \in Reading
  /\ engine.pausedStarted \in Reading
  /\ (engine.last = None) = (engine.status # "running")
  /\ \A i \in DOMAIN engine.history :
       /\ engine.history[i].name \in DOMAIN config.events
       /\ engine.history[i].start \in 0..engine.active

(* A tick that comes late leaves the engine in the state a timely one and  *)
(* then the late one leave it in, and so any sequence of timely ticks: the *)
(* same phase, the same events at the same times, the same draws           *)
(* (advance_to_active: "This keeps delayed scheduler ticks equivalent to a *)
(* sequence of timely ticks").                                             *)
DelayedTicksAreTimely ==
  engine.status = "running" =>
    \A timely \in engine.active..config.duration :
      \A between \in {AdvanceToActive(engine, timely)} :
        \A late \in timely..config.duration :
          AdvanceToActive(engine, late) = AdvanceToActive(between, late)

(* Whatever the order of ticks, pauses, resumes and the end, each unit     *)
(* since the start was counted once, as active or as paused, up to the     *)
(* last command; only time after the configured duration is not counted.   *)
TimeIsAccounted ==
  LET settled == CASE engine.status = "running" -> engine.last
                   [] engine.status = "paused"  -> engine.pausedStarted
                   [] OTHER                     -> clock
      counted == engine.active + engine.paused
  IN  /\ counted <= settled
      /\ engine.active < config.duration => counted = settled

(* An event owns its whole active time (update_phase): the next one starts *)
(* at its deadline or later, also when a phase ends or a tick is late, and *)
(* it is the current event exactly until then.                             *)
EventsOwnTheirTime ==
  LET history == engine.history
  IN  /\ \A i \in 1..(Len(history) - 1) :
           Deadline(history[i]) <= history[i + 1].start
      /\ IF engine.event # None
         THEN engine.event = Last(history) /\ engine.active < Deadline(engine.event)
         ELSE history # <<>> => Deadline(Last(history)) <= engine.active

(* An event occurs at most as often as configured, in a phase it is        *)
(* allowed in, and past its minimum no sooner than its cooldown after its  *)
(* own latest occurrence, whatever came in between                         *)
(* (schedule_phase_events).                                                *)
EventLimits ==
  \A name \in DOMAIN config.events :
    LET def   == config.events[name]
        occ   == Occurrences(engine, name)
        StartOf(i) == engine.history[i].start
    IN  /\ Cardinality(occ) <= def.maximum
        /\ \A i \in occ : def.allowed = {} \/ PhaseAt(StartOf(i)) \in def.allowed
        /\ \A i, j \in occ :
             /\ i < j
             /\ Cardinality({k \in occ : k < j}) >= def.minimum
             => StartOf(j) - StartOf(i) >= def.cooldown
=============================================================================
