------------------------ MODULE SessionServiceProofs ------------------------
(***************************************************************************)
(* Proofs that the shared session engine counts time once, that a running  *)
(* session keeps its runner, and that the end of a session is stored, and  *)
(* only its first end is, for any number of callers, sessions and updates  *)
(* the channel holds.                                                      *)
(***************************************************************************)
EXTENDS SessionService, TLAPS

Commands == {"start", "tick", "interrupt"} \cup Controls

Going == {"running", "paused"}

\* An engine has a reading exactly while it needs it.
WellFormed(e) ==
  /\ e \in Engine
  /\ e.last # None <=> e.status = "running"
  /\ e.pausedStarted # None <=> e.status = "paused"

-----------------------------------------------------------------------------
(* What the engine makes of a command.                                     *)

LEMMA NoneIsNothing == None \notin Nat /\ None \notin Status /\ None \notin Engine /\ None \notin End
BY NoneAssumption

LEMMA ExcessIsNatural ==
  \A a, b \in Nat : Excess(a, b) \in Nat /\ Excess(a, b) - Excess(b, a) = a - b
BY DEF Excess

LEMMA NewIsWellFormed ==
  ASSUME NEW s \in Session
  PROVE  WellFormed(NewEngine(s))
BY NoneIsNothing, BoundsAssumption DEF NewEngine, WellFormed, Engine, Status

LEMMA EndedIsWellFormed ==
  ASSUME NEW e \in Engine, NEW status \in Terminal
  PROVE  /\ WellFormed(Ended(e, status))
         /\ Ended(e, status).id = e.id
         /\ Ended(e, status).status = status
<1>1. /\ Ended(e, status) =
           [id |-> e.id, status |-> status, active |-> 0, paused |-> 0,
            last |-> None, pausedStarted |-> None]
      /\ e.id \in Session
  BY DEF Ended, NewEngine, Engine
<1> QED
  BY <1>1, BoundsAssumption DEF WellFormed, Engine, Status, Terminal

LEMMA AdvancedCounts ==
  ASSUME NEW e, WellFormed(e), e.status = "running", NEW now \in Reading
  PROVE  LET a == Advanced(e, now)
         IN  /\ a \in Engine
             /\ a = [e EXCEPT !.active = a.active, !.last = now]
             /\ a.active <= e.active + Excess(now, e.last)
             /\ a.active < Duration => a.active = e.active + Excess(now, e.last)
<1> DEFINE a == Advanced(e, now)
<1>1. e.active \in 0..Duration /\ e.last \in Nat /\ now \in Nat /\ Duration \in Nat
  BY NoneIsNothing, BoundsAssumption DEF WellFormed, Engine, Reading
<1>2. Excess(now, e.last) \in Nat
  BY <1>1, ExcessIsNatural
<1>3. a.active = Smaller(e.active + Excess(now, e.last), Duration)
  BY DEF Advanced, WellFormed, Engine
<1>4. a = [e EXCEPT !.active = a.active, !.last = now]
  BY <1>3 DEF Advanced, WellFormed, Engine
<1>5. /\ a.active \in 0..Duration
      /\ a.active <= e.active + Excess(now, e.last)
      /\ a.active < Duration => a.active = e.active + Excess(now, e.last)
  BY <1>1, <1>2, <1>3 DEF Smaller
<1>6. a \in Engine
  BY <1>4, <1>5 DEF WellFormed, Engine, Reading
<1> QED
  BY <1>4, <1>5, <1>6

\* The cases of After, one at a time.
LEMMA AfterStart ==
  ASSUME NEW e, NEW now, e.status = "ready"
  PROVE  After(e, "start", now) = Started(e, now)
BY DEF After

LEMMA AfterTick ==
  ASSUME NEW e, NEW now, e.status = "running"
  PROVE  After(e, "tick", now) = Ticked(e, now)
BY DEF After

LEMMA AfterPause ==
  ASSUME NEW e, NEW now, e.status = "running"
  PROVE  After(e, "pause", now) = Paused(e, now)
BY DEF After

LEMMA AfterResume ==
  ASSUME NEW e, NEW now, e.status = "paused"
  PROVE  After(e, "resume", now) = Resumed(e, now)
BY DEF After

LEMMA AfterEnd ==
  ASSUME NEW e, NEW now, e.status \in Going
  PROVE  /\ After(e, "end", now) = Ended(e, "cancelled")
         /\ After(e, "interrupt", now) = Ended(e, "interrupted")
BY DEF After, Going

LEMMA AfterIgnored ==
  ASSUME NEW e, NEW command \in Commands, NEW now,
         ~(command = "start" /\ e.status = "ready"),
         ~(command \in {"tick", "pause"} /\ e.status = "running"),
         ~(command = "resume" /\ e.status = "paused"),
         ~(command \in {"end", "interrupt"} /\ e.status \in Going)
  PROVE  After(e, command, now) = e
BY DEF After, Going, Commands, Controls

\* A command either is one of five that are handled or changes nothing.
LEMMA AfterCases ==
  ASSUME NEW e, NEW command \in Commands, NEW now
  PROVE  \/ command = "start" /\ e.status = "ready" /\ After(e, command, now) = Started(e, now)
         \/ command = "tick" /\ e.status = "running" /\ After(e, command, now) = Ticked(e, now)
         \/ command = "pause" /\ e.status = "running" /\ After(e, command, now) = Paused(e, now)
         \/ command = "resume" /\ e.status = "paused" /\ After(e, command, now) = Resumed(e, now)
         \/ /\ command \in {"end", "interrupt"} /\ e.status \in Going
            /\ \E status \in {"cancelled", "interrupted"} :
                 After(e, command, now) = Ended(e, status)
         \/ /\ ~(command = "start" /\ e.status = "ready")
            /\ ~(command \in {"tick", "pause"} /\ e.status = "running")
            /\ ~(command = "resume" /\ e.status = "paused")
            /\ ~(command \in {"end", "interrupt"} /\ e.status \in Going)
            /\ After(e, command, now) = e
BY AfterStart, AfterTick, AfterPause, AfterResume, AfterEnd, AfterIgnored DEF Commands, Controls

LEMMA AfterIsWellFormed ==
  ASSUME NEW e, WellFormed(e), NEW command \in Commands, NEW now \in Reading
  PROVE  /\ WellFormed(After(e, command, now))
         /\ After(e, command, now).id = e.id
<1>1. now # None /\ now \in Nat /\ e \in Engine
  BY NoneIsNothing, BoundsAssumption DEF Reading, WellFormed
<1>2. CASE e.status = "ready" /\ After(e, command, now) = Started(e, now)
  <2>1. /\ Started(e, now).id = e.id /\ Started(e, now).status = "running"
        /\ Started(e, now).last = now /\ Started(e, now).pausedStarted = e.pausedStarted
        /\ Started(e, now) \in Engine
    BY <1>1 DEF Started, Engine, Status
  <2> QED
    BY <1>1, <1>2, <2>1 DEF WellFormed
<1>3. CASE e.status = "running" /\ After(e, command, now) = Ticked(e, now)
  <2>1. CASE Ticked(e, now) = Advanced(e, now)
    <3>1. /\ Advanced(e, now) \in Engine
          /\ Advanced(e, now) = [e EXCEPT !.active = Advanced(e, now).active, !.last = now]
      BY <1>3, AdvancedCounts
    <3>2. /\ Advanced(e, now).id = e.id /\ Advanced(e, now).status = e.status
          /\ Advanced(e, now).last = now
          /\ Advanced(e, now).pausedStarted = e.pausedStarted
      BY <1>1, <3>1 DEF Engine
    <3> QED
      BY <1>1, <1>3, <2>1, <3>1, <3>2 DEF WellFormed
  <2>2. CASE Ticked(e, now) = Ended(e, "completed")
    BY <1>1, <1>3, <2>2, EndedIsWellFormed DEF Terminal
  <2> QED
    BY <2>1, <2>2 DEF Ticked
<1>4. CASE e.status = "running" /\ After(e, command, now) = Paused(e, now)
  <2>1. Advanced(e, now) \in Engine
    BY <1>4, AdvancedCounts
  <2>2. Advanced(e, now) = [e EXCEPT !.active = Advanced(e, now).active, !.last = now]
    BY <1>4, AdvancedCounts
  <2>3. Advanced(e, now).id = e.id
    BY <1>1, <2>2 DEF Engine
  <2>4. /\ Paused(e, now).id = e.id /\ Paused(e, now).status = "paused"
        /\ Paused(e, now).last = None /\ Paused(e, now).pausedStarted = now
        /\ Paused(e, now) \in Engine
    BY <1>1, <2>1, <2>3 DEF Paused, Engine, Status
  <2> QED
    BY <1>1, <1>4, <2>4 DEF WellFormed
<1>5. CASE e.status = "paused" /\ After(e, command, now) = Resumed(e, now)
  <2>1. e.pausedStarted \in Nat
    BY <1>1, <1>5, BoundsAssumption DEF WellFormed, Engine, Reading
  <2>2. Excess(now, e.pausedStarted) \in Nat
    BY <1>1, <2>1, ExcessIsNatural
  <2>3. e.paused + Excess(now, e.pausedStarted) \in Nat
    BY <1>1, <2>2 DEF Engine
  <2>4. /\ Resumed(e, now).id = e.id /\ Resumed(e, now).status = "running"
        /\ Resumed(e, now).last = now /\ Resumed(e, now).pausedStarted = None
        /\ Resumed(e, now) \in Engine
    BY <1>1, <2>3 DEF Resumed, Engine, Status
  <2> QED
    BY <1>1, <1>5, <2>4 DEF WellFormed
<1>6. CASE \E status \in {"cancelled", "interrupted"} : After(e, command, now) = Ended(e, status)
  BY <1>1, <1>6, EndedIsWellFormed DEF Terminal
<1>7. CASE After(e, command, now) = e
  BY <1>7
<1> QED
  BY <1>2, <1>3, <1>4, <1>5, <1>6, <1>7, AfterCases

LEMMA EndEffectIsTerminal ==
  ASSUME NEW e, NEW command, NEW now
  PROVE  /\ EndEffect(e, command, now) \in Terminal \cup {None}
         /\ EndEffect(e, command, now) # None => e.status \notin Terminal
BY NoneIsNothing DEF EndEffect, Terminal, Status

\* An update says nothing, or the status of the session that has ended.
LEMMA UpdateIsTyped ==
  ASSUME NEW e, WellFormed(e), NEW command \in Commands, NEW now \in Reading
  PROVE  /\ Update(e, command, now) \in End \cup {None}
         /\ Update(e, command, now) = None <=> EndEffect(e, command, now) = None
         /\ Update(e, command, now) # None =>
              /\ Update(e, command, now).id = e.id
              /\ Update(e, command, now).status = After(e, command, now).status
<1>1. After(e, command, now).status \in Status /\ e.id \in Session
  BY AfterIsWellFormed DEF WellFormed, Engine
<1>2. [id |-> e.id, status |-> After(e, command, now).status] \in End
  BY <1>1 DEF End
<1> QED
  BY <1>2, NoneIsNothing DEF Update

LEMMA LatenessIsNatural ==
  ASSUME NEW e, WellFormed(e), NEW command \in Commands, NEW now \in Reading
  PROVE  Lateness(e, command, now) \in Nat
<1>1. /\ now \in Nat
      /\ e.status = "running" => e.last \in Nat
      /\ e.status = "paused" => e.pausedStarted \in Nat
  BY NoneIsNothing, BoundsAssumption DEF WellFormed, Engine, Reading
<1>2. CASE command \in {"tick", "pause"} /\ e.status = "running"
  BY <1>1, <1>2, ExcessIsNatural DEF Lateness
<1>3. CASE command = "resume" /\ e.status = "paused"
  BY <1>1, <1>3, ExcessIsNatural DEF Lateness
<1>4. CASE ~(command \in {"tick", "pause"} /\ e.status = "running")
           /\ ~(command = "resume" /\ e.status = "paused")
  BY <1>4 DEF Lateness
<1> QED
  BY <1>2, <1>3, <1>4

Ledgers ==
  [outcome : [Session -> Terminal \cup {None}], startedAt : Reading,
   late : Nat, revived : SUBSET Session, overlap : BOOLEAN]

LEMMA RecordIsTyped ==
  ASSUME NEW e, WellFormed(e), NEW command \in Commands, NEW now \in Reading,
         ledger \in Ledgers
  PROVE  Record(e, command, now) \in Ledgers
<1> DEFINE end  == EndEffect(e, command, now)
           goes == Active(After(e, command, now))
           o == IF ledger.outcome[e.id] = None THEN end ELSE ledger.outcome[e.id]
           a == IF ~goes THEN 0 ELSE IF command = "start" THEN now ELSE ledger.startedAt
           l == IF goes THEN ledger.late + Lateness(e, command, now) ELSE 0
           r == IF command = "pause" /\ end # None
                THEN ledger.revived \cup {e.id} ELSE ledger.revived
<1>1. e.id \in Session /\ Lateness(e, command, now) \in Nat /\ 0 \in Reading
  BY LatenessIsNatural, BoundsAssumption DEF WellFormed, Engine, Reading
<1>2. EndEffect(e, command, now) \in Terminal \cup {None}
  BY EndEffectIsTerminal
<1>3. o \in Terminal \cup {None} /\ a \in Reading /\ l \in Nat /\ r \in SUBSET Session
  BY <1>1, <1>2 DEF Ledgers
<1>4. Record(e, command, now) =
        [ledger EXCEPT !.outcome[e.id] = o, !.startedAt = a, !.late = l, !.revived = r]
  BY DEF Record
<1> HIDE DEF o, a, l, r
<1> DEFINE other == [ledger.outcome EXCEPT ![e.id] = o]
<1>5. other \in [Session -> Terminal \cup {None}]
  BY <1>1, <1>3 DEF Ledgers
<1>6. Record(e, command, now) =
        [ledger EXCEPT !.outcome = other, !.startedAt = a, !.late = l, !.revived = r]
  BY <1>4
<1> HIDE DEF other
<1>7. Record(e, command, now) =
        [outcome |-> other, startedAt |-> a, late |-> l, revived |-> r,
         overlap |-> ledger.overlap]
  BY <1>6 DEF Ledgers
<1> QED
  BY <1>3, <1>5, <1>7 DEF Ledgers

-----------------------------------------------------------------------------
(* The types, and what a call, a runner or a writer holds at each step.    *)

EngineTypes ==
  /\ engine \in Engine \cup {None}
  /\ engine # None => WellFormed(engine) /\ engine.id = sequence
  /\ sequence \in 0..MaxSessions
  /\ ledger \in Ledgers

ChannelTypes ==
  /\ updates \in Seq(End \cup {None}) /\ Len(updates) <= Capacity
  /\ lagged \in BOOLEAN

StartingCalls == {"created", "stopped", "started"}

CallTypes ==
  /\ calls \in [Starter \cup Controller ->
       [pc : {"idle", "control"} \cup StartingCalls,
        control : Controls \cup {None}, stamp : Reading \cup {None},
        id : Session \cup {None}]]
  /\ \A c \in Starter \cup Controller :
       /\ calls[c].pc = "control" =>
            calls[c].control \in Controls /\ calls[c].stamp \in Reading
       /\ calls[c].pc \in StartingCalls => c \in Starter /\ engine # None
       /\ calls[c].pc = "stopped" => calls[c].stamp \in Reading
       /\ calls[c].pc = "started" => calls[c].id \in Session

RunnerTypes ==
  /\ runner \in Session \cup {None}
  /\ runners \in [Session ->
       [pc : {"none", "waiting", "ticking", "stopped"},
        stamp : Reading \cup {None}, cancelled : BOOLEAN]]
  /\ \A s \in Session :
       /\ runners[s].pc \in {"waiting", "ticking"} => engine # None
       /\ runners[s].pc = "ticking" => runners[s].stamp \in Reading

StoreTypes ==
  /\ clock \in Reading
  /\ stored \in [Session -> Status \cup {None}]
  /\ observer \in
       [pc : {"receiving", "lagged", "storing", "stopped"}, held : End \cup {None}]
  /\ observer.pc = "storing" => observer.held \in End
  /\ quitting \in
       [pc : {"no", "storing", "stopping", "cancelled", "drained"},
        held : End \cup {None}]
  /\ quitting.pc = "storing" => quitting.held \in End

Types == EngineTypes /\ ChannelTypes /\ CallTypes /\ RunnerTypes /\ StoreTypes

LEMMA TypesImplyTypeOK == Types => TypeOK
<1> SUFFICES ASSUME Types PROVE TypeOK
  OBVIOUS
<1>1. engine # None =>
        /\ engine.id = sequence
        /\ (engine.last # None) = (engine.status = "running")
        /\ engine.status = "paused" => engine.pausedStarted # None
        /\ engine.status = "running" => engine.pausedStarted = None
  BY DEF Types, EngineTypes, WellFormed
<1>2. calls \in [Starter \cup Controller ->
        [pc : {"idle", "created", "stopped", "started", "control"},
         control : Controls \cup {None}, stamp : Reading \cup {None},
         id : Session \cup {None}]]
  BY DEF Types, CallTypes, StartingCalls
<1> QED
  BY <1>1, <1>2 DEF TypeOK, Types, EngineTypes, ChannelTypes, RunnerTypes, StoreTypes, Ledgers

LEMMA TypesInit == Init => Types
<1> SUFFICES ASSUME Init PROVE Types
  OBVIOUS
<1>1. EngineTypes
  BY BoundsAssumption DEF Init, EngineTypes, Ledgers, Reading
<1>2. ChannelTypes
  <2>1. \A U : <<>> \in Seq(U) /\ Len(<<>>) = 0
    OBVIOUS
  <2> DEFINE U == End \cup {None}
  <2>2. updates = <<>> /\ lagged = FALSE
    BY DEF Init
  <2> HIDE DEF U
  <2>3. updates \in Seq(U) /\ Len(updates) = 0
    BY <2>1, <2>2
  <2>4. Len(updates) <= Capacity
    BY <2>3, BoundsAssumption
  <2> QED
    BY <2>2, <2>3, <2>4 DEF ChannelTypes, U
<1>3. CallTypes
  BY DEF Init, CallTypes, Idle, StartingCalls
<1>4. RunnerTypes
  BY DEF Init, RunnerTypes, Task
<1>5. StoreTypes
  BY BoundsAssumption DEF Init, StoreTypes, Reading
<1> QED
  BY <1>1, <1>2, <1>3, <1>4, <1>5 DEF Types

LEMMA DispatchTypes ==
  ASSUME EngineTypes, ChannelTypes, NEW command \in Commands, NEW now \in Reading,
         Dispatch(command, now)
  PROVE  EngineTypes' /\ ChannelTypes' /\ (engine' = None <=> engine = None)
<1>1. CASE engine = None
  <2>1. UNCHANGED <<engine, sequence, updates, lagged, ledger>>
    BY <1>1 DEF Dispatch, svars
  <2> QED
    BY <2>1 DEF EngineTypes, ChannelTypes, WellFormed
<1>2. CASE engine # None
  <2>1. /\ engine' = After(engine, command, now)
        /\ Send(Update(engine, command, now))
        /\ ledger' = Record(engine, command, now)
        /\ sequence' = sequence
        /\ WellFormed(engine)
    BY <1>2 DEF Dispatch, EngineTypes
  <2>2. WellFormed(engine') /\ engine'.id = engine.id
    BY <2>1, AfterIsWellFormed
  <2>3. ledger' \in Ledgers
    BY <2>1, RecordIsTyped DEF EngineTypes
  <2>4. EngineTypes' /\ engine' # None
    BY <1>2, <2>1, <2>2, <2>3, NoneIsNothing DEF EngineTypes, WellFormed
  <2>5. Update(engine, command, now) \in End \cup {None}
    BY <2>1, UpdateIsTyped
  <2>6. ChannelTypes'
    <3> DEFINE U == End \cup {None}
               u == Update(engine, command, now)
    <3>1. updates \in Seq(U) /\ Len(updates) <= Capacity /\ lagged \in BOOLEAN
          /\ u \in U /\ Capacity \in Nat \ {0}
      BY <2>5, BoundsAssumption DEF ChannelTypes
    <3>2. Send(u)
      BY <2>1
    <3> HIDE DEF U, u
    <3>3. updates' \in Seq(U) /\ Len(updates') <= Capacity /\ lagged' \in BOOLEAN
      <4>1. CASE observer.pc = "stopped"
        BY <3>1, <3>2, <4>1 DEF Send
      <4>2. CASE observer.pc # "stopped" /\ Len(updates) < Capacity
        BY <3>1, <3>2, <4>2 DEF Send
      <4>3. CASE observer.pc # "stopped" /\ ~(Len(updates) < Capacity)
        <5>1. Len(updates) = Capacity /\ updates # <<>>
          BY <3>1, <4>3
        <5>2. Tail(updates) \in Seq(U) /\ Len(Tail(updates)) = Len(updates) - 1
          BY <3>1, <5>1
        <5> QED
          BY <3>1, <3>2, <4>3, <5>1, <5>2 DEF Send
      <4> QED
        BY <4>1, <4>2, <4>3
    <3> QED
      BY <3>3 DEF ChannelTypes, U
  <2> QED
    BY <1>2, <2>4, <2>6
<1> QED
  BY <1>1, <1>2

\* A runner that is told to stop keeps its place.
LEMMA CancelledRunners ==
  ASSUME RunnerTypes
  PROVE  /\ CancelRunner(runners) \in [Session ->
               [pc : {"none", "waiting", "ticking", "stopped"},
                stamp : Reading \cup {None}, cancelled : BOOLEAN]]
         /\ \A s \in Session : /\ CancelRunner(runners)[s].pc = runners[s].pc
                                /\ CancelRunner(runners)[s].stamp = runners[s].stamp
<1>1. CASE runner = None
  BY <1>1 DEF CancelRunner, RunnerTypes
<1>2. CASE runner # None
  BY <1>2 DEF CancelRunner, RunnerTypes
<1> QED
  BY <1>1, <1>2

\* What a step that leaves the engine alone keeps.
LEMMA SvarsTypes ==
  ASSUME EngineTypes, ChannelTypes, UNCHANGED svars
  PROVE  EngineTypes' /\ ChannelTypes' /\ engine' = engine
BY DEF EngineTypes, ChannelTypes, WellFormed, svars

\* The ledger of a new session.
LEMMA CreateLedger ==
  ASSUME ledger \in Ledgers, NEW c, Create(c)
  PROVE  /\ ledger' \in Ledgers
         /\ ledger'.overlap <=> ledger.overlap \/ Starting # {}
         /\ ledger'.startedAt = 0 /\ ledger'.late = 0
         /\ ledger'.outcome = ledger.outcome /\ ledger'.revived = ledger.revived
<1> DEFINE o == ledger.overlap \/ Starting # {}
<1>1. ledger' = [ledger EXCEPT !.overlap = o, !.startedAt = 0, !.late = 0]
  BY DEF Create
<1>2. o \in BOOLEAN
  OBVIOUS
<1>3. 0 \in Reading
  BY BoundsAssumption DEF Reading
<1> HIDE DEF o
<1>4. /\ ledger' \in Ledgers /\ ledger'.overlap = o
      /\ ledger'.startedAt = 0 /\ ledger'.late = 0
      /\ ledger'.outcome = ledger.outcome /\ ledger'.revived = ledger.revived
  BY <1>1, <1>2, <1>3 DEF Ledgers
<1> QED
  BY <1>4 DEF o

LEMMA TypesCalls ==
  ASSUME Types, NEW c \in Starter \cup Controller,
         CallSteps(c) \/ (c \in Controller /\ CallControl(c)) \/ (c \in Starter /\ Create(c))
  PROVE  Types'
<1> USE DEF Types
<1>1. CASE c \in Controller /\ CallControl(c)
  <2>1. EngineTypes' /\ ChannelTypes' /\ engine' = engine
    BY <1>1, SvarsTypes DEF CallControl
  <2>2. PICK control \in Controls :
          calls' = [calls EXCEPT ![c] =
                     [Idle EXCEPT !.pc = "control", !.control = control,
                                  !.stamp = IF control = "end" THEN 0 ELSE clock]]
    BY <1>1 DEF CallControl
  <2>3. 0 \in Reading /\ clock \in Reading
    BY BoundsAssumption DEF Reading, StoreTypes
  <2>4. CallTypes'
    BY <2>1, <2>2, <2>3 DEF CallTypes, Idle, StartingCalls
  <2>5. RunnerTypes' /\ StoreTypes'
    BY <1>1, <2>1 DEF CallControl, RunnerTypes, StoreTypes
  <2> QED
    BY <2>1, <2>4, <2>5
<1>2. CASE Control(c)
  <2>1. calls[c].control \in Commands /\ calls[c].stamp \in Reading
    BY <1>2 DEF CallTypes, Control, Commands
  <2>2. EngineTypes' /\ ChannelTypes' /\ (engine' = None <=> engine = None)
    BY <1>2, <2>1, DispatchTypes DEF Control
  <2>3. CallTypes'
    BY <1>2, <2>2 DEF Control, CallTypes, Idle, StartingCalls
  <2>4. RunnerTypes' /\ StoreTypes'
    BY <1>2, <2>2 DEF Control, RunnerTypes, StoreTypes
  <2> QED
    BY <2>2, <2>3, <2>4
<1>3. CASE c \in Starter /\ Create(c)
  <2>1. sequence' = sequence + 1 /\ sequence' \in Session /\ sequence' \in 0..MaxSessions
    BY <1>3, BoundsAssumption DEF Create, EngineTypes, Session
  <2>2. WellFormed(engine') /\ engine'.id = sequence' /\ engine' # None
    BY <1>3, <2>1, NewIsWellFormed, NoneIsNothing DEF Create, NewEngine, WellFormed
  <2>3. ledger' \in Ledgers
    BY <1>3, CreateLedger DEF EngineTypes
  <2>4. EngineTypes' /\ ChannelTypes'
    BY <1>3, <2>1, <2>2, <2>3 DEF Create, EngineTypes, ChannelTypes, WellFormed
  <2>5. CallTypes'
    BY <1>3, <2>2 DEF Create, CallTypes, Idle, StartingCalls
  <2>6. RunnerTypes' /\ StoreTypes'
    BY <1>3, <2>2 DEF Create, RunnerTypes, StoreTypes
  <2> QED
    BY <2>4, <2>5, <2>6
<1>4. CASE StopOldRunner(c)
  <2>1. EngineTypes' /\ ChannelTypes' /\ engine' = engine
    BY <1>4, SvarsTypes DEF StopOldRunner
  <2>2. CallTypes'
    BY <1>4, <2>1 DEF StopOldRunner, CallTypes, StoreTypes, StartingCalls
  <2>3. RunnerTypes' /\ StoreTypes'
    BY <1>4, <2>1, CancelledRunners DEF StopOldRunner, RunnerTypes, StoreTypes
  <2> QED
    BY <2>1, <2>2, <2>3
<1>5. CASE DispatchStart(c)
  <2>1. calls[c].stamp \in Reading /\ engine # None
    BY <1>5 DEF CallTypes, DispatchStart, StartingCalls
  <2>2. EngineTypes' /\ ChannelTypes' /\ (engine' = None <=> engine = None)
    BY <1>5, <2>1, DispatchTypes DEF DispatchStart, Commands
  <2>3. engine.id \in Session
    BY <2>1 DEF EngineTypes, WellFormed, Engine
  <2>4. CallTypes'
    BY <1>5, <2>1, <2>2, <2>3 DEF DispatchStart, CallTypes, StartingCalls
  <2>5. RunnerTypes' /\ StoreTypes'
    BY <1>5, <2>2 DEF DispatchStart, RunnerTypes, StoreTypes
  <2> QED
    BY <2>2, <2>4, <2>5
<1>6. CASE StartRunner(c)
  <2>1. EngineTypes' /\ ChannelTypes' /\ engine' = engine
    BY <1>6, SvarsTypes DEF StartRunner
  <2>2. calls[c].id \in Session /\ engine # None
    BY <1>6 DEF StartRunner, CallTypes, StartingCalls
  <2>3. CallTypes'
    BY <1>6, <2>1 DEF StartRunner, CallTypes, Idle, StartingCalls
  <2>4. RunnerTypes'
    BY <1>6, <2>1, <2>2, CancelledRunners DEF StartRunner, RunnerTypes, Task
  <2>5. StoreTypes'
    BY <1>6 DEF StartRunner, StoreTypes
  <2> QED
    BY <2>1, <2>3, <2>4, <2>5
<1> QED
  BY <1>1, <1>2, <1>3, <1>4, <1>5, <1>6 DEF CallSteps

LEMMA TypesRunners ==
  ASSUME Types, NEW s \in Session, RunnerSteps(s)
  PROVE  Types'
<1> USE DEF Types
<1>1. Stop(s) /\ runner' = runner /\ (engine' = None <=> engine = None) => RunnerTypes'
  BY DEF Stop, Task, RunnerTypes
<1>2. CASE Wake(s)
  <2>1. EngineTypes' /\ ChannelTypes' /\ engine' = engine
    BY <1>2, SvarsTypes DEF Wake
  <2>2. RunnerTypes'
    <3>1. CASE Stop(s)
      BY <1>1, <1>2, <2>1, <3>1 DEF Wake
    <3>2. CASE runners' = [runners EXCEPT ![s].pc = "ticking", ![s].stamp = clock]
      BY <1>2, <2>1, <3>2 DEF Wake, RunnerTypes, StoreTypes
    <3> QED
      BY <1>2, <3>1, <3>2 DEF Wake
  <2>3. CallTypes' /\ StoreTypes'
    BY <1>2, <2>1 DEF Wake, CallTypes, StoreTypes
  <2> QED
    BY <2>1, <2>2, <2>3
<1>3. CASE TickSession(s)
  <2>1. EngineTypes' /\ ChannelTypes' /\ (engine' = None <=> engine = None)
    <3>1. CASE UNCHANGED svars
      BY <3>1, SvarsTypes
    <3>2. CASE Dispatch("tick", runners[s].stamp)
      BY <1>3, <3>2, DispatchTypes DEF TickSession, RunnerTypes, Commands
    <3> QED
      BY <1>3, <3>1, <3>2 DEF TickSession
  <2>2. RunnerTypes'
    <3>1. CASE Stop(s)
      BY <1>1, <1>3, <2>1, <3>1 DEF TickSession
    <3>2. CASE runners' = [runners EXCEPT ![s].pc = "waiting", ![s].stamp = None]
      BY <1>3, <2>1, <3>2 DEF TickSession, RunnerTypes
    <3> QED
      BY <1>3, <3>1, <3>2 DEF TickSession
  <2>3. CallTypes' /\ StoreTypes'
    BY <1>3, <2>1 DEF TickSession, CallTypes, StoreTypes
  <2> QED
    BY <2>1, <2>2, <2>3
<1>4. CASE RunnerCancelled(s)
  <2>1. EngineTypes' /\ ChannelTypes' /\ engine' = engine
    BY <1>4, SvarsTypes DEF RunnerCancelled
  <2>2. RunnerTypes'
    BY <1>1, <1>4, <2>1 DEF RunnerCancelled
  <2>3. CallTypes' /\ StoreTypes'
    BY <1>4, <2>1 DEF RunnerCancelled, CallTypes, StoreTypes
  <2> QED
    BY <2>1, <2>2, <2>3
<1> QED
  BY <1>2, <1>3, <1>4 DEF RunnerSteps

LEMMA TypesService ==
  ASSUME Types,
         \/ TimePasses \/ ObserverSteps \/ ObserverCancelled \/ StoreOutcome
         \/ InterruptActive \/ ShutdownSteps
  PROVE  Types'
<1> USE DEF Types
<1>1. \A update \in End : stored \in [Session -> Status \cup {None}] =>
        Inserted(update) \in [Session -> Status \cup {None}]
  BY DEF Inserted, End
<1>2. CASE TimePasses
  <2>1. EngineTypes' /\ ChannelTypes' /\ engine' = engine
    BY <1>2, SvarsTypes DEF TimePasses
  <2>2. clock' \in Reading
    BY <1>2, BoundsAssumption DEF TimePasses, StoreTypes, Reading
  <2> QED
    BY <1>2, <2>1, <2>2 DEF TimePasses, CallTypes, RunnerTypes, StoreTypes
<1>3. CASE Receive
  <2>1. EngineTypes' /\ engine' = engine
    BY <1>3 DEF Receive, EngineTypes, WellFormed
  <2>2. CallTypes' /\ RunnerTypes'
    BY <1>3, <2>1 DEF Receive, CallTypes, RunnerTypes
  <2> DEFINE U == End \cup {None}
  <2>3. updates \in Seq(U) /\ Len(updates) <= Capacity /\ Capacity \in Nat /\ lagged \in BOOLEAN
    BY BoundsAssumption DEF ChannelTypes
  <2>4. CASE lagged
    <3>1. /\ lagged' = FALSE /\ updates' = updates
          /\ observer' = [pc |-> "lagged", held |-> None]
      BY <1>3, <2>4 DEF Receive, Observe
    <3>2. ChannelTypes'
      BY <3>1 DEF ChannelTypes
    <3>3. StoreTypes'
      BY <1>3, <3>1 DEF Receive, StoreTypes
    <3> QED
      BY <2>1, <2>2, <3>2, <3>3
  <2>5. CASE ~lagged
    <3>1. updates # <<>> /\ updates' = Tail(updates) /\ lagged' = lagged
      BY <1>3, <2>5 DEF Receive
    <3> HIDE DEF U
    <3>2. Head(updates) \in U /\ updates' \in Seq(U) /\ Len(updates') <= Capacity
      BY <2>3, <3>1
    <3>3. ChannelTypes'
      BY <2>3, <3>1, <3>2 DEF ChannelTypes, U
    <3>4. \/ observer' = observer
          \/ observer' = [pc |-> "storing", held |-> Head(updates)] /\ Head(updates) # None
      BY <1>3, <2>5 DEF Receive, Observe
    <3>5. StoreTypes'
      BY <1>3, <3>2, <3>4 DEF Receive, StoreTypes, U
    <3> QED
      BY <2>1, <2>2, <3>3, <3>5
  <2> QED
    BY <2>4, <2>5
<1>4. CASE Recover
  <2>1. EngineTypes' /\ ChannelTypes' /\ engine' = engine
    BY <1>4, SvarsTypes DEF Recover
  <2>2. \/ observer' = [pc |-> "receiving", held |-> None]
        \/ /\ engine # None
           /\ observer' =
                [pc |-> "storing", held |-> [id |-> engine.id, status |-> engine.status]]
    BY <1>4 DEF Recover, Observe
  <2>3. engine # None => [id |-> engine.id, status |-> engine.status] \in End
    BY DEF EngineTypes, WellFormed, Engine, End
  <2>4. StoreTypes'
    BY <1>4, <2>2, <2>3 DEF Recover, StoreTypes
  <2> QED
    BY <1>4, <2>1, <2>4 DEF Recover, CallTypes, RunnerTypes
<1>5. CASE StoreOutcome
  <2>1. EngineTypes' /\ ChannelTypes' /\ engine' = engine
    BY <1>5, SvarsTypes DEF StoreOutcome
  <2>2. StoreTypes'
    BY <1>1, <1>5 DEF StoreOutcome, Observe, StoreTypes
  <2> QED
    BY <1>5, <2>1, <2>2 DEF StoreOutcome, CallTypes, RunnerTypes
<1>6. CASE ObserverCancelled
  <2>1. EngineTypes' /\ engine' = engine
    BY <1>6 DEF ObserverCancelled, EngineTypes, WellFormed
  <2> DEFINE U == End \cup {None}
  <2>2. updates' = <<>> /\ lagged' = FALSE
    BY <1>6 DEF ObserverCancelled
  <2> HIDE DEF U
  <2>3. updates' \in Seq(U) /\ Len(updates') <= Capacity
    <3>1. Capacity \in Nat
      BY BoundsAssumption
    <3> QED
      BY <2>2, <3>1
  <2>4. ChannelTypes'
    BY <2>2, <2>3 DEF ChannelTypes, U
  <2>5. StoreTypes'
    BY <1>6 DEF ObserverCancelled, Observe, StoreTypes
  <2> QED
    BY <1>6, <2>1, <2>4, <2>5 DEF ObserverCancelled, CallTypes, RunnerTypes
<1>7. CASE InterruptActive
  <2>1. EngineTypes' /\ ChannelTypes' /\ (engine' = None <=> engine = None)
    BY <1>7, DispatchTypes, BoundsAssumption DEF InterruptActive, Commands, Reading
  <2>2. CallTypes' /\ RunnerTypes'
    BY <1>7, <2>1 DEF InterruptActive, CallTypes, RunnerTypes
  <2>3. engine # None /\ EndEffect(engine, "interrupt", 0) # None =>
          Update(engine, "interrupt", 0) \in End
    BY UpdateIsTyped, BoundsAssumption DEF EngineTypes, Commands, Reading
  <2>4. \/ quitting' = [pc |-> "stopping", held |-> None]
        \/ /\ engine # None /\ EndEffect(engine, "interrupt", 0) # None
           /\ quitting' = [pc |-> "storing", held |-> Update(engine, "interrupt", 0)]
    BY <1>7 DEF InterruptActive, Quit
  <2>5. StoreTypes'
    BY <1>7, <2>3, <2>4 DEF InterruptActive, StoreTypes
  <2> QED
    BY <2>1, <2>2, <2>5
<1>8. CASE StoreInterrupted
  <2>1. EngineTypes' /\ ChannelTypes' /\ engine' = engine
    BY <1>8, SvarsTypes DEF StoreInterrupted
  <2>2. StoreTypes'
    BY <1>1, <1>8 DEF StoreInterrupted, Quit, StoreTypes
  <2> QED
    BY <1>8, <2>1, <2>2 DEF StoreInterrupted, CallTypes, RunnerTypes
<1>9. CASE CancelTasks
  <2>1. EngineTypes' /\ ChannelTypes' /\ engine' = engine
    BY <1>9, SvarsTypes DEF CancelTasks
  <2>2. RunnerTypes'
    BY <1>9, <2>1, CancelledRunners DEF CancelTasks, RunnerTypes
  <2> QED
    BY <1>9, <2>1, <2>2 DEF CancelTasks, Quit, CallTypes, StoreTypes
<1>10. CASE Drain
  <2>1. EngineTypes' /\ ChannelTypes' /\ engine' = engine
    BY <1>10, SvarsTypes DEF Drain
  <2> QED
    BY <1>10, <2>1 DEF Drain, Quit, CallTypes, RunnerTypes, StoreTypes
<1> QED
  BY <1>2, <1>3, <1>4, <1>5, <1>6, <1>7, <1>8, <1>9, <1>10 DEF ObserverSteps, ShutdownSteps

LEMMA TypesStep == Types /\ [Next]_vars => Types'
<1> SUFFICES ASSUME Types, [Next]_vars PROVE Types'
  OBVIOUS
<1>1. CASE UNCHANGED vars
  <2>1. EngineTypes' /\ ChannelTypes' /\ engine' = engine
    BY <1>1, SvarsTypes DEF vars, svars, Types
  <2> QED
    BY <1>1, <2>1 DEF vars, Types, CallTypes, RunnerTypes, StoreTypes
<1>2. ASSUME NEW c \in Starter, Create(c) PROVE Types'
  BY <1>2, TypesCalls
<1>3. ASSUME NEW c \in Controller, CallControl(c) PROVE Types'
  BY <1>3, TypesCalls
<1>4. ASSUME NEW c \in Starter \cup Controller, CallSteps(c) PROVE Types'
  BY <1>4, TypesCalls
<1>5. ASSUME NEW s \in Session, RunnerSteps(s) PROVE Types'
  BY <1>5, TypesRunners
<1> QED
  BY <1>1, <1>2, <1>3, <1>4, <1>5, TypesService DEF Next

-----------------------------------------------------------------------------
(* Starts.  A session that is ready belongs to the one call that created   *)
(* it, so a start is never ignored.                                        *)

Preparing == {"created", "stopped"}

StartOrder ==
  \A c \in Starter \cup Controller : calls[c].pc \in Preparing =>
    /\ engine.status = "ready"
    /\ \A d \in Starter \cup Controller : calls[d].pc \in Preparing => d = c

\* What any command may do to the status of the session.
LEMMA CommandStatus ==
  ASSUME NEW e, WellFormed(e), NEW command \in Commands, NEW now \in Reading
  PROVE  LET after == After(e, command, now)
         IN  /\ e.status = "ready" /\ command # "start" => after.status = "ready"
             /\ after.status = "ready" => e.status = "ready" /\ after = e
             /\ after.status \in Going => e.status \in Going \/ command = "start"
             /\ e.status \in Terminal => after = e
             /\ command = "pause" => after.status \notin Terminal \/ after = e
<1>1. e \in Engine /\ e.status \in Status
  BY DEF WellFormed, Engine
<1>2. CASE e.status = "ready" /\ command = "start" /\ After(e, command, now) = Started(e, now)
  BY <1>1, <1>2 DEF Started, Engine, Going, Terminal
<1>3. CASE /\ e.status = "running" /\ command = "tick"
           /\ After(e, command, now) = Ticked(e, now)
  <2>1. Ticked(e, now).status \in {"running", "completed"}
    <3>1. Advanced(e, now).status = e.status
      BY <1>1 DEF Advanced, Engine
    <3>2. Ended(e, "completed").status = "completed"
      BY <1>1, EndedIsWellFormed DEF Terminal
    <3> QED
      BY <1>3, <3>1, <3>2 DEF Ticked
  <2> QED
    BY <1>3, <2>1 DEF Going, Terminal
<1>4. CASE e.status = "running" /\ After(e, command, now) = Paused(e, now)
  <2>1. Advanced(e, now) \in Engine
    BY <1>4, AdvancedCounts
  <2>2. Paused(e, now).status = "paused"
    BY <2>1 DEF Paused, Engine
  <2> QED
    BY <1>4, <2>2 DEF Going, Terminal
<1>5. CASE e.status = "paused" /\ After(e, command, now) = Resumed(e, now) /\ command = "resume"
  <2>1. Resumed(e, now).status = "running"
    BY <1>1 DEF Resumed, Engine
  <2> QED
    BY <1>5, <2>1 DEF Going, Terminal
<1>6. CASE /\ command \in {"end", "interrupt"} /\ e.status \in Going
           /\ \E status \in {"cancelled", "interrupted"} :
                After(e, command, now) = Ended(e, status)
  <2>1. After(e, command, now).status \in {"cancelled", "interrupted"}
    BY <1>1, <1>6, EndedIsWellFormed DEF Terminal
  <2> QED
    BY <1>6, <2>1 DEF Going, Terminal
<1>7. CASE /\ ~(command = "start" /\ e.status = "ready")
           /\ After(e, command, now) = e
  BY <1>7 DEF Going
<1> QED
  BY <1>2, <1>3, <1>4, <1>5, <1>6, <1>7, AfterCases

\* What a command did to the engine, the channel and the ledger.
Commanded(command, now) ==
  /\ engine # None
  /\ engine' = After(engine, command, now)
  /\ Send(Update(engine, command, now))
  /\ ledger' = Record(engine, command, now)
  /\ sequence' = sequence

\* The ledger after a command, field by field.
LEMMA CommandedLedger ==
  ASSUME Types, NEW command \in Commands, NEW now \in Reading, Commanded(command, now)
  PROVE  /\ ledger'.outcome =
              [ledger.outcome EXCEPT
                 ![engine.id] = IF @ = None THEN EndEffect(engine, command, now) ELSE @]
         /\ Active(engine') =>
              /\ ledger'.startedAt = IF command = "start" THEN now ELSE ledger.startedAt
              /\ ledger'.late = ledger.late + Lateness(engine, command, now)
         /\ ledger'.revived = IF command = "pause" /\ EndEffect(engine, command, now) # None
                              THEN ledger.revived \cup {engine.id} ELSE ledger.revived
         /\ ledger'.overlap = ledger.overlap
<1> DEFINE end  == EndEffect(engine, command, now)
           goes == Active(engine')
           o == IF ledger.outcome[engine.id] = None THEN end ELSE ledger.outcome[engine.id]
           a == IF ~goes THEN 0 ELSE IF command = "start" THEN now ELSE ledger.startedAt
           l == IF goes THEN ledger.late + Lateness(engine, command, now) ELSE 0
           r == IF command = "pause" /\ end # None
                THEN ledger.revived \cup {engine.id} ELSE ledger.revived
<1>1. engine.id \in Session /\ ledger \in Ledgers
  BY DEF Commanded, Types, EngineTypes, WellFormed, Engine
<1>2. ledger' =
        [ledger EXCEPT !.outcome[engine.id] = o, !.startedAt = a, !.late = l, !.revived = r]
  BY DEF Commanded, Record
<1> HIDE DEF o, a, l, r
<1>3. /\ ledger'.outcome = [ledger.outcome EXCEPT ![engine.id] = o]
      /\ ledger'.startedAt = a /\ ledger'.late = l /\ ledger'.revived = r
      /\ ledger'.overlap = ledger.overlap
  BY <1>1, <1>2 DEF Ledgers
<1> QED
  BY <1>3 DEF o, a, l, r

\* A step leaves the engine alone, creates one, or gives it a command; a start
\* comes from a call that has prepared it.
EngineStep ==
  \/ UNCHANGED svars
  \/ Receive \/ ObserverCancelled
  \/ \E c \in Starter : Create(c)
  \/ \E command \in Commands, now \in Reading :
       /\ Commanded(command, now)
       /\ command = "start" =>
            \E c \in Starter \cup Controller : calls[c].pc = "stopped" /\ DispatchStart(c)

LEMMA StepsOfTheEngine ==
  ASSUME Types, [Next]_vars
  PROVE  EngineStep
<1>1. \A command \in Commands, now \in Reading :
        Dispatch(command, now) =>
          UNCHANGED svars \/ Commanded(command, now)
  BY DEF Dispatch, Commanded
<1>2. CASE UNCHANGED vars
  BY <1>2 DEF vars, svars, EngineStep
<1>3. ASSUME NEW c \in Starter \cup Controller, CallSteps(c)
      PROVE  EngineStep
  <2>1. CASE Control(c)
    <3>1. calls[c].control \in Controls /\ calls[c].stamp \in Reading
      BY <2>1 DEF Control, Types, CallTypes
    <3> QED
      BY <1>1, <2>1, <3>1 DEF Control, EngineStep, Commands, Controls
  <2>2. CASE DispatchStart(c)
    <3>1. calls[c].pc = "stopped" /\ calls[c].stamp \in Reading
      BY <2>2 DEF DispatchStart, Types, CallTypes
    <3>2. "start" \in Commands /\ Dispatch("start", calls[c].stamp)
      BY <2>2 DEF DispatchStart, Commands
    <3> QED
      BY <1>1, <2>2, <3>1, <3>2 DEF EngineStep
  <2>3. CASE StopOldRunner(c) \/ StartRunner(c)
    BY <2>3 DEF StopOldRunner, StartRunner, EngineStep
  <2> QED
    BY <1>3, <2>1, <2>2, <2>3 DEF CallSteps
<1>4. ASSUME NEW s \in Session, RunnerSteps(s)
      PROVE  EngineStep
  <2>1. CASE TickSession(s)
    <3>1. runners[s].stamp \in Reading /\ "tick" \in Commands
      BY <2>1 DEF TickSession, Types, RunnerTypes, Commands
    <3> QED
      BY <1>1, <2>1, <3>1 DEF TickSession, EngineStep
  <2>2. CASE Wake(s) \/ RunnerCancelled(s)
    BY <2>2 DEF Wake, RunnerCancelled, EngineStep
  <2> QED
    BY <1>4, <2>1, <2>2 DEF RunnerSteps
<1>5. CASE InterruptActive
  <2>1. 0 \in Reading /\ "interrupt" \in Commands
    BY BoundsAssumption DEF Reading, Commands
  <2> QED
    BY <1>1, <1>5, <2>1 DEF InterruptActive, EngineStep
<1>6. CASE \E c \in Controller : CallControl(c)
  BY <1>6 DEF CallControl, EngineStep
<1>7. CASE \E c \in Starter : Create(c)
  BY <1>7 DEF EngineStep
<1>8. CASE TimePasses \/ ObserverSteps \/ ObserverCancelled \/ StoreOutcome \/ ShutdownSteps
  BY <1>8 DEF TimePasses, ObserverSteps, Recover, StoreOutcome,
              ShutdownSteps, StoreInterrupted, CancelTasks, Drain, EngineStep
<1> QED
  BY <1>2, <1>3, <1>4, <1>5, <1>6, <1>7, <1>8 DEF Next

\* What waits for the observer is not the engine's.
LEMMA OtherSteps ==
  UNCHANGED svars \/ Receive \/ ObserverCancelled => UNCHANGED <<engine, sequence, ledger>>
BY DEF svars, Receive, ObserverCancelled

\* Only a start makes a session that is ready go on.
LEMMA ReadyStays ==
  ASSUME Types, NEW command \in Commands \ {"start"}, NEW now \in Reading,
         Dispatch(command, now), engine # None, engine.status = "ready"
  PROVE  engine'.status = "ready"
<1>1. engine' = After(engine, command, now) /\ WellFormed(engine)
  BY DEF Dispatch, Types, EngineTypes
<1> QED
  BY <1>1, CommandStatus

LEMMA StartOrderStep ==
  ASSUME Types, StartOrder, [Next]_vars
  PROVE  StartOrder'
<1>1. \A c \in Starter \cup Controller : calls[c].pc \in Preparing => engine # None
  BY DEF Types, CallTypes, Preparing, StartingCalls
<1>2. calls' = calls /\ UNCHANGED engine => StartOrder'
  BY DEF StartOrder
<1>3. ASSUME calls' = calls, NEW command \in Commands \ {"start"}, NEW now \in Reading,
             Dispatch(command, now)
      PROVE  StartOrder'
  BY <1>1, <1>3, ReadyStays DEF StartOrder
<1>4. ASSUME NEW c \in Starter, Create(c) PROVE StartOrder'
  <2>1. \A d \in Starter \cup Controller : calls[d].pc \notin Preparing
    BY <1>1, <1>4 DEF StartOrder, Create, Active
  <2>2. engine'.status = "ready"
    BY <1>4 DEF Create, NewEngine
  <2>3. \A d \in Starter \cup Controller : d # c => calls'[d] = calls[d]
    BY <1>4 DEF Create, Types, CallTypes
  <2> QED
    BY <2>1, <2>2, <2>3 DEF StartOrder
<1>5. ASSUME NEW c \in Controller, CallControl(c) PROVE StartOrder'
  <2>1. UNCHANGED engine
    BY <1>5 DEF CallControl, svars
  <2>2. PICK control \in Controls :
          calls' = [calls EXCEPT ![c] =
                     [Idle EXCEPT !.pc = "control", !.control = control,
                                  !.stamp = IF control = "end" THEN 0 ELSE clock]]
    BY <1>5 DEF CallControl
  <2>3. calls'[c].pc \notin Preparing
    BY <2>2 DEF Types, CallTypes, Idle, Preparing
  <2>4. \A d \in Starter \cup Controller : d # c => calls'[d] = calls[d]
    BY <2>2 DEF Types, CallTypes
  <2> QED
    BY <2>1, <2>3, <2>4 DEF StartOrder
<1>6. ASSUME NEW c \in Starter \cup Controller, CallSteps(c) PROVE StartOrder'
  <2>1. CASE Control(c)
    <3>1. /\ calls[c].control \in Commands \ {"start"} /\ calls[c].stamp \in Reading
          /\ Dispatch(calls[c].control, calls[c].stamp)
      BY <2>1 DEF Control, Types, CallTypes, Commands, Controls
    <3>2. \A d \in Starter \cup Controller :
            calls'[d].pc \in Preparing => calls[d].pc \in Preparing
      BY <2>1 DEF Control, Types, CallTypes, Idle, Preparing
    <3> QED
      BY <1>1, <3>1, <3>2, ReadyStays DEF StartOrder
  <2>2. CASE StopOldRunner(c)
    <3>1. \A d \in Starter \cup Controller :
            calls'[d].pc \in Preparing => calls[d].pc \in Preparing
      BY <2>2 DEF StopOldRunner, Types, CallTypes, Preparing
    <3> QED
      BY <2>2, <3>1 DEF StopOldRunner, svars, StartOrder
  <2>3. CASE DispatchStart(c)
    <3>1. \A d \in Starter \cup Controller : calls[d].pc \in Preparing => d = c
      BY <2>3 DEF DispatchStart, StartOrder, Preparing
    <3>2. \A d \in Starter \cup Controller : calls'[d].pc \notin Preparing
      BY <2>3, <3>1 DEF DispatchStart, Types, CallTypes, Preparing
    <3> QED
      BY <3>2 DEF StartOrder
  <2>4. CASE StartRunner(c)
    <3>1. \A d \in Starter \cup Controller :
            calls'[d].pc \in Preparing => calls[d].pc \in Preparing
      BY <2>4 DEF StartRunner, Types, CallTypes, Idle, Preparing
    <3> QED
      BY <2>4, <3>1 DEF StartRunner, svars, StartOrder
  <2> QED
    BY <1>6, <2>1, <2>2, <2>3, <2>4 DEF CallSteps
<1>7. ASSUME NEW s \in Session, RunnerSteps(s) PROVE StartOrder'
  <2>1. CASE TickSession(s)
    <3>1. runners[s].stamp \in Reading /\ "tick" \in Commands \ {"start"} /\ calls' = calls
      BY <2>1 DEF TickSession, Types, RunnerTypes, Commands
    <3> QED
      BY <1>2, <1>3, <2>1, <3>1 DEF TickSession, svars
  <2>2. CASE Wake(s) \/ RunnerCancelled(s)
    BY <1>2, <2>2 DEF Wake, RunnerCancelled, svars
  <2> QED
    BY <1>7, <2>1, <2>2 DEF RunnerSteps
<1>8. CASE InterruptActive
  <2>1. 0 \in Reading /\ "interrupt" \in Commands \ {"start"} /\ calls' = calls
    BY <1>8, BoundsAssumption DEF InterruptActive, Reading, Commands
  <2> QED
    BY <1>3, <1>8, <2>1 DEF InterruptActive
<1>9. CASE \/ TimePasses \/ ObserverSteps \/ ObserverCancelled \/ StoreOutcome
           \/ ShutdownSteps \/ UNCHANGED vars
  BY <1>2, <1>9 DEF TimePasses, ObserverSteps, Receive, Recover, ObserverCancelled,
       StoreOutcome, ShutdownSteps, StoreInterrupted, CancelTasks, Drain, svars, vars
<1> QED
  BY <1>4, <1>5, <1>6, <1>7, <1>8, <1>9 DEF Next

-----------------------------------------------------------------------------
(* The account of time.                                                    *)

Settled(e) == IF e.status = "running" THEN e.last ELSE e.pausedStarted

Counts(e, l) ==
  LET counted == e.active + e.paused + l.startedAt
  IN  /\ counted <= Settled(e) + l.late
      /\ e.active < Duration => counted = Settled(e) + l.late

Account ==
  engine # None =>
    /\ engine.status = "ready" =>
         engine.active = 0 /\ engine.paused = 0 /\ ledger.late = 0
    /\ engine.status \in Going => Counts(engine, ledger)

\* A tick or a pause moves the settled time by the reading it brings.
LEMMA CountsAdvanced ==
  ASSUME NEW e, WellFormed(e), e.status = "running", NEW now \in Reading, NEW l, NEW m,
         l.startedAt \in Nat, l.late \in Nat, m.startedAt = l.startedAt,
         m.late = l.late + Excess(e.last, now), Counts(e, l),
         NEW f, f.active = Advanced(e, now).active, f.paused = e.paused, Settled(f) = now
  PROVE  Counts(f, m)
<1>1. e.last \in Nat /\ now \in Nat /\ e.active \in Nat /\ e.paused \in Nat /\ Duration \in Nat
  BY NoneIsNothing, BoundsAssumption DEF WellFormed, Engine, Reading
<1>2. /\ Excess(now, e.last) \in Nat /\ Excess(e.last, now) \in Nat
      /\ Excess(now, e.last) - Excess(e.last, now) = now - e.last
  BY <1>1, ExcessIsNatural
<1>3. /\ f.active \in Nat
      /\ f.active <= e.active + Excess(now, e.last)
      /\ f.active < Duration => f.active = e.active + Excess(now, e.last)
  <2>1. /\ Advanced(e, now) \in Engine
        /\ Advanced(e, now).active <= e.active + Excess(now, e.last)
        /\ Advanced(e, now).active < Duration =>
             Advanced(e, now).active = e.active + Excess(now, e.last)
    BY AdvancedCounts, Zenon
  <2>2. Advanced(e, now).active \in 0..Duration
    BY <2>1 DEF Engine
  <2> QED
    BY <1>1, <2>1, <2>2
<1>4. Settled(e) = e.last
  BY DEF Settled
<1> QED
  BY <1>1, <1>2, <1>3, <1>4 DEF Counts

LEMMA CountsResumed ==
  ASSUME NEW e, WellFormed(e), e.status = "paused", NEW now \in Reading, NEW l, NEW m,
         l.startedAt \in Nat, l.late \in Nat, m.startedAt = l.startedAt,
         m.late = l.late + Excess(e.pausedStarted, now), Counts(e, l)
  PROVE  Counts(Resumed(e, now), m)
<1>1. /\ e.pausedStarted \in Nat /\ now \in Nat /\ e.active \in Nat /\ e.paused \in Nat
      /\ Duration \in Nat /\ e \in Engine
  BY NoneIsNothing, BoundsAssumption DEF WellFormed, Engine, Reading
<1>2. /\ Excess(now, e.pausedStarted) \in Nat /\ Excess(e.pausedStarted, now) \in Nat
      /\ Excess(now, e.pausedStarted) - Excess(e.pausedStarted, now) = now - e.pausedStarted
  BY <1>1, ExcessIsNatural
<1> DEFINE r == Resumed(e, now)
<1>3. /\ r.active = e.active /\ r.paused = e.paused + Excess(now, e.pausedStarted)
      /\ r.status = "running" /\ r.last = now
  BY <1>1 DEF Resumed, Engine
<1>4. Settled(e) = e.pausedStarted /\ Settled(r) = now
  BY <1>3 DEF Settled
<1> DEFINE more == Excess(now, e.pausedStarted)
<1> DEFINE late == Excess(e.pausedStarted, now)
<1> HIDE DEF r, more, late
<1>5. /\ e.active + e.paused + l.startedAt <= e.pausedStarted + l.late
      /\ e.active < Duration =>
           e.active + e.paused + l.startedAt = e.pausedStarted + l.late
  BY <1>4 DEF Counts
<1>6. /\ more \in Nat /\ late \in Nat /\ more + e.pausedStarted = now + late
      /\ r.paused = e.paused + more /\ m.late = l.late + late
  BY <1>1, <1>2, <1>3 DEF more, late
<1>7. /\ r.active + r.paused + m.startedAt <= now + m.late
      /\ r.active < Duration => r.active + r.paused + m.startedAt = now + m.late
  <2>1. r.active + r.paused + m.startedAt = e.active + e.paused + l.startedAt + more
    BY <1>1, <1>3, <1>6
  <2>2. now + m.late = e.pausedStarted + l.late + more
    BY <1>1, <1>6
  <2> QED
    BY <1>1, <1>3, <1>5, <1>6, <2>1, <2>2
<1>8. Counts(r, m)
  BY <1>4, <1>7 DEF Counts
<1> QED
  BY <1>8 DEF r

LEMMA AccountStep ==
  ASSUME Types, StartOrder, Account, [Next]_vars
  PROVE  Account'
<1>1. EngineStep
  BY StepsOfTheEngine
<1>2. CASE UNCHANGED <<engine, sequence, ledger>>
  BY <1>2 DEF Account, Counts, Settled
<1>3. CASE \E c \in Starter : Create(c)
  <2>1. engine'.status = "ready" /\ engine'.active = 0 /\ engine'.paused = 0
    BY <1>3 DEF Create, NewEngine
  <2>2. ledger'.late = 0
    BY <1>3, CreateLedger DEF Types, EngineTypes
  <2> QED
    BY <2>1, <2>2 DEF Account, Going
<1>4. ASSUME NEW command \in Commands, NEW now \in Reading, Commanded(command, now),
             command = "start" =>
               \E c \in Starter \cup Controller : calls[c].pc = "stopped" /\ DispatchStart(c)
      PROVE  Account'
  <2>1. /\ engine # None /\ WellFormed(engine) /\ engine \in Engine /\ ledger \in Ledgers
        /\ engine' = After(engine, command, now) /\ ledger' = Record(engine, command, now)
    BY <1>4 DEF Commanded, Types, EngineTypes, WellFormed
  <2>2. /\ WellFormed(engine') /\ engine' # None
    BY <2>1, AfterIsWellFormed, NoneIsNothing DEF WellFormed
  <2>3. command = "start" => engine.status = "ready"
    BY <1>4 DEF StartOrder, Preparing
  <2>4. SUFFICES ASSUME engine'.status \in Going \/ engine'.status = "ready"
        PROVE  Account'
    BY DEF Account
  <2>5. Active(engine')
    BY <2>2, <2>4 DEF Active, Going
  <2>6. /\ ledger'.startedAt = IF command = "start" THEN now ELSE ledger.startedAt
        /\ ledger'.late = ledger.late + Lateness(engine, command, now)
    BY <1>4, <2>5, CommandedLedger
  <2>7. ledger.late \in Nat /\ ledger.startedAt \in Nat /\ now \in Nat /\ Duration \in Nat
    BY <2>1, BoundsAssumption DEF Ledgers, Reading
  <2>8. CASE command = "start"
    <3>1. engine' = Started(engine, now) /\ engine.status = "ready"
      BY <2>1, <2>3, <2>8, AfterStart
    <3>2. /\ engine'.status = "running" /\ engine'.last = now
          /\ engine'.active = engine.active /\ engine'.paused = engine.paused
      BY <2>1, <3>1 DEF Started, Engine
    <3>3. engine.active = 0 /\ engine.paused = 0 /\ ledger.late = 0
      BY <2>1, <3>1 DEF Account
    <3>4. Lateness(engine, command, now) = 0
      BY <2>8 DEF Lateness
    <3> QED
      BY <2>6, <2>7, <2>8, <3>2, <3>3, <3>4 DEF Account, Counts, Settled
  <2>9. CASE command \in {"tick", "pause"} /\ engine.status = "running"
    <3>1. Lateness(engine, command, now) = Excess(engine.last, now)
      BY <2>9 DEF Lateness
    <3>2. Counts(engine, ledger)
      BY <2>1, <2>9 DEF Account, Going
    <3>3. /\ engine'.active = Advanced(engine, now).active
          /\ engine'.paused = engine.paused
          /\ Settled(engine') = now
          /\ engine'.status \in Going
      <4>1. /\ Advanced(engine, now) \in Engine
            /\ Advanced(engine, now) =
                 [engine EXCEPT !.active = Advanced(engine, now).active, !.last = now]
        BY <2>1, <2>9, AdvancedCounts
      <4>2. /\ Advanced(engine, now).paused = engine.paused
            /\ Advanced(engine, now).last = now
            /\ Advanced(engine, now).status = "running"
        BY <2>1, <2>9, <4>1 DEF Engine
      <4>3. CASE command = "tick"
        <5>1. engine' = Ticked(engine, now)
          BY <2>1, <2>9, <4>3, AfterTick
        <5>2. Ended(engine, "completed").status = "completed"
          BY <2>1, EndedIsWellFormed DEF Terminal
        <5>3. engine' = Advanced(engine, now)
          BY <2>4, <5>1, <5>2 DEF Ticked, Going
        <5> QED
          BY <4>2, <5>3 DEF Settled, Going
      <4>4. CASE command = "pause"
        <5>1. engine' = Paused(engine, now)
          BY <2>1, <2>9, <4>4, AfterPause
        <5>2. /\ engine'.active = Advanced(engine, now).active
              /\ engine'.paused = Advanced(engine, now).paused
              /\ engine'.status = "paused" /\ engine'.pausedStarted = now
          BY <4>1, <5>1 DEF Paused, Engine
        <5> QED
          BY <4>2, <5>2 DEF Settled, Going
      <4> QED
        BY <2>9, <4>3, <4>4
    <3>4. Counts(engine', ledger')
      <4>1. ledger'.startedAt = ledger.startedAt
            /\ ledger'.late = ledger.late + Excess(engine.last, now)
        BY <2>6, <2>9, <3>1
      <4> QED
        BY <2>1, <2>7, <2>9, <3>2, <3>3, <4>1, CountsAdvanced
    <3> QED
      BY <3>3, <3>4 DEF Account, Going, Counts, Settled
  <2>10. CASE command = "resume" /\ engine.status = "paused"
    <3>1. Lateness(engine, command, now) = Excess(engine.pausedStarted, now)
      BY <2>10 DEF Lateness
    <3>2. Counts(engine, ledger)
      BY <2>1, <2>10 DEF Account, Going
    <3>3. engine' = Resumed(engine, now)
      BY <2>1, <2>10, AfterResume
    <3>4. engine'.status = "running"
      BY <2>1, <3>3 DEF Resumed, Engine
    <3>5. Counts(engine', ledger')
      <4>1. ledger'.startedAt = ledger.startedAt
            /\ ledger'.late = ledger.late + Excess(engine.pausedStarted, now)
        BY <2>6, <2>10, <3>1
      <4> QED
        BY <2>1, <2>7, <2>10, <3>2, <3>3, <4>1, CountsResumed
    <3> QED
      BY <3>4, <3>5 DEF Account, Going, Counts, Settled
  <2>11. CASE /\ command # "start"
              /\ ~(command \in {"tick", "pause"} /\ engine.status = "running")
              /\ ~(command = "resume" /\ engine.status = "paused")
    <3>1. Lateness(engine, command, now) = 0
      BY <2>11 DEF Lateness
    <3>2. ledger'.late = ledger.late /\ ledger'.startedAt = ledger.startedAt
      BY <2>6, <2>7, <2>11, <3>1
    <3>3. engine' = engine
      <4>1. CASE command \in {"end", "interrupt"} /\ engine.status \in Going
        <5>1. engine'.status \in Terminal
          BY <2>1, <4>1, AfterEnd, EndedIsWellFormed DEF Terminal
        <5> QED
          BY <2>4, <5>1 DEF Going, Terminal
      <4> QED
        BY <2>1, <2>11, <4>1, AfterIgnored
    <3> QED
      BY <2>1, <3>2, <3>3 DEF Account, Counts, Settled
  <2> QED
    BY <2>8, <2>9, <2>10, <2>11
<1> QED
  BY <1>1, <1>2, <1>3, <1>4, OtherSteps DEF EngineStep

-----------------------------------------------------------------------------
(* The runner of the session.                                              *)

\* Unless two starts overlapped there is one at a time, and it starts the
\* session in the slot.
OneStart ==
  ~ledger.overlap => \A c \in Starting :
    /\ Starting = {c}
    /\ calls[c].pc = "started" => calls[c].id = engine.id

LiveRunner ==
  /\ engine # None
  /\ engine.status \in Going
  /\ Starting = {}
  /\ ~ledger.overlap
  /\ quitting.pc = "no"
  => /\ runner = engine.id
     /\ runners[engine.id].pc \in {"waiting", "ticking"}
     /\ ~runners[engine.id].cancelled

LEMMA EngineKeeps ==
  ASSUME Types, [Next]_vars, ~\E c \in Starter : Create(c)
  PROVE  /\ ledger'.overlap = ledger.overlap
         /\ engine # None => engine' # None /\ engine'.id = engine.id
         /\ engine' # None /\ engine'.status \in Going =>
              \/ engine # None /\ engine.status \in Going
              \/ \E c \in Starter \cup Controller :
                   calls[c].pc = "stopped" /\ DispatchStart(c)
<1>1. CASE UNCHANGED <<engine, sequence, ledger>>
  BY <1>1
<1>2. ASSUME NEW command \in Commands, NEW now \in Reading, Commanded(command, now),
             command = "start" =>
               \E c \in Starter \cup Controller : calls[c].pc = "stopped" /\ DispatchStart(c)
      PROVE  /\ ledger'.overlap = ledger.overlap
             /\ engine' # None /\ engine'.id = engine.id
             /\ engine'.status \in Going =>
                  \/ engine.status \in Going
                  \/ \E c \in Starter \cup Controller :
                       calls[c].pc = "stopped" /\ DispatchStart(c)
  <2>1. WellFormed(engine) /\ engine' = After(engine, command, now)
    BY <1>2 DEF Commanded, Types, EngineTypes
  <2>2. WellFormed(engine') /\ engine'.id = engine.id /\ engine' # None
    BY <2>1, AfterIsWellFormed, NoneIsNothing DEF WellFormed
  <2>3. ledger'.overlap = ledger.overlap
    BY <1>2, CommandedLedger
  <2>4. engine'.status \in Going => engine.status \in Going \/ command = "start"
    BY <2>1, CommandStatus
  <2> QED
    BY <1>2, <2>2, <2>3, <2>4
<1>3. \A command, now : Commanded(command, now) => engine # None
  BY DEF Commanded
<1> QED
  BY <1>1, <1>2, <1>3, StepsOfTheEngine, OtherSteps DEF EngineStep

\* The calls that a step leaves in the middle of a start.
LEMMA StartingSteps ==
  ASSUME Types, [Next]_vars, ~\E c \in Starter : Create(c),
         ~\E c \in Starter : StopOldRunner(c) \/ DispatchStart(c) \/ StartRunner(c)
  PROVE  Starting' = Starting /\ \A c \in Starting : calls'[c] = calls[c]
<1>1. CASE calls' = calls
  BY <1>1 DEF Starting
<1>2. ASSUME NEW c \in Controller, CallControl(c)
      PROVE  Starting' = Starting /\ \A d \in Starting : calls'[d] = calls[d]
  <2>1. PICK control \in Controls :
          calls' = [calls EXCEPT ![c] =
                     [Idle EXCEPT !.pc = "control", !.control = control,
                                  !.stamp = IF control = "end" THEN 0 ELSE clock]]
    BY <1>2 DEF CallControl
  <2>2. calls'[c].pc = "control" /\ calls[c].pc = "idle"
    BY <1>2, <2>1 DEF CallControl, Types, CallTypes, Idle
  <2>3. \A d \in Starter \cup Controller : d # c => calls'[d] = calls[d]
    BY <2>1 DEF Types, CallTypes
  <2> QED
    BY <2>2, <2>3 DEF Starting
<1>3. ASSUME NEW c \in Starter \cup Controller, Control(c)
      PROVE  Starting' = Starting /\ \A d \in Starting : calls'[d] = calls[d]
  <2>1. calls'[c].pc = "idle" /\ calls[c].pc = "control"
    BY <1>3 DEF Control, Types, CallTypes, Idle
  <2>2. \A d \in Starter \cup Controller : d # c => calls'[d] = calls[d]
    BY <1>3 DEF Control, Types, CallTypes
  <2> QED
    BY <2>1, <2>2 DEF Starting
<1>4. ASSUME NEW c \in Starter \cup Controller, CallSteps(c)
      PROVE  Control(c)
  <2>1. c \in Starter \/ calls[c].pc \notin StartingCalls
    BY DEF Types, CallTypes
  <2> QED
    BY <1>4, <2>1 DEF CallSteps, StopOldRunner, DispatchStart, StartRunner, StartingCalls
<1>5. CASE \/ UNCHANGED vars \/ TimePasses \/ ObserverSteps \/ ObserverCancelled
           \/ StoreOutcome \/ InterruptActive \/ ShutdownSteps
           \/ \E s \in Session : RunnerSteps(s)
  <2>1. calls' = calls
    BY <1>5 DEF vars, TimePasses, ObserverSteps, Receive, Recover, ObserverCancelled,
         StoreOutcome, InterruptActive, ShutdownSteps, StoreInterrupted, CancelTasks, Drain,
         RunnerSteps, Wake, TickSession, RunnerCancelled
  <2> QED
    BY <1>1, <2>1
<1> QED
  BY <1>2, <1>3, <1>4, <1>5 DEF Next

LEMMA OneStartStep ==
  ASSUME Types, StartOrder, OneStart, [Next]_vars
  PROVE  OneStart'
<1> SUFFICES ASSUME ~ledger'.overlap, NEW c \in Starting'
    PROVE  /\ Starting' = {c}
           /\ calls'[c].pc = "started" => calls'[c].id = engine'.id
  BY DEF OneStart
<1>1. ASSUME NEW b \in Starter, Create(b)
      PROVE  /\ Starting' = {c}
             /\ calls'[c].pc = "started" => calls'[c].id = engine'.id
  <2>1. Starting = {}
    BY <1>1, CreateLedger DEF Types, EngineTypes
  <2>2. /\ \A d \in Starter : d # b => calls'[d] = calls[d]
        /\ calls'[b].pc = "created"
    BY <1>1 DEF Create, Types, CallTypes
  <2> QED
    BY <2>1, <2>2 DEF Starting
<1>2. ASSUME ~\E b \in Starter : Create(b)
      PROVE  /\ Starting' = {c}
             /\ calls'[c].pc = "started" => calls'[c].id = engine'.id
  <2>1. ~ledger.overlap /\ (engine # None => engine'.id = engine.id)
    BY <1>2, EngineKeeps
  <2>2. \A d \in Starting : engine # None
    BY DEF Starting, Types, CallTypes, StartingCalls
  <2>3. ASSUME NEW b \in Starter, StopOldRunner(b) \/ DispatchStart(b) \/ StartRunner(b)
        PROVE  /\ Starting' = {c}
               /\ calls'[c].pc = "started" => calls'[c].id = engine'.id
    <3>1. b \in Starting /\ Starting = {b}
      BY <2>1, <2>3 DEF Starting, OneStart, StopOldRunner, DispatchStart, StartRunner
    <3>2. \A d \in Starter : d # b => calls'[d] = calls[d]
      BY <2>3 DEF StopOldRunner, DispatchStart, StartRunner, Types, CallTypes
    <3>3. Starting' = {b} /\ c = b
      BY <3>1, <3>2 DEF Starting
    <3>4. CASE StopOldRunner(b)
      BY <3>3, <3>4 DEF StopOldRunner, Types, CallTypes
    <3>5. CASE DispatchStart(b)
      <4>1. calls'[b].id = engine.id
        BY <3>5 DEF DispatchStart, Types, CallTypes
      <4> QED
        BY <2>1, <2>2, <3>1, <3>3, <4>1
    <3>6. CASE StartRunner(b)
      BY <3>3, <3>6 DEF StartRunner, Types, CallTypes, Idle
    <3> QED
      BY <2>3, <3>4, <3>5, <3>6
  <2>4. ASSUME ~\E b \in Starter : StopOldRunner(b) \/ DispatchStart(b) \/ StartRunner(b)
        PROVE  /\ Starting' = {c}
               /\ calls'[c].pc = "started" => calls'[c].id = engine'.id
    BY <1>2, <2>1, <2>2, <2>4, StartingSteps DEF OneStart
  <2> QED
    BY <2>3, <2>4
<1> QED
  BY <1>1, <1>2

\* Only the steps of the shutdown change how far it is, and none undoes it.
LEMMA QuitStays ==
  ASSUME [Next]_vars, quitting'.pc = "no"
  PROVE  quitting.pc = "no" /\ quitting' = quitting
<1>1. ASSUME NEW c \in Starter \cup Controller,
             Create(c) \/ CallControl(c) \/ CallSteps(c)
      PROVE  quitting' = quitting
  BY <1>1 DEF Create, CallControl, CallSteps, Control, StopOldRunner, DispatchStart, StartRunner
<1>2. ASSUME NEW s \in Session, RunnerSteps(s)
      PROVE  quitting' = quitting
  BY <1>2 DEF RunnerSteps, Wake, TickSession, RunnerCancelled
<1>3. TimePasses \/ ObserverSteps \/ ObserverCancelled \/ StoreOutcome \/ UNCHANGED vars
      => quitting' = quitting
  BY DEF TimePasses, ObserverSteps, Receive, Recover, ObserverCancelled, StoreOutcome, vars
<1>4. ~InterruptActive /\ ~ShutdownSteps
  BY DEF InterruptActive, ShutdownSteps, StoreInterrupted, CancelTasks, Drain, Quit
<1> QED
  BY <1>1, <1>2, <1>3, <1>4 DEF Next

LEMMA LiveRunnerStep ==
  ASSUME Types, StartOrder, OneStart, LiveRunner, [Next]_vars
  PROVE  LiveRunner'
<1> DEFINE Live == /\ runner = engine.id
                   /\ runners[engine.id].pc \in {"waiting", "ticking"}
                   /\ ~runners[engine.id].cancelled
<1> SUFFICES ASSUME engine' # None, engine'.status \in Going, Starting' = {},
                    ~ledger'.overlap, quitting'.pc = "no"
    PROVE  Live'
  BY DEF LiveRunner
<1>1. ~\E c \in Starter : Create(c)
  <2>1. \A c \in Starter : Create(c) => engine'.status = "ready"
    BY DEF Create, NewEngine
  <2> QED
    BY <2>1 DEF Going
<1>2. ~ledger.overlap /\ (engine # None => engine'.id = engine.id)
  BY <1>1, EngineKeeps
<1>3. ~\E c \in Starter : StopOldRunner(c) \/ DispatchStart(c)
  <2> SUFFICES ASSUME NEW c \in Starter, StopOldRunner(c) \/ DispatchStart(c)
      PROVE  FALSE
    OBVIOUS
  <2>1. calls'[c].pc \in StartingCalls
    BY DEF StopOldRunner, DispatchStart, Types, CallTypes, StartingCalls
  <2> QED
    BY <2>1 DEF Starting, StartingCalls
<1>4. ASSUME NEW c \in Starter, StartRunner(c)
      PROVE  Live'
  <2>1. c \in Starting /\ calls[c].id = engine.id /\ calls[c].id \in Session
        /\ engine' = engine
    BY <1>2, <1>4 DEF Starting, OneStart, StartRunner, Types, CallTypes, svars
  <2>2. runners'[calls[c].id] = Task("waiting", None) /\ runner' = calls[c].id
    BY <1>4, <2>1, CancelledRunners DEF StartRunner, Types
  <2> QED
    BY <2>1, <2>2 DEF Task
<1>5. CASE ~\E c \in Starter : StartRunner(c)
  <2>1. Starting = {}
    BY <1>1, <1>3, <1>5, StartingSteps
  <2>2. engine # None /\ engine.status \in Going
    <3>1. \A c \in Starter \cup Controller : calls[c].pc = "stopped" => c \in Starter
      BY DEF Types, CallTypes, StartingCalls
    <3> QED
      BY <1>1, <1>3, <3>1, EngineKeeps
  <2>3. engine'.id = engine.id /\ engine.id \in Session
    BY <1>2, <2>2 DEF Types, EngineTypes, WellFormed, Engine
  <2>4. quitting.pc = "no"
    BY QuitStays
  <2>5. Live
    BY <1>2, <2>1, <2>2, <2>4 DEF LiveRunner
  <2>6. CASE UNCHANGED <<runner, runners>>
    BY <2>3, <2>5, <2>6
  <2>7. ASSUME NEW s \in Session, RunnerSteps(s)
        PROVE  Live'
    <3>1. runner' = runner
      BY <2>7 DEF RunnerSteps, Wake, TickSession, RunnerCancelled
    <3>2. \A t \in Session : t # s => runners'[t] = runners[t]
      BY <2>7 DEF RunnerSteps, Wake, TickSession, RunnerCancelled, Stop, Types, RunnerTypes
    <3>3. CASE s = engine.id
      <4>1. CASE Wake(s)
        <5>1. runners' = [runners EXCEPT ![s].pc = "ticking", ![s].stamp = clock]
          BY <3>3, <4>1 DEF Wake
        <5>2. runners'[s].pc = "ticking" /\ runners'[s].cancelled = runners[s].cancelled
          BY <5>1 DEF Types, RunnerTypes
        <5> QED
          BY <2>3, <2>5, <3>1, <3>3, <5>2
      <4>2. CASE TickSession(s)
        <5>1. engine' = After(engine, "tick", runners[s].stamp)
          BY <2>2, <3>3, <4>2 DEF TickSession, Dispatch
        <5>2. runners' = [runners EXCEPT ![s].pc = "waiting", ![s].stamp = None]
          BY <3>3, <4>2, <5>1 DEF TickSession, Going, Terminal
        <5>3. runners'[s].pc = "waiting" /\ runners'[s].cancelled = runners[s].cancelled
          BY <5>2 DEF Types, RunnerTypes
        <5> QED
          BY <2>3, <2>5, <3>1, <3>3, <5>3
      <4>3. CASE RunnerCancelled(s)
        BY <2>5, <3>3, <4>3 DEF RunnerCancelled
      <4> QED
        BY <2>7, <4>1, <4>2, <4>3 DEF RunnerSteps
    <3> QED
      BY <2>3, <2>5, <3>1, <3>2, <3>3
  <2>8. ASSUME NEW c \in Starter \cup Controller, CallSteps(c)
        PROVE  UNCHANGED <<runner, runners>>
    <3>1. c \in Starter \/ calls[c].pc \notin StartingCalls
      BY DEF Types, CallTypes
    <3> QED
      BY <1>3, <1>5, <2>8, <3>1
      DEF CallSteps, Control, StopOldRunner, DispatchStart, StartRunner, StartingCalls
  <2>9. ~CancelTasks
    BY DEF CancelTasks, Quit
  <2>10. CASE \/ UNCHANGED vars \/ TimePasses \/ ObserverSteps \/ ObserverCancelled
              \/ StoreOutcome \/ InterruptActive \/ StoreInterrupted \/ Drain
              \/ \E c \in Controller : CallControl(c)
    <3>1. UNCHANGED <<runner, runners>>
      BY <2>10 DEF vars, TimePasses, ObserverSteps, Receive, Recover, ObserverCancelled,
         StoreOutcome, InterruptActive, StoreInterrupted, Drain, CallControl
    <3> QED
      BY <2>6, <3>1
  <2> QED
    BY <1>1, <2>6, <2>7, <2>8, <2>9, <2>10 DEF Next, ShutdownSteps
<1> QED
  BY <1>4, <1>5

-----------------------------------------------------------------------------
(* The outcome that is stored.                                             *)

\* An update says what the ledger l has as the first end of its session.
Says(l, u) == u.id \notin l.revived => u.status = l.outcome[u.id]

Outcomes ==
  /\ \A s \in Session : s > sequence => ledger.outcome[s] = None
  /\ engine # None /\ engine.id \notin ledger.revived =>
       ledger.outcome[engine.id] = IF engine.status \in Terminal THEN engine.status ELSE None

LEMMA OutcomesStep ==
  ASSUME Types, Outcomes, [Next]_vars
  PROVE  /\ Outcomes'
         /\ \A u \in End : Says(ledger, u) => Says(ledger', u)
<1>1. CASE UNCHANGED <<engine, sequence, ledger>>
  BY <1>1 DEF Outcomes
<1>2. ASSUME NEW c \in Starter, Create(c)
      PROVE  /\ Outcomes'
             /\ \A u \in End : Says(ledger, u) => Says(ledger', u)
  <2>1. /\ sequence' = sequence + 1 /\ sequence \in Nat /\ sequence' \in Session
        /\ engine'.id = sequence' /\ engine'.status = "ready"
    BY <1>2, BoundsAssumption DEF Create, NewEngine, Types, EngineTypes, Session
  <2>2. ledger'.outcome = ledger.outcome /\ ledger'.revived = ledger.revived
    BY <1>2, CreateLedger DEF Types, EngineTypes
  <2>3. \A s \in Session : s > sequence' => s > sequence
    BY <2>1, BoundsAssumption DEF Session
  <2>4. sequence' > sequence
    BY <2>1
  <2> QED
    BY <2>1, <2>2, <2>3, <2>4 DEF Outcomes, Says, Terminal
<1>3. ASSUME NEW command \in Commands, NEW now \in Reading, Commanded(command, now)
      PROVE  /\ Outcomes'
             /\ \A u \in End : Says(ledger, u) => Says(ledger', u)
  <2> DEFINE end == EndEffect(engine, command, now)
             i   == engine.id
  <2>1. /\ engine # None /\ WellFormed(engine) /\ engine' = After(engine, command, now)
        /\ sequence' = sequence /\ ledger \in Ledgers /\ i = sequence /\ i \in Session
    BY <1>3 DEF Commanded, Types, EngineTypes, WellFormed, Engine
  <2>2. engine'.id = i
    BY <2>1, AfterIsWellFormed
  <2>3. /\ ledger'.outcome = [ledger.outcome EXCEPT ![i] = IF @ = None THEN end ELSE @]
        /\ ledger'.revived = IF command = "pause" /\ end # None
                             THEN ledger.revived \cup {i} ELSE ledger.revived
    BY <1>3, CommandedLedger
  <2> HIDE DEF end
  <2>4. \A s \in Session : /\ s # i => ledger'.outcome[s] = ledger.outcome[s]
                           /\ ledger.outcome[s] # None => ledger'.outcome[s] = ledger.outcome[s]
    BY <2>1, <2>3 DEF Ledgers
  <2>5. ledger'.outcome[i] = IF ledger.outcome[i] = None THEN end ELSE ledger.outcome[i]
    BY <2>1, <2>3 DEF Ledgers
  <2>6. \A u \in End : Says(ledger, u) => Says(ledger', u)
    BY <2>3, <2>4, NoneIsNothing DEF Says, End
  <2>7. \A s \in Session : s > sequence => ledger'.outcome[s] = None
    <3>1. \A s \in Session : s > sequence => s # i
      BY <2>1 DEF Types, EngineTypes, Session
    <3> QED
      BY <2>4, <3>1 DEF Outcomes
  <2>8. ASSUME i \notin ledger'.revived
        PROVE  ledger'.outcome[i] =
                 IF engine'.status \in Terminal THEN engine'.status ELSE None
    <3>1. i \notin ledger.revived /\ ~(command = "pause" /\ end # None)
      BY <2>3, <2>8
    <3>2. ledger.outcome[i] = IF engine.status \in Terminal THEN engine.status ELSE None
      BY <2>1, <3>1 DEF Outcomes
    <3>3. CASE engine.status \in Terminal
      <4>1. engine' = engine
        BY <2>1, <3>3, CommandStatus
      <4> QED
        BY <2>5, <3>2, <3>3, <4>1, NoneIsNothing DEF Terminal, Status
    <3>4. CASE engine.status \notin Terminal
      <4>1. end = IF engine'.status \in Terminal THEN engine'.status ELSE None
        <5>1. CASE command = "pause"
          <6>1. engine'.status \notin Terminal
            BY <2>1, <3>4, <5>1, CommandStatus
          <6> QED
            BY <3>1, <5>1, <6>1
        <5>2. CASE command # "pause"
          BY <2>1, <3>4, <5>2 DEF end, EndEffect
        <5> QED
          BY <5>1, <5>2
      <4> QED
        BY <2>5, <3>2, <3>4, <4>1
    <3> QED
      BY <3>3, <3>4
  <2> QED
    BY <2>1, <2>2, <2>6, <2>7, <2>8 DEF Outcomes
<1> QED
  BY <1>1, <1>2, <1>3, StepsOfTheEngine, OtherSteps DEF EngineStep

\* The update that a command sends says the first end of its session.
LEMMA UpdateSays ==
  ASSUME Types, Outcomes, NEW command \in Commands, NEW now \in Reading,
         Commanded(command, now), Update(engine, command, now) # None
  PROVE  Says(ledger', Update(engine, command, now))
<1> DEFINE end == EndEffect(engine, command, now)
           i   == engine.id
<1>1. /\ engine # None /\ WellFormed(engine) /\ engine' = After(engine, command, now)
      /\ ledger \in Ledgers /\ i \in Session
  BY DEF Commanded, Types, EngineTypes, WellFormed, Engine
<1>2. /\ end # None
      /\ Update(engine, command, now).id = i
      /\ Update(engine, command, now).status = engine'.status
  BY <1>1, UpdateIsTyped
<1>3. /\ ledger'.outcome = [ledger.outcome EXCEPT ![i] = IF @ = None THEN end ELSE @]
      /\ ledger'.revived = IF command = "pause" /\ end # None
                           THEN ledger.revived \cup {i} ELSE ledger.revived
  BY CommandedLedger
<1>4. engine.status \notin Terminal
  BY <1>2, EndEffectIsTerminal
<1>5. CASE command = "pause"
  BY <1>2, <1>3, <1>5 DEF Says
<1>6. CASE command # "pause"
  <2>1. end = engine'.status
    BY <1>1, <1>2, <1>6 DEF EndEffect
  <2> HIDE DEF end
  <2>2. ledger'.outcome[i] = IF ledger.outcome[i] = None THEN end ELSE ledger.outcome[i]
    BY <1>1, <1>3 DEF Ledgers
  <2>3. i \notin ledger'.revived => ledger.outcome[i] = None
    BY <1>1, <1>3, <1>4, <1>6 DEF Outcomes
  <2> QED
    BY <1>2, <2>1, <2>2, <2>3 DEF Says
<1> QED
  BY <1>5, <1>6

\* What sending u leaves in the channel, and what it keeps there.
LEMMA Sending ==
  ASSUME ChannelTypes, NEW u \in End \cup {None}, Send(u)
  PROVE  /\ \A i \in DOMAIN updates' :
              updates'[i] = u \/ \E j \in DOMAIN updates : updates'[i] = updates[j]
         /\ observer.pc # "stopped" =>
              \/ lagged'
              \/ /\ lagged' = lagged
                 /\ \E i \in DOMAIN updates' : updates'[i] = u
                 /\ \A j \in DOMAIN updates : j \in DOMAIN updates' /\ updates'[j] = updates[j]
<1> DEFINE U == End \cup {None}
<1>1. updates \in Seq(U) /\ Len(updates) <= Capacity /\ u \in U /\ Capacity \in Nat \ {0}
  BY BoundsAssumption DEF ChannelTypes
<1> HIDE DEF U
<1>2. CASE observer.pc = "stopped"
  BY <1>1, <1>2 DEF Send
<1>3. CASE observer.pc # "stopped" /\ Len(updates) < Capacity
  <2>1. updates' = Append(updates, u) /\ lagged' = lagged
    BY <1>3 DEF Send
  <2>2. /\ DOMAIN updates = 1..Len(updates) /\ DOMAIN updates' = 1..(Len(updates) + 1)
        /\ updates'[Len(updates) + 1] = u
        /\ \A j \in 1..Len(updates) : updates'[j] = updates[j]
        /\ Len(updates) \in Nat
    BY <1>1, <2>1
  <2> QED
    BY <2>1, <2>2
<1>4. CASE observer.pc # "stopped" /\ ~(Len(updates) < Capacity)
  <2>1. updates' = Append(Tail(updates), u) /\ lagged'
    BY <1>4 DEF Send
  <2>2. updates # <<>> /\ Len(updates) \in Nat
    BY <1>1, <1>4
  <2>3. /\ Tail(updates) \in Seq(U) /\ Len(Tail(updates)) = Len(updates) - 1
        /\ \A i \in 1..(Len(updates) - 1) :
             Tail(updates)[i] = updates[i + 1] /\ i + 1 \in DOMAIN updates
    BY <1>1, <2>2
  <2>4. /\ DOMAIN updates' = 1..Len(updates)
        /\ updates'[Len(updates)] = u
        /\ \A i \in 1..(Len(updates) - 1) : updates'[i] = Tail(updates)[i]
    BY <1>1, <2>1, <2>2, <2>3
  <2>5. \A i \in DOMAIN updates' : i = Len(updates) \/ i \in 1..(Len(updates) - 1)
    BY <2>2, <2>4
  <2> QED
    BY <2>1, <2>3, <2>4, <2>5
<1> QED
  BY <1>2, <1>3, <1>4

\* The steps of those who store, and of nobody else.
LEMMA StoringSteps ==
  ASSUME [Next]_vars
  PROVE  /\ \/ UNCHANGED <<observer, stored>>
            \/ Receive \/ Recover \/ StoreOutcome \/ ObserverCancelled \/ StoreInterrupted
         /\ \/ UNCHANGED quitting
            \/ InterruptActive \/ StoreInterrupted \/ CancelTasks \/ Drain
<1>1. ASSUME NEW c \in Starter \cup Controller,
             Create(c) \/ CallControl(c) \/ CallSteps(c)
      PROVE  UNCHANGED <<observer, stored, quitting>>
  BY <1>1 DEF Create, CallControl, CallSteps, Control, StopOldRunner, DispatchStart, StartRunner
<1>2. ASSUME NEW s \in Session, RunnerSteps(s)
      PROVE  UNCHANGED <<observer, stored, quitting>>
  BY <1>2 DEF RunnerSteps, Wake, TickSession, RunnerCancelled
<1>3. TimePasses \/ UNCHANGED vars => UNCHANGED <<observer, stored, quitting>>
  BY DEF TimePasses, vars
<1>4. Receive \/ Recover \/ StoreOutcome \/ ObserverCancelled => UNCHANGED quitting
  BY DEF Receive, Recover, ObserverCancelled, StoreOutcome
<1>5. InterruptActive \/ CancelTasks \/ Drain => UNCHANGED <<observer, stored>>
  BY DEF InterruptActive, CancelTasks, Drain
<1> QED
  BY <1>1, <1>2, <1>3, <1>4, <1>5 DEF Next, ObserverSteps, ShutdownSteps

\* The elements of the channel after a step.
LEMMA ChannelStep ==
  ASSUME Types, [Next]_vars, NEW i \in DOMAIN updates', updates'[i] # None
  PROVE  \/ \E j \in DOMAIN updates : updates'[i] = updates[j]
         \/ \E command \in Commands, now \in Reading :
              Commanded(command, now) /\ updates'[i] = Update(engine, command, now)
<1>1. CASE UNCHANGED updates
  BY <1>1
<1>2. CASE Receive \/ ObserverCancelled
  <2>1. \/ UNCHANGED updates
        \/ updates # <<>> /\ updates' = Tail(updates)
        \/ updates' = <<>>
    BY <1>2 DEF Receive, ObserverCancelled
  <2> DEFINE U == End \cup {None}
  <2>2. updates \in Seq(U)
    BY DEF Types, ChannelTypes
  <2> HIDE DEF U
  <2>3. ASSUME updates # <<>>, updates' = Tail(updates)
        PROVE  \E j \in DOMAIN updates : updates'[i] = updates[j]
    <3>1. i \in 1..(Len(updates) - 1) /\ Len(updates) \in Nat /\ updates'[i] = updates[i + 1]
      BY <2>2, <2>3
    <3> QED
      BY <2>2, <3>1
  <2>4. updates' # <<>>
    OBVIOUS
  <2> QED
    BY <1>1, <2>1, <2>3, <2>4
<1>3. ASSUME NEW command \in Commands, NEW now \in Reading, Commanded(command, now)
      PROVE  updates'[i] = Update(engine, command, now)
             \/ \E j \in DOMAIN updates : updates'[i] = updates[j]
  <2>1. /\ WellFormed(engine) /\ ChannelTypes /\ Send(Update(engine, command, now))
    BY <1>3 DEF Commanded, Types, EngineTypes
  <2>2. Update(engine, command, now) \in End \cup {None}
    BY <2>1, UpdateIsTyped
  <2> QED
    BY <2>1, <2>2, Sending
<1>4. UNCHANGED svars \/ (\E c \in Starter : Create(c)) => UNCHANGED updates
  BY DEF svars, Create
<1> QED
  BY <1>1, <1>2, <1>3, <1>4, StepsOfTheEngine DEF EngineStep

\* All that is on its way to the database, and all that is there, says it.
Writers ==
  /\ \A i \in DOMAIN updates : updates[i] # None => Says(ledger, updates[i])
  /\ observer.pc = "storing" => Says(ledger, observer.held)
  /\ quitting.pc = "storing" => Says(ledger, quitting.held)
  /\ ReplacedOutcomesAreRevived

LEMMA WritersStep ==
  ASSUME Types, Outcomes, Writers, [Next]_vars
  PROVE  Writers'
<1>1. \A u \in End : Says(ledger, u) => Says(ledger', u)
  BY OutcomesStep
<1>2. \A j \in DOMAIN updates : updates[j] # None => updates[j] \in End
  <2> DEFINE U == End \cup {None}
  <2>1. updates \in Seq(U)
    BY DEF Types, ChannelTypes
  <2> HIDE DEF U
  <2>2. \A j \in DOMAIN updates : updates[j] \in U
    BY <2>1
  <2> QED
    BY <2>2 DEF U
<1>3. ASSUME NEW i \in DOMAIN updates', updates'[i] # None
      PROVE  Says(ledger', updates'[i])
  <2>1. CASE \E j \in DOMAIN updates : updates'[i] = updates[j]
    BY <1>1, <1>2, <1>3, <2>1 DEF Writers
  <2>2. ASSUME NEW command \in Commands, NEW now \in Reading, Commanded(command, now),
               updates'[i] = Update(engine, command, now)
        PROVE  Says(ledger', updates'[i])
    BY <1>3, <2>2, UpdateSays
  <2> QED
    BY <1>3, <2>1, <2>2, ChannelStep
<1>4. observer'.pc = "storing" => Says(ledger', observer'.held)
  <2> SUFFICES ASSUME observer'.pc = "storing" PROVE Says(ledger', observer'.held)
    OBVIOUS
  <2>1. CASE observer' = observer
    BY <1>1, <2>1 DEF Writers, Types, StoreTypes
  <2>2. CASE Receive
    <3>1. observer' = observer \/ (/\ updates # <<>> /\ Head(updates) # None
                                  /\ observer' = [pc |-> "storing", held |-> Head(updates)])
      BY <2>2 DEF Receive, Observe
    <3>2. ASSUME updates # <<>> PROVE 1 \in DOMAIN updates /\ Head(updates) = updates[1]
      <4> DEFINE U == End \cup {None}
      <4>1. updates \in Seq(U)
        BY DEF Types, ChannelTypes
      <4> HIDE DEF U
      <4> QED
        BY <3>2, <4>1
    <3>3. ASSUME updates # <<>>, Head(updates) # None PROVE Says(ledger', Head(updates))
      BY <1>1, <1>2, <3>2, <3>3 DEF Writers
    <3> QED
      BY <2>1, <3>1, <3>3
  <2>3. CASE Recover
    <3>1. /\ engine # None /\ engine.status \in Terminal
          /\ observer'.held = [id |-> engine.id, status |-> engine.status]
      BY <2>3 DEF Recover, Observe
    <3>2. observer'.held \in End
      BY <3>1 DEF Types, EngineTypes, WellFormed, Engine, End
    <3>3. Says(ledger, observer'.held)
      BY <3>1 DEF Says, Outcomes
    <3> QED
      BY <1>1, <3>2, <3>3
  <2>4. ~StoreOutcome /\ ~ObserverCancelled
    BY DEF StoreOutcome, ObserverCancelled, Observe
  <2>5. StoreInterrupted => observer' = observer
    BY DEF StoreInterrupted
  <2> QED
    BY <2>1, <2>2, <2>3, <2>4, <2>5, StoringSteps
<1>5. quitting'.pc = "storing" => Says(ledger', quitting'.held)
  <2> SUFFICES ASSUME quitting'.pc = "storing" PROVE Says(ledger', quitting'.held)
    OBVIOUS
  <2>1. CASE quitting' = quitting
    BY <1>1, <2>1 DEF Writers, Types, StoreTypes
  <2>2. CASE InterruptActive
    <3>1. /\ engine # None /\ EndEffect(engine, "interrupt", 0) # None
          /\ quitting'.held = Update(engine, "interrupt", 0)
          /\ Dispatch("interrupt", 0)
      BY <2>2 DEF InterruptActive, Quit
    <3>2. "interrupt" \in Commands /\ 0 \in Reading /\ Commanded("interrupt", 0)
      BY <3>1, BoundsAssumption DEF Commands, Reading, Dispatch, Commanded
    <3>3. Update(engine, "interrupt", 0) # None
      BY <3>1, <3>2, UpdateIsTyped DEF Types, EngineTypes
    <3> QED
      BY <3>1, <3>2, <3>3, UpdateSays
  <2>3. ~StoreInterrupted /\ ~CancelTasks /\ ~Drain
    BY DEF StoreInterrupted, CancelTasks, Drain, Quit
  <2> QED
    BY <2>1, <2>2, <2>3, StoringSteps
<1>6. ReplacedOutcomesAreRevived'
  <2>1. ASSUME NEW u \in End, Says(ledger', u), stored' = Inserted(u),
               \A s \in Session :
                 stored[s] # None => Says(ledger', [id |-> s, status |-> stored[s]])
        PROVE  ReplacedOutcomesAreRevived'
    <3>1. \A s \in Session : stored'[s] = IF s = u.id /\ stored[s] = None
                                         THEN u.status ELSE stored[s]
      BY <2>1 DEF Inserted, Types, StoreTypes
    <3> QED
      BY <2>1, <3>1 DEF ReplacedOutcomesAreRevived, Says
  <2>2. ASSUME NEW s \in Session, stored[s] # None
        PROVE  Says(ledger', [id |-> s, status |-> stored[s]])
    <3>1. [id |-> s, status |-> stored[s]] \in End
      BY <2>2 DEF Types, StoreTypes, End
    <3>2. Says(ledger, [id |-> s, status |-> stored[s]])
      BY <2>2 DEF Writers, ReplacedOutcomesAreRevived, Says
    <3> QED
      BY <1>1, <3>1, <3>2
  <2>3. CASE stored' = stored
    BY <2>2, <2>3 DEF ReplacedOutcomesAreRevived, Says
  <2>4. CASE StoreOutcome
    <3>1. observer.held \in End /\ Says(ledger', observer.held)
      BY <1>1, <2>4 DEF StoreOutcome, Writers, Types, StoreTypes
    <3> QED
      BY <2>1, <2>2, <2>4, <3>1 DEF StoreOutcome
  <2>5. CASE StoreInterrupted
    <3>1. quitting.held \in End /\ Says(ledger', quitting.held)
      BY <1>1, <2>5 DEF StoreInterrupted, Writers, Types, StoreTypes
    <3> QED
      BY <2>1, <2>2, <2>3, <2>5, <3>1 DEF StoreInterrupted
  <2>6. Receive \/ Recover \/ ObserverCancelled => stored' = stored
    BY DEF Receive, Recover, ObserverCancelled
  <2> QED
    BY <2>3, <2>4, <2>5, <2>6, StoringSteps
<1> QED
  BY <1>3, <1>4, <1>5, <1>6 DEF Writers

-----------------------------------------------------------------------------
(* The end of the session reaches the database.                            *)

\* It is stored, or the observer has it, will get it or will look for it.
OnItsWay(id) ==
  \/ stored[id] # None
  \/ lagged
  \/ observer.pc = "lagged"
  \/ observer.pc = "storing" /\ observer.held.id = id
  \/ \E i \in DOMAIN updates : updates[i] # None /\ updates[i].id = id

Ends ==
  /\ observer.pc = "stopped" => quitting.pc # "no"
  /\ engine # None /\ engine.status \in Terminal /\ quitting.pc = "no" =>
       OnItsWay(engine.id)

LEMMA EndsStep ==
  ASSUME Types, Ends, [Next]_vars
  PROVE  Ends'
<1> SUFFICES ASSUME quitting'.pc = "no"
    PROVE  /\ observer'.pc # "stopped"
           /\ engine' # None /\ engine'.status \in Terminal => OnItsWay(engine.id)'
  BY DEF Ends
<1>1. quitting.pc = "no" /\ observer.pc # "stopped" /\ ~ObserverCancelled /\ ~StoreInterrupted
  BY QuitStays DEF Ends, ObserverCancelled, StoreInterrupted
<1>2. observer'.pc # "stopped"
  <2>1. CASE observer' = observer
    BY <1>1, <2>1
  <2>2. CASE Receive \/ Recover \/ StoreOutcome
    BY <2>2 DEF Receive, Recover, StoreOutcome, Observe
  <2> QED
    BY <1>1, <2>1, <2>2, StoringSteps
<1> SUFFICES ASSUME engine' # None, engine'.status \in Terminal
    PROVE  OnItsWay(engine.id)'
  BY <1>2
<1>3. ~\E c \in Starter : Create(c)
  <2>1. \A c \in Starter : Create(c) => engine'.status = "ready"
    BY DEF Create, NewEngine
  <2> QED
    BY <2>1 DEF Terminal
<1> DEFINE U == End \cup {None}
<1>4. updates \in Seq(U)
  BY DEF Types, ChannelTypes
<1> HIDE DEF U
<1>5. CASE UNCHANGED engine
  <2> DEFINE id == engine.id
  <2>1. OnItsWay(id) /\ engine'.id = id /\ id \in Session /\ engine # None
    BY <1>1, <1>5 DEF Ends, Types, EngineTypes, WellFormed, Engine
  <2> HIDE DEF id
  <2>2. CASE Receive
    <3>1. stored' = stored /\ observer.pc = "receiving"
      BY <2>2 DEF Receive
    <3>2. CASE lagged
      <4>1. observer'.pc = "lagged"
        BY <2>2, <3>2 DEF Receive, Observe
      <4> QED
        BY <4>1 DEF OnItsWay
    <3>3. CASE ~lagged
      <4>1. /\ updates # <<>> /\ updates' = Tail(updates)
            /\ Head(updates) # None => observer' = [pc |-> "storing", held |-> Head(updates)]
        BY <2>2, <3>3 DEF Receive, Observe
      <4>2. CASE stored[id] # None
        BY <2>1, <3>1, <4>2 DEF OnItsWay
      <4>3. ASSUME NEW i \in DOMAIN updates, updates[i] # None, updates[i].id = id
            PROVE  OnItsWay(engine.id)'
        <5>1. CASE i = 1
          <6>1. Head(updates) = updates[1]
            BY <1>4, <4>1
          <6> QED
            BY <2>1, <4>1, <4>3, <5>1, <6>1 DEF OnItsWay
        <5>2. CASE i # 1
          <6>1. i - 1 \in DOMAIN updates' /\ updates'[i - 1] = updates[i]
            BY <1>4, <4>1, <5>2
          <6> QED
            BY <2>1, <4>3, <6>1 DEF OnItsWay
        <5> QED
          BY <5>1, <5>2
      <4> QED
        BY <2>1, <3>1, <3>3, <4>2, <4>3 DEF OnItsWay
    <3> QED
      BY <3>2, <3>3
  <2>3. CASE Recover
    <3>1. /\ observer'.pc = "storing"
          /\ observer'.held = [id |-> id, status |-> engine.status]
      BY <1>5, <2>1, <2>3 DEF Recover, Observe, id
    <3> QED
      BY <2>1, <3>1 DEF OnItsWay
  <2>4. CASE StoreOutcome
    <3>1. /\ observer.pc = "storing" /\ observer.held \in End
          /\ stored' = Inserted(observer.held) /\ UNCHANGED <<updates, lagged>>
      BY <2>4 DEF StoreOutcome, svars, Types, StoreTypes
    <3>2. \A s \in Session : stored'[s] = IF s = observer.held.id /\ stored[s] = None
                                         THEN observer.held.status ELSE stored[s]
      BY <3>1 DEF Inserted, Types, StoreTypes
    <3>3. observer.held.status # None
      BY <3>1, NoneIsNothing DEF End
    <3> QED
      BY <2>1, <3>1, <3>2, <3>3 DEF OnItsWay
  <2>5. CASE UNCHANGED <<observer, stored>>
    <3>1. CASE UNCHANGED svars
      BY <2>1, <2>5, <3>1 DEF OnItsWay, svars
    <3>2. ASSUME NEW command \in Commands, NEW now \in Reading, Commanded(command, now)
          PROVE  OnItsWay(engine.id)'
      <4>1. /\ WellFormed(engine) /\ Send(Update(engine, command, now)) /\ ChannelTypes
        BY <3>2 DEF Commanded, Types, EngineTypes
      <4>2. Update(engine, command, now) \in End \cup {None}
        BY <4>1, UpdateIsTyped
      <4>3. lagged' \/ (/\ lagged' = lagged
                       /\ \A j \in DOMAIN updates : j \in DOMAIN updates' /\ updates'[j] = updates[j])
        BY <1>1, <4>1, <4>2, Sending
      <4> QED
        BY <2>1, <2>5, <4>3 DEF OnItsWay
    <3>3. CASE Receive
      BY <2>2, <3>3
    <3> QED
      BY <1>1, <1>3, <3>1, <3>2, <3>3, StepsOfTheEngine DEF EngineStep
  <2> QED
    BY <1>1, <2>2, <2>3, <2>4, <2>5, StoringSteps
<1>6. CASE engine' # engine
  <2>1. PICK command \in Commands, now \in Reading : Commanded(command, now)
    BY <1>3, <1>6, StepsOfTheEngine, OtherSteps DEF EngineStep
  <2>2. /\ WellFormed(engine) /\ engine' = After(engine, command, now)
        /\ Send(Update(engine, command, now)) /\ ChannelTypes
    BY <2>1 DEF Commanded, Types, EngineTypes
  <2>3. engine.status \notin Terminal /\ command # "pause" /\ engine'.id = engine.id
    BY <1>6, <2>2, CommandStatus, AfterIsWellFormed
  <2>4. EndEffect(engine, command, now) = engine'.status /\ engine'.status # None
    BY <2>2, <2>3, NoneIsNothing DEF EndEffect, Terminal, Status
  <2>5. /\ Update(engine, command, now) \in End \cup {None}
        /\ Update(engine, command, now) # None
        /\ Update(engine, command, now).id = engine'.id
    BY <2>2, <2>3, <2>4, UpdateIsTyped
  <2>6. lagged' \/ \E i \in DOMAIN updates' : updates'[i] = Update(engine, command, now)
    BY <1>1, <2>2, <2>5, Sending
  <2> QED
    BY <2>5, <2>6 DEF OnItsWay
<1> QED
  BY <1>5, <1>6

-----------------------------------------------------------------------------
(* The theorems.                                                           *)

IInv ==
  /\ Types
  /\ StartOrder
  /\ Account
  /\ OneStart
  /\ LiveRunner
  /\ Outcomes
  /\ Writers
  /\ Ends

LEMMA InitIInv == Init => IInv
<1> SUFFICES ASSUME Init PROVE IInv
  OBVIOUS
<1>1. Types
  BY TypesInit
<1>2. StartOrder /\ Starting = {}
  BY DEF Init, StartOrder, Starting, Idle, Preparing
<1>3. Account /\ OneStart /\ LiveRunner
  BY <1>2 DEF Init, Account, OneStart, LiveRunner
<1>4. Outcomes /\ Ends
  BY DEF Init, Outcomes, Ends
<1>5. Writers
  BY DEF Init, Writers, ReplacedOutcomesAreRevived
<1> QED
  BY <1>1, <1>2, <1>3, <1>4, <1>5 DEF IInv

LEMMA IInvStep == IInv /\ [Next]_vars => IInv'
BY TypesStep, StartOrderStep, AccountStep, OneStartStep, LiveRunnerStep, OutcomesStep,
   WritersStep, EndsStep DEF IInv

LEMMA Invariance == Spec => []IInv
BY InitIInv, IInvStep, PTL DEF Spec

\* The variables keep their types; a running engine has a last reading and a
\* paused one the start of its pause (SessionService in src/session.rs).
THEOREM TypeCorrect == Spec => []TypeOK
<1>1. IInv => TypeOK
  BY TypesImplyTypeOK DEF IInv
<1> QED
  BY <1>1, Invariance, PTL

\* Time is counted more than once only by as much as readings came late, for any
\* number of callers and runners whose readings overtake each other, and none is
\* lost below the duration (SessionEngine::advance_running_time and resume).
THEOREM SurplusIsTheLateness == Spec => []SurplusIsLateness
<1>1. IInv => SurplusIsLateness
  BY DEF IInv, Account, Counts, Settled, Going, SurplusIsLateness
<1> QED
  BY <1>1, Invariance, PTL

\* A running session has a runner that can still be stopped, for any number of
\* threads that start, unless two accepted starts overlapped
\* (SessionService::start_running).
THEOREM RunnersAreKept == Spec => []RunningIsTicked
<1>1. IInv => RunningIsTicked
  BY DEF IInv, LiveRunner, Going, RunningIsTicked
<1> QED
  BY <1>1, Invariance, PTL

\* Only a session that completed inside a pause may be stored with another
\* outcome than its first end, through a channel of any capacity, after lag or
\* from shutdown (persist_terminal_update).
THEOREM OnlyPausesReplaceOutcomes == Spec => []ReplacedOutcomesAreRevived
<1>1. IInv => ReplacedOutcomesAreRevived
  BY DEF IInv, Writers
<1> QED
  BY <1>1, Invariance, PTL

\* The end of a session is stored before the observer rests, however many
\* updates the channel drops (the observer's recovery after lag in src/lib.rs).
THEOREM EndsAreStored == Spec => []EndIsStored
<1>1. IInv => EndIsStored
  BY DEF IInv, Ends, OnItsWay, EndIsStored
<1> QED
  BY <1>1, Invariance, PTL
=============================================================================
