-------------------------- MODULE SessionEngineProofs --------------------------
(***************************************************************************)
(* Proofs about SessionEngine, for every configuration that passes         *)
(* validation and every delay.  SoundInv holds after every command:        *)
(*   GameInv: an event is over when the next one starts, the phase is the  *)
(*     one of the active time, and the occurrences of an event keep to its *)
(*     limits,                                                             *)
(*   TimeInv: the readings kept are the last one of the clock, and active  *)
(*     and paused time add up to it until the session is over.             *)
(* The choice of an event keeps GameInv (ScheduleKeeps), and so does every *)
(* milestone (MilestoneKeeps); after as many as there are units of time    *)
(* the target is reached (AdvanceArrives).  That a late tick does what     *)
(* timely ones do is induction on the time up to the timely one: a         *)
(* milestone before it is the next one for both (SameMilestone), and       *)
(* without one it only moves the active time (QuietTick).                  *)
(*                                                                         *)
(* Induction is by sets of numbers (NatSetInduction), and recursive        *)
(* definitions are used by way of the functions they define: PhaseEnds,    *)
(* ChosenSteps, AdvanceSteps.                                              *)
(***************************************************************************)
EXTENDS SessionEngine, TLAPS, WellFoundedInduction, FiniteSetTheorems

\* The records of the events there may be.
Records == [name : DOMAIN config.events, start : Nat]

\* The types of the engine's fields.
Engines ==
  [status : Status, active : 0..config.duration, paused : Nat, phase : 1..LastPhase,
   event : Records \cup {None}, history : Seq(Records), drawn : 0..(Draws - 1),
   last : Reading, pausedStarted : Reading]

\* A configuration and a seed of the session.
Setting == config \in GameConfigs /\ luck \in [0..(Draws - 1) -> BOOLEAN]

\* Every event is over when the next one starts; the current one is the last.
Owns(e) ==
  /\ \A i, j \in DOMAIN e.history :
       i < j => Deadline(e.history[i]) <= e.history[j].start
  /\ \A i \in DOMAIN e.history : e.history[i].start <= e.active
  /\ e.event = None =>
       \A i \in DOMAIN e.history : Deadline(e.history[i]) <= e.active
  /\ e.event # None =>
       /\ e.history # <<>> /\ e.event = e.history[Len(e.history)]
       /\ e.active < Deadline(e.event)

\* The events of one name keep to what the configuration says of it.
LimitsOf(e, name) ==
  LET def == config.events[name]
      occ == Occurrences(e, name)
  IN  /\ Cardinality(occ) <= def.maximum
      /\ \A i \in occ : def.allowed = {} \/ PhaseAt(e.history[i].start) \in def.allowed
      /\ \A i, j \in occ :
           /\ i < j
           /\ Cardinality({k \in occ : k < j}) >= def.minimum
           => e.history[j].start - e.history[i].start >= def.cooldown

\* The part of the invariant that is about phases and events.
GameInv(e) ==
  /\ e \in Engines
  /\ e.phase = PhaseAt(e.active)
  /\ Owns(e)
  /\ \A name \in DOMAIN config.events : LimitsOf(e, name)

\* What only the commands change.
Same(e, x) ==
  /\ x.status = e.status /\ x.paused = e.paused
  /\ x.last = e.last /\ x.pausedStarted = e.pausedStarted

-----------------------------------------------------------------------------
(* Numbers.                                                                *)

LEMMA NatSetInduction ==
  ASSUME NEW S, 0 \in S, \A n \in Nat : n \in S => n + 1 \in S
  PROVE  Nat \subseteq S
<1> DEFINE R == OpToRel(<, Nat)
<1> DEFINE T == {n \in Nat : n \notin S}
<1>1. IsWellFoundedOn(R, Nat)  BY NatLessThanWellFounded
<1>2. \A x, y \in Nat : x < y => <<x, y>> \in R  BY DEF OpToRel
<1>3. SUFFICES ASSUME T # {} PROVE FALSE  OBVIOUS
<1> HIDE DEF R
<1>4. PICK x \in T : \A y \in T : <<y, x>> \notin R
  <2> HIDE DEF T
  <2>1. T \subseteq Nat  BY DEF T
  <2> QED  BY <1>1, <1>3, <2>1, WFMin
<1>5. x # 0 /\ x - 1 \in Nat /\ x - 1 < x /\ x = (x - 1) + 1  BY <1>4
<1>6. x - 1 \in S  BY <1>2, <1>4, <1>5
<1> QED  BY <1>4, <1>5, <1>6

LEMMA MinOfSome ==
  ASSUME NEW s \in SUBSET Nat, s # {}
  PROVE  Min(s) \in s /\ \A y \in s : Min(s) <= y
<1> DEFINE R == OpToRel(<, Nat)
<1>1. IsWellFoundedOn(R, Nat)  BY NatLessThanWellFounded
<1>2. \A x, y \in Nat : x < y => <<x, y>> \in R  BY DEF OpToRel
<1> HIDE DEF R
<1>3. PICK x \in s : \A y \in s : <<y, x>> \notin R  BY <1>1, WFMin
<1>4. \A y \in s : x <= y
  <2>1. \A y \in s : ~(y < x)  BY <1>2, <1>3
  <2>. QED  BY <2>1
<1>5. \E z \in s : \A y \in s : z <= y  BY <1>4
<1>. QED  BY <1>5 DEF Min

\* The greatest of some of the first n numbers.
LEMMA MaxOfSome ==
  ASSUME NEW n \in Nat, NEW s \in SUBSET (1..n), s # {}
  PROVE  Max(s) \in s /\ \A y \in s : y <= Max(s)
<1> DEFINE S == {k \in Nat : \A t \in SUBSET (1..k) :
                   t # {} => \E x \in t : \A y \in t : y <= x}
<1>1. 0 \in S
  <2>1. 1..0 = {}  OBVIOUS
  <2>. QED  BY <2>1
<1>2. ASSUME NEW k \in Nat, k \in S PROVE k + 1 \in S
  <2>1. ASSUME NEW t \in SUBSET (1..(k + 1)), t # {}
        PROVE  \E x \in t : \A y \in t : y <= x
    <3>1. CASE k + 1 \in t  BY <2>1, <3>1
    <3>2. CASE k + 1 \notin t
      <4>1. t \in SUBSET (1..k)  BY <2>1, <3>2
      <4>. QED  BY <1>2, <2>1, <4>1
    <3>. QED  BY <3>1, <3>2
  <2>. QED  BY <2>1
<1>3. n \in S
  <2> HIDE DEF S
  <2>. QED  BY <1>1, <1>2, NatSetInduction
<1>4. \E x \in s : \A y \in s : y <= x  BY <1>3
<1>5. \E x \in s : \A y \in s : x >= y  BY <1>4
<1>. QED  BY <1>5 DEF Max

LEMMA MaxOfFirst ==
  ASSUME NEW n \in Nat, n # 0
  PROVE  Max(1..n) = n /\ (1..n) \ {n} = 1..(n - 1)
<1>1. 1..n # {} /\ n \in 1..n  OBVIOUS
<1>2. Max(1..n) \in 1..n /\ n <= Max(1..n)  BY <1>1, MaxOfSome
<1>. QED  BY <1>2

-----------------------------------------------------------------------------
(* Phases.                                                                 *)

LEMMA SettingIsValid ==
  ASSUME Setting
  PROVE  /\ Valid(config) /\ LastPhase \in Nat /\ LastPhase >= 1
         /\ DOMAIN config.phases = 1..LastPhase
         /\ \A i \in 1..LastPhase :
              /\ config.phases[i].duration \in Nat \ {0}
              /\ config.phases[i].events \in Seq(DOMAIN config.events)
         /\ config.duration \in Nat \ {0}
         /\ Draws \in Nat \ {0}
<1>1. Valid(config)  BY ConfigsAssumption DEF Setting
<1> DEFINE s == config.phases
<1> DEFINE P == [duration : Nat \ {0}, events : Seq(DOMAIN config.events)]
<1>2. s # <<>> /\ s \in Seq(P) /\ config.duration \in Nat \ {0}  BY <1>1 DEF Valid
<1>3. \A p \in P : p.duration \in Nat \ {0} /\ p.events \in Seq(DOMAIN config.events)
  OBVIOUS
<1> HIDE DEF s, P
<1>4. /\ Len(s) \in Nat /\ DOMAIN s = 1..Len(s) /\ Len(s) >= 1
      /\ \A i \in 1..Len(s) : s[i] \in P
  BY <1>2
<1>. QED  BY <1>1, <1>2, <1>3, <1>4, BoundsAssumption DEF s, LastPhase

\* The first k phases.
Ends(k, g) ==
  g = [i \in 0..k |-> IF i = 0 THEN 0 ELSE g[i - 1] + config.phases[i].duration]

LEMMA EndsExist == \A k \in Nat : \E g : Ends(k, g)
<1> DEFINE S == {k \in Nat : \E g : Ends(k, g)}
<1>1. 0 \in S
  <2> DEFINE g0 == [i \in 0..0 |-> 0]
  <2>1. Ends(0, g0)  BY DEF Ends
  <2>. QED  BY <2>1
<1>2. ASSUME NEW k \in Nat, k \in S PROVE k + 1 \in S
  <2>1. PICK g : Ends(k, g)  BY <1>2
  <2> DEFINE h == [i \in 0..(k + 1) |->
                    IF i <= k THEN g[i] ELSE g[i - 1] + config.phases[i].duration]
  <2>2. ASSUME NEW i \in 0..(k + 1)
        PROVE  h[i] = IF i = 0 THEN 0 ELSE h[i - 1] + config.phases[i].duration
    <3>1. i # 0 => i - 1 \in 0..(k + 1) /\ i - 1 <= k  OBVIOUS
    <3>2. i # 0 => h[i - 1] = g[i - 1]  BY <3>1
    <3>3. CASE i <= k
      <4>1. i \in 0..k /\ h[i] = g[i]  BY <3>3
      <4>2. g[i] = IF i = 0 THEN 0 ELSE g[i - 1] + config.phases[i].duration
        BY <2>1, <4>1 DEF Ends
      <4>. QED  BY <3>2, <4>1, <4>2
    <3>4. CASE ~(i <= k)  BY <3>2, <3>4
    <3>. QED  BY <3>3, <3>4
  <2>3. Ends(k + 1, h)
    <3> HIDE DEF h
    <3>1. h = [i \in 0..(k + 1) |-> h[i]]  BY DEF h
    <3>. QED  BY <2>2, <3>1 DEF Ends
  <2>. QED  BY <2>3
<1> HIDE DEF S
<1>3. Nat \subseteq S  BY <1>1, <1>2, NatSetInduction
<1>. QED  BY <1>3 DEF S

LEMMA PhaseEnds ==
  ASSUME Setting
  PROVE  /\ \A i \in 0..LastPhase : PhaseEnd[i] \in Nat
         /\ PhaseEnd[1] > 0
<1>1. LastPhase \in Nat /\ LastPhase >= 1
      /\ \A i \in 1..LastPhase : config.phases[i].duration \in Nat \ {0}
  BY SettingIsValid
<1>2. \E g : Ends(LastPhase, g)  BY <1>1, EndsExist
<1>3. Ends(LastPhase, PhaseEnd)  BY <1>2 DEF PhaseEnd, Ends
<1> DEFINE f == PhaseEnd
<1> HIDE DEF f
<1>4. \A i \in 0..LastPhase :
        f[i] = IF i = 0 THEN 0 ELSE f[i - 1] + config.phases[i].duration
  BY <1>3 DEF Ends, f
<1> DEFINE S == {k \in Nat : k <= LastPhase => f[k] \in Nat}
<1>5. 0 \in S  BY <1>1, <1>4
<1>6. ASSUME NEW k \in Nat, k \in S PROVE k + 1 \in S
  <2>1. ASSUME k + 1 <= LastPhase PROVE f[k + 1] \in Nat
    <3>1. k + 1 \in 0..LastPhase /\ k + 1 \in 1..LastPhase /\ k <= LastPhase
          /\ (k + 1) - 1 = k /\ k + 1 # 0
      BY <1>1, <2>1
    <3>2. f[k + 1] = f[k] + config.phases[k + 1].duration  BY <1>4, <3>1
    <3>3. f[k] \in Nat  BY <1>6, <3>1
    <3>. QED  BY <1>1, <3>1, <3>2, <3>3
  <2>. QED  BY <2>1
<1>7. Nat \subseteq S
  <2> HIDE DEF S
  <2>. QED  BY <1>5, <1>6, NatSetInduction
<1>8. \A i \in 0..LastPhase : f[i] \in Nat  BY <1>1, <1>7
<1>9. f[1] = f[0] + config.phases[1].duration /\ f[0] = 0
  <2>1. 1 \in 0..LastPhase /\ 0 \in 0..LastPhase /\ 1 - 1 = 0  BY <1>1
  <2>. QED  BY <1>4, <2>1
<1>10. f[1] > 0
  <2>1. config.phases[1].duration \in Nat \ {0}  BY <1>1
  <2>. QED  BY <1>9, <2>1
<1>. QED  BY <1>8, <1>10 DEF f

LEMMA PhaseAtIsPhase ==
  ASSUME Setting, NEW a \in Nat
  PROVE  PhaseAt(a) \in 1..LastPhase
<1> DEFINE s == {i \in 1..LastPhase : a < PhaseEnd[i] \/ i = LastPhase}
<1>1. s \in SUBSET Nat /\ LastPhase \in s /\ s \subseteq 1..LastPhase  BY SettingIsValid
<1> HIDE DEF s
<1>2. Min(s) \in s  BY <1>1, MinOfSome
<1>. QED  BY <1>1, <1>2 DEF PhaseAt, s

LEMMA PhaseAtStart ==
  ASSUME Setting
  PROVE  PhaseAt(0) = 1
<1> DEFINE s == {i \in 1..LastPhase : 0 < PhaseEnd[i] \/ i = LastPhase}
<1>1. s \in SUBSET Nat /\ 1 \in s /\ \A i \in s : i >= 1
  BY SettingIsValid, PhaseEnds
<1> HIDE DEF s
<1>2. Min(s) \in s /\ Min(s) <= 1  BY <1>1, MinOfSome
<1> DEFINE m == Min(s)
<1>3. m \in Nat /\ m >= 1 /\ m <= 1  BY <1>1, <1>2
<1> HIDE DEF m
<1>4. m = 1  BY <1>3
<1>. QED  BY <1>4 DEF PhaseAt, s, m

\* Between two deadlines the phase does not change.
LEMMA PhaseAtSame ==
  ASSUME Setting, NEW a \in Nat, NEW b \in Nat, a <= b, NEW e,
         \A m \in PhaseDeadlines(e) : ~(a < m /\ m <= b)
  PROVE  PhaseAt(a) = PhaseAt(b)
<1>1. ASSUME NEW i \in 1..LastPhase, i # LastPhase
      PROVE  a < PhaseEnd[i] <=> b < PhaseEnd[i]
  <2>1. LastPhase \in Nat /\ i \in 1..(LastPhase - 1) /\ i \in 0..LastPhase
    BY <1>1, SettingIsValid
  <2>2. PhaseEnd[i] \in PhaseDeadlines(e)  BY <2>1 DEF PhaseDeadlines
  <2>3. PhaseEnd[i] \in Nat  BY <2>1, PhaseEnds
  <2>. QED  BY <2>2, <2>3
<1>2. {i \in 1..LastPhase : a < PhaseEnd[i] \/ i = LastPhase} =
      {i \in 1..LastPhase : b < PhaseEnd[i] \/ i = LastPhase}
  BY <1>1
<1>. QED  BY <1>2, Zenon DEF PhaseAt

-----------------------------------------------------------------------------
(* Events.                                                                 *)

LEMMA EventTypes ==
  ASSUME Setting
  PROVE  /\ None \notin Records
         /\ \A name \in DOMAIN config.events :
              LET def == config.events[name]
              IN  /\ def.minimum \in Nat /\ def.maximum \in Nat /\ def.cooldown \in Nat
                  /\ def.duration \in Nat \ {0} /\ def.minimum <= def.maximum
         /\ \A r \in Records : /\ Deadline(r) \in Nat /\ r.start < Deadline(r)
                               /\ r.start \in Nat /\ r.name \in DOMAIN config.events
<1>1. Valid(config) /\ config \in GameConfigs  BY SettingIsValid DEF Setting
<1>2. None \notin Records
  <2>1. Records \subseteq
          [name : UNION {DOMAIN c.events : c \in GameConfigs}, start : Nat]
    BY <1>1 DEF Records
  <2>. QED  BY <2>1, NoneAssumption
<1>3. ASSUME NEW name \in DOMAIN config.events
      PROVE  /\ config.events[name].minimum \in Nat /\ config.events[name].maximum \in Nat
             /\ config.events[name].cooldown \in Nat
             /\ config.events[name].duration \in Nat \ {0}
             /\ config.events[name].minimum <= config.events[name].maximum
  BY <1>1, <1>3 DEF Valid
<1>4. ASSUME NEW r \in Records
      PROVE  /\ Deadline(r) \in Nat /\ r.start < Deadline(r)
             /\ r.start \in Nat /\ r.name \in DOMAIN config.events
  <2>1. r.start \in Nat /\ r.name \in DOMAIN config.events  BY <1>4 DEF Records
  <2>2. config.events[r.name].duration \in Nat \ {0}  BY <1>3, <2>1
  <2>. QED  BY <2>1, <2>2 DEF Deadline, Definition
<1>. QED  BY <1>2, <1>3, <1>4

LEMMA HistoryTypes ==
  ASSUME Setting, NEW e \in Engines
  PROVE  /\ e.history \in Seq(Records) /\ Len(e.history) \in Nat
         /\ DOMAIN e.history = 1..Len(e.history)
         /\ \A i \in 1..Len(e.history) :
              /\ e.history[i] \in Records /\ e.history[i].start \in Nat
              /\ Deadline(e.history[i]) \in Nat
              /\ e.history[i].start < Deadline(e.history[i])
         /\ e.active \in 0..config.duration /\ e.active \in Nat
         /\ e.phase \in 1..LastPhase
<1> DEFINE S == Records
<1> DEFINE h == e.history
<1>1. h \in Seq(S) /\ e.active \in 0..config.duration /\ e.phase \in 1..LastPhase
  BY DEF Engines
<1>2. \A r \in S : Deadline(r) \in Nat /\ r.start < Deadline(r) /\ r.start \in Nat
  BY EventTypes
<1> HIDE DEF S, h
<1>3. Len(h) \in Nat /\ DOMAIN h = 1..Len(h) /\ \A i \in 1..Len(h) : h[i] \in S
  BY <1>1
<1>4. e.active \in Nat  BY <1>1, SettingIsValid
<1>. QED  BY <1>1, <1>2, <1>3, <1>4 DEF S, h

LEMMA OccurrencesFinite ==
  ASSUME Setting, NEW e \in Engines, NEW name
  PROVE  /\ Occurrences(e, name) \in SUBSET (1..Len(e.history))
         /\ IsFiniteSet(Occurrences(e, name)) /\ Count(e, name) \in Nat
<1>1. Occurrences(e, name) \in SUBSET (1..Len(e.history))
  BY HistoryTypes DEF Occurrences
<1>2. IsFiniteSet(1..Len(e.history))  BY HistoryTypes, FS_Interval
<1>3. IsFiniteSet(Occurrences(e, name))  BY <1>1, <1>2, FS_Subset
<1>. QED  BY <1>1, <1>3, FS_CardinalityType DEF Count

\* One more event.
LEMMA StartedHistory ==
  ASSUME Setting, NEW e \in Engines, NEW name \in DOMAIN config.events
  PROVE  LET z == StartEvent(e, name)
             n == Len(e.history)
             r == [name |-> name, start |-> e.active]
         IN  /\ r \in Records /\ z.event = r
             /\ z \in Engines /\ z.active = e.active /\ z.phase = e.phase /\ Same(e, z)
             /\ z.history \in Seq(Records) /\ Len(z.history) = n + 1
             /\ DOMAIN z.history = 1..(n + 1)
             /\ z.history[n + 1] = r
             /\ \A i \in 1..n : z.history[i] = e.history[i]
             /\ z.history # e.history
             /\ \A m : Occurrences(z, m) = IF m = name THEN Occurrences(e, m) \cup {n + 1}
                                           ELSE Occurrences(e, m)
<1> DEFINE z == StartEvent(e, name)
<1> DEFINE n == Len(e.history)
<1> DEFINE r == [name |-> name, start |-> e.active]
<1>1. /\ e.history \in Seq(Records) /\ n \in Nat /\ DOMAIN e.history = 1..n
      /\ e.active \in Nat
  BY HistoryTypes
<1>2. r \in Records /\ r.name = name  BY <1>1 DEF Records
<1>3. z = [e EXCEPT !.event = r, !.history = Append(@, r)]  BY DEF StartEvent
<1>4. /\ z.history = Append(e.history, r) /\ z.event = r
      /\ z.active = e.active /\ z.phase = e.phase /\ Same(e, z)
  BY <1>3 DEF Engines, Same
<1> DEFINE h == e.history
<1> DEFINE g == z.history
<1> DEFINE S == Records
<1>5. h \in Seq(S) /\ r \in S /\ g = Append(h, r)  BY <1>1, <1>2, <1>4
<1> HIDE DEF S, h, g, r
<1>6. /\ g \in Seq(S) /\ Len(g) = Len(h) + 1 /\ DOMAIN g = 1..(Len(h) + 1)
      /\ g[Len(h) + 1] = r /\ \A i \in 1..Len(h) : g[i] = h[i]
  BY <1>5
<1>7. g # h
  <2>1. Len(h) \in Nat  BY <1>1 DEF h
  <2>. QED  BY <1>6, <2>1
<1>8. z \in Engines
  <2>1. z = [e EXCEPT !.event = r, !.history = g]  BY <1>3, <1>5 DEF h, g
  <2>2. g \in Seq(Records) /\ r \in Records  BY <1>5, <1>6 DEF S
  <2> HIDE DEF z
  <2>. QED  BY <2>1, <2>2 DEF Engines
<1>9. ASSUME NEW m
      PROVE  Occurrences(z, m) = IF m = name THEN Occurrences(e, m) \cup {n + 1}
                                 ELSE Occurrences(e, m)
  <2>1. Occurrences(z, m) = {i \in 1..(n + 1) : g[i].name = m}
    BY <1>6 DEF Occurrences, g, h
  <2>2. Occurrences(e, m) = {i \in 1..n : h[i].name = m}
    BY <1>1 DEF Occurrences, h
  <2>3. 1..(n + 1) = (1..n) \cup {n + 1} /\ n + 1 \notin 1..n  BY <1>1
  <2>4. g[n + 1].name = name /\ \A i \in 1..n : g[i] = h[i]
    BY <1>2, <1>6 DEF h
  <2> HIDE DEF n, z
  <2>. QED  BY <2>1, <2>2, <2>3, <2>4
<1>. QED  BY <1>2, <1>4, <1>5, <1>6, <1>7, <1>8, <1>9 DEF g, h, r, S

\* What is said of the events of a name does not depend on anything else.
LEMMA LimitsSame ==
  ASSUME NEW e, NEW x, x.history = e.history, NEW name
  PROVE  /\ Occurrences(x, name) = Occurrences(e, name) /\ Count(x, name) = Count(e, name)
         /\ LimitsOf(e, name) => LimitsOf(x, name)
<1>1. Occurrences(x, name) = Occurrences(e, name)  BY DEF Occurrences
<1>. QED  BY <1>1 DEF Count, LimitsOf

LEMMA StartedOwns ==
  ASSUME Setting, NEW e \in Engines, Owns(e), e.event = None,
         NEW name \in DOMAIN config.events
  PROVE  Owns(StartEvent(e, name))
<1> DEFINE z == StartEvent(e, name)
<1> DEFINE n == Len(e.history)
<1> DEFINE r == [name |-> name, start |-> e.active]
<1>1. /\ r \in Records /\ z.event = r /\ z.active = e.active
      /\ DOMAIN z.history = 1..(n + 1) /\ Len(z.history) = n + 1
      /\ z.history[n + 1] = r /\ \A i \in 1..n : z.history[i] = e.history[i]
  BY StartedHistory
<1>2. /\ n \in Nat /\ DOMAIN e.history = 1..n /\ e.active \in Nat
      /\ \A i \in 1..n : /\ e.history[i].start \in Nat /\ Deadline(e.history[i]) \in Nat
  BY HistoryTypes
<1>3. r.start = e.active /\ e.active < Deadline(r) /\ Deadline(r) \in Nat /\ r # None
  BY <1>1, EventTypes
<1> HIDE DEF r, z, n
<1>4. /\ \A i, j \in 1..n : i < j => Deadline(e.history[i]) <= e.history[j].start
      /\ \A i \in 1..n : /\ e.history[i].start <= e.active
                         /\ Deadline(e.history[i]) <= e.active
  BY <1>2 DEF Owns
<1>5. ASSUME NEW i \in 1..(n + 1), NEW j \in 1..(n + 1), i < j
      PROVE  Deadline(z.history[i]) <= z.history[j].start
  <2>1. i \in 1..n /\ z.history[i] = e.history[i]  BY <1>1, <1>2, <1>5
  <2>2. CASE j \in 1..n  BY <1>1, <1>4, <1>5, <2>1, <2>2
  <2>3. CASE j = n + 1  BY <1>1, <1>3, <1>4, <2>1, <2>3
  <2>. QED  BY <1>2, <2>2, <2>3
<1>6. ASSUME NEW i \in 1..(n + 1) PROVE z.history[i].start <= z.active
  <2>1. CASE i \in 1..n  BY <1>1, <1>4, <2>1
  <2>2. CASE i = n + 1  BY <1>1, <1>2, <1>3, <2>2
  <2>. QED  BY <1>2, <2>1, <2>2
<1>7. /\ z.history # <<>> /\ z.event = z.history[Len(z.history)] /\ z.event # None
      /\ z.active < Deadline(z.event)
  BY <1>1, <1>2, <1>3
<1>. QED  BY <1>1, <1>5, <1>6, <1>7 DEF Owns, z

LEMMA StartedLimits ==
  ASSUME Setting, NEW e \in Engines, GameInv(e), e.event = None,
         NEW name \in DOMAIN config.events,
         Count(e, name) < config.events[name].maximum, Allowed(e, name),
         Count(e, name) >= config.events[name].minimum => CooldownMet(e, name)
  PROVE  LimitsOf(StartEvent(e, name), name)
<1> DEFINE z == StartEvent(e, name)
<1> DEFINE n == Len(e.history)
<1> DEFINE def == config.events[name]
<1> DEFINE occ == Occurrences(e, name)
<1>1. /\ Owns(e) /\ LimitsOf(e, name) /\ e.phase = PhaseAt(e.active)  BY DEF GameInv
<1>2. /\ z.history[n + 1].start = e.active /\ \A i \in 1..n : z.history[i] = e.history[i]
      /\ Occurrences(z, name) = occ \cup {n + 1}
  <2>1. \A m : Occurrences(z, m) = IF m = name THEN Occurrences(e, m) \cup {n + 1}
                                   ELSE Occurrences(e, m)
    BY StartedHistory
  <2>2. z.history[n + 1] = [name |-> name, start |-> e.active]
        /\ \A i \in 1..n : z.history[i] = e.history[i]
    BY StartedHistory
  <2> HIDE DEF z, n
  <2>. QED  BY <2>1, <2>2
<1>3. /\ n \in Nat /\ DOMAIN e.history = 1..n /\ e.active \in Nat
      /\ \A i \in 1..n : /\ e.history[i].start \in Nat /\ Deadline(e.history[i]) \in Nat
                         /\ e.history[i].start < Deadline(e.history[i])
  BY HistoryTypes
<1>4. occ \in SUBSET (1..n) /\ IsFiniteSet(occ) /\ Count(e, name) \in Nat
      /\ Cardinality(occ) = Count(e, name)
  BY OccurrencesFinite DEF Count
<1>5. def.minimum \in Nat /\ def.maximum \in Nat /\ def.cooldown \in Nat  BY EventTypes
<1>6. /\ Cardinality(occ) <= def.maximum
      /\ \A i \in occ : def.allowed = {} \/ PhaseAt(e.history[i].start) \in def.allowed
      /\ \A i, j \in occ :
           /\ i < j
           /\ Cardinality({k \in occ : k < j}) >= def.minimum
           => e.history[j].start - e.history[i].start >= def.cooldown
  BY <1>1 DEF LimitsOf
<1> HIDE DEF z, occ, def, n
<1>7. n + 1 \notin occ  BY <1>3, <1>4
<1>8. Cardinality(occ \cup {n + 1}) <= def.maximum
  <2>1. Cardinality(occ \cup {n + 1}) = Cardinality(occ) + 1  BY <1>4, <1>7, FS_AddElement
  <2>. QED  BY <1>4, <1>5, <2>1 DEF def
<1>9. ASSUME NEW i \in occ \cup {n + 1}
      PROVE  def.allowed = {} \/ PhaseAt(z.history[i].start) \in def.allowed
  <2>1. CASE i \in occ  BY <1>2, <1>4, <1>6, <2>1
  <2>2. CASE i = n + 1  BY <1>1, <1>2, <2>2 DEF Allowed, def
  <2>. QED  BY <2>1, <2>2
<1>10. ASSUME NEW i \in occ \cup {n + 1}, NEW j \in occ \cup {n + 1}, i < j,
              Cardinality({k \in occ \cup {n + 1} : k < j}) >= def.minimum
       PROVE  z.history[j].start - z.history[i].start >= def.cooldown
  <2>0. i \in occ /\ i \in 1..n /\ z.history[i] = e.history[i]  BY <1>2, <1>3, <1>4, <1>10
  <2>1. CASE j \in occ
    <3>1. {k \in occ \cup {n + 1} : k < j} = {k \in occ : k < j}
      <4>1. ~(n + 1 < j)  BY <1>3, <1>4, <2>1
      <4>. QED  BY <4>1
    <3>2. z.history[j] = e.history[j]  BY <1>2, <1>4, <2>1
    <3>. QED  BY <1>6, <1>10, <2>0, <2>1, <3>1, <3>2
  <2>2. CASE j = n + 1
    <3>1. {k \in occ \cup {n + 1} : k < j} = occ
      <4>1. ASSUME NEW k \in occ PROVE k < n + 1  BY <1>3, <1>4
      <4>2. ~(n + 1 < n + 1)  BY <1>3
      <4>. QED  BY <2>2, <4>1, <4>2
    <3>2. CooldownMet(e, name)  BY <1>4, <1>10, <3>1 DEF def
    <3>3. Count(e, name) # 0
      <4>1. occ # {}  BY <2>0
      <4>. QED  BY <1>4, <4>1, FS_EmptySet
    <3> DEFINE m == Max(occ)
    <3>4. e.active - e.history[m].start >= def.cooldown
      BY <3>2, <3>3 DEF CooldownMet, occ, def
    <3>5. m \in occ /\ i <= m  BY <1>3, <1>4, <2>0, MaxOfSome
    <3> HIDE DEF m
    <3>6. e.history[i].start <= e.history[m].start
      <4>1. CASE i = m  BY <1>3, <2>0, <4>1
      <4>2. CASE i < m
        <5>1. Deadline(e.history[i]) <= e.history[m].start
          BY <1>1, <1>3, <1>4, <2>0, <3>5, <4>2 DEF Owns
        <5>. QED  BY <1>3, <1>4, <2>0, <3>5, <5>1
      <4>3. i \in Nat /\ m \in Nat /\ i <= m  BY <1>3, <1>4, <2>0, <3>5
      <4>. QED  BY <4>1, <4>2, <4>3
    <3>7. /\ e.history[i].start \in Nat /\ e.history[m].start \in Nat
      BY <1>3, <1>4, <2>0, <3>5
    <3>8. z.history[j].start = e.active  BY <1>2, <2>2
    <3> DEFINE a == e.active
    <3> DEFINE s == e.history[i].start
    <3> DEFINE l == e.history[m].start
    <3> DEFINE c == def.cooldown
    <3>9. a \in Nat /\ s \in Nat /\ l \in Nat /\ c \in Nat /\ a - l >= c /\ s <= l
      BY <1>3, <1>5, <3>4, <3>6, <3>7 DEF def
    <3>10. z.history[j].start = a /\ z.history[i].start = s  BY <2>0, <3>8
    <3> HIDE DEF a, s, l, c
    <3>11. a - s >= c  BY <3>9
    <3>. QED  BY <3>10, <3>11 DEF c
  <2>. QED  BY <2>1, <2>2
<1>. QED  BY <1>2, <1>8, <1>9, <1>10 DEF LimitsOf, z, def

LEMMA OtherLimits ==
  ASSUME Setting, NEW e \in Engines, NEW name \in DOMAIN config.events,
         NEW other, other # name, LimitsOf(e, other)
  PROVE  LimitsOf(StartEvent(e, name), other)
<1> DEFINE z == StartEvent(e, name)
<1>1. Occurrences(z, other) = Occurrences(e, other)
  <2>1. \A m : Occurrences(z, m) = IF m = name
                                   THEN Occurrences(e, m) \cup {Len(e.history) + 1}
                                   ELSE Occurrences(e, m)
    BY StartedHistory
  <2> HIDE DEF z
  <2>. QED  BY <2>1
<1>2. \A i \in Occurrences(e, other) : z.history[i] = e.history[i]
  <2>1. \A i \in 1..Len(e.history) : z.history[i] = e.history[i]  BY StartedHistory
  <2>. QED  BY <2>1, OccurrencesFinite
<1> HIDE DEF z
<1>. QED  BY <1>1, <1>2 DEF LimitsOf, z

LEMMA StartedKeeps ==
  ASSUME Setting, NEW e \in Engines, GameInv(e), e.event = None,
         NEW name \in DOMAIN config.events,
         Count(e, name) < config.events[name].maximum, Allowed(e, name),
         Count(e, name) >= config.events[name].minimum => CooldownMet(e, name)
  PROVE  GameInv(StartEvent(e, name))
<1> DEFINE z == StartEvent(e, name)
<1>1. z \in Engines /\ z.active = e.active /\ z.phase = e.phase  BY StartedHistory
<1>2. Owns(z)  BY StartedOwns DEF GameInv
<1>3. \A other \in DOMAIN config.events : LimitsOf(z, other)
  <2>1. LimitsOf(z, name)  BY StartedLimits
  <2>2. \A other \in DOMAIN config.events : other # name => LimitsOf(z, other)
    BY OtherLimits DEF GameInv
  <2>. QED  BY <2>1, <2>2
<1> HIDE DEF z
<1>4. z.phase = PhaseAt(z.active)  BY <1>1 DEF GameInv
<1>. QED  BY <1>1, <1>2, <1>3, <1>4 DEF GameInv, z

-----------------------------------------------------------------------------
(* An event is chosen.                                                     *)

LEMMA DrawnKeeps ==
  ASSUME Setting, NEW x \in Engines, GameInv(x), NEW name
  PROVE  LET d == AfterDraw(x, name)
         IN  /\ GameInv(d) /\ d \in Engines /\ Same(x, d)
             /\ d.active = x.active /\ d.phase = x.phase
             /\ d.history = x.history /\ d.event = x.event
<1> DEFINE d == AfterDraw(x, name)
<1> DEFINE y == [x EXCEPT !.drawn = (x.drawn + 1) % Draws]
<1>1. d = y \/ d = x  BY DEF AfterDraw
<1>2. (x.drawn + 1) % Draws \in 0..(Draws - 1)
  <2>1. x.drawn \in Nat /\ Draws \in Nat \ {0}  BY SettingIsValid DEF Engines
  <2> DEFINE a == x.drawn + 1
  <2>2. a \in Nat  BY <2>1
  <2> HIDE DEF a
  <2>3. a % Draws \in 0..(Draws - 1)  BY <2>1, <2>2
  <2>. QED  BY <2>3 DEF a
<1>3. /\ y \in Engines /\ Same(x, y) /\ y.active = x.active /\ y.phase = x.phase
      /\ y.history = x.history /\ y.event = x.event
  <2> DEFINE w == (x.drawn + 1) % Draws
  <2> HIDE DEF w
  <2>1. w \in 0..(Draws - 1) /\ y = [x EXCEPT !.drawn = w]  BY <1>2 DEF w
  <2> HIDE DEF y
  <2>. QED  BY <2>1 DEF Engines, Same
<1> HIDE DEF y
<1>4. GameInv(y)
  <2>1. Owns(y)  BY <1>3 DEF Owns, GameInv
  <2>2. \A n \in DOMAIN config.events : LimitsOf(y, n)
    <3>1. y.history = x.history  BY <1>3
    <3>. QED  BY <3>1, LimitsSame DEF GameInv
  <2>. QED  BY <1>3, <2>1, <2>2 DEF GameInv
<1>. QED  BY <1>1, <1>3, <1>4 DEF Same

\* What the choice among the names makes of e, where no event is running.
Offered(e, x) ==
  /\ x \in Engines /\ GameInv(x) /\ Same(e, x)
  /\ x.active = e.active /\ x.phase = e.phase
  /\ x.history = e.history => x.event = None

LEMMA OfferKeeps ==
  ASSUME Setting, NEW e, NEW x, Offered(e, x), NEW name \in DOMAIN config.events
  PROVE  Offered(e, Offer(e, x, name))
<1> DEFINE d == AfterDraw(x, name)
<1> DEFINE z == StartEvent(d, name)
<1>1. x \in Engines /\ GameInv(x)  BY DEF Offered
<1>2. /\ GameInv(d) /\ d \in Engines /\ Same(x, d) /\ d.active = x.active
      /\ d.phase = x.phase /\ d.history = x.history /\ d.event = x.event
  BY <1>1, DrawnKeeps
<1>3. Offered(e, d)  BY <1>2 DEF Offered, Same
<1>4. ASSUME x.history = e.history, Allowed(x, name),
             Required(x, name) \/ IsDrawn(x, name)
      PROVE  Offered(e, z)
  <2>1. d.event = None  BY <1>2, <1>4 DEF Offered
  <2>2. Count(d, name) = Count(x, name) /\ Occurrences(d, name) = Occurrences(x, name)
    <3> HIDE DEF d
    <3>. QED  BY <1>2, LimitsSame
  <2>3. Allowed(d, name)  BY <1>2, <1>4 DEF Allowed
  <2>4. Count(x, name) \in Nat  BY <1>1, OccurrencesFinite
  <2>5. /\ config.events[name].minimum \in Nat /\ config.events[name].maximum \in Nat
        /\ config.events[name].minimum <= config.events[name].maximum
    BY EventTypes
  <2>6. Count(d, name) < config.events[name].maximum
    BY <1>4, <2>2, <2>4, <2>5 DEF Required, IsDrawn
  <2>7. Count(d, name) >= config.events[name].minimum => CooldownMet(d, name)
    <3>1. SUFFICES ASSUME Count(d, name) >= config.events[name].minimum
                   PROVE  CooldownMet(d, name)
      OBVIOUS
    <3>2. ~Required(x, name)  BY <2>2, <2>4, <2>5, <3>1 DEF Required
    <3>3. CooldownMet(x, name)  BY <1>4, <3>2 DEF IsDrawn
    <3> HIDE DEF d
    <3>. QED  BY <1>2, <2>2, <3>3 DEF CooldownMet
  <2> HIDE DEF d
  <2>8. GameInv(z)  BY <1>2, <2>1, <2>3, <2>6, <2>7, StartedKeeps
  <2>9. /\ z \in Engines /\ z.active = d.active /\ z.phase = d.phase /\ Same(d, z)
        /\ z.history # d.history
    BY <1>2, StartedHistory
  <2> HIDE DEF z
  <2>. QED  BY <1>2, <1>4, <2>8, <2>9 DEF Offered, Same
<1>5. Offer(e, x, name) \in {x, d, z}
      /\ (Offer(e, x, name) = z => \/ x.history = e.history /\ Allowed(x, name)
                                      /\ (Required(x, name) \/ IsDrawn(x, name))
                                   \/ Offer(e, x, name) \in {x, d})
  BY DEF Offer
<1> HIDE DEF z, d
<1>. QED  BY <1>3, <1>4, <1>5

\* What the fold has made of the names with the numbers s.
Chooses(e, names, n, g) ==
  g = [s \in SUBSET (1..n) |->
        IF s = {} THEN e ELSE Offer(e, g[s \ {Max(s)}], names[Max(s)])]

LEMMA ChoosesExist == \A e, names : \A n \in Nat : \E g : Chooses(e, names, n, g)
<1> SUFFICES ASSUME NEW e, NEW names PROVE \A n \in Nat : \E g : Chooses(e, names, n, g)
  OBVIOUS
<1> DEFINE S == {n \in Nat : \E g : Chooses(e, names, n, g)}
<1>1. 0 \in S
  <2> DEFINE g0 == [s \in SUBSET (1..0) |-> e]
  <2>1. Chooses(e, names, 0, g0)  BY DEF Chooses
  <2>. QED  BY <2>1
<1>2. ASSUME NEW n \in Nat, n \in S PROVE n + 1 \in S
  <2>1. PICK g : Chooses(e, names, n, g)  BY <1>2
  <2> DEFINE h == [s \in SUBSET (1..(n + 1)) |->
                    IF n + 1 \in s THEN Offer(e, g[s \ {n + 1}], names[n + 1])
                                   ELSE g[s]]
  <2>2. ASSUME NEW s \in SUBSET (1..(n + 1))
        PROVE  h[s] = IF s = {} THEN e ELSE Offer(e, h[s \ {Max(s)}], names[Max(s)])
    <3>1. CASE n + 1 \in s
      <4>0. n + 1 \in Nat /\ s # {}  BY <3>1
      <4>1. Max(s) \in s /\ n + 1 <= Max(s)  BY <3>1, <4>0, MaxOfSome
      <4>2. Max(s) = n + 1
        <5> DEFINE m == Max(s)
        <5>1. m \in 1..(n + 1) /\ n + 1 <= m  BY <4>1
        <5> HIDE DEF m
        <5>2. m = n + 1  BY <5>1
        <5>. QED  BY <5>2 DEF m
      <4>3. s \ {n + 1} \in SUBSET (1..(n + 1)) /\ n + 1 \notin s \ {n + 1}
        OBVIOUS
      <4>4. h[s \ {n + 1}] = g[s \ {n + 1}]  BY <4>3
      <4>5. h[s] = Offer(e, g[s \ {n + 1}], names[n + 1])  BY <3>1
      <4>. QED  BY <3>1, <4>2, <4>4, <4>5
    <3>2. CASE n + 1 \notin s
      <4>1. s \in SUBSET (1..n)  BY <3>2
      <4>2. h[s] = g[s]  BY <3>2
      <4>3. g[s] = IF s = {} THEN e ELSE Offer(e, g[s \ {Max(s)}], names[Max(s)])
        BY <2>1, <4>1 DEF Chooses
      <4>4. s # {} => h[s \ {Max(s)}] = g[s \ {Max(s)}]  BY <3>2
      <4>. QED  BY <4>2, <4>3, <4>4
    <3>. QED  BY <3>1, <3>2
  <2>3. Chooses(e, names, n + 1, h)
    <3> HIDE DEF h
    <3>1. h = [s \in SUBSET (1..(n + 1)) |-> h[s]]  BY DEF h
    <3>. QED  BY <2>2, <3>1 DEF Chooses
  <2>. QED  BY <2>3
<1> HIDE DEF S
<1>3. Nat \subseteq S  BY <1>1, <1>2, NatSetInduction
<1>. QED  BY <1>3 DEF S

\* schedule_phase_events, name by name.
\* p[k] is what the first k names have made of e.
ChosenAs(e, names, n, p) ==
  /\ p[0] = e /\ p[n] = SchedulePhaseEvents(e)
  /\ \A k \in 1..n : p[k] = Offer(e, p[k - 1], names[k])

LEMMA ChosenSteps ==
  ASSUME NEW e, NEW names, names = config.phases[e.phase].events,
         NEW n \in Nat, n = Len(names), DOMAIN names = 1..n
  PROVE  \E p : ChosenAs(e, names, n, p)
<1> DEFINE g == CHOOSE h : Chooses(e, names, n, h)
<1>1. Chooses(e, names, n, g)  BY ChoosesExist
<1>2. SchedulePhaseEvents(e) = g[1..n]
  BY DEF SchedulePhaseEvents, FoldLeft, MapThenFoldSet, Chooses
<1> HIDE DEF g
<1> DEFINE p == [k \in 0..n |-> g[1..k]]
<1>3. p[0] = e  BY <1>1 DEF Chooses
<1>4. ASSUME NEW k \in 1..n PROVE p[k] = Offer(e, p[k - 1], names[k])
  <2>0. n \in Nat /\ k \in Nat /\ k # 0 /\ k <= n  BY <1>4
  <2>1. 1..k \in SUBSET (1..n) /\ 1..k # {}
    <3>1. \A i \in 1..k : i \in 1..n  BY <2>0
    <3>2. k \in 1..k  BY <2>0
    <3>. QED  BY <3>1, <3>2
  <2>2. g[1..k] = Offer(e, g[(1..k) \ {Max(1..k)}], names[Max(1..k)])
    BY <1>1, <2>1 DEF Chooses
  <2>3. g[1..k] = Offer(e, g[1..(k - 1)], names[k])
    BY <2>0, <2>2, MaxOfFirst
  <2>4. k \in 0..n /\ k - 1 \in 0..n  BY <2>0
  <2>. QED  BY <2>3, <2>4
<1>5. n \in 0..n  OBVIOUS
<1>6. p[n] = g[1..n]  BY <1>5
<1> HIDE DEF p
<1>. QED  BY <1>2, <1>3, <1>4, <1>6 DEF ChosenAs

LEMMA ScheduleKeeps ==
  ASSUME Setting, NEW e \in Engines, GameInv(e), e.event = None
  PROVE  LET z == SchedulePhaseEvents(e)
         IN  /\ GameInv(z) /\ z \in Engines /\ Same(e, z)
             /\ z.active = e.active /\ z.phase = e.phase
<1> DEFINE names == config.phases[e.phase].events
<1> DEFINE n == Len(names)
<1>1. names \in Seq(DOMAIN config.events)
  BY SettingIsValid DEF Engines
<1>2. /\ n \in Nat /\ DOMAIN names = 1..n
      /\ \A k \in 1..n : names[k] \in DOMAIN config.events
  <2> DEFINE S == DOMAIN config.events
  <2>1. names \in Seq(S)  BY <1>1
  <2> HIDE DEF S, names
  <2>2. Len(names) \in Nat /\ DOMAIN names = 1..Len(names)
        /\ \A k \in 1..Len(names) : names[k] \in S
    BY <2>1
  <2>. QED  BY <2>2 DEF S
<1>3. PICK p : /\ p[0] = e /\ p[n] = SchedulePhaseEvents(e)
               /\ \A k \in 1..n : p[k] = Offer(e, p[k - 1], names[k])
  <2>1. names = config.phases[e.phase].events /\ n = Len(names)  OBVIOUS
  <2> HIDE DEF n, names
  <2>2. n \in Nat /\ DOMAIN names = 1..n  BY <1>2
  <2>3. \E p : ChosenAs(e, names, n, p)  BY <2>1, <2>2, ChosenSteps
  <2>. QED  BY <2>3 DEF ChosenAs
<1> HIDE DEF n, names
<1> DEFINE S == {k \in Nat : k <= n => Offered(e, p[k])}
<1>4. 0 \in S  BY <1>2, <1>3 DEF Offered, Same
<1>5. ASSUME NEW k \in Nat, k \in S PROVE k + 1 \in S
  <2>1. ASSUME k + 1 <= n PROVE Offered(e, p[k + 1])
    <3>1. k + 1 \in 1..n /\ (k + 1) - 1 = k /\ k <= n  BY <1>2, <2>1
    <3>2. Offered(e, p[k]) /\ names[k + 1] \in DOMAIN config.events
      BY <1>2, <1>5, <3>1
    <3>3. p[k + 1] = Offer(e, p[k], names[k + 1])  BY <1>3, <3>1
    <3>. QED  BY <3>2, <3>3, OfferKeeps
  <2>. QED  BY <2>1
<1>6. Nat \subseteq S
  <2> HIDE DEF S
  <2>. QED  BY <1>4, <1>5, NatSetInduction
<1>7. Offered(e, p[n])  BY <1>2, <1>6
<1>. QED  BY <1>3, <1>7 DEF Offered

-----------------------------------------------------------------------------
(* Active time passes.                                                     *)

LEMMA MovedKeeps ==
  ASSUME Setting, NEW e \in Engines, GameInv(e), NEW next \in 0..config.duration,
         e.active <= next, e.event # None => next < Deadline(e.event)
  PROVE  LET z == [e EXCEPT !.active = next, !.phase = PhaseAt(next)]
         IN  GameInv(z) /\ z \in Engines /\ Same(e, z)
             /\ z.active = next /\ z.event = e.event
<1> DEFINE p == PhaseAt(next)
<1> DEFINE z == [e EXCEPT !.active = next, !.phase = p]
<1>1. next \in Nat  BY SettingIsValid
<1>2. p \in 1..LastPhase  BY <1>1, PhaseAtIsPhase
<1> HIDE DEF p
<1>3. /\ z \in Engines /\ Same(e, z) /\ z.active = next /\ z.phase = p
      /\ z.event = e.event /\ z.history = e.history
  BY <1>2 DEF Engines, Same
<1> HIDE DEF z
<1>4. Owns(z)
  <2>1. /\ DOMAIN e.history = 1..Len(e.history) /\ e.active \in Nat
        /\ \A i \in 1..Len(e.history) : /\ e.history[i].start \in Nat
                                        /\ Deadline(e.history[i]) \in Nat
    BY HistoryTypes
  <2>2. Owns(e)  BY DEF GameInv
  <2>3. \A i \in DOMAIN e.history : e.history[i].start <= next
    BY <1>1, <2>1, <2>2 DEF Owns
  <2>4. e.event = None => \A i \in DOMAIN e.history : Deadline(e.history[i]) <= next
    BY <1>1, <2>1, <2>2 DEF Owns
  <2>. QED  BY <1>3, <2>2, <2>3, <2>4 DEF Owns
<1>5. \A n \in DOMAIN config.events : LimitsOf(z, n)
  BY <1>3, LimitsSame DEF GameInv
<1>. QED  BY <1>3, <1>4, <1>5 DEF GameInv, z, p

LEMMA OverKeeps ==
  ASSUME Setting, NEW e \in Engines, GameInv(e), NEW next \in 0..config.duration,
         e.event # None, next = Deadline(e.event)
  PROVE  LET z == [e EXCEPT !.active = next, !.phase = PhaseAt(next), !.event = None]
         IN  GameInv(z) /\ z \in Engines /\ Same(e, z)
             /\ z.active = next /\ z.event = None
<1> DEFINE p == PhaseAt(next)
<1> DEFINE z == [e EXCEPT !.active = next, !.phase = p, !.event = None]
<1>1. next \in Nat  BY SettingIsValid
<1>2. p \in 1..LastPhase  BY <1>1, PhaseAtIsPhase
<1> HIDE DEF p
<1>3. /\ z \in Engines /\ Same(e, z) /\ z.active = next /\ z.phase = p
      /\ z.event = None /\ z.history = e.history
  BY <1>2 DEF Engines, Same
<1> HIDE DEF z
<1>4. Owns(z)
  <2> DEFINE n == Len(e.history)
  <2>1. /\ DOMAIN e.history = 1..n /\ n \in Nat /\ e.active \in Nat
        /\ \A i \in 1..n : /\ e.history[i].start \in Nat
                           /\ Deadline(e.history[i]) \in Nat
                           /\ e.history[i].start < Deadline(e.history[i])
    BY HistoryTypes
  <2>2. Owns(e)  BY DEF GameInv
  <2>3. e.history # <<>> /\ e.event = e.history[n] /\ e.active < Deadline(e.event)
    BY <2>2 DEF Owns
  <2>4. n \in 1..n
    <3>1. n # 0
      <4>1. e.history \in Seq(Records)  BY HistoryTypes
      <4> DEFINE h == e.history
      <4> DEFINE S == Records
      <4>2. h \in Seq(S) /\ h # <<>>  BY <2>3, <4>1
      <4> HIDE DEF h, S
      <4>3. Len(h) # 0  BY <4>2
      <4>. QED  BY <4>3 DEF h
    <3>. QED  BY <2>1, <3>1
  <2> HIDE DEF n
  <2>5. ASSUME NEW i \in 1..n PROVE Deadline(e.history[i]) <= next
    <3>1. CASE i = n  BY <1>1, <2>3, <3>1
    <3>2. CASE i < n
      <4>1. Deadline(e.history[i]) <= e.history[n].start
        BY <2>1, <2>2, <2>4, <3>2 DEF Owns
      <4>. QED  BY <1>1, <2>1, <2>3, <2>4, <4>1
    <3>. QED  BY <2>1, <3>1, <3>2
  <2>6. ASSUME NEW i \in 1..n PROVE e.history[i].start <= next
    BY <1>1, <2>1, <2>5
  <2>. QED  BY <1>3, <2>1, <2>2, <2>5, <2>6 DEF Owns
<1>5. \A n \in DOMAIN config.events : LimitsOf(z, n)
  BY <1>3, LimitsSame DEF GameInv
<1>. QED  BY <1>3, <1>4, <1>5 DEF GameInv, z, p

\* update_phase without a new phase.
LEMMA UpdateIdle ==
  ASSUME NEW e \in Engines, e.phase = PhaseAt(e.active)
  PROVE  UpdatePhase(e) = e
<1>1. [e EXCEPT !.phase = PhaseAt(e.active)] = e
  <2> DEFINE p == PhaseAt(e.active)
  <2>1. e.phase = p  OBVIOUS
  <2> HIDE DEF p
  <2>2. [e EXCEPT !.phase = p] = e  BY <2>1 DEF Engines
  <2>. QED  BY <2>2 DEF p
<1>. QED  BY <1>1, Zenon DEF UpdatePhase

\* What is true after active time has passed from e to a.
Advanced(e, z, a) ==
  z \in Engines /\ GameInv(z) /\ Same(e, z) /\ z.active = a

LEMMA ScheduledAdvances ==
  ASSUME Setting, NEW e, NEW x, NEW a, Advanced(e, x, a), x.event = None
  PROVE  Advanced(e, SchedulePhaseEvents(x), a)
<1> DEFINE z == SchedulePhaseEvents(x)
<1>1. GameInv(z) /\ z \in Engines /\ Same(x, z) /\ z.active = x.active
  BY ScheduleKeeps DEF Advanced
<1> HIDE DEF z
<1>2. Advanced(e, z, a)  BY <1>1 DEF Advanced, Same
<1>. QED  BY <1>2 DEF z

\* One turn of the loop of advance_to_active.
LEMMA MilestoneKeeps ==
  ASSUME Setting, NEW e \in Engines, GameInv(e), NEW next \in 0..config.duration,
         e.active <= next, e.event # None => next <= Deadline(e.event)
  PROVE  Advanced(e, PassMilestone(e, next), next)
<1> DEFINE p == PhaseAt(next)
<1> DEFINE m == [e EXCEPT !.active = next]
<1> DEFINE y == [e EXCEPT !.active = next, !.phase = p]
<1>1. m.active = next /\ m.event = e.event /\ [m EXCEPT !.phase = p] = y
  <2> HIDE DEF p
  <2>. QED  BY DEF Engines
<1>2. /\ UpdatePhase(m) = y \/ UpdatePhase(m) = SchedulePhaseEvents(y)
      /\ e.event # None => UpdatePhase(m) = y
  <2> HIDE DEF m, y
  <2>. QED  BY <1>1, Zenon DEF UpdatePhase, p
<1>3. PassMilestone(e, next) = IF next \in EventDeadlines(e) THEN EndEvent(UpdatePhase(m))
                               ELSE UpdatePhase(m)
  BY DEF PassMilestone
<1>4. CASE e.event = None
  <2>1. EventDeadlines(e) = {}  BY <1>4 DEF EventDeadlines
  <2>2. GameInv(y) /\ y \in Engines /\ Same(e, y) /\ y.active = next /\ y.event = e.event
    BY <1>4, MovedKeeps
  <2> HIDE DEF m, y
  <2>3. Advanced(e, y, next) /\ y.event = None  BY <1>4, <2>2 DEF Advanced
  <2>. QED  BY <1>2, <1>3, <2>1, <2>3, ScheduledAdvances
<1>5. CASE e.event # None /\ next # Deadline(e.event)
  <2>1. next \notin EventDeadlines(e)  BY <1>5 DEF EventDeadlines
  <2>2. next < Deadline(e.event)
    <3>1. e.event \in Records  BY <1>5 DEF Engines
    <3>2. Deadline(e.event) \in Nat /\ next \in Nat  BY <3>1, EventTypes, SettingIsValid
    <3>. QED  BY <1>5, <3>2
  <2>3. GameInv(y) /\ y \in Engines /\ Same(e, y) /\ y.active = next
    BY <2>2, MovedKeeps
  <2> HIDE DEF m, y
  <2>. QED  BY <1>2, <1>3, <1>5, <2>1, <2>3 DEF Advanced
<1>6. CASE e.event # None /\ next = Deadline(e.event)
  <2> DEFINE o == [e EXCEPT !.active = next, !.phase = p, !.event = None]
  <2>1. next \in EventDeadlines(e)  BY <1>6 DEF EventDeadlines
  <2>2. GameInv(o) /\ o \in Engines /\ Same(e, o) /\ o.active = next /\ o.event = None
    BY <1>6, OverKeeps
  <2>3. [y EXCEPT !.event = None] = o
    <3> HIDE DEF p
    <3>. QED  BY DEF Engines
  <2> HIDE DEF m, y, o
  <2>4. EndEvent(y) = o \/ EndEvent(y) = SchedulePhaseEvents(o)
    BY <2>3, Zenon DEF EndEvent
  <2>5. Advanced(e, o, next)  BY <2>2 DEF Advanced
  <2>. QED  BY <1>2, <1>3, <1>6, <2>1, <2>2, <2>4, <2>5, ScheduledAdvances
<1>. QED  BY <1>4, <1>5, <1>6

\* The milestones between now and the target.
Ahead(e, target) ==
  {m \in {target} \cup EventDeadlines(e) \cup PhaseDeadlines(e) : m > e.active}

LEMMA AheadIsSome ==
  ASSUME Setting, NEW e \in Engines, GameInv(e), NEW target \in Nat, e.active < target
  PROVE  /\ Ahead(e, target) \in SUBSET Nat
         /\ EventDeadlines(e) \cup PhaseDeadlines(e) \in SUBSET Nat
         /\ NextMilestone(e, target) \in Ahead(e, target)
         /\ \A m \in Ahead(e, target) : NextMilestone(e, target) <= m
         /\ e.event # None => Deadline(e.event) \in Ahead(e, target)
<1>1. PhaseDeadlines(e) \in SUBSET Nat
  <2>1. LastPhase \in Nat /\ \A i \in 1..(LastPhase - 1) : i \in 0..LastPhase
    BY SettingIsValid
  <2>. QED  BY <2>1, PhaseEnds DEF PhaseDeadlines
<1>2. e.event # None => /\ Deadline(e.event) \in Nat /\ e.active < Deadline(e.event)
                        /\ EventDeadlines(e) = {Deadline(e.event)}
  BY EventTypes DEF Engines, GameInv, Owns, EventDeadlines
<1>3. EventDeadlines(e) \in SUBSET Nat  BY <1>2 DEF EventDeadlines
<1>4. e.active \in Nat  BY HistoryTypes
<1>5. Ahead(e, target) \in SUBSET Nat /\ target \in Ahead(e, target)
  BY <1>1, <1>3, <1>4 DEF Ahead
<1>6. NextMilestone(e, target) = Min(Ahead(e, target))  BY DEF NextMilestone, Ahead
<1>7. /\ NextMilestone(e, target) \in Ahead(e, target)
      /\ \A m \in Ahead(e, target) : NextMilestone(e, target) <= m
  BY <1>5, <1>6, MinOfSome
<1>8. e.event # None => Deadline(e.event) \in Ahead(e, target)
  BY <1>2, <1>4 DEF Ahead
<1>. QED  BY <1>1, <1>3, <1>5, <1>7, <1>8

LEMMA PassNextKeeps ==
  ASSUME Setting, NEW e \in Engines, GameInv(e), NEW target \in 0..config.duration,
         e.active < target
  PROVE  LET next == NextMilestone(e, target)
         IN  /\ next \in 0..config.duration /\ e.active < next /\ next <= target
             /\ PassNext(e, target) = PassMilestone(e, next)
             /\ Advanced(e, PassNext(e, target), next)
<1> DEFINE next == NextMilestone(e, target)
<1>1. /\ target \in Nat /\ e.active \in Nat /\ config.duration \in Nat
      /\ target <= config.duration
  BY SettingIsValid, HistoryTypes
<1>2. /\ Ahead(e, target) \in SUBSET Nat /\ next \in Ahead(e, target)
      /\ \A m \in Ahead(e, target) : next <= m
      /\ e.event # None => Deadline(e.event) \in Ahead(e, target)
  BY <1>1, AheadIsSome
<1>3. target \in Ahead(e, target)  BY <1>1 DEF Ahead
<1>4. next \in Nat /\ next > e.active /\ next <= target
  BY <1>2, <1>3 DEF Ahead
<1>5. next \in 0..config.duration /\ e.active <= next  BY <1>1, <1>4
<1>6. e.event # None => next <= Deadline(e.event)  BY <1>2
<1>7. PassNext(e, target) = PassMilestone(e, next)  BY DEF PassNext
<1> HIDE DEF next
<1>8. Advanced(e, PassMilestone(e, next), next)  BY <1>5, <1>6, MilestoneKeeps
<1>. QED  BY <1>1, <1>4, <1>5, <1>7, <1>8 DEF next

-----------------------------------------------------------------------------
(* advance_to_active, milestone by milestone.                              *)

\* The first k steps of the way from e to the target.
Passes(e, target, k, f) ==
  f = [n \in 0..k |-> IF n = 0 THEN e ELSE PassNext(f[n - 1], target)]

LEMMA PassesExist == \A e, target : \A k \in Nat : \E f : Passes(e, target, k, f)
<1> SUFFICES ASSUME NEW e, NEW target PROVE \A k \in Nat : \E f : Passes(e, target, k, f)
  OBVIOUS
<1> DEFINE S == {k \in Nat : \E f : Passes(e, target, k, f)}
<1>1. 0 \in S
  <2> DEFINE f0 == [n \in 0..0 |-> e]
  <2>1. Passes(e, target, 0, f0)  BY DEF Passes
  <2>. QED  BY <2>1
<1>2. ASSUME NEW k \in Nat, k \in S PROVE k + 1 \in S
  <2>1. PICK f : Passes(e, target, k, f)  BY <1>2
  <2> DEFINE h == [n \in 0..(k + 1) |->
                    IF n <= k THEN f[n] ELSE PassNext(f[n - 1], target)]
  <2>2. ASSUME NEW n \in 0..(k + 1)
        PROVE  h[n] = IF n = 0 THEN e ELSE PassNext(h[n - 1], target)
    <3>1. n # 0 => n - 1 \in 0..(k + 1) /\ n - 1 <= k  OBVIOUS
    <3>2. n # 0 => h[n - 1] = f[n - 1]  BY <3>1
    <3>3. CASE n <= k
      <4>1. n \in 0..k /\ h[n] = f[n]  BY <3>3
      <4>2. f[n] = IF n = 0 THEN e ELSE PassNext(f[n - 1], target)
        BY <2>1, <4>1 DEF Passes
      <4>. QED  BY <3>2, <4>1, <4>2
    <3>4. CASE ~(n <= k)  BY <3>2, <3>4
    <3>. QED  BY <3>3, <3>4
  <2>3. Passes(e, target, k + 1, h)
    <3> HIDE DEF h
    <3>1. h = [n \in 0..(k + 1) |-> h[n]]  BY DEF h
    <3>. QED  BY <2>2, <3>1 DEF Passes
  <2>. QED  BY <2>3
<1> HIDE DEF S
<1>3. Nat \subseteq S  BY <1>1, <1>2, NatSetInduction
<1>. QED  BY <1>3 DEF S

LEMMA AdvanceSteps ==
  ASSUME NEW e, NEW target, NEW k \in Nat, k = target - e.active
  PROVE  \E f : /\ f[0] = e /\ \A n \in 1..k : f[n] = PassNext(f[n - 1], target)
                /\ AdvanceToActive(e, target) = UpdatePhase(f[k])
<1> DEFINE f == CHOOSE g : Passes(e, target, k, g)
<1>1. Passes(e, target, k, f)  BY PassesExist
<1>2. AdvanceToActive(e, target) = UpdatePhase(f[k])
  BY DEF AdvanceToActive, Passes
<1> HIDE DEF f
<1>3. \A n \in 0..k : f[n] = IF n = 0 THEN e ELSE PassNext(f[n - 1], target)
  BY <1>1 DEF Passes
<1>4. f[0] = e /\ \A n \in 1..k : f[n] = PassNext(f[n - 1], target)  BY <1>3
<1>. QED  BY <1>2, <1>4

\* Every step takes a unit of time at least, until the target is reached.
Underway(e, x, n, target) ==
  /\ x \in Engines /\ GameInv(x) /\ Same(e, x)
  /\ x.active <= target
  /\ x.active >= e.active + n \/ x.active = target

LEMMA StepUnderway ==
  ASSUME Setting, NEW e, e.active \in Nat, NEW x, NEW n \in Nat,
         NEW target \in 0..config.duration, Underway(e, x, n, target)
  PROVE  Underway(e, PassNext(x, target), n + 1, target)
<1>1. target \in Nat /\ x.active \in Nat
  BY SettingIsValid, HistoryTypes DEF Underway
<1>2. CASE x.active < target
  <2> DEFINE next == NextMilestone(x, target)
  <2> DEFINE z == PassNext(x, target)
  <2>1. /\ next \in 0..config.duration /\ x.active < next /\ next <= target
        /\ Advanced(x, z, next)
    BY <1>2, PassNextKeeps DEF Underway
  <2> HIDE DEF next, z
  <2>2. next \in Nat  BY <2>1, SettingIsValid
  <2>3. next >= e.active + (n + 1)  BY <1>1, <1>2, <2>1, <2>2 DEF Underway
  <2>. QED  BY <2>1, <2>3 DEF Underway, Advanced, Same, z
<1>3. CASE ~(x.active < target)
  <2>1. PassNext(x, target) = x  BY <1>3 DEF PassNext
  <2>2. x.active = target  BY <1>1, <1>3 DEF Underway
  <2>. QED  BY <2>1, <2>2 DEF Underway
<1>. QED  BY <1>2, <1>3

LEMMA StepsUnderway ==
  ASSUME Setting, NEW e \in Engines, GameInv(e), NEW target \in 0..config.duration,
         e.active <= target, NEW k \in Nat, NEW f,
         f[0] = e, \A n \in 1..k : f[n] = PassNext(f[n - 1], target)
  PROVE  \A n \in 0..k : Underway(e, f[n], n, target)
<1> DEFINE S == {n \in Nat : n <= k => Underway(e, f[n], n, target)}
<1>0. e.active \in Nat  BY HistoryTypes
<1>1. 0 \in S  BY <1>0 DEF Underway, Same
<1>2. ASSUME NEW n \in Nat, n \in S PROVE n + 1 \in S
  <2>1. ASSUME n + 1 <= k PROVE Underway(e, f[n + 1], n + 1, target)
    <3>1. n + 1 \in 1..k /\ (n + 1) - 1 = n /\ n <= k  BY <2>1
    <3>2. f[n + 1] = PassNext(f[n], target) /\ Underway(e, f[n], n, target)
      BY <1>2, <3>1
    <3>3. Underway(e, PassNext(f[n], target), n + 1, target)
      BY <1>0, <3>2, StepUnderway
    <3>. QED  BY <3>2, <3>3
  <2>. QED  BY <2>1
<1>3. Nat \subseteq S
  <2> HIDE DEF S
  <2>. QED  BY <1>1, <1>2, NatSetInduction
<1>. QED  BY <1>3

\* The target is reached, and nothing more happens there.
LEMMA AdvanceArrives ==
  ASSUME Setting, NEW e \in Engines, GameInv(e), NEW target \in 0..config.duration,
         e.active <= target
  PROVE  \E f : /\ f[0] = e
                /\ \A n \in 1..(target - e.active) : f[n] = PassNext(f[n - 1], target)
                /\ AdvanceToActive(e, target) = f[target - e.active]
                /\ Advanced(e, f[target - e.active], target)
<1> DEFINE k == target - e.active
<1>1. target \in Nat /\ e.active \in Nat  BY SettingIsValid, HistoryTypes
<1>2. k \in Nat /\ k = target - e.active /\ k \in 0..k /\ e.active + k = target  BY <1>1
<1> HIDE DEF k
<1>3. PICK f : /\ f[0] = e /\ \A n \in 1..k : f[n] = PassNext(f[n - 1], target)
               /\ AdvanceToActive(e, target) = UpdatePhase(f[k])
  BY <1>2, AdvanceSteps
<1>4. Underway(e, f[k], k, target)  BY <1>2, <1>3, StepsUnderway
<1>5. f[k].active = target
  <2>1. f[k].active \in Nat  BY <1>4, HistoryTypes DEF Underway
  <2>. QED  BY <1>1, <1>2, <1>4, <2>1 DEF Underway
<1>6. UpdatePhase(f[k]) = f[k]  BY <1>4, UpdateIdle DEF Underway, GameInv
<1>7. Advanced(e, f[k], target)  BY <1>4, <1>5 DEF Underway, Advanced
<1>. QED  BY <1>3, <1>6, <1>7 DEF k

LEMMA AdvanceKeeps ==
  ASSUME Setting, NEW e \in Engines, GameInv(e), NEW target \in 0..config.duration,
         e.active <= target
  PROVE  Advanced(e, AdvanceToActive(e, target), target)
BY AdvanceArrives

LEMMA AdvanceNowhere ==
  ASSUME Setting, NEW e \in Engines, GameInv(e)
  PROVE  AdvanceToActive(e, e.active) = e
<1> DEFINE t == e.active
<1>1. t \in 0..config.duration /\ t \in Nat /\ e.active <= t /\ e.active = t
  BY HistoryTypes
<1> HIDE DEF t
<1>2. PICK f : f[0] = e /\ AdvanceToActive(e, t) = f[t - e.active]
  BY <1>1, AdvanceArrives
<1>3. t - e.active = 0  BY <1>1
<1>. QED  BY <1>2, <1>3 DEF t

\* The first milestone may be passed before the others.
LEMMA AdvanceFirst ==
  ASSUME Setting, NEW e \in Engines, GameInv(e), NEW target \in 0..config.duration,
         e.active < target
  PROVE  AdvanceToActive(e, target) = AdvanceToActive(PassNext(e, target), target)
<1> DEFINE z == PassNext(e, target)
<1> DEFINE next == NextMilestone(e, target)
<1>1. /\ next \in 0..config.duration /\ e.active < next /\ next <= target
      /\ Advanced(e, z, next)
  BY PassNextKeeps
<1>2. /\ target \in Nat /\ e.active \in Nat /\ next \in Nat
  BY <1>1, SettingIsValid, HistoryTypes
<1> HIDE DEF next
<1> DEFINE k == target - e.active
<1> DEFINE j == target - z.active
<1>3. k \in Nat /\ k = target - e.active /\ e.active <= target  BY <1>2
<1>4. j \in Nat /\ j = target - z.active /\ z.active <= target /\ j + 1 <= k
      /\ z \in Engines /\ GameInv(z)
  BY <1>1, <1>2 DEF Advanced
<1>5. PICK f : /\ f[0] = e
               /\ \A n \in 1..(target - e.active) : f[n] = PassNext(f[n - 1], target)
               /\ AdvanceToActive(e, target) = f[target - e.active]
  BY <1>3, AdvanceArrives
<1>6. /\ \A n \in 1..k : f[n] = PassNext(f[n - 1], target)
      /\ AdvanceToActive(e, target) = f[k]
  BY <1>5
<1> HIDE DEF z
<1>7. PICK g : /\ g[0] = z
               /\ \A n \in 1..(target - z.active) : g[n] = PassNext(g[n - 1], target)
               /\ AdvanceToActive(z, target) = g[target - z.active]
               /\ Advanced(z, g[target - z.active], target)
  BY <1>4, AdvanceArrives
<1>8. /\ \A n \in 1..j : g[n] = PassNext(g[n - 1], target)
      /\ AdvanceToActive(z, target) = g[j] /\ g[j].active = target
  BY <1>7 DEF Advanced
<1> HIDE DEF k, j
<1> DEFINE S == {n \in Nat : n <= j => g[n] = f[n + 1]}
<1>9. 0 \in S
  <2>1. 1 \in 1..k /\ 0 + 1 = 1 /\ 1 - 1 = 0  BY <1>3, <1>4
  <2>2. f[1] = PassNext(e, target)  BY <1>5, <1>6, <2>1
  <2>. QED  BY <1>7, <2>1, <2>2 DEF z
<1>10. ASSUME NEW n \in Nat, n \in S PROVE n + 1 \in S
  <2>1. ASSUME n + 1 <= j PROVE g[n + 1] = f[(n + 1) + 1]
    <3>1. /\ n + 1 \in 1..j /\ (n + 1) - 1 = n /\ n <= j
          /\ (n + 1) + 1 \in 1..k /\ ((n + 1) + 1) - 1 = n + 1
      BY <1>3, <1>4, <2>1
    <3>2. g[n] = f[n + 1]  BY <1>10, <3>1
    <3>3. g[n + 1] = PassNext(g[n], target)  BY <1>8, <3>1
    <3>4. f[(n + 1) + 1] = PassNext(f[n + 1], target)  BY <1>6, <3>1
    <3>. QED  BY <3>2, <3>3, <3>4
  <2>. QED  BY <2>1
<1>11. Nat \subseteq S
  <2> HIDE DEF S
  <2>. QED  BY <1>9, <1>10, NatSetInduction
<1>12. g[j] = f[j + 1]  BY <1>4, <1>11
<1> HIDE DEF S
<1> DEFINE T == {n \in Nat : j + 1 <= n /\ n <= k => f[n] = f[j + 1]}
<1>13. 0 \in T  BY <1>4
<1>14. ASSUME NEW n \in Nat, n \in T PROVE n + 1 \in T
  <2>1. ASSUME j + 1 <= n + 1, n + 1 <= k PROVE f[n + 1] = f[j + 1]
    <3>1. CASE n = j  BY <3>1
    <3>2. CASE n # j
      <4>1. j + 1 <= n /\ n <= k /\ n + 1 \in 1..k /\ (n + 1) - 1 = n
        BY <1>3, <1>4, <2>1, <3>2
      <4>2. f[n] = f[j + 1]  BY <1>14, <4>1
      <4>3. f[n + 1] = PassNext(f[n], target)  BY <1>6, <4>1
      <4>4. f[n].active = target  BY <1>8, <1>12, <4>2
      <4>5. PassNext(f[n], target) = f[n]
        <5>1. ~(f[n].active < target)  BY <1>2, <4>4
        <5>. QED  BY <5>1 DEF PassNext
      <4>. QED  BY <4>2, <4>3, <4>5
    <3>. QED  BY <3>1, <3>2
  <2>. QED  BY <2>1
<1>15. Nat \subseteq T
  <2> HIDE DEF T
  <2>. QED  BY <1>13, <1>14, NatSetInduction
<1>16. f[k] = f[j + 1]  BY <1>3, <1>4, <1>15
<1>17. AdvanceToActive(e, target) = AdvanceToActive(z, target)
  BY <1>6, <1>8, <1>12, <1>16
<1>. QED  BY <1>17 DEF z

-----------------------------------------------------------------------------
(* A late tick does what timely ones do.                                   *)

\* A milestone up to the timely reading is the next one for both.
LEMMA SameMilestone ==
  ASSUME Setting, NEW e \in Engines, GameInv(e),
         NEW timely \in 0..config.duration, NEW late \in 0..config.duration,
         e.active < timely, timely <= late, NextMilestone(e, late) <= timely
  PROVE  NextMilestone(e, timely) = NextMilestone(e, late)
<1> DEFINE n1 == NextMilestone(e, timely)
<1> DEFINE n2 == NextMilestone(e, late)
<1> DEFINE real == EventDeadlines(e) \cup PhaseDeadlines(e)
<1>1. timely \in Nat /\ late \in Nat /\ e.active \in Nat /\ e.active < late
  BY SettingIsValid, HistoryTypes
<1>2. /\ real \in SUBSET Nat /\ n1 \in Ahead(e, timely) /\ n2 \in Ahead(e, late)
      /\ \A m \in Ahead(e, timely) : n1 <= m
      /\ \A m \in Ahead(e, late) : n2 <= m
  BY <1>1, AheadIsSome
<1> HIDE DEF n1, n2
<1>3. /\ Ahead(e, timely) = {m \in {timely} \cup real : m > e.active}
      /\ Ahead(e, late) = {m \in {late} \cup real : m > e.active}
  BY DEF Ahead
<1> HIDE DEF real
<1>4. n2 <= timely  BY DEF n2
<1>5. n1 \in Nat /\ n2 \in Nat  BY <1>1, <1>2, <1>3
<1>6. n1 <= n2
  <2>1. CASE n2 \in real  BY <1>2, <1>3, <2>1
  <2>2. CASE n2 = late
    <3>1. timely \in Ahead(e, timely)  BY <1>3, <1>1
    <3>2. n1 <= timely  BY <1>2, <3>1
    <3>. QED  BY <1>1, <1>5, <2>2, <3>2
  <2>. QED  BY <1>2, <1>3, <2>1, <2>2
<1>7. n2 <= n1
  <2>1. CASE n1 \in real  BY <1>2, <1>3, <2>1
  <2>2. CASE n1 = timely  BY <1>4, <2>2
  <2>. QED  BY <1>2, <1>3, <2>1, <2>2
<1>. QED  BY <1>5, <1>6, <1>7 DEF n1, n2

\* Without one the timely tick only moves the reading.
LEMMA QuietTick ==
  ASSUME Setting, NEW e \in Engines, GameInv(e),
         NEW timely \in 0..config.duration, NEW late \in 0..config.duration,
         e.active < timely, timely <= late, ~(NextMilestone(e, late) <= timely)
  PROVE  LET y == [e EXCEPT !.active = timely]
         IN  /\ AdvanceToActive(e, timely) = y
             /\ y \in Engines /\ GameInv(y) /\ timely < late
             /\ PassNext(e, late) = PassNext(y, late)
<1> DEFINE next == NextMilestone(e, late)
<1> DEFINE real == EventDeadlines(e) \cup PhaseDeadlines(e)
<1> DEFINE y == [e EXCEPT !.active = timely]
<1>1. timely \in Nat /\ late \in Nat /\ e.active \in Nat /\ e.active < late
  BY SettingIsValid, HistoryTypes
<1>2. /\ real \in SUBSET Nat /\ next \in Ahead(e, late)
      /\ \A m \in Ahead(e, late) : next <= m
      /\ NextMilestone(e, timely) \in Ahead(e, timely)
      /\ \A m \in Ahead(e, timely) : NextMilestone(e, timely) <= m
  BY <1>1, AheadIsSome
<1>3. /\ Ahead(e, timely) = {m \in {timely} \cup real : m > e.active}
      /\ Ahead(e, late) = {m \in {late} \cup real : m > e.active}
  BY DEF Ahead
<1>4. ~(next <= timely)  OBVIOUS
<1> HIDE DEF next, real
<1>5. next \in Nat /\ late \in Ahead(e, late)  BY <1>1, <1>2, <1>3
<1>6. \A m \in real : ~(e.active < m /\ m <= timely)
  <2>1. ASSUME NEW m \in real, e.active < m, m <= timely PROVE FALSE
    <3>1. m \in Ahead(e, late)  BY <1>2, <1>3, <2>1
    <3>2. next <= m /\ m \in Nat  BY <1>2, <3>1, <2>1
    <3>. QED  BY <1>1, <1>4, <1>5, <2>1, <3>2
  <2>. QED  BY <2>1
<1>7. timely < late
  <2>1. next <= late  BY <1>2, <1>5
  <2>. QED  BY <1>1, <1>4, <1>5, <2>1
<1>8. timely \notin EventDeadlines(e)
  <2>1. ~(timely \in real)  BY <1>1, <1>6
  <2>. QED  BY <2>1 DEF real
<1>9. NextMilestone(e, timely) = timely
  <2>1. timely \in Ahead(e, timely)  BY <1>1, <1>3
  <2> DEFINE n == NextMilestone(e, timely)
  <2>2. n \in Ahead(e, timely) /\ n <= timely  BY <1>2, <2>1
  <2> HIDE DEF n
  <2>3. n = timely
    <3>1. CASE n \in real
      <4>1. e.active < n  BY <1>2, <1>3, <1>1, <2>2, <3>1
      <4>. QED  BY <1>6, <2>2, <3>1, <4>1
    <3>. QED  BY <1>3, <2>2, <3>1
  <2>. QED  BY <2>3 DEF n
<1>10. PhaseAt(timely) = e.phase
  <2>1. \A m \in PhaseDeadlines(e) : ~(e.active < m /\ m <= timely)  BY <1>6 DEF real
  <2>2. PhaseAt(e.active) = PhaseAt(timely)  BY <1>1, <2>1, PhaseAtSame
  <2>. QED  BY <2>2 DEF GameInv
<1>11. /\ y.active = timely /\ y.phase = e.phase /\ y.event = e.event /\ y \in Engines
  BY DEF Engines
<1>12. UpdatePhase(y) = y
  <2> HIDE DEF y
  <2>. QED  BY <1>10, <1>11, UpdateIdle
<1>13. PassNext(e, timely) = y
  <2>1. PassMilestone(e, timely) = y  BY <1>8, <1>12, Zenon DEF PassMilestone
  <2> HIDE DEF y
  <2>. QED  BY <1>9, <2>1 DEF PassNext
<1>14. GameInv(y)
  <2>1. Advanced(e, PassNext(e, timely), NextMilestone(e, timely))
    BY PassNextKeeps
  <2> HIDE DEF y
  <2>. QED  BY <1>13, <2>1 DEF Advanced
<1>15. AdvanceToActive(e, timely) = y
  <2>1. AdvanceToActive(e, timely) = AdvanceToActive(PassNext(e, timely), timely)
    BY AdvanceFirst
  <2> HIDE DEF y
  <2>2. AdvanceToActive(y, y.active) = y  BY <1>11, <1>14, AdvanceNowhere
  <2>. QED  BY <1>11, <1>13, <2>1, <2>2
<1>16. EventDeadlines(y) = EventDeadlines(e) /\ PhaseDeadlines(y) = PhaseDeadlines(e)
  <2> HIDE DEF y
  <2>. QED  BY <1>11 DEF EventDeadlines, PhaseDeadlines
<1>17. NextMilestone(y, late) = next
  <2>1. Ahead(y, late) = {m \in {late} \cup real : m > timely}
    <3> HIDE DEF y
    <3>. QED  BY <1>11, <1>16 DEF Ahead, real
  <2>2. ASSUME NEW m \in {late} \cup real PROVE m > timely <=> m > e.active
    BY <1>1, <1>2, <1>6, <1>7, <2>2
  <2>3. Ahead(y, late) = Ahead(e, late)  BY <1>3, <2>1, <2>2
  <2> HIDE DEF y
  <2>4. /\ NextMilestone(y, late) = Min(Ahead(y, late))
        /\ NextMilestone(e, late) = Min(Ahead(e, late))
    BY DEF NextMilestone, Ahead
  <2>. QED  BY <2>3, <2>4 DEF next
<1>18. PassMilestone(y, next) = PassMilestone(e, next)
  <2>1. [y EXCEPT !.active = next] = [e EXCEPT !.active = next]  BY DEF Engines
  <2> HIDE DEF y
  <2>. QED  BY <1>16, <2>1 DEF PassMilestone
<1>19. PassNext(e, late) = PassNext(y, late)
  <2>1. PassNext(e, late) = PassMilestone(e, next)  BY <1>1 DEF PassNext, next
  <2> HIDE DEF y
  <2>2. PassNext(y, late) = PassMilestone(y, next)  BY <1>7, <1>11, <1>17 DEF PassNext
  <2>. QED  BY <1>18, <2>1, <2>2
<1>. QED  BY <1>7, <1>11, <1>14, <1>15, <1>19

LEMMA TimelyThenLate ==
  ASSUME Setting, NEW e \in Engines, GameInv(e),
         NEW timely \in 0..config.duration, NEW late \in 0..config.duration,
         e.active <= timely, timely <= late
  PROVE  AdvanceToActive(e, late) = AdvanceToActive(AdvanceToActive(e, timely), late)
<1> DEFINE Agree(x) == AdvanceToActive(x, late)
                         = AdvanceToActive(AdvanceToActive(x, timely), late)
<1> DEFINE S == {k \in Nat : \A x \in Engines :
                   GameInv(x) /\ x.active <= timely /\ timely - x.active <= k => Agree(x)}
<1>0. timely \in Nat /\ late \in Nat /\ e.active \in Nat  BY SettingIsValid, HistoryTypes
<1>1. ASSUME NEW x \in Engines, GameInv(x), x.active = timely PROVE Agree(x)
  <2>1. AdvanceToActive(x, x.active) = x  BY <1>1, AdvanceNowhere
  <2>. QED  BY <1>1, <2>1
<1>2. 0 \in S
  <2>1. ASSUME NEW x \in Engines, x.active <= timely, timely - x.active <= 0
        PROVE  x.active = timely
    <3>1. x.active \in Nat  BY HistoryTypes
    <3>. QED  BY <1>0, <2>1, <3>1
  <2> HIDE DEF Agree
  <2>. QED  BY <1>1, <2>1
<1>3. ASSUME NEW k \in Nat, k \in S PROVE k + 1 \in S
  <2>1. ASSUME NEW x \in Engines, GameInv(x), x.active <= timely,
               timely - x.active <= k + 1
        PROVE  Agree(x)
    <3>1. x.active \in Nat  BY <2>1, HistoryTypes
    <3>2. CASE x.active = timely  BY <1>1, <2>1, <3>2
    <3>3. CASE x.active # timely /\ NextMilestone(x, late) <= timely
      <4> DEFINE z == PassNext(x, late)
      <4> DEFINE next == NextMilestone(x, late)
      <4>1. x.active < timely /\ x.active < late  BY <1>0, <2>1, <3>1, <3>3
      <4>2. NextMilestone(x, timely) = next  BY <2>1, <3>3, <4>1, SameMilestone
      <4>3. /\ x.active < next /\ next \in 0..config.duration
            /\ z = PassMilestone(x, next) /\ Advanced(x, z, next)
        BY <2>1, <4>1, PassNextKeeps
      <4>4. PassNext(x, timely) = z  BY <2>1, <4>1, <4>2, <4>3, PassNextKeeps
      <4>5. AdvanceToActive(x, late) = AdvanceToActive(z, late)
        BY <2>1, <4>1, AdvanceFirst
      <4>6. AdvanceToActive(x, timely) = AdvanceToActive(z, timely)
        BY <2>1, <4>1, <4>4, AdvanceFirst
      <4>7. next <= timely  BY <3>3
      <4>8. next \in Nat  BY <4>3, SettingIsValid
      <4> HIDE DEF z, next
      <4>9. z \in Engines /\ GameInv(z) /\ z.active = next  BY <4>3 DEF Advanced
      <4>10. z.active <= timely /\ timely - z.active <= k
        BY <1>0, <2>1, <3>1, <4>3, <4>7, <4>8, <4>9
      <4>11. Agree(z)  BY <1>3, <4>9, <4>10
      <4>. QED  BY <4>5, <4>6, <4>11
    <3>4. CASE x.active # timely /\ ~(NextMilestone(x, late) <= timely)
      <4> DEFINE y == [x EXCEPT !.active = timely]
      <4>1. x.active < timely /\ x.active < late  BY <1>0, <2>1, <3>1, <3>4
      <4>2. /\ AdvanceToActive(x, timely) = y
            /\ y \in Engines /\ GameInv(y) /\ timely < late
            /\ PassNext(x, late) = PassNext(y, late)
        BY <2>1, <3>4, <4>1, QuietTick
      <4>3. y.active = timely  BY DEF Engines
      <4>4. AdvanceToActive(x, late) = AdvanceToActive(PassNext(x, late), late)
        BY <2>1, <4>1, AdvanceFirst
      <4> HIDE DEF y
      <4>5. AdvanceToActive(y, late) = AdvanceToActive(PassNext(y, late), late)
        BY <4>2, <4>3, AdvanceFirst
      <4>. QED  BY <4>2, <4>4, <4>5
    <3>. QED  BY <3>2, <3>3, <3>4
  <2> HIDE DEF Agree
  <2>. QED  BY <2>1
<1>4. Nat \subseteq S
  <2> HIDE DEF S
  <2>. QED  BY <1>2, <1>3, NatSetInduction
<1>5. timely - e.active \in Nat  BY <1>0
<1> HIDE DEF Agree
<1>6. Agree(e)
  <2> DEFINE k == timely - e.active
  <2>1. k \in Nat /\ timely - e.active <= k  BY <1>5
  <2> HIDE DEF k
  <2>2. k \in S  BY <1>4, <2>1
  <2>. QED  BY <2>1, <2>2
<1>. QED  BY <1>6 DEF Agree

-----------------------------------------------------------------------------
(* The configuration of a session does not change.                         *)

LEMMA PhasesStay ==
  ASSUME config' = config
  PROVE  LastPhase' = LastPhase /\ PhaseEnd' = PhaseEnd /\ Records' = Records
<1>1. LastPhase' = LastPhase  BY DEF LastPhase
<1>2. PhaseEnd' = PhaseEnd  BY <1>1 DEF PhaseEnd
<1>3. Records' = Records  BY DEF Records
<1>. QED  BY <1>1, <1>2, <1>3

LEMMA GameStays ==
  ASSUME config' = config, luck' = luck, Setting, NEW e, engine' = e, GameInv(e)
  PROVE  Setting' /\ GameInv(engine)'
<1>1. LastPhase' = LastPhase /\ PhaseEnd' = PhaseEnd /\ Records' = Records
  BY PhasesStay
<1>2. (engine \in Engines)'  BY <1>1 DEF GameInv, Engines
<1>3. (engine.phase = PhaseAt(engine.active))'
  BY <1>1 DEF GameInv, PhaseAt
<1>4. Owns(engine)'
  BY <1>1 DEF GameInv, Owns, Deadline, Definition
<1>5. ASSUME NEW name \in DOMAIN config.events PROVE LimitsOf(engine, name)'
  <2>1. LimitsOf(e, name)  BY DEF GameInv
  <2>. QED  BY <1>1, <2>1 DEF LimitsOf, Occurrences, PhaseAt
<1>6. Setting'  BY DEF Setting
<1>. QED  BY <1>2, <1>3, <1>4, <1>5, <1>6 DEF GameInv

-----------------------------------------------------------------------------
(* Time is counted as active or as paused.                                 *)

\* The part that is about time, when the clock reads now.
TimeInv(e, now) ==
  /\ e.last = IF e.status = "running" THEN now ELSE None
  /\ e.pausedStarted = IF e.status = "paused" THEN now ELSE None
  /\ e.active + e.paused <= now
  /\ e.active < config.duration => e.active + e.paused = now
  /\ e.status = "ready" => e.event = None

\* An engine as it is when the clock reads now.
Sound(e, now) == e \in Engines /\ GameInv(e) /\ TimeInv(e, now)

SoundInv == Setting /\ clock \in Nat /\ Sound(engine, clock)

LEMMA ReadingType ==
  ASSUME NEW now \in Nat
  PROVE  now \in Reading /\ None \in Reading /\ now # None
BY NoneAssumption DEF Reading

LEMMA CommandKeeps ==
  ASSUME Setting, NEW e \in Engines, GameInv(e), NEW x \in Engines,
         x.active = e.active, x.phase = e.phase, x.event = e.event, x.history = e.history
  PROVE  GameInv(x)
<1>1. Owns(x)  BY DEF GameInv, Owns
<1>2. \A n \in DOMAIN config.events : LimitsOf(x, n)  BY LimitsSame DEF GameInv
<1>. QED  BY <1>1, <1>2 DEF GameInv

LEMMA MinOfTwo ==
  ASSUME NEW a \in Nat, NEW b \in Nat
  PROVE  Min({a, b}) = IF a <= b THEN a ELSE b
<1> DEFINE m == Min({a, b})
<1>1. m \in {a, b} /\ \A y \in {a, b} : m <= y
  <2> DEFINE s == {a, b}
  <2>1. s \in SUBSET Nat /\ s # {}  OBVIOUS
  <2> HIDE DEF s
  <2>2. Min(s) \in s /\ \A y \in s : Min(s) <= y  BY <2>1, MinOfSome
  <2>. QED  BY <2>2 DEF s
<1> HIDE DEF m
<1>2. m = IF a <= b THEN a ELSE b  BY <1>1
<1>. QED  BY <1>2 DEF m

\* advance_running_time counts what has passed, up to the end of the session.
LEMMA RunningAdvances ==
  ASSUME Setting, NEW c \in Nat, NEW d \in Nat, NEW e, Sound(e, c), e.status = "running"
  PROVE  LET z == AdvanceRunningTime(e, c + d)
         IN  Sound(z, c + d) /\ z.status = "running"
<1> DEFINE now == c + d
<1> DEFINE x == [e EXCEPT !.last = now]
<1> DEFINE z == AdvanceRunningTime(e, now)
<1> DEFINE t == Min({e.active + d, config.duration})
<1>0. now \in Nat /\ now = c + d  OBVIOUS
<1> HIDE DEF now
<1>1. e \in Engines /\ GameInv(e) /\ TimeInv(e, c)  BY DEF Sound
<1>2. e.last = c /\ c # None /\ now \in Reading /\ now # None
  BY <1>0, <1>1, ReadingType DEF TimeInv
<1>3. e.active \in Nat /\ config.duration \in Nat /\ e.active <= config.duration
      /\ e.paused \in Nat
  BY <1>1, SettingIsValid DEF Engines
<1>4. /\ t \in 0..config.duration /\ e.active <= t
      /\ t = IF e.active + d <= config.duration THEN e.active + d ELSE config.duration
  BY <1>3, MinOfTwo
<1>5. z = AdvanceToActive(x, t)
  <2>1. (IF e.last = None THEN now ELSE e.last) = c  BY <1>2
  <2>2. e.active + (now - c) = e.active + d  BY <1>0, <1>3
  <2>. QED  BY <2>1, <2>2 DEF AdvanceRunningTime
<1>6. /\ x \in Engines /\ x.last = now /\ x.active = e.active /\ x.phase = e.phase
      /\ x.event = e.event /\ x.history = e.history
      /\ x.status = e.status /\ x.paused = e.paused /\ x.pausedStarted = e.pausedStarted
  BY <1>1, <1>2 DEF Engines
<1> HIDE DEF t, x
<1>7. GameInv(x)  BY <1>1, <1>6, CommandKeeps
<1>8. Advanced(x, z, t)  BY <1>4, <1>5, <1>6, <1>7, AdvanceKeeps
<1> HIDE DEF z
<1>9. /\ z \in Engines /\ GameInv(z) /\ z.active = t /\ z.last = now
      /\ z.status = "running" /\ z.paused = e.paused /\ z.pausedStarted = None
  BY <1>1, <1>6, <1>8 DEF Advanced, Same, TimeInv
<1>10. /\ t + e.paused <= now
       /\ t < config.duration => t + e.paused = now
  <2> DEFINE a == e.active
  <2> DEFINE p == e.paused
  <2> DEFINE u == config.duration
  <2>1. /\ a \in Nat /\ p \in Nat /\ u \in Nat /\ a <= u
        /\ a + p <= c /\ (a < u => a + p = c)
        /\ t = IF a + d <= u THEN a + d ELSE u
    BY <1>1, <1>3, <1>4 DEF TimeInv
  <2> HIDE DEF a, p, u
  <2>2. t + p <= now /\ (t < u => t + p = now)  BY <1>0, <2>1
  <2>. QED  BY <2>2 DEF p, u
<1>11. TimeInv(z, now)  BY <1>9, <1>10 DEF TimeInv
<1>. QED  BY <1>9, <1>11 DEF Sound, now, z

\* A change of status, with the readings that belong to it.
LEMMA StatusChanges ==
  ASSUME Setting, NEW c \in Nat, NEW e, e \in Engines, GameInv(e), NEW x \in Engines,
         x.active = e.active, x.phase = e.phase, x.event = e.event, x.history = e.history,
         x.active + x.paused <= c,
         x.active < config.duration => x.active + x.paused = c,
         x.last = IF x.status = "running" THEN c ELSE None,
         x.pausedStarted = IF x.status = "paused" THEN c ELSE None,
         x.status # "ready"
  PROVE  Sound(x, c)
<1>1. GameInv(x)  BY CommandKeeps
<1>. QED  BY <1>1 DEF Sound, TimeInv

LEMMA EndedSound ==
  ASSUME Setting, NEW c \in Nat, NEW e, Sound(e, c), e.status = "running" ,
         NEW outcome \in Terminal
  PROVE  Sound(Ended(e, outcome), c)
<1> DEFINE x == Ended(e, outcome)
<1>1. e \in Engines /\ GameInv(e) /\ TimeInv(e, c)  BY DEF Sound
<1>2. outcome \in Status /\ outcome # "ready" /\ outcome # "running" /\ outcome # "paused"
  BY DEF Terminal, Status
<1>3. /\ x \in Engines /\ x.status = outcome /\ x.last = None /\ x.active = e.active
      /\ x.phase = e.phase /\ x.event = e.event /\ x.history = e.history
      /\ x.paused = e.paused /\ x.pausedStarted = e.pausedStarted
  BY <1>1, <1>2, ReadingType DEF Ended, Engines, Reading
<1> HIDE DEF x
<1>4. Sound(x, c)  BY <1>1, <1>2, <1>3, StatusChanges DEF TimeInv
<1>. QED  BY <1>4 DEF x

LEMMA TickedSound ==
  ASSUME Setting, NEW c \in Nat, NEW d \in Nat, NEW e, Sound(e, c), e.status = "running"
  PROVE  LET z == Ticked(e, c + d)
         IN  Sound(z, c + d) /\ z.status \in {"running", "completed"}
<1> DEFINE now == c + d
<1> DEFINE a == AdvanceRunningTime(e, now)
<1>1. Sound(a, now) /\ a.status = "running"  BY RunningAdvances
<1>2. now \in Nat  OBVIOUS
<1>3. Ticked(e, now) \in {a, Ended(a, "completed")}  BY DEF Ticked
<1> HIDE DEF a, now
<1>4. Sound(Ended(a, "completed"), now)
  BY <1>1, <1>2, EndedSound DEF Terminal
<1>5. Ended(a, "completed").status = "completed"  BY <1>1 DEF Ended, Sound, Engines
<1>. QED  BY <1>1, <1>3, <1>4, <1>5 DEF now

\* A pause that ends has been counted.
LEMMA SettledSound ==
  ASSUME Setting, NEW c \in Nat, NEW d \in Nat, NEW e, Sound(e, c), e.status = "paused"
  PROVE  LET z == PauseSettled(e, c + d)
         IN  /\ z \in Engines /\ GameInv(z) /\ z.pausedStarted = None
             /\ z.active + z.paused <= c + d
             /\ z.active < config.duration => z.active + z.paused = c + d
<1>1. e \in Engines /\ GameInv(e) /\ TimeInv(e, c)  BY DEF Sound
<1>2. e.pausedStarted = c /\ c # None  BY <1>1, ReadingType DEF TimeInv
<1>3. e.active \in Nat /\ e.paused \in Nat /\ config.duration \in Nat
  BY <1>1, HistoryTypes, SettingIsValid DEF Engines
<1> DEFINE p == e.paused + d
<1> DEFINE z == [e EXCEPT !.paused = p, !.pausedStarted = None]
<1>4. (c + d) - c = d  OBVIOUS
<1>5. PauseSettled(e, c + d) = z
  BY <1>2, <1>4 DEF PauseSettled
<1>6. p \in Nat /\ p = e.paused + d  BY <1>3
<1> HIDE DEF p
<1>7. /\ z \in Engines /\ z.pausedStarted = None /\ z.paused = p
      /\ z.active = e.active /\ z.phase = e.phase
      /\ z.event = e.event /\ z.history = e.history
  BY <1>1, <1>6, ReadingType DEF Engines, Reading
<1> HIDE DEF z
<1>8. GameInv(z)  BY <1>1, <1>7, CommandKeeps
<1>9. /\ e.active + p <= c + d
      /\ e.active < config.duration => e.active + p = c + d
  BY <1>1, <1>3, <1>6 DEF TimeInv
<1>. QED  BY <1>5, <1>7, <1>8, <1>9

-----------------------------------------------------------------------------
(* The commands.                                                           *)

LEMMA InitSound == Init => SoundInv
<1> SUFFICES ASSUME Init PROVE SoundInv  OBVIOUS
<1>1. Setting /\ clock = 0 /\ clock \in Nat  BY DEF Init, Setting
<1>2. engine = [status |-> "ready", active |-> 0, paused |-> 0, phase |-> 1,
                event |-> None, history |-> <<>>, drawn |-> 0, last |-> None,
                pausedStarted |-> None]
  BY DEF Init
<1>3. engine \in Engines
  <2>1. 0 \in 0..config.duration /\ 0 \in 0..(Draws - 1) /\ 1 \in 1..LastPhase
    BY <1>1, SettingIsValid
  <2>2. <<>> \in Seq(Records) /\ "ready" \in Status /\ None \in Reading
    BY DEF Status, Reading
  <2>. QED  BY <1>2, <2>1, <2>2 DEF Engines
<1>4. /\ engine.active = 0 /\ engine.phase = 1 /\ engine.event = None
      /\ DOMAIN engine.history = {} /\ engine.status = "ready" /\ engine.paused = 0
      /\ engine.last = None /\ engine.pausedStarted = None
  BY <1>2
<1>5. Owns(engine)  BY <1>4 DEF Owns
<1>6. ASSUME NEW name \in DOMAIN config.events PROVE LimitsOf(engine, name)
  <2>1. Occurrences(engine, name) = {}  BY <1>4 DEF Occurrences
  <2>2. Cardinality({}) = 0 /\ 0 <= config.events[name].maximum
    BY <1>1, FS_EmptySet, EventTypes
  <2>. QED  BY <2>1, <2>2 DEF LimitsOf
<1>7. GameInv(engine)  BY <1>1, <1>3, <1>4, <1>5, <1>6, PhaseAtStart DEF GameInv
<1>8. TimeInv(engine, clock)
  <2>1. config.duration \in Nat  BY <1>1, SettingIsValid
  <2>. QED  BY <1>1, <1>4, <2>1 DEF TimeInv
<1>. QED  BY <1>1, <1>3, <1>7, <1>8 DEF SoundInv, Sound

\* What a command makes of the engine is what it is in the next state.
LEMMA Dispatched ==
  ASSUME Setting, NEW e, NEW now \in Nat, Sound(e, now), Dispatch(e), clock' = now
  PROVE  SoundInv'
<1>1. engine' = e /\ config' = config /\ luck' = luck  BY DEF Dispatch
<1>2. Setting' /\ GameInv(engine)'  BY <1>1, GameStays DEF Sound
<1>3. TimeInv(engine, clock)'  BY <1>1 DEF Sound, TimeInv
<1>4. (engine \in Engines)' /\ (clock \in Nat)'  BY <1>2 DEF GameInv
<1>. QED  BY <1>2, <1>3, <1>4 DEF SoundInv, Sound

LEMMA StartSound == SoundInv /\ Start => SoundInv'
<1> SUFFICES ASSUME SoundInv, Start PROVE SoundInv'  OBVIOUS
<1> DEFINE x == [engine EXCEPT !.status = "running", !.last = clock]
<1> DEFINE z == SchedulePhaseEvents(x)
<1>1. /\ engine \in Engines /\ GameInv(engine) /\ TimeInv(engine, clock) /\ Setting
      /\ clock \in Nat /\ engine.status = "ready" /\ clock' = clock /\ Dispatch(z)
  BY DEF SoundInv, Sound, Start
<1>2. /\ x \in Engines /\ x.status = "running" /\ x.last = clock
      /\ x.active = engine.active /\ x.phase = engine.phase
      /\ x.event = engine.event /\ x.history = engine.history
      /\ x.paused = engine.paused /\ x.pausedStarted = engine.pausedStarted
  BY <1>1, ReadingType DEF Engines, Status
<1> HIDE DEF x
<1>3. Sound(x, clock) /\ x.event = None
  BY <1>1, <1>2, StatusChanges DEF TimeInv
<1>4. GameInv(z) /\ z \in Engines /\ Same(x, z) /\ z.active = x.active
  BY <1>1, <1>3, ScheduleKeeps DEF Sound
<1> HIDE DEF z
<1>5. Sound(z, clock)  BY <1>2, <1>3, <1>4 DEF Sound, TimeInv, Same
<1>. QED  BY <1>1, <1>5, Dispatched

LEMMA TickSound == SoundInv /\ Tick => SoundInv'
<1> SUFFICES ASSUME SoundInv, Tick PROVE SoundInv'  OBVIOUS
<1>1. PICK d \in 0..MaxDelay : clock' = clock + d /\ Dispatch(Ticked(engine, clock + d))
  BY DEF Tick
<1>2. /\ engine.status = "running" /\ Sound(engine, clock) /\ Setting /\ clock \in Nat
      /\ d \in Nat /\ clock + d \in Nat
  BY BoundsAssumption DEF SoundInv, Tick
<1>3. Sound(Ticked(engine, clock + d), clock + d)  BY <1>2, TickedSound
<1>. QED  BY <1>1, <1>2, <1>3, Dispatched

LEMMA PauseSound == SoundInv /\ Pause => SoundInv'
<1> SUFFICES ASSUME SoundInv, Pause PROVE SoundInv'  OBVIOUS
<1>1. PICK d \in 0..MaxDelay :
        /\ clock' = clock + d
        /\ Dispatch([Ticked(engine, clock + d) EXCEPT
                       !.status = "paused", !.pausedStarted = clock + d, !.last = None])
  BY DEF Pause
<1> DEFINE now == clock + d
<1> DEFINE t == Ticked(engine, now)
<1> DEFINE x == [t EXCEPT !.status = "paused", !.pausedStarted = now, !.last = None]
<1>2. /\ engine.status = "running" /\ Sound(engine, clock) /\ Setting /\ clock \in Nat
      /\ d \in Nat /\ now \in Nat
  BY BoundsAssumption DEF SoundInv, Pause
<1>3. Sound(t, now)  BY <1>2, TickedSound
<1>4. clock' = now /\ Dispatch(x)  BY <1>1
<1> HIDE DEF t, now
<1>5. t \in Engines /\ GameInv(t) /\ TimeInv(t, now)  BY <1>3 DEF Sound
<1>6. /\ x \in Engines /\ x.status = "paused" /\ x.last = None /\ x.pausedStarted = now
      /\ x.active = t.active /\ x.phase = t.phase /\ x.event = t.event
      /\ x.history = t.history /\ x.paused = t.paused
  BY <1>2, <1>5, ReadingType DEF Engines, Status
<1> HIDE DEF x
<1>7. Sound(x, now)  BY <1>2, <1>5, <1>6, StatusChanges DEF TimeInv
<1>. QED  BY <1>2, <1>4, <1>7, Dispatched

LEMMA ResumeSound == SoundInv /\ Resume => SoundInv'
<1> SUFFICES ASSUME SoundInv, Resume PROVE SoundInv'  OBVIOUS
<1>1. PICK d \in 0..MaxDelay :
        /\ clock' = clock + d
        /\ Dispatch([PauseSettled(engine, clock + d) EXCEPT
                       !.status = "running", !.last = clock + d])
  BY DEF Resume
<1> DEFINE now == clock + d
<1> DEFINE p == PauseSettled(engine, now)
<1> DEFINE x == [p EXCEPT !.status = "running", !.last = now]
<1>2. /\ engine.status = "paused" /\ Sound(engine, clock) /\ Setting /\ clock \in Nat
      /\ d \in Nat /\ now \in Nat
  BY BoundsAssumption DEF SoundInv, Resume
<1>3. /\ p \in Engines /\ GameInv(p) /\ p.pausedStarted = None
      /\ p.active + p.paused <= now
      /\ p.active < config.duration => p.active + p.paused = now
  BY <1>2, SettledSound
<1>4. clock' = now /\ Dispatch(x)  BY <1>1
<1> HIDE DEF p, now
<1>5. /\ x \in Engines /\ x.status = "running" /\ x.last = now
      /\ x.pausedStarted = p.pausedStarted
      /\ x.active = p.active /\ x.phase = p.phase /\ x.event = p.event
      /\ x.history = p.history /\ x.paused = p.paused
  BY <1>2, <1>3, ReadingType DEF Engines, Status
<1> HIDE DEF x
<1>6. Sound(x, now)  BY <1>2, <1>3, <1>5, StatusChanges
<1>. QED  BY <1>2, <1>4, <1>6, Dispatched

LEMMA EndSound == SoundInv /\ End => SoundInv'
<1> SUFFICES ASSUME SoundInv, End PROVE SoundInv'  OBVIOUS
<1>1. PICK d \in 0..MaxDelay, outcome \in Terminal :
        /\ clock' = clock + d
        /\ Dispatch(Ended(SettleTerminalTime(engine, clock + d), outcome))
  BY DEF End
<1> DEFINE now == clock + d
<1>2. /\ engine.status \in {"running", "paused"} /\ Sound(engine, clock) /\ Setting
      /\ clock \in Nat /\ d \in Nat /\ now \in Nat
  BY BoundsAssumption DEF SoundInv, End
<1>3. CASE engine.status = "running"
  <2> DEFINE a == AdvanceRunningTime(engine, now)
  <2>1. Sound(a, now) /\ a.status = "running"  BY <1>2, <1>3, RunningAdvances
  <2>2. SettleTerminalTime(engine, now) = a  BY <1>3 DEF SettleTerminalTime
  <2> HIDE DEF a
  <2>3. Sound(Ended(a, outcome), now)  BY <1>2, <2>1, EndedSound
  <2>. QED  BY <1>1, <1>2, <2>2, <2>3, Dispatched
<1>4. CASE engine.status = "paused"
  <2> DEFINE p == PauseSettled(engine, now)
  <2> DEFINE x == Ended(p, outcome)
  <2>1. /\ p \in Engines /\ GameInv(p) /\ p.pausedStarted = None
        /\ p.active + p.paused <= now
        /\ p.active < config.duration => p.active + p.paused = now
    BY <1>2, <1>4, SettledSound
  <2>2. SettleTerminalTime(engine, now) = p  BY <1>4 DEF SettleTerminalTime
  <2>3. clock' = now /\ Dispatch(x)  BY <1>1, <2>2
  <2>4. /\ outcome \in Status /\ outcome # "ready"
        /\ outcome # "running" /\ outcome # "paused"
    BY DEF Terminal, Status
  <2> HIDE DEF p, now
  <2>5. /\ x \in Engines /\ x.status = outcome /\ x.last = None
        /\ x.pausedStarted = p.pausedStarted
        /\ x.active = p.active /\ x.phase = p.phase /\ x.event = p.event
        /\ x.history = p.history /\ x.paused = p.paused
    BY <2>1, <2>4 DEF Ended, Engines, Reading
  <2> HIDE DEF x
  <2>6. Sound(x, now)  BY <1>2, <2>1, <2>4, <2>5, StatusChanges
  <2>. QED  BY <1>2, <2>3, <2>6, Dispatched
<1>. QED  BY <1>2, <1>3, <1>4

LEMMA NextSound == SoundInv /\ [Next]_vars => SoundInv'
<1> SUFFICES ASSUME SoundInv, [Next]_vars PROVE SoundInv'  OBVIOUS
<1>1. CASE UNCHANGED vars
  <2>1. Dispatch(engine) /\ clock' = clock  BY <1>1 DEF vars, Dispatch
  <2>. QED  BY <2>1, Dispatched DEF SoundInv
<1>. QED
  BY <1>1, StartSound, TickSound, PauseSound, ResumeSound, EndSound DEF Next

\* The invariant holds after every command (SessionEngine::dispatch).
THEOREM Soundness == Spec => []SoundInv
<1>. QED  BY InitSound, NextSound, PTL DEF Spec

-----------------------------------------------------------------------------
(* The properties.                                                         *)

\* The engine keeps its types, and active time stays within the configured
\* duration however late the commands come (TypeOK).
THEOREM TypeCorrect == Spec => []TypeOK
<1>1. SoundInv => TypeOK
  <2> SUFFICES ASSUME SoundInv PROVE TypeOK  OBVIOUS
  <2>1. /\ Setting /\ clock \in Nat /\ engine \in Engines /\ GameInv(engine)
        /\ TimeInv(engine, clock)
    BY DEF SoundInv, Sound
  <2>2. (engine.last = None) = (engine.status # "running")
    BY <2>1, ReadingType DEF TimeInv
  <2>3. ASSUME NEW i \in DOMAIN engine.history
        PROVE  /\ engine.history[i].name \in DOMAIN config.events
               /\ engine.history[i].start \in 0..engine.active
    <3>1. engine.history[i] \in Records /\ engine.active \in Nat  BY <2>1, HistoryTypes
    <3>2. engine.history[i].start <= engine.active  BY <2>1 DEF GameInv, Owns
    <3>. QED  BY <2>1, <3>1, <3>2, EventTypes
  <2>4. DOMAIN config.phases = 1..LastPhase  BY <2>1, SettingIsValid
  <2>5. /\ engine.status \in Status /\ engine.active \in 0..config.duration
        /\ engine.paused \in Nat /\ engine.phase \in 1..LastPhase
        /\ engine.drawn \in 0..(Draws - 1) /\ engine.last \in Reading
        /\ engine.pausedStarted \in Reading
    BY <2>1 DEF Engines
  <2>. QED  BY <2>1, <2>2, <2>3, <2>4, <2>5 DEF TypeOK, Setting
<1>. QED  BY <1>1, Soundness, PTL

\* A tick that comes late leaves the engine where any sequence of timely ones
\* leaves it: the same phase, events, times and draws (advance_to_active)
\* (DelayedTicksAreTimely).
THEOREM LateIsTimely == Spec => []DelayedTicksAreTimely
<1>1. SoundInv => DelayedTicksAreTimely
  <2> SUFFICES ASSUME SoundInv,
                      NEW timely \in engine.active..config.duration,
                      NEW late \in timely..config.duration
               PROVE  AdvanceToActive(engine, late)
                        = AdvanceToActive(AdvanceToActive(engine, timely), late)
    BY DEF DelayedTicksAreTimely
  <2>1. Setting /\ engine \in Engines /\ GameInv(engine)  BY DEF SoundInv, Sound
  <2>2. engine.active \in Nat /\ config.duration \in Nat
    BY <2>1, HistoryTypes, SettingIsValid
  <2>3. /\ timely \in 0..config.duration /\ late \in 0..config.duration
        /\ engine.active <= timely /\ timely <= late
    BY <2>2
  <2>. QED  BY <2>1, <2>3, TimelyThenLate
<1>. QED  BY <1>1, Soundness, PTL

\* Each unit since the start was counted once, as active or as paused, up to
\* the last command; only time after the configured duration is not
\* (advance_running_time, settle_terminal_time) (TimeIsAccounted).
THEOREM EachUnitCounted == Spec => []TimeIsAccounted
<1>1. SoundInv => TimeIsAccounted
  <2> SUFFICES ASSUME SoundInv PROVE TimeIsAccounted  OBVIOUS
  <2>1. TimeInv(engine, clock)  BY DEF SoundInv, Sound
  <2> DEFINE settled == CASE engine.status = "running" -> engine.last
                          [] engine.status = "paused"  -> engine.pausedStarted
                          [] OTHER                     -> clock
  <2>2. settled = clock  BY <2>1 DEF TimeInv
  <2>3. /\ engine.active + engine.paused <= settled
        /\ engine.active < config.duration => engine.active + engine.paused = settled
    <3> HIDE DEF settled
    <3>. QED  BY <2>1, <2>2 DEF TimeInv
  <2>. QED  BY <2>3 DEF TimeIsAccounted
<1>. QED  BY <1>1, Soundness, PTL

\* An event owns its whole active time: the next one starts at its deadline or
\* later, also when a phase ends or a tick is late, and it is the current event
\* exactly until then (update_phase, advance_to_active) (EventsOwnTheirTime).
THEOREM EventsDoNotOverlap == Spec => []EventsOwnTheirTime
<1>1. SoundInv => EventsOwnTheirTime
  <2> SUFFICES ASSUME SoundInv PROVE EventsOwnTheirTime  OBVIOUS
  <2> DEFINE h == engine.history
  <2> DEFINE n == Len(h)
  <2>1. Setting /\ engine \in Engines /\ Owns(engine)  BY DEF SoundInv, Sound, GameInv
  <2>2. n \in Nat /\ DOMAIN h = 1..n /\ h \in Seq(Records)  BY <2>1, HistoryTypes
  <2>3. h # <<>> => n \in DOMAIN h
    <3> DEFINE S == Records
    <3>1. h \in Seq(S)  BY <2>2
    <3> HIDE DEF h, S
    <3>2. h # <<>> => Len(h) # 0  BY <3>1
    <3>. QED  BY <2>2, <3>2
  <2> HIDE DEF n
  <2>4. ASSUME NEW i \in 1..(n - 1) PROVE Deadline(h[i]) <= h[i + 1].start
    <3>1. i \in 1..n /\ i + 1 \in 1..n /\ i < i + 1  BY <2>2
    <3>. QED  BY <2>1, <2>2, <3>1 DEF Owns
  <2>5. Last(h) = h[n]  BY DEF Last, n
  <2>6. engine.event # None =>
          engine.event = Last(h) /\ engine.active < Deadline(engine.event)
    BY <2>1, <2>5 DEF Owns, n
  <2>7. engine.event = None => (h # <<>> => Deadline(Last(h)) <= engine.active)
    BY <2>1, <2>3, <2>5 DEF Owns
  <2>. QED  BY <2>4, <2>6, <2>7 DEF EventsOwnTheirTime, n
<1>. QED  BY <1>1, Soundness, PTL

\* An event occurs at most as often as configured, in a phase it is allowed in,
\* and past its minimum no sooner than its cooldown after its own occurrences
\* (schedule_phase_events) (EventLimits).
THEOREM LimitsAreKept == Spec => []EventLimits
<1>1. SoundInv => EventLimits
  BY DEF SoundInv, Sound, GameInv, LimitsOf, EventLimits
<1>. QED  BY <1>1, Soundness, PTL
=============================================================================
