------------------------- MODULE RemoteListenerProofs -------------------------
(***************************************************************************)
(* Proof of the types of the host's listeners, with what they say of its   *)
(* two registers: only the holder of start_lock is replacing the primary   *)
(* listeners, and an address of Tailscale is reserved exactly while a task *)
(* is about to bind it.  For any callers, addresses and bounds, with and   *)
(* without IPv6.                                                           *)
(***************************************************************************)
EXTENDS RemoteListener, TLAPS

States == {"off", "idle", "tail", "detect", "extras", "compare", "restart",
           "swap", "ended"} \cup Replacing

Knowledge == [pc : States, want : BOOLEAN, starts : BOOLEAN,
              todo : SUBSET Tail, cur : Tail \cup {None}]

Reservations == {"reserved", "revoked"}

ExtraStates == {"none", "reserved", "revoked", "open", "closing", "draining"}

\* The sockets, the registers and the world.
SocketTypes ==
  /\ sock \in [Primary -> Listening \cup {"none"}]
  /\ draining \in [Primary -> 0..MaxLong]
  /\ bound \subseteq Primary \cup Tail
  /\ primary \in BOOLEAN
  /\ primaryLan \in BOOLEAN

WorldTypes ==
  /\ lan \in BOOLEAN
  /\ tailnet \subseteq Tail
  /\ foreign \in {"none", "interface", "host"}
  /\ shutdown \in BOOLEAN
  /\ count \in [changes : 0..MaxChanges, events : 0..MaxEvents, long : 0..MaxLong]

\* A closed listener that has requests was counted.
Counted == \A a \in Primary : draining[a] <= count.long

TaskTypes == task \in [Task -> Knowledge] /\ startLock \in Task \cup {None}

Locked == \A t \in Task : task[t].pc \in Replacing => startLock = t

Keys ==
  /\ extra \in [Tail -> ExtraStates]
  /\ \A a \in Tail : extra[a] \in Reservations <=> \E t \in Task : task[t].cur = a

\* An address is bound by one task at a time, in the middle of its extras.
OneBinder ==
  \A t \in Task : task[t].cur # None =>
    /\ task[t].pc = "extras"
    /\ \A u \in Task : task[u].cur = task[t].cur => u = t

TaskInv == TaskTypes /\ Locked /\ Keys /\ OneBinder

IInv == SocketTypes /\ WorldTypes /\ Counted /\ TaskInv

\* The same addresses are reserved.
SameKeys ==
  /\ extra' \in [Tail -> ExtraStates]
  /\ \A a \in Tail : extra'[a] \in Reservations <=> extra[a] \in Reservations

LEMMA NobodyIsNone ==
  ListenerAssumption => None \notin Task /\ None \notin Tail /\ Main # Refresher
BY DEF ListenerAssumption, Task

-----------------------------------------------------------------------------
(* What operators do to the tasks and the keys.                            *)

LEMMA ExtraUnchanged ==
  ASSUME Keys, UNCHANGED extra
  PROVE  SameKeys
BY DEF Keys, SameKeys

LEMMA CancelKeepsKeys ==
  ASSUME Keys, NEW S, CancelExtras(S)
  PROVE  SameKeys
<1>1. \A x \in ExtraStates : /\ Revoked(x) \in ExtraStates
                             /\ Revoked(x) \in Reservations <=> x \in Reservations
  BY DEF Revoked, ExtraStates, Reservations
<1> QED
  BY <1>1 DEF Keys, SameKeys, CancelExtras

\* A task that binds no address takes a step.
LEMMA TaskMoves ==
  ASSUME ListenerAssumption,
         TaskInv, SameKeys, NEW t \in Task, NEW r \in Knowledge,
         task[t].cur = None, r.cur = None, task' = [task EXCEPT ![t] = r],
         startLock' \in Task \cup {None},
         startLock' = startLock \/ startLock \in {None, t},
         r.pc \in Replacing => startLock' = t
  PROVE  TaskInv'
<1>1. TaskTypes'
  BY DEF TaskInv, TaskTypes
<1>2. /\ task'[t] = r
      /\ \A u \in Task : u # t => task'[u] = task[u]
      /\ \A u \in Task : task'[u].cur = task[u].cur
  BY DEF TaskInv, TaskTypes
<1>3. Locked'
  BY <1>2, NobodyIsNone DEF TaskInv, Locked
<1>4. Keys'
  BY <1>2 DEF TaskInv, Keys, SameKeys
<1>5. OneBinder'
  BY <1>2 DEF TaskInv, OneBinder
<1> QED
  BY <1>1, <1>3, <1>4, <1>5 DEF TaskInv

LEMMA TasksRest ==
  ASSUME TaskInv, SameKeys, UNCHANGED <<task, startLock>>
  PROVE  TaskInv'
BY DEF TaskInv, TaskTypes, Locked, Keys, SameKeys, OneBinder

LEMMA TaskGoes ==
  ASSUME ListenerAssumption,
         TaskInv, SameKeys, NEW t \in Task, NEW pc \in States, Goes(t, pc),
         task[t].cur = None, startLock' \in Task \cup {None},
         startLock' = startLock \/ startLock \in {None, t},
         pc \in Replacing => startLock' = t
  PROVE  TaskInv'
<1> DEFINE r == [task[t] EXCEPT !.pc = pc]
<1>1. r \in Knowledge /\ r.cur = None /\ r.pc = pc
  BY DEF TaskInv, TaskTypes, Knowledge
<1>2. task' = [task EXCEPT ![t] = r]
  BY DEF Goes
<1> HIDE DEF r
<1> QED
  BY <1>1, <1>2, TaskMoves

LEMMA TaskRests ==
  ASSUME ListenerAssumption,
         TaskInv, SameKeys, NEW t \in Task, Rests(t), task[t].cur = None,
         startLock' \in Task \cup {None},
         startLock' = startLock \/ startLock \in {None, t}
  PROVE  TaskInv'
<1>1. Resting \in Knowledge /\ Resting.cur = None /\ Resting.pc \notin Replacing
  BY DEF Resting, Knowledge, States, Replacing
<1>2. task' = [task EXCEPT ![t] = Resting]
  BY DEF Rests
<1> QED
  BY <1>1, <1>2, TaskMoves

\* The end of the extras may also wake the refresher.
LEMMA TailEndKeeps ==
  ASSUME ListenerAssumption,
         TaskInv, SameKeys, NEW t \in Task, TailEnds(t), task[t].cur = None
  PROVE  TaskInv'
<1>1. CASE startLock # t
  <2>1. Goes(t, "compare") /\ startLock' = startLock
    BY <1>1 DEF TailEnds
  <2>2. startLock' \in Task \cup {None}
    BY <2>1 DEF TaskInv, TaskTypes
  <2> QED
    BY <2>1, <2>2, TaskGoes DEF States, Replacing
<1>2. CASE startLock = t
  <2>1. /\ startLock' = None
        /\ task' = [task EXCEPT ![t] = Resting,
             ![Refresher].pc = IF @ = "off" \/ t = Refresher THEN "idle" ELSE @]
    BY <1>2 DEF TailEnds
  <2>2. Refresher \in Task
    BY DEF Task
  <2>3. /\ Resting \in Knowledge /\ Resting.cur = None /\ Resting.pc = "idle"
    BY DEF Resting, Knowledge, States
  <2>4. /\ task' \in [Task -> Knowledge]
        /\ \A u \in Task :
             /\ task'[u].cur = task[u].cur
             /\ task'[u].pc \in {task[u].pc, "idle"}
             /\ task'[u].cur # None => task'[u].pc = task[u].pc
             /\ u = t => task'[u].pc = "idle"
    <3> DEFINE one == [task EXCEPT ![t] = Resting]
               pc  == IF one[Refresher].pc = "off" \/ t = Refresher THEN "idle"
                      ELSE one[Refresher].pc
    <3>1. /\ one \in [Task -> Knowledge]
          /\ one[t] = Resting
          /\ \A u \in Task : u # t => one[u] = task[u]
      BY <2>3 DEF TaskInv, TaskTypes
    <3>2. task' = [one EXCEPT ![Refresher].pc = pc]
      BY <2>1
    <3>3. pc \in States /\ pc \in {one[Refresher].pc, "idle"}
          /\ (t = Refresher => pc = "idle")
          /\ (one[Refresher].pc # "off" => pc = one[Refresher].pc \/ t = Refresher)
      BY <2>2, <3>1 DEF Knowledge, States
    <3> HIDE DEF one, pc
    <3>4. /\ task' \in [Task -> Knowledge]
          /\ \A u \in Task : task'[u].cur = one[u].cur
          /\ \A u \in Task : u # Refresher => task'[u].pc = one[u].pc
          /\ task'[Refresher].pc = pc
      BY <2>2, <3>1, <3>2, <3>3 DEF Knowledge
    <3>5. task[Refresher].cur # None => task[Refresher].pc # "off"
      BY <2>2 DEF TaskInv, OneBinder
    <3> QED
      BY <2>2, <2>3, <3>1, <3>3, <3>4, <3>5
  <2>5. \A u \in Task : task[u].pc \in Replacing => u = t
    BY <1>2 DEF TaskInv, Locked
  <2>6. Locked'
    BY <2>4, <2>5 DEF Locked, Replacing
  <2>7. Keys' /\ OneBinder' /\ TaskTypes'
    BY <2>1, <2>4 DEF TaskInv, Keys, SameKeys, OneBinder, TaskTypes
  <2> QED
    BY <2>6, <2>7 DEF TaskInv
<1> QED
  BY <1>1, <1>2

\* A primary address is bound.
LEMMA OpenTypes ==
  ASSUME SocketTypes, NEW a \in Primary,
         Open(a) \/ UNCHANGED <<sock, bound>>, draining' = draining,
         primary' \in BOOLEAN, primaryLan' \in BOOLEAN
  PROVE  SocketTypes'
BY DEF Open, SocketTypes, Listening

-----------------------------------------------------------------------------
(* The steps of the sockets.                                               *)

LEMMA SocketSteps ==
  ASSUME ListenerAssumption,
         IInv, SocketStep
  PROVE  IInv'
<1> USE DEF IInv
<1>1. ASSUME NEW a \in Primary, Close(a)
      PROVE  IInv'
  <2>1. TaskInv'
    BY <1>1, ExtraUnchanged, TasksRest DEF Close, TaskInv
  <2>2. /\ sock' \in [Primary -> Listening \cup {"none"}]
        /\ bound' \subseteq Primary \cup Tail
        /\ primary' \in BOOLEAN /\ primaryLan' \in BOOLEAN
    BY <1>1 DEF Close, SocketTypes
  <2>3. CASE UNCHANGED <<draining, count>>
    BY <1>1, <2>1, <2>2, <2>3 DEF Close, SocketTypes, WorldTypes, Counted
  <2>4. CASE /\ count.long < MaxLong
             /\ count' = [count EXCEPT !.long = @ + 1]
             /\ draining' = [draining EXCEPT ![a] = @ + 1]
    <3>1. /\ count.long \in 0..MaxLong /\ MaxLong \in Nat
          /\ draining[a] \in 0..MaxLong /\ draining[a] <= count.long
      BY DEF ListenerAssumption, SocketTypes, WorldTypes, Counted
    <3>2. /\ count.long + 1 \in 0..MaxLong /\ draining[a] + 1 \in 0..MaxLong
          /\ draining[a] + 1 <= count.long + 1
      BY <2>4, <3>1
    <3>3. /\ count' \in [changes : 0..MaxChanges, events : 0..MaxEvents, long : 0..MaxLong]
          /\ count'.long = count.long + 1
      BY <2>4, <3>2 DEF WorldTypes
    <3>4. /\ draining' \in [Primary -> 0..MaxLong]
          /\ draining'[a] = draining[a] + 1
          /\ \A b \in Primary : b # a => draining'[b] = draining[b]
      BY <2>4, <3>2 DEF SocketTypes
    <3>5. \A b \in Primary : draining[b] <= count.long => draining[b] <= count.long + 1
      BY <3>1, <3>4 DEF SocketTypes
    <3>6. Counted'
      BY <3>2, <3>3, <3>4, <3>5 DEF Counted
    <3> QED
      BY <1>1, <2>1, <2>2, <3>3, <3>4, <3>6 DEF Close, SocketTypes, WorldTypes
  <2> QED
    BY <1>1, <2>3, <2>4 DEF Close
<1>2. ASSUME NEW a \in Primary, Drained(a)
      PROVE  IInv'
  <2>1. TaskInv'
    BY <1>2, ExtraUnchanged, TasksRest DEF Drained, TaskInv
  <2>2. draining[a] \in Nat /\ draining[a] > 0 /\ draining[a] <= MaxLong
        /\ MaxLong \in Nat /\ count.long \in Nat
    BY <1>2 DEF ListenerAssumption, Drained, SocketTypes, WorldTypes
  <2>3. draining[a] - 1 \in 0..MaxLong /\ draining[a] - 1 <= draining[a]
    BY <2>2
  <2>4. /\ draining' \in [Primary -> 0..MaxLong]
        /\ draining'[a] = draining[a] - 1
        /\ \A b \in Primary : b # a => draining'[b] = draining[b]
    BY <1>2, <2>3 DEF Drained, SocketTypes
  <2>5. Counted'
    <3>1. draining[a] <= count.long /\ count' = count
      BY <1>2 DEF Counted, Drained, world
    <3>2. draining'[a] <= count.long
      BY <2>2, <2>4, <3>1
    <3> QED
      BY <2>4, <3>1, <3>2 DEF Counted
  <2> QED
    BY <1>2, <2>1, <2>4, <2>5 DEF Drained, SocketTypes, WorldTypes, world
<1>3. ASSUME NEW a \in Tail, CloseExtra(a)
      PROVE  IInv'
  <2>1. extra[a] \in ExtraStates \ Reservations
    BY <1>3 DEF CloseExtra, Reservations, ExtraStates
  <2>2. SameKeys
    BY <1>3, <2>1 DEF CloseExtra, TaskInv, Keys, SameKeys, Reservations, ExtraStates
  <2>3. TaskInv'
    BY <1>3, <2>2, TasksRest DEF CloseExtra
  <2>4. /\ count' \in [changes : 0..MaxChanges, events : 0..MaxEvents, long : 0..MaxLong]
        /\ count'.long \in {count.long, count.long + 1} /\ count.long \in Nat
    BY <1>3 DEF ListenerAssumption, CloseExtra, WorldTypes
  <2>5. Counted'
    BY <1>3, <2>4 DEF ListenerAssumption, Counted, CloseExtra, SocketTypes
  <2> QED
    BY <1>3, <2>3, <2>4, <2>5 DEF CloseExtra, SocketTypes, WorldTypes
<1>4. ASSUME NEW a \in Tail, DrainedExtra(a)
      PROVE  IInv'
  <2>1. SameKeys
    BY <1>4 DEF DrainedExtra, TaskInv, Keys, SameKeys, Reservations, ExtraStates
  <2>2. TaskInv'
    BY <1>4, <2>1, TasksRest DEF DrainedExtra
  <2> QED
    BY <1>4, <2>2 DEF DrainedExtra, SocketTypes, WorldTypes, Counted, world
<1> QED
  BY <1>1, <1>2, <1>3, <1>4 DEF SocketStep

-----------------------------------------------------------------------------
(* The steps of the tasks.                                                 *)

\* A step that leaves the primary listeners and the world alone.
LEMMA Elsewhere ==
  ASSUME IInv, TaskInv', UNCHANGED <<sock, draining, primary, primaryLan, world>>,
         bound' \subseteq Primary \cup Tail
  PROVE  IInv'
BY DEF IInv, SocketTypes, WorldTypes, Counted, world

LEMMA TaskSteps ==
  ASSUME ListenerAssumption,
         IInv, NEW t \in Task, TaskStep(t)
  PROVE  IInv'
<1> USE DEF IInv
<1>1. /\ task[t] \in Knowledge /\ startLock \in Task \cup {None}
      /\ task[t].pc # "extras" => task[t].cur = None
  BY DEF TaskInv, TaskTypes, OneBinder
<1>2. extra' = extra => SameKeys
  BY ExtraUnchanged DEF TaskInv
<1>3. \A S : CancelExtras(S) => SameKeys
  BY CancelKeepsKeys DEF TaskInv
<1>4. bound \subseteq Primary \cup Tail
  BY DEF SocketTypes
<1>5. CASE TailCheck(t)
  <2>1. SameKeys
    BY <1>2, <1>3, <1>5 DEF TailCheck
  <2>2. task[t].cur = None
    BY <1>1, <1>5 DEF TailCheck
  <2>3. TailEnds(t) \/ (Goes(t, "detect") /\ startLock' = startLock)
    BY <1>5 DEF TailCheck
  <2>4. TaskInv'
    BY <1>1, <2>1, <2>2, <2>3, TailEndKeeps, TaskGoes DEF States, Replacing
  <2> QED
    BY <1>4, <1>5, <2>4, Elsewhere DEF TailCheck
<1>6. CASE Detect(t)
  <2>1. SameKeys
    BY <1>3, <1>6 DEF Detect
  <2> DEFINE r == [task[t] EXCEPT !.pc = "extras", !.todo = tailnet]
  <2>2. r \in Knowledge /\ r.cur = None /\ r.pc = "extras" /\ task[t].cur = None
    BY <1>1, <1>6 DEF Detect, Knowledge, States, WorldTypes
  <2>3. task' = [task EXCEPT ![t] = r] /\ startLock' = startLock
    BY <1>6 DEF Detect
  <2> HIDE DEF r
  <2>4. TaskInv'
    BY <1>1, <2>1, <2>2, <2>3, TaskMoves DEF Replacing
  <2> QED
    BY <1>4, <1>6, <2>4, Elsewhere DEF Detect
<1>7. ASSUME NEW a \in Tail, Reserve(t, a)
      PROVE  IInv'
  <2>1. /\ task[t].pc = "extras" /\ task[t].cur = None /\ startLock' = startLock
    BY <1>7 DEF Reserve
  <2>2. CASE extra[a] # "none"
    <3> DEFINE r == [task[t] EXCEPT !.todo = @ \ {a}]
    <3>1. r \in Knowledge /\ r.cur = None /\ r.pc = "extras"
      BY <1>1, <2>1 DEF Knowledge
    <3>2. task' = [task EXCEPT ![t] = r] /\ extra' = extra
      BY <1>7, <2>2 DEF Reserve
    <3> HIDE DEF r
    <3>3. TaskInv'
      BY <1>1, <1>2, <2>1, <3>1, <3>2, TaskMoves DEF Replacing
    <3> QED
      BY <1>4, <1>7, <3>3, Elsewhere DEF Reserve
  <2>3. CASE extra[a] = "none"
    <3>1. /\ extra' = [extra EXCEPT ![a] = "reserved"]
          /\ task' = [task EXCEPT ![t].todo = @ \ {a}, ![t].cur = a]
      BY <1>7, <2>3 DEF Reserve
    <3>2. \A u \in Task : task[u].cur # a
      BY <2>3 DEF TaskInv, Keys, Reservations
    <3>3. /\ task' \in [Task -> Knowledge]
          /\ \A u \in Task : u # t => task'[u] = task[u]
          /\ task'[t].cur = a /\ task'[t].pc = "extras"
      BY <1>1, <2>1, <3>1 DEF TaskInv, TaskTypes, Knowledge
    <3>4. Keys'
      BY <2>1, <2>3, <3>1, <3>2, <3>3, NobodyIsNone
      DEF TaskInv, Keys, Reservations, ExtraStates
    <3>5. OneBinder'
      BY <3>2, <3>3 DEF TaskInv, OneBinder
    <3>6. Locked' /\ TaskTypes'
      BY <2>1, <3>3 DEF TaskInv, TaskTypes, Locked, Replacing
    <3> QED
      BY <1>4, <1>7, <3>4, <3>5, <3>6, Elsewhere DEF Reserve, TaskInv
  <2> QED
    BY <2>2, <2>3
<1>8. CASE BindExtra(t)
  <2> DEFINE a == task[t].cur
  <2>1. /\ a \in Tail /\ task[t].pc = "extras" /\ startLock' = startLock
        /\ task' = [task EXCEPT ![t].cur = None]
        /\ \A u \in Task : task[u].cur = a => u = t
    BY <1>1, <1>8 DEF BindExtra, TaskInv, OneBinder, Knowledge
  <2>2. \E x \in ExtraStates \ Reservations : extra' = [extra EXCEPT ![a] = x]
    BY <1>8 DEF BindExtra, ExtraStates, Reservations
  <2>3. bound' \subseteq Primary \cup Tail
    BY <1>4, <1>8, <2>1 DEF BindExtra
  <2>4. /\ task' \in [Task -> Knowledge]
        /\ \A u \in Task : u # t => task'[u] = task[u]
        /\ task'[t].cur = None /\ task'[t].pc = "extras"
    BY <1>1, <2>1 DEF TaskInv, TaskTypes, Knowledge
  <2>5. Keys'
    <3>1. /\ extra' \in [Tail -> ExtraStates]
          /\ extra'[a] \notin Reservations
          /\ \A b \in Tail : b # a => extra'[b] = extra[b]
      BY <2>1, <2>2 DEF TaskInv, Keys
    <3>2. \A u \in Task : task'[u].cur # a
      BY <2>1, <2>4, NobodyIsNone
    <3>3. \A b \in Tail : b # a =>
            ((\E u \in Task : task'[u].cur = b) <=> \E u \in Task : task[u].cur = b)
      BY <2>1, <2>4, NobodyIsNone
    <3> QED
      BY <3>1, <3>2, <3>3 DEF TaskInv, Keys
  <2>6. OneBinder'
    BY <2>4 DEF TaskInv, OneBinder
  <2>7. Locked' /\ TaskTypes'
    BY <2>1, <2>4 DEF TaskInv, TaskTypes, Locked, Replacing
  <2> QED
    BY <1>8, <2>3, <2>5, <2>6, <2>7, Elsewhere DEF BindExtra, TaskInv
<1>9. CASE ExtrasDone(t)
  <2>1. task[t].cur = None /\ TailEnds(t) /\ extra' = extra /\ bound' = bound
        /\ UNCHANGED <<sock, draining, primary, primaryLan, world>>
    BY <1>9 DEF ExtrasDone, sockets
  <2>2. TaskInv'
    BY <1>2, <2>1, TailEndKeeps
  <2> QED
    BY <1>4, <2>1, <2>2, Elsewhere
<1>10. CASE Compare(t)
  <2>1. /\ task[t].cur = None /\ extra' = extra /\ bound' = bound /\ startLock' = startLock
        /\ UNCHANGED <<sock, draining, primary, primaryLan, world>>
    BY <1>1, <1>10 DEF Compare, sockets
  <2>2. CASE Rests(t)
    BY <1>1, <1>2, <1>4, <2>1, <2>2, TaskRests, Elsewhere
  <2>3. CASE lan # primaryLan
    <3> DEFINE pc == IF Running THEN "swap" ELSE "restart"
               r  == [task[t] EXCEPT !.want = lan, !.pc = pc]
    <3>1. r \in Knowledge /\ r.cur = None /\ r.pc \notin Replacing
      BY <1>1, <2>1 DEF Knowledge, States, Replacing, WorldTypes
    <3>2. task' = [task EXCEPT ![t] = r]
      BY <1>10, <2>3 DEF Compare
    <3> HIDE DEF r
    <3>3. TaskInv'
      BY <1>1, <1>2, <2>1, <3>1, <3>2, TaskMoves
    <3> QED
      BY <1>4, <2>1, <3>3, Elsewhere
  <2> QED
    BY <1>10, <2>2, <2>3 DEF Compare
<1>11. CASE Restart(t)
  <2>1. /\ task[t].cur = None /\ startLock = None /\ extra' = extra /\ bound' = bound
        /\ UNCHANGED <<sock, draining, primary, primaryLan, world>>
    BY <1>1, <1>11 DEF Restart, sockets
  <2>2. \/ Rests(t) /\ startLock' = startLock
        \/ Goes(t, "setting") /\ startLock' = t
    BY <1>11 DEF Restart
  <2>3. TaskInv'
    BY <1>1, <1>2, <2>1, <2>2, TaskGoes, TaskRests DEF States, Replacing
  <2> QED
    BY <1>4, <2>1, <2>3, Elsewhere
<1>17. CASE ReadSetting(t)
  <2>1. /\ task[t].cur = None /\ startLock = t /\ startLock' = startLock
        /\ extra' = extra /\ bound' = bound
        /\ UNCHANGED <<sock, draining, primary, primaryLan, world>>
    BY <1>1, <1>17 DEF ReadSetting, sockets, TaskInv, Locked, Replacing
  <2> DEFINE r == [task[t] EXCEPT !.pc = "start", !.want = lan, !.starts = TRUE]
  <2>2. r \in Knowledge /\ r.cur = None /\ task' = [task EXCEPT ![t] = r]
    BY <1>1, <1>17, <2>1 DEF ReadSetting, Knowledge, States, Replacing, WorldTypes
  <2> HIDE DEF r
  <2>3. TaskInv'
    BY <1>1, <1>2, <2>1, <2>2, TaskMoves
  <2> QED
    BY <1>4, <2>1, <2>3, Elsewhere
<1>12. CASE Swap(t)
  <2>1. task[t].cur = None /\ startLock = None
        /\ UNCHANGED <<draining, bound, primaryLan, world>>
    BY <1>1, <1>12 DEF Swap
  <2>2. CASE Rests(t) /\ UNCHANGED <<sock, extra, primary, startLock>>
    BY <1>1, <1>2, <1>4, <2>1, <2>2, TaskRests, Elsewhere
  <2>3. CASE /\ sock' = [a \in Primary |-> IF primary THEN Revoked(sock[a]) ELSE sock[a]]
             /\ CancelExtras(Tail)
             /\ primary' = FALSE
             /\ startLock' = t
             /\ Goes(t, "waiting")
    <3>1. \A x \in Listening \cup {"none"} : Revoked(x) \in Listening \cup {"none"}
      BY DEF Revoked, Listening
    <3>2. SocketTypes'
      BY <2>1, <2>3, <3>1 DEF SocketTypes
    <3>3. TaskInv'
      BY <1>3, <2>1, <2>3, TaskGoes DEF States, Replacing
    <3> QED
      BY <2>1, <3>2, <3>3 DEF WorldTypes, Counted, world
  <2> QED
    BY <1>12, <2>2, <2>3 DEF Swap
<1>13. CASE WaitEnds(t)
  <2>1. /\ task[t].cur = None /\ startLock = t /\ startLock' = startLock
        /\ Goes(t, "bind") /\ extra' = extra /\ bound' = bound
        /\ UNCHANGED <<sock, draining, primary, primaryLan, world>>
    BY <1>1, <1>13 DEF WaitEnds, sockets, TaskInv, Locked, Replacing
  <2>2. TaskInv'
    BY <1>1, <1>2, <2>1, TaskGoes DEF States, Replacing
  <2> QED
    BY <1>4, <2>1, <2>2, Elsewhere
\* A step of the holder of start_lock that opens a primary address or none.
<1>14. ASSUME task[t].pc \in Replacing, TaskInv', NEW a \in Primary,
              Open(a) \/ UNCHANGED <<sock, bound>>,
              primary' \in BOOLEAN, primaryLan' \in BOOLEAN,
              UNCHANGED <<draining, world>>
       PROVE  IInv'
  <2>1. SocketTypes'
    BY <1>14, OpenTypes
  <2> QED
    BY <1>14, <2>1 DEF WorldTypes, Counted, world
<1>18. task[t].pc \in Replacing => task[t].cur = None /\ startLock = t
  BY <1>1 DEF TaskInv, Locked, Replacing
<1>19. primary \in BOOLEAN /\ primaryLan \in BOOLEAN
  BY DEF SocketTypes
<1>20. "any" \in Primary /\ "v4" \in Primary /\ (V6 => "v6" \in Primary)
  BY DEF Primary, Loopback
<1>15. CASE BindPrimary(t)
  <2> DEFINE mode == task[t].want
             a == IF mode THEN "any" ELSE "v4"
  <2>1. /\ task[t].pc \in {"start", "bind", "restore"} /\ task[t].pc \in Replacing
        /\ extra' = extra /\ mode \in BOOLEAN /\ a \in Primary
        /\ UNCHANGED <<draining, primary, primaryLan, world>>
    BY <1>1, <1>15, <1>20 DEF BindPrimary, Knowledge, Replacing
  <2>2. CASE /\ Open(a) /\ startLock' = startLock
             /\ Goes(t, IF mode THEN "bound" ELSE "second")
    <3>1. TaskInv'
      BY <1>1, <1>2, <1>18, <2>1, <2>2, TaskGoes DEF States, Replacing
    <3> QED
      BY <1>14, <1>19, <2>1, <2>2, <3>1
  <2>3. CASE Unbound(t) /\ UNCHANGED <<sock, bound>>
    <3>1. ASSUME Released(t)
          PROVE  TaskInv'
      BY <1>2, <1>18, <2>1, <3>1, TaskRests DEF Released
    <3>2. ASSUME task' = [task EXCEPT ![t].pc = "restore", ![t].want = ~@],
                 startLock' = startLock
          PROVE  TaskInv'
      <4> DEFINE r == [task[t] EXCEPT !.pc = "restore", !.want = ~@]
      <4>1. r \in Knowledge /\ r.cur = None /\ task' = [task EXCEPT ![t] = r]
        BY <1>1, <1>18, <2>1, <3>2 DEF Knowledge, States, Replacing
      <4> HIDE DEF r
      <4> QED
        BY <1>1, <1>2, <1>18, <2>1, <3>2, <4>1, TaskMoves
    <3>3. TaskInv'
      BY <2>3, <3>1, <3>2 DEF Unbound
    <3> QED
      BY <1>14, <1>19, <2>1, <2>3, <3>3
  <2> QED
    BY <1>15, <2>2, <2>3 DEF BindPrimary
<1>16. CASE BindSecond(t)
  <2>1. /\ task[t].pc \in Replacing /\ startLock' = startLock /\ extra' = extra
        /\ Goes(t, "bound") /\ UNCHANGED <<draining, primary, primaryLan, world>>
    BY <1>16 DEF BindSecond, Replacing
  <2>2. TaskInv'
    BY <1>1, <1>2, <1>18, <2>1, TaskGoes DEF States, Replacing
  <2>3. \E a \in Primary : Open(a) \/ UNCHANGED <<sock, bound>>
    BY <1>16, <1>20 DEF BindSecond
  <2> QED
    BY <1>14, <1>19, <2>1, <2>2, <2>3
<1>21. CASE SetPrimary(t)
  <2>1. /\ task[t].pc \in Replacing /\ extra' = extra
        /\ primary' \in BOOLEAN /\ primaryLan' \in BOOLEAN
        /\ UNCHANGED <<sock, bound, draining, world>>
    BY <1>1, <1>21 DEF SetPrimary, Replacing, Knowledge, sockets
  <2>2. Released(t) \/ (Goes(t, "tail") /\ startLock' = startLock)
    BY <1>21 DEF SetPrimary
  <2>3. TaskInv'
    BY <1>1, <1>2, <1>18, <2>1, <2>2, TaskGoes, TaskRests DEF Released, States, Replacing
  <2> QED
    BY <1>14, <1>20, <2>1, <2>3
<1> QED
  BY <1>5, <1>6, <1>7, <1>8, <1>9, <1>10, <1>11, <1>12, <1>13, <1>15, <1>16, <1>17,
     <1>21 DEF TaskStep

-----------------------------------------------------------------------------
(* The world, and the theorem. *)

LEMMA WorldSteps ==
  ASSUME ListenerAssumption,
         IInv,
         \/ \E c \in Caller : ChangeSetting(c)
         \/ Wake \/ TailnetChanges \/ ForeignBinds \/ ForeignLeaves \/ Shutdown
  PROVE  IInv'
<1> USE DEF IInv
<1>1. /\ task \in [Task -> Knowledge] /\ startLock \in Task \cup {None}
      /\ \A t \in Task : task[t].pc = "idle" => task[t].cur = None
  BY DEF TaskInv, TaskTypes, OneBinder
<1>2. extra' = extra => SameKeys
  BY ExtraUnchanged DEF TaskInv
<1>3. /\ MaxChanges \in Nat /\ MaxEvents \in Nat
      /\ count.changes \in 0..MaxChanges /\ count.events \in 0..MaxEvents
      /\ count.long \in 0..MaxLong
  BY DEF ListenerAssumption, WorldTypes
<1>4. Event => /\ count' \in [changes : 0..MaxChanges, events : 0..MaxEvents, long : 0..MaxLong]
               /\ count'.long = count.long
  BY <1>3 DEF Event, WorldTypes
<1>5. ASSUME UNCHANGED <<sockets, primary, primaryLan>>, TaskInv', WorldTypes',
             count'.long = count.long
      PROVE  IInv'
  BY <1>5 DEF SocketTypes, Counted, sockets
<1>6. ASSUME NEW c \in Caller, ChangeSetting(c)
      PROVE  IInv'
  <2>1. c \in Task /\ Goes(c, "compare") /\ task[c].cur = None
        /\ UNCHANGED <<sockets, primary, primaryLan, startLock, tailnet, foreign, shutdown>>
    BY <1>1, <1>6 DEF ChangeSetting, Task
  <2>2. TaskInv'
    BY <1>1, <1>2, <2>1, TaskGoes DEF States, Replacing, sockets
  <2>3. /\ lan' \in BOOLEAN
        /\ count' = [count EXCEPT !.changes = @ + 1] /\ count.changes < MaxChanges
    BY <1>6 DEF ChangeSetting, WorldTypes
  <2>4. /\ count' \in [changes : 0..MaxChanges, events : 0..MaxEvents, long : 0..MaxLong]
        /\ count'.long = count.long
    BY <1>3, <2>3 DEF WorldTypes
  <2> QED
    BY <1>5, <2>1, <2>2, <2>3, <2>4 DEF WorldTypes
<1>7. CASE Wake
  <2>1. /\ Refresher \in Task /\ task[Refresher].cur = None
        /\ UNCHANGED <<sockets, primary, primaryLan, startLock, world>>
        /\ Goes(Refresher, "ended") \/ Goes(Refresher, "tail")
    BY <1>1, <1>7 DEF Wake, Task
  <2>2. TaskInv'
    BY <1>1, <1>2, <2>1, TaskGoes DEF States, Replacing, sockets
  <2> QED
    BY <1>5, <2>1, <2>2 DEF WorldTypes, world
<1>8. UNCHANGED <<extra, task, startLock>> => TaskInv'
  BY <1>2, TasksRest
<1>9. CASE TailnetChanges
  BY <1>4, <1>5, <1>8, <1>9 DEF TailnetChanges, WorldTypes, sockets
<1>10. CASE ForeignBinds
  <2>1. /\ Event /\ foreign' \in {"none", "interface", "host"}
        /\ UNCHANGED <<lan, sockets, primary, primaryLan, startLock, task, tailnet, shutdown>>
    BY <1>10 DEF ForeignBinds
  <2> QED
    BY <1>4, <1>5, <1>8, <2>1 DEF WorldTypes, sockets
<1>11. CASE ForeignLeaves
  BY <1>5, <1>8, <1>11 DEF ForeignLeaves, WorldTypes, sockets
<1>12. CASE Shutdown
  BY <1>5, <1>8, <1>12 DEF Shutdown, WorldTypes, sockets
<1> QED
  BY <1>6, <1>7, <1>9, <1>10, <1>11, <1>12

LEMMA InitIInv == ListenerAssumption /\ Init => IInv
<1> SUFFICES ASSUME ListenerAssumption, Init
             PROVE  IInv
  OBVIOUS
<1>1. SocketTypes
  <2>1. /\ sock = [a \in Primary |-> "none"] /\ draining = [a \in Primary |-> 0]
        /\ bound = {} /\ primary = FALSE /\ primaryLan = FALSE
    BY DEF Init
  <2>2. 0 \in 0..MaxLong
    BY DEF ListenerAssumption
  <2> QED
    BY <2>1, <2>2 DEF SocketTypes
<1>2. WorldTypes /\ Counted
  <2>1. /\ lan \in BOOLEAN /\ tailnet = {} /\ foreign = "none" /\ shutdown = FALSE
        /\ count = [changes |-> 0, events |-> 0, long |-> 0]
        /\ draining = [a \in Primary |-> 0]
    BY DEF Init
  <2>2. 0 \in 0..MaxLong /\ 0 \in 0..MaxChanges /\ 0 \in 0..MaxEvents
    BY DEF ListenerAssumption
  <2> QED
    <3>1. /\ count \in [changes : 0..MaxChanges, events : 0..MaxEvents, long : 0..MaxLong]
          /\ \A a \in Primary : draining[a] <= count.long
      BY <2>1, <2>2
    <3>2. lan \in BOOLEAN /\ shutdown \in BOOLEAN
      BY <2>1
    <3>3. tailnet \subseteq Tail /\ foreign \in {"none", "interface", "host"}
      BY <2>1
    <3> QED
      BY <3>1, <3>2, <3>3 DEF WorldTypes, Counted
<1> USE DEF Init
<1>3. /\ task \in [Task -> Knowledge]
      /\ \A t \in Task : task[t].cur = None /\ task[t].pc \notin Replacing
  BY DEF Resting, Knowledge, States, Replacing
<1>4. TaskInv
  BY <1>3, NobodyIsNone
  DEF TaskInv, TaskTypes, Locked, Keys, OneBinder, Reservations, ExtraStates
<1> QED
  BY <1>1, <1>2, <1>4 DEF IInv

LEMMA IInvStep == ListenerAssumption /\ IInv /\ [Next]_vars => IInv'
<1> SUFFICES ASSUME ListenerAssumption, IInv, [Next]_vars
             PROVE  IInv'
  OBVIOUS
<1>1. CASE UNCHANGED vars
  <2>1. TaskInv'
    BY <1>1, ExtraUnchanged, TasksRest DEF vars, sockets, IInv, TaskInv
  <2> QED
    BY <1>1, <2>1, Elsewhere DEF vars, sockets, IInv, SocketTypes
<1>2. CASE Next
  BY <1>2, SocketSteps, TaskSteps, WorldSteps DEF Next
<1> QED
  BY <1>1, <1>2

LEMMA IInvTypes == IInv => TypeOK
BY DEF IInv, SocketTypes, WorldTypes, TaskInv, TaskTypes, Locked, Keys, TypeOK,
       Knowledge, States, Reservations, ExtraStates

(* Always the state is of its types, only the task that holds start_lock is *)
(* in the middle of replacing the primary listeners, and an address's key   *)
(* is in extra_listeners without a listener exactly while a task is about   *)
(* to bind it: no interleaving of refreshes leaves a key behind that would  *)
(* keep the address from ever being served (src/remote.rs).                 *)
THEOREM TypeCorrect == ListenerAssumption => (Spec => []TypeOK)
<1> SUFFICES ASSUME ListenerAssumption
             PROVE  Spec => []TypeOK
  OBVIOUS
<1>1. Init => IInv
  BY InitIInv
<1>2. IInv /\ [Next]_vars => IInv'
  BY IInvStep
<1>3. IInv => TypeOK
  BY IInvTypes
<1> QED
  BY <1>1, <1>2, <1>3, PTL DEF Spec
=============================================================================
