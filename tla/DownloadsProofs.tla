--------------------------- MODULE DownloadsProofs ---------------------------
(***************************************************************************)
(* Proofs about Downloads, for every set of sources and tasks, any number  *)
(* of commands and restarts, and any numbers of permits and retries.       *)
(*                                                                         *)
(* The inductive invariant says which steps of a run may overlap what: a   *)
(* source has one busy task, that task owns the token of the source from   *)
(* the step that publishes it to the one that withdraws it, a child runs   *)
(* only in between, and a storage limit is on record only while the run it *)
(* stopped has yet to settle.                                              *)
(***************************************************************************)
EXTENDS Downloads, TLAPS

\* The stages in which the token of a run is in source_cancellations
Published == Stages \ {"free", "registered", "left"}

\* What is persisted is a status.
Typing == TypeOK /\ \A t \in Task : stage[t] = "settled" => outcome[t] \in Statuses

OneRun == \A t, u \in Task : Busy(t) /\ Busy(u) /\ of[t] = of[u] => t = u

Registered ==
  \A s \in Source : s \in runningSources <=> \E t \in Task : Busy(t) /\ of[t] = s

TokenIsOwn == \A t \in Task : stage[t] \in Published => cancellations[of[t]] = t

ChildIsSupervised ==
  \A t \in Task : child[t] = "running" => stage[t] \in {"spawned", "registered_child", "supervising"}

LimitIsOfRun ==
  \A s \in storagePauses :
    \E t \in Task : of[t] = s /\ stage[t] \in {"supervising", "reaped", "settling"}

RunInv == OneRun /\ Registered /\ TokenIsOwn

IInv == Typing /\ RunInv /\ ChildIsSupervised /\ LimitIsOfRun

-----------------------------------------------------------------------------
(* Types.                                                                  *)

LEMMA AnySourceIsSource == AnySource \in Source
BY ConstantsAssumption DEF ConstantsAssumption, AnySource

\* An update stores a status in some rows.
LEMMA MarkedType ==
  ASSUME row \in [Source -> Statuses \cup {"absent"}], NEW S, NEW status \in Statuses
  PROVE  Marked(S, status) \in [Source -> Statuses \cup {"absent"}]
BY DEF Marked

LEMMA SetStatusType ==
  ASSUME row \in [Source -> Statuses \cup {"absent"}], NEW s, NEW status \in Statuses,
         SetStatus(s, status)
  PROVE  row' \in [Source -> Statuses \cup {"absent"}]
BY MarkedType DEF SetStatus

LEMMA TypeInit == Init => Typing
<1> SUFFICES ASSUME Init PROVE Typing
  OBVIOUS
<1> USE DEF Init
<1>1. /\ row \in [Source -> Statuses \cup {"absent"}] /\ attempts \in [Source -> Nat]
      /\ queued \in [Source -> Nat] /\ timers \in [Source -> Nat]
      /\ stage \in [Task -> Stages] /\ of \in [Task -> Source]
      /\ child \in [Task -> {"none", "running", "ok", "failed"}] /\ tries \in [Task -> Nat]
      /\ outcome \in [Task -> {"none", "ok", "failed", "interrupted"} \cup Statuses]
      /\ cancellations \in [Source -> Task \cup {NoTask}]
      /\ activeProcesses \in [Source -> Task \cup {NoTask}]
      /\ deleting \in [Source -> {"no", "waiting", "quiet", "deleted"}]
  BY AnySourceIsSource DEF Stages
<1>2. \A t \in Task : stage[t] # "settled"
  OBVIOUS
<1> QED
  BY <1>1, <1>2, Zenon DEF Typing, TypeOK

LEMMA RestartTypes == Typing /\ Restart => Typing'
<1> SUFFICES ASSUME Typing, Restart PROVE Typing'
  OBVIOUS
<1> USE DEF Restart
<1>1. /\ row' \in [Source -> Statuses \cup {"absent"}] /\ attempts' \in [Source -> Nat]
      /\ queued' \in [Source -> Nat] /\ timers' \in [Source -> Nat]
      /\ stage' \in [Task -> Stages] /\ of' \in [Task -> Source]
      /\ child' \in [Task -> {"none", "running", "ok", "failed"}] /\ tries' \in [Task -> Nat]
      /\ outcome' \in [Task -> {"none", "ok", "failed", "interrupted"} \cup Statuses]
      /\ cancellations' \in [Source -> Task \cup {NoTask}]
      /\ activeProcesses' \in [Source -> Task \cup {NoTask}]
      /\ deleting' \in [Source -> {"no", "waiting", "quiet", "deleted"}]
  BY AnySourceIsSource DEF Typing, TypeOK, Stages, Statuses
<1>2. \A t \in Task : stage'[t] # "settled"
  OBVIOUS
<1>3. commands' \in Nat /\ restarts' \in Nat /\ orphans' \subseteq Source
  BY DEF Typing, TypeOK
<1> QED
  BY <1>1, <1>2, <1>3, Zenon DEF Typing, TypeOK, ReleaseControl

LEMMA TypeStep ==
  ASSUME Typing, Next
  PROVE  Typing'
<1> USE DEF Typing, TypeOK, Stages, Statuses, GoTo, rowVars, spawnVars, taskVars,
          localVars, sharedVars, controlVars, clientVars, lifeVars
<1>1. ASSUME NEW t \in Task, RunStep(t) PROVE Typing'
  <2>1. CASE PublishToken(t)
    BY <2>1 DEF PublishToken
  <2>2. CASE CheckPaused(t)
    BY <2>2 DEF CheckPaused
  <2>3. CASE RecordPaused(t)
    BY <2>3, SetStatusType DEF RecordPaused
  <2>4. CASE Refuse(t)
    BY <2>4, SetStatusType DEF Refuse
  <2>5. CASE Admit(t)
    BY <2>5 DEF Admit, Exists
  <2>6. CASE CoolDown(t)
    BY <2>6 DEF CoolDown
  <2>7. CASE Claim(t)
    BY <2>7, SetStatusType DEF Claim
  <2>8. CASE AcquirePermit(t)
    BY <2>8 DEF AcquirePermit
  <2>9. CASE GiveUpPermit(t)
    BY <2>9 DEF GiveUpPermit
  <2>10. CASE ReadSource(t)
    BY <2>10 DEF ReadSource, Exists
  <2>11. CASE SpawnFails(t)
    BY <2>11, SetStatusType DEF SpawnFails
  <2>12. CASE SpawnChild(t)
    BY <2>12 DEF SpawnChild
  <2>13. CASE RegisterChild(t)
    BY <2>13 DEF RegisterChild
  <2>14. CASE CheckPausedAfterSpawn(t)
    BY <2>14 DEF CheckPausedAfterSpawn
  <2>15. CASE Reap(t)
    BY <2>15 DEF Reap
  <2>16. CASE UnregisterChild(t)
    BY <2>16 DEF UnregisterChild
  <2>17. CASE Settle(t)
    BY <2>17 DEF Settle, Verdicts
  <2>18. CASE Persist(t)
    BY <2>18, MarkedType DEF Persist, Exists
  <2>19. CASE WithdrawToken(t)
    BY <2>19 DEF WithdrawToken
  <2>20. CASE Unregister(t)
    BY <2>20, AnySourceIsSource DEF Unregister
  <2> QED
    BY <1>1, <2>1, <2>2, <2>3, <2>4, <2>5, <2>6, <2>7, <2>8, <2>9, <2>10, <2>11, <2>12, <2>13, <2>14, <2>15, <2>16, <2>17, <2>18, <2>19, <2>20 DEF RunStep
<1>2. ASSUME NEW s \in Source, BeginRun(s) PROVE Typing'
  BY <1>2 DEF BeginRun, DropRun, Register
<1>3. ASSUME NEW s \in Source, TimerFires(s) PROVE Typing'
  BY <1>3, MarkedType DEF TimerFires, Spawn
<1>4. ASSUME NEW s \in Source, DeleteStep(s) PROVE Typing'
  BY <1>4 DEF DeleteStep, PollDelete, DeleteRow, TokensOf
<1>5. CASE ControlStep
  <2>1. CASE PauseRows
    BY <2>1, MarkedType DEF PauseRows
  <2>2. CASE PauseActive
    BY <2>2 DEF PauseActive, Killed, TokensOf
  <2>3. CASE PauseOthers
    BY <2>3, MarkedType DEF PauseOthers, TokensOf, ReleaseControl
  <2>4. CASE PauseSourceRow
    BY <2>4, MarkedType DEF PauseSourceRow, ReleaseControl
  <2>5. CASE ResumeRows
    BY <2>5, MarkedType DEF ResumeRows, ReleaseControl
  <2>6. CASE ResumeRuns
    <3>1. /\ queued' \in [Source -> Nat]
          /\ pausedSourceIds' = {} /\ subject' = {} /\ downloadsPaused' = FALSE /\ control' = "free"
      BY <2>6 DEF ResumeRuns, Spawn, ReleaseControl
    <3> QED
      BY <2>6, <3>1 DEF ResumeRuns
  <2>7. CASE ResumeSourceRun
    BY <2>7 DEF ResumeSourceRun, Spawn, ReleaseControl
  <2> QED
    BY <1>5, <2>1, <2>2, <2>3, <2>4, <2>5, <2>6, <2>7 DEF ControlStep
<1>6. CASE Client
  <2> USE DEF Command, TakeControl, Spawn, TokensOf, Exists
  <2>1. CASE Pause
    BY <2>1 DEF Pause
  <2>2. CASE Resume
    BY <2>2 DEF Resume
  <2>3. ASSUME NEW s \in Source, PauseSource(s) PROVE Typing'
    BY <2>3 DEF PauseSource, Killed
  <2>4. ASSUME NEW s \in Source, ResumeSource(s) PROVE Typing'
    BY <2>4, MarkedType DEF ResumeSource
  <2>5. ASSUME NEW s \in Source, Delete(s) PROVE Typing'
    BY <2>5 DEF Delete
  <2>6. ASSUME NEW S \in SUBSET Source, Create(S) PROVE Typing'
    BY <2>6 DEF Create
  <2>7. ASSUME NEW S \in SUBSET Source, Resync(S) PROVE Typing'
    BY <2>7, MarkedType DEF Resync
  <2> QED
    BY <1>6, <2>1, <2>2, <2>3, <2>4, <2>5, <2>6, <2>7 DEF Client
<1>7. CASE Environment
  <2>1. ASSUME NEW t \in Task, ChildExits(t) PROVE Typing'
    BY <2>1 DEF ChildExits
  <2>2. ASSUME NEW t \in Task, HitStorageLimit(t) PROVE Typing'
    BY <2>2 DEF HitStorageLimit, Killed
  <2>3. ASSUME NEW s \in Source, OrphanExits(s) PROVE Typing'
    BY <2>3 DEF OrphanExits
  <2> QED
    BY <1>7, <2>1, <2>2, <2>3 DEF Environment
<1>8. CASE Shutdown
  BY <1>8 DEF Shutdown
<1>9. CASE Restart
  BY <1>9, RestartTypes
<1> QED
  BY <1>1, <1>2, <1>3, <1>4, <1>5, <1>6, <1>7, <1>8, <1>9 DEF Next

\* Types of the state, for every value of the constants.
THEOREM TypeCorrect == Spec => []TypeOK
<1>1. Typing /\ [Next]_vars => Typing'
  <2>1. ASSUME Typing, UNCHANGED vars PROVE Typing'
    BY <2>1 DEF Typing, TypeOK, vars, rowVars, spawnVars, taskVars, localVars, sharedVars,
                controlVars, clientVars, lifeVars
  <2> QED
    BY <2>1, TypeStep
<1>2. Typing => TypeOK
  BY DEF Typing
<1> QED
  BY TypeInit, <1>1, <1>2, PTL DEF Spec

-----------------------------------------------------------------------------
(* Runs.                                                                   *)

\* The variables that the invariants below are about
runState == <<stage, of, cancellations, runningSources, storagePauses>>

\* A child that runs after a step that does not spawn it ran before it.
NoSpawn == \A t \in Task : child'[t] = "running" => child[t] = "running"

LEMMA QuietStep == IInv /\ UNCHANGED runState /\ NoSpawn /\ Typing' => IInv'
BY DEF IInv, RunInv, OneRun, Registered, TokenIsOwn, ChildIsSupervised, LimitIsOfRun,
       runState, NoSpawn, Busy, Typing, TypeOK

\* A run that holds its token and keeps it disturbs no other run.
LEMMA Advance ==
  ASSUME Typing, RunInv, NEW t \in Task, NEW next \in Published,
         stage[t] \in Published, GoTo(t, next), UNCHANGED <<of, cancellations, runningSources>>
  PROVE  RunInv'
BY DEF RunInv, OneRun, Registered, TokenIsOwn, Published, Stages, GoTo, Busy, Typing, TypeOK

\* The steps between the publication of the token and its withdrawal
LEMMA AdvanceStep ==
  ASSUME IInv, NEW t \in Task,
         \/ CheckPaused(t) \/ RecordPaused(t) \/ Refuse(t) \/ Admit(t) \/ CoolDown(t) \/ Claim(t)
         \/ AcquirePermit(t) \/ GiveUpPermit(t) \/ ReadSource(t) \/ SpawnFails(t) \/ SpawnChild(t)
         \/ RegisterChild(t) \/ CheckPausedAfterSpawn(t) \/ Reap(t) \/ UnregisterChild(t)
         \/ Settle(t) \/ Persist(t)
  PROVE  RunInv' /\ ChildIsSupervised' /\ LimitIsOfRun'
<1> USE DEF localVars, sharedVars, Stages, Published
<1>1. CASE CheckPaused(t)
  <2>1. RunInv'
    BY <1>1, Advance DEF CheckPaused, IInv
  <2>2. ChildIsSupervised'
    BY <1>1 DEF CheckPaused, GoTo, IInv, ChildIsSupervised, Typing, TypeOK
  <2>3. LimitIsOfRun'
    BY <1>1 DEF CheckPaused, GoTo, IInv, LimitIsOfRun, Typing, TypeOK
  <2> QED
    BY <2>1, <2>2, <2>3
<1>2. CASE RecordPaused(t)
  <2>1. RunInv'
    BY <1>2, Advance DEF RecordPaused, IInv
  <2>2. ChildIsSupervised'
    BY <1>2 DEF RecordPaused, GoTo, IInv, ChildIsSupervised, Typing, TypeOK
  <2>3. LimitIsOfRun'
    BY <1>2 DEF RecordPaused, GoTo, IInv, LimitIsOfRun, Typing, TypeOK
  <2> QED
    BY <2>1, <2>2, <2>3
<1>3. CASE Refuse(t)
  <2>1. RunInv'
    BY <1>3, Advance DEF Refuse, IInv
  <2>2. ChildIsSupervised'
    BY <1>3 DEF Refuse, GoTo, IInv, ChildIsSupervised, Typing, TypeOK
  <2>3. LimitIsOfRun'
    BY <1>3 DEF Refuse, GoTo, IInv, LimitIsOfRun, Typing, TypeOK
  <2> QED
    BY <2>1, <2>2, <2>3
<1>4. CASE Admit(t)
  <2>1. RunInv'
    BY <1>4, Advance DEF Admit, IInv
  <2>2. ChildIsSupervised'
    BY <1>4 DEF Admit, GoTo, IInv, ChildIsSupervised, Typing, TypeOK
  <2>3. LimitIsOfRun'
    BY <1>4 DEF Admit, GoTo, IInv, LimitIsOfRun, Typing, TypeOK
  <2> QED
    BY <2>1, <2>2, <2>3
<1>5. CASE CoolDown(t)
  <2>1. RunInv'
    BY <1>5, Advance DEF CoolDown, IInv
  <2>2. ChildIsSupervised'
    BY <1>5 DEF CoolDown, GoTo, IInv, ChildIsSupervised, Typing, TypeOK
  <2>3. LimitIsOfRun'
    BY <1>5 DEF CoolDown, GoTo, IInv, LimitIsOfRun, Typing, TypeOK
  <2> QED
    BY <2>1, <2>2, <2>3
<1>6. CASE Claim(t)
  <2>1. RunInv'
    BY <1>6, Advance DEF Claim, IInv
  <2>2. ChildIsSupervised'
    BY <1>6 DEF Claim, GoTo, IInv, ChildIsSupervised, Typing, TypeOK
  <2>3. LimitIsOfRun'
    BY <1>6 DEF Claim, GoTo, IInv, LimitIsOfRun, Typing, TypeOK
  <2> QED
    BY <2>1, <2>2, <2>3
<1>7. CASE AcquirePermit(t)
  <2>1. RunInv'
    BY <1>7, Advance DEF AcquirePermit, IInv
  <2>2. ChildIsSupervised'
    BY <1>7 DEF AcquirePermit, GoTo, IInv, ChildIsSupervised, Typing, TypeOK
  <2>3. LimitIsOfRun'
    BY <1>7 DEF AcquirePermit, GoTo, IInv, LimitIsOfRun, Typing, TypeOK
  <2> QED
    BY <2>1, <2>2, <2>3
<1>8. CASE GiveUpPermit(t)
  <2>1. RunInv'
    BY <1>8, Advance DEF GiveUpPermit, IInv
  <2>2. ChildIsSupervised'
    BY <1>8 DEF GiveUpPermit, GoTo, IInv, ChildIsSupervised, Typing, TypeOK
  <2>3. LimitIsOfRun'
    BY <1>8 DEF GiveUpPermit, GoTo, IInv, LimitIsOfRun, Typing, TypeOK
  <2> QED
    BY <2>1, <2>2, <2>3
<1>9. CASE ReadSource(t)
  <2>1. RunInv'
    BY <1>9, Advance DEF ReadSource, IInv
  <2>2. ChildIsSupervised'
    BY <1>9 DEF ReadSource, GoTo, IInv, ChildIsSupervised, Typing, TypeOK
  <2>3. LimitIsOfRun'
    BY <1>9 DEF ReadSource, GoTo, IInv, LimitIsOfRun, Typing, TypeOK
  <2> QED
    BY <2>1, <2>2, <2>3
<1>10. CASE SpawnFails(t)
  <2>1. RunInv'
    BY <1>10, Advance DEF SpawnFails, IInv
  <2>2. ChildIsSupervised'
    BY <1>10 DEF SpawnFails, GoTo, IInv, ChildIsSupervised, Typing, TypeOK
  <2>3. LimitIsOfRun'
    BY <1>10 DEF SpawnFails, GoTo, IInv, LimitIsOfRun, Typing, TypeOK
  <2> QED
    BY <2>1, <2>2, <2>3
<1>11. CASE SpawnChild(t)
  <2>1. RunInv'
    BY <1>11, Advance DEF SpawnChild, IInv
  <2>2. ChildIsSupervised'
    BY <1>11 DEF SpawnChild, GoTo, IInv, ChildIsSupervised, Typing, TypeOK
  <2>3. LimitIsOfRun'
    BY <1>11 DEF SpawnChild, GoTo, IInv, LimitIsOfRun, Typing, TypeOK
  <2> QED
    BY <2>1, <2>2, <2>3
<1>12. CASE RegisterChild(t)
  <2>1. RunInv'
    BY <1>12, Advance DEF RegisterChild, IInv
  <2>2. ChildIsSupervised'
    BY <1>12 DEF RegisterChild, GoTo, IInv, ChildIsSupervised, Typing, TypeOK
  <2>3. LimitIsOfRun'
    BY <1>12 DEF RegisterChild, GoTo, IInv, LimitIsOfRun, Typing, TypeOK
  <2> QED
    BY <2>1, <2>2, <2>3
<1>13. CASE CheckPausedAfterSpawn(t)
  <2>1. RunInv'
    BY <1>13, Advance DEF CheckPausedAfterSpawn, IInv
  <2>2. ChildIsSupervised'
    BY <1>13 DEF CheckPausedAfterSpawn, GoTo, IInv, ChildIsSupervised, Typing, TypeOK
  <2>3. LimitIsOfRun'
    BY <1>13 DEF CheckPausedAfterSpawn, GoTo, IInv, LimitIsOfRun, Typing, TypeOK
  <2> QED
    BY <2>1, <2>2, <2>3
<1>14. CASE Reap(t)
  <2>1. RunInv'
    BY <1>14, Advance DEF Reap, IInv
  <2>2. ChildIsSupervised'
    BY <1>14 DEF Reap, GoTo, IInv, ChildIsSupervised, Typing, TypeOK
  <2>3. LimitIsOfRun'
    BY <1>14 DEF Reap, GoTo, IInv, LimitIsOfRun, Typing, TypeOK
  <2> QED
    BY <2>1, <2>2, <2>3
<1>15. CASE UnregisterChild(t)
  <2>1. RunInv'
    BY <1>15, Advance DEF UnregisterChild, IInv
  <2>2. ChildIsSupervised'
    BY <1>15 DEF UnregisterChild, GoTo, IInv, ChildIsSupervised, Typing, TypeOK
  <2>3. LimitIsOfRun'
    BY <1>15 DEF UnregisterChild, GoTo, IInv, LimitIsOfRun, Typing, TypeOK
  <2> QED
    BY <2>1, <2>2, <2>3
<1>16. CASE Settle(t)
  <2>1. RunInv'
    BY <1>16, Advance DEF Settle, IInv
  <2>2. ChildIsSupervised'
    BY <1>16 DEF Settle, GoTo, IInv, ChildIsSupervised, Typing, TypeOK
  <2>3. LimitIsOfRun'
    BY <1>16 DEF Settle, GoTo, IInv, LimitIsOfRun, Typing, TypeOK
  <2> QED
    BY <2>1, <2>2, <2>3
<1>17. CASE Persist(t)
  <2>1. RunInv'
    BY <1>17, Advance DEF Persist, IInv
  <2>2. ChildIsSupervised'
    BY <1>17 DEF Persist, GoTo, IInv, ChildIsSupervised, Typing, TypeOK
  <2>3. LimitIsOfRun'
    BY <1>17 DEF Persist, GoTo, IInv, LimitIsOfRun, Typing, TypeOK
  <2> QED
    BY <2>1, <2>2, <2>3
<1> QED
  BY <1>1, <1>2, <1>3, <1>4, <1>5, <1>6, <1>7, <1>8, <1>9, <1>10, <1>11, <1>12, <1>13, <1>14, <1>15, <1>16, <1>17

LEMMA RunInit == Init => IInv
<1> SUFFICES ASSUME Init PROVE IInv
  OBVIOUS
<1>1. Typing
  BY TypeInit
<1>2. RunInv /\ ChildIsSupervised /\ LimitIsOfRun
  BY DEF Init, RunInv, OneRun, Registered, TokenIsOwn, ChildIsSupervised, LimitIsOfRun, Busy, Published
<1> QED
  BY <1>1, <1>2 DEF IInv

LEMMA RunStepInv ==
  ASSUME IInv, Next
  PROVE  IInv'
<1>t. Typing'
  BY TypeStep DEF IInv
<1> SUFFICES RunInv' /\ ChildIsSupervised' /\ LimitIsOfRun'
  BY <1>t DEF IInv
<1>q. ASSUME UNCHANGED runState, NoSpawn PROVE RunInv' /\ ChildIsSupervised' /\ LimitIsOfRun'
  BY <1>q, <1>t, QuietStep DEF IInv
<1>1. ASSUME NEW t \in Task, RunStep(t) PROVE RunInv' /\ ChildIsSupervised' /\ LimitIsOfRun'
  <2> USE DEF RunInv, OneRun, Registered, TokenIsOwn, Busy, Stages, Published, GoTo,
              localVars, sharedVars
  <2>1. CASE PublishToken(t)
    <3>1. RunInv'
      BY <2>1 DEF PublishToken, IInv, Typing, TypeOK
    <3>2. ChildIsSupervised' /\ LimitIsOfRun'
      BY <2>1 DEF PublishToken, IInv, Typing, TypeOK, ChildIsSupervised, LimitIsOfRun
    <3> QED
      BY <3>1, <3>2
  <2>2. CASE WithdrawToken(t)
    <3>1. OneRun' /\ Registered'
      BY <2>2 DEF WithdrawToken, IInv, Typing, TypeOK
    <3>2. TokenIsOwn'
      BY <2>2 DEF WithdrawToken, IInv, Typing, TypeOK
    <3>3. ChildIsSupervised' /\ LimitIsOfRun'
      BY <2>2 DEF WithdrawToken, IInv, Typing, TypeOK, ChildIsSupervised, LimitIsOfRun
    <3> QED
      BY <3>1, <3>2, <3>3
  <2>3. CASE Unregister(t)
    <3>1. OneRun'
      BY <2>3 DEF Unregister, IInv, Typing, TypeOK
    <3>2. Registered'
      BY <2>3 DEF Unregister, IInv, Typing, TypeOK
    <3>3. TokenIsOwn'
      BY <2>3 DEF Unregister, IInv, Typing, TypeOK
    <3>4. ChildIsSupervised' /\ LimitIsOfRun'
      BY <2>3 DEF Unregister, IInv, Typing, TypeOK, ChildIsSupervised, LimitIsOfRun
    <3> QED
      BY <3>1, <3>2, <3>3, <3>4
  <2> QED
    BY <1>1, <2>1, <2>2, <2>3, AdvanceStep DEF RunStep
<1>2. ASSUME NEW s \in Source, BeginRun(s) PROVE RunInv' /\ ChildIsSupervised' /\ LimitIsOfRun'
  <2>1. CASE DropRun(s)
    BY <2>1, <1>q DEF DropRun, runState, NoSpawn, taskVars, localVars, sharedVars
  <2>2. ASSUME NEW t \in Task, Register(t, s) PROVE RunInv' /\ ChildIsSupervised' /\ LimitIsOfRun'
    <3> USE <2>2 DEF Register, IInv, Typing, TypeOK, Busy, Stages, Published, GoTo,
                     localVars, sharedVars
    <3>1. OneRun'
      BY DEF RunInv, OneRun, Registered
    <3>2. Registered'
      BY DEF RunInv, Registered
    <3>3. TokenIsOwn'
      BY DEF RunInv, TokenIsOwn
    <3>4. ChildIsSupervised' /\ LimitIsOfRun'
      BY DEF ChildIsSupervised, LimitIsOfRun
    <3> QED
      BY <3>1, <3>2, <3>3, <3>4 DEF RunInv
  <2> QED
    BY <1>2, <2>1, <2>2 DEF BeginRun
<1>3. ASSUME NEW s \in Source, TimerFires(s) PROVE RunInv' /\ ChildIsSupervised' /\ LimitIsOfRun'
  BY <1>3, <1>q DEF TimerFires, runState, NoSpawn, taskVars, localVars, sharedVars
<1>4. ASSUME NEW s \in Source, DeleteStep(s) PROVE RunInv' /\ ChildIsSupervised' /\ LimitIsOfRun'
  BY <1>4, <1>q DEF DeleteStep, PollDelete, DeleteRow, runState, NoSpawn, taskVars, localVars, sharedVars
<1>k. ASSUME NEW S, child' = Killed(S) PROVE NoSpawn
  BY <1>k DEF Killed, NoSpawn
<1>5. CASE ControlStep
  <2> USE DEF runState, taskVars, localVars, sharedVars
  <2>1. UNCHANGED runState
    BY <1>5 DEF ControlStep, PauseRows, PauseActive, PauseOthers, PauseSourceRow, ResumeRows,
                ResumeRuns, ResumeSourceRun
  <2>2. CASE PauseActive
    BY <2>2, <1>k, <1>q, <2>1 DEF PauseActive
  <2>3. CASE ~PauseActive
    BY <2>3, <1>5, <1>q, <2>1 DEF ControlStep, PauseRows, PauseOthers, PauseSourceRow, ResumeRows,
                ResumeRuns, ResumeSourceRun, NoSpawn
  <2> QED
    BY <2>2, <2>3
<1>6. CASE Client
  <2> USE DEF runState, taskVars, localVars, sharedVars
  <2>1. ASSUME NEW s \in Source, PauseSource(s) PROVE RunInv' /\ ChildIsSupervised' /\ LimitIsOfRun'
    BY <2>1, <1>k, <1>q DEF PauseSource
  <2>2. ASSUME NEW s \in Source, ResumeSource(s) \/ Delete(s)
        PROVE  RunInv' /\ ChildIsSupervised' /\ LimitIsOfRun'
    BY <2>2, <1>q DEF ResumeSource, Delete, NoSpawn
  <2>3. ASSUME NEW S \in SUBSET Source, Create(S) \/ Resync(S)
        PROVE  RunInv' /\ ChildIsSupervised' /\ LimitIsOfRun'
    BY <2>3, <1>q DEF Create, Resync, NoSpawn
  <2>4. CASE Pause \/ Resume
    BY <2>4, <1>q DEF Pause, Resume, NoSpawn
  <2> QED
    BY <1>6, <2>1, <2>2, <2>3, <2>4 DEF Client
<1>7. CASE Environment
  <2>1. ASSUME NEW t \in Task, ChildExits(t) PROVE RunInv' /\ ChildIsSupervised' /\ LimitIsOfRun'
    <3>1. NoSpawn
      BY <2>1 DEF ChildExits, NoSpawn, IInv, Typing, TypeOK
    <3> QED
      BY <2>1, <3>1, <1>q DEF ChildExits, runState, sharedVars
  <2>2. ASSUME NEW t \in Task, HitStorageLimit(t) PROVE RunInv' /\ ChildIsSupervised' /\ LimitIsOfRun'
    <3>1. RunInv'
      BY <2>2 DEF HitStorageLimit, IInv, RunInv, OneRun, Registered, TokenIsOwn, Busy
    <3>2. ChildIsSupervised'
      BY <2>2, <1>k DEF HitStorageLimit, IInv, ChildIsSupervised, NoSpawn
    <3>3. LimitIsOfRun'
      BY <2>2 DEF HitStorageLimit, IInv, LimitIsOfRun
    <3> QED
      BY <3>1, <3>2, <3>3
  <2>3. ASSUME NEW s \in Source, OrphanExits(s) PROVE RunInv' /\ ChildIsSupervised' /\ LimitIsOfRun'
    BY <2>3, <1>q DEF OrphanExits, runState, NoSpawn, taskVars, localVars, sharedVars
  <2> QED
    BY <1>7, <2>1, <2>2, <2>3 DEF Environment
<1>8. CASE Shutdown
  BY <1>8, <1>q DEF Shutdown, runState, NoSpawn, taskVars, localVars, sharedVars
<1>9. CASE Restart
  BY <1>9 DEF Restart, RunInv, OneRun, Registered, TokenIsOwn, ChildIsSupervised, LimitIsOfRun,
              Busy, Published
<1> QED
  BY <1>1, <1>2, <1>3, <1>4, <1>5, <1>6, <1>7, <1>8, <1>9 DEF Next

\* The inductive invariant
LEMMA Invariance == Spec => []IInv
<1>1. IInv /\ [Next]_vars => IInv'
  <2>1. ASSUME IInv, UNCHANGED vars PROVE IInv'
    <3>1. Typing'
      BY <2>1 DEF IInv, Typing, TypeOK, vars, rowVars, spawnVars, taskVars, localVars, sharedVars,
                  controlVars, clientVars, lifeVars
    <3> QED
      BY <2>1, <3>1, QuietStep DEF vars, taskVars, localVars, sharedVars, runState, NoSpawn
  <2> QED
    BY <2>1, RunStepInv
<1> QED
  BY RunInit, <1>1, PTL DEF Spec

\* A source has at most one run and is in running_sources exactly meanwhile,
\* whatever clients, timers, limits, crashes and restarts do.
THEOREM RunsAreExclusive == Spec => []OneRunPerSource
<1>1. IInv => OneRunPerSource
  <2> SUFFICES ASSUME IInv PROVE OneRunPerSource
    OBVIOUS
  <2>1. \A s : s \in runningSources <=> s \in {of[t] : t \in {u \in Task : Busy(u)}}
    BY DEF IInv, RunInv, Registered, Typing, TypeOK
  <2> QED
    BY <2>1 DEF IInv, RunInv, OneRun, OneRunPerSource
<1> QED
  BY Invariance, <1>1, PTL

\* The token in the map is that of the run whose child is running.
THEOREM ChildrenCanBeCancelled == Spec => []ChildCanBeCancelled
<1>1. IInv => ChildCanBeCancelled
  BY DEF IInv, RunInv, TokenIsOwn, ChildIsSupervised, ChildCanBeCancelled, Published, Stages
<1> QED
  BY Invariance, <1>1, PTL

\* No storage limit outlives the run that it stopped.
THEOREM StoragePausesAreFresh == Spec => []StoragePauseIsFresh
<1>1. IInv => StoragePauseIsFresh
  BY DEF IInv, LimitIsOfRun, StoragePauseIsFresh, RunOf, Busy
<1> QED
  BY Invariance, <1>1, PTL
=============================================================================
