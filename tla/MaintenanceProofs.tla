--------------------------- MODULE MaintenanceProofs ---------------------------
(***************************************************************************)
(* Proofs about the two halves of src/maintenance.rs.                      *)
(*                                                                         *)
(* MaintenanceGate, for any finite set of workers and any set of jobs: the *)
(* invariant is proved of AbruptSpec, whose steps include those of Spec.   *)
(*                                                                         *)
(* PendingRestart, for every set of backups: the sidecars match for any    *)
(* number of stagings and whether or not the renames of a rollback may     *)
(* fail; a failed start is undone when they do not fail; and nothing but a *)
(* second staging over a pending one makes the host open a mixture.        *)
(***************************************************************************)
EXTENDS MaintenanceGate, PendingRestart, FiniteSetTheorems, TLAPS

-----------------------------------------------------------------------------
(* The coordinator of jobs and downloads.                                  *)

\* The states of a job's task in which it holds serial.
Serialized == (Closing \ {"claimed", "dropped", "queued"}) \cup {"resuming", "resuming_locked"}

CountedWorkers == {w \in Worker : wpc[w] \in Counted}

\* active is set exactly while a job is between its compare-exchange and its
\* reopening, and then by one job only.
ActiveInv ==
  /\ \A j \in Job : jpc[j] \in Closing => active
  /\ \A j, k \in Job : jpc[j] \in Closing /\ jpc[k] \in Closing => j = k

SerialInv == \A j \in Job : jpc[j] \in Serialized => serial = j

\* The inductive invariant.  ExclusiveTransaction alone is not inductive: a job
\* enters its transaction on the strength of the counter, and it stays alone
\* there because active makes the second check of every worker fail.
IInv ==
  /\ TypeOK
  /\ CounterIsExact
  /\ ActiveInv
  /\ SerialInv
  /\ ExclusiveTransaction

USE DEF Leased, Counted, WorkerStates, Closing, JobStates, workerVars, jobVars,
        downloadVars

-----------------------------------------------------------------------------
(* The counter of workers.                                                 *)

LEMMA CountedFinite == IsFiniteSet(CountedWorkers)
<1>1. CountedWorkers \subseteq Worker
  BY DEF CountedWorkers
<1>2. QED
  BY <1>1, FS_Subset, ConstantsAssumption

\* A worker that enters the counted states adds one.
LEMMA CountUp ==
  ASSUME TypeOK, CounterIsExact, NEW w \in Worker, wpc[w] \notin Counted,
         NEW s \in Counted, wpc' = [wpc EXCEPT ![w] = s],
         backgroundWorkers' = backgroundWorkers + 1
  PROVE  CounterIsExact'
<1>1. CountedWorkers' = CountedWorkers \cup {w}
  BY DEF CountedWorkers, TypeOK
<1>2. w \notin CountedWorkers
  BY DEF CountedWorkers
<1>3. Cardinality(CountedWorkers') = Cardinality(CountedWorkers) + 1
  BY <1>1, <1>2, CountedFinite, FS_AddElement
<1>4. QED
  BY <1>3 DEF CounterIsExact, CountedWorkers

\* A worker that leaves the counted states takes one away, and there was one.
LEMMA CountDown ==
  ASSUME TypeOK, CounterIsExact, NEW w \in Worker, wpc[w] \in Counted,
         wpc' = [wpc EXCEPT ![w] = "idle"],
         backgroundWorkers' = backgroundWorkers - 1
  PROVE  CounterIsExact' /\ backgroundWorkers' \in Nat
<1>1. CountedWorkers' = CountedWorkers \ {w}
  BY DEF CountedWorkers, TypeOK
<1>2. w \in CountedWorkers
  BY DEF CountedWorkers
<1>3. Cardinality(CountedWorkers') = Cardinality(CountedWorkers) - 1
  BY <1>1, <1>2, CountedFinite, FS_RemoveElement
<1>4. CountedWorkers # {} /\ Cardinality(CountedWorkers) \in Nat
  BY <1>2, CountedFinite, FS_CardinalityType
<1>5. Cardinality(CountedWorkers) # 0
  BY <1>4, CountedFinite, FS_EmptySet
<1>6. CounterIsExact'
  BY <1>3 DEF CounterIsExact, CountedWorkers
<1>7. QED
  BY <1>4, <1>5, <1>6 DEF CounterIsExact, CountedWorkers

\* A worker that stays on its side of the boundary leaves the count alone.
LEMMA CountSame ==
  ASSUME TypeOK, CounterIsExact, NEW w \in Worker, NEW s \in WorkerStates,
         wpc[w] \in Counted <=> s \in Counted,
         wpc' = [wpc EXCEPT ![w] = s],
         UNCHANGED backgroundWorkers
  PROVE  CounterIsExact'
<1>1. CountedWorkers' = CountedWorkers
  BY DEF CountedWorkers, TypeOK
<1>2. QED
  BY <1>1 DEF CounterIsExact, CountedWorkers

\* A counter that reads zero means that no lease is held.
LEMMA ZeroMeansNone ==
  ASSUME CounterIsExact, backgroundWorkers = 0
  PROVE  \A w \in Worker : wpc[w] \notin Counted
<1>1. Cardinality(CountedWorkers) = 0
  BY DEF CounterIsExact, CountedWorkers
<1>2. CountedWorkers = {}
  BY <1>1, CountedFinite, FS_EmptySet
<1>3. QED
  BY <1>2 DEF CountedWorkers

-----------------------------------------------------------------------------
(* The inductive invariant.                                                *)

LEMMA InitIInv == Init => IInv
<1> SUFFICES ASSUME Init PROVE IInv
  OBVIOUS
<1>1. TypeOK
  BY DEF Init, TypeOK
<1>2. CounterIsExact
  <2>1. CountedWorkers = {}
    BY DEF Init, CountedWorkers
  <2>2. QED
    BY <2>1, FS_EmptySet DEF Init, CounterIsExact, CountedWorkers
<1>3. ActiveInv /\ SerialInv /\ ExclusiveTransaction
  BY DEF Init, ActiveInv, SerialInv, ExclusiveTransaction, Serialized
<1>4. QED
  BY <1>1, <1>2, <1>3 DEF IInv

\* The steps of workers keep the invariant: only the second check can grant a
\* lease, and it does not while a job is closing admission.
LEMMA LeaseStepIInv ==
  ASSUME IInv, NEW w \in Worker, LeaseStep(w)
  PROVE  IInv'
<1> USE DEF IInv
<1>1. CASE FirstCheck(w)
  <2>1. TypeOK'
    BY <1>1 DEF FirstCheck, TypeOK
  <2>2. CounterIsExact'
    BY <1>1, CountSame DEF FirstCheck
  <2>3. QED
    BY <1>1, <2>1, <2>2
    DEF FirstCheck, ActiveInv, SerialInv, ExclusiveTransaction, TypeOK
<1>2. CASE Count(w)
  <2>1. TypeOK'
    BY <1>2 DEF Count, TypeOK
  <2>2. CounterIsExact'
    BY <1>2, CountUp DEF Count
  <2>3. QED
    BY <1>2, <2>1, <2>2
    DEF Count, ActiveInv, SerialInv, ExclusiveTransaction, TypeOK
<1>3. CASE SecondCheck(w)
  <2>1. TypeOK'
    BY <1>3 DEF SecondCheck, TypeOK
  <2>2. CounterIsExact'
    BY <1>3, CountSame DEF SecondCheck
  <2>3. ExclusiveTransaction'
    <3>1. CASE active
      BY <1>3, <3>1 DEF SecondCheck, ExclusiveTransaction, TypeOK
    <3>2. CASE ~active
      BY <1>3, <3>2 DEF SecondCheck, ExclusiveTransaction, ActiveInv
    <3>3. QED
      BY <3>1, <3>2
  <2>4. QED
    BY <1>3, <2>1, <2>2, <2>3 DEF SecondCheck, ActiveInv, SerialInv
<1>4. CASE BackOut(w)
  <2>1. CounterIsExact' /\ backgroundWorkers' \in Nat
    BY <1>4, CountDown DEF BackOut
  <2>2. TypeOK'
    BY <1>4, <2>1 DEF BackOut, TypeOK
  <2>3. QED
    BY <1>4, <2>1, <2>2
    DEF BackOut, ActiveInv, SerialInv, ExclusiveTransaction, TypeOK
<1>5. CASE DropLease(w)
  <2>1. CounterIsExact' /\ backgroundWorkers' \in Nat
    BY <1>5, CountDown DEF DropLease
  <2>2. TypeOK'
    BY <1>5, <2>1 DEF DropLease, TypeOK
  <2>3. QED
    BY <1>5, <2>1, <2>2
    DEF DropLease, ActiveInv, SerialInv, ExclusiveTransaction, TypeOK
<1>6. CASE BeginRun(w)
  <2>1. TypeOK'
    BY <1>6 DEF BeginRun, TypeOK
  <2>2. CounterIsExact'
    BY <1>6, CountSame DEF BeginRun
  <2>3. QED
    BY <1>6, <2>1, <2>2
    DEF BeginRun, ActiveInv, SerialInv, ExclusiveTransaction, TypeOK
<1>7. CASE EndRun(w)
  <2>1. TypeOK'
    BY <1>7 DEF EndRun, TypeOK
  <2>2. CounterIsExact'
    BY <1>7, CountSame DEF EndRun
  <2>3. QED
    BY <1>7, <2>1, <2>2
    DEF EndRun, ActiveInv, SerialInv, ExclusiveTransaction, TypeOK
<1>8. QED
  BY <1>1, <1>2, <1>3, <1>4, <1>5, <1>6, <1>7 DEF LeaseStep

LEMMA PanicIInv ==
  ASSUME IInv, NEW w \in Downloader, Panic(w)
  PROVE  IInv'
<1> USE DEF IInv
<1>1. w \in Worker
  BY DEF Worker
<1>2. CounterIsExact' /\ backgroundWorkers' \in Nat
  BY <1>1, CountDown DEF Panic
<1>3. TypeOK'
  BY <1>1, <1>2 DEF Panic, TypeOK
<1>4. QED
  BY <1>1, <1>2, <1>3
  DEF Panic, ActiveInv, SerialInv, ExclusiveTransaction, TypeOK

\* The steps of clients: a client keeps the lease it already has.
LEMMA ClientStepIInv ==
  ASSUME IInv, NEW c \in Client, ClientStep(c)
  PROVE  IInv'
<1> USE DEF IInv
<1>1. c \in Worker
  BY DEF Worker
<1>2. CASE ClientPause(c)
  <2>1. TypeOK'
    BY <1>2 DEF ClientPause, PauseUnchecked, TypeOK
  <2>2. CounterIsExact'
    BY <1>1, <1>2, CountSame DEF ClientPause
  <2>3. QED
    BY <1>1, <1>2, <2>1, <2>2
    DEF ClientPause, ActiveInv, SerialInv, ExclusiveTransaction, TypeOK
<1>3. CASE ClientTakeControl(c)
  <2>1. TypeOK'
    BY <1>3 DEF ClientTakeControl, TypeOK
  <2>2. CounterIsExact'
    BY <1>1, <1>3, CountSame DEF ClientTakeControl
  <2>3. QED
    BY <1>1, <1>3, <2>1, <2>2
    DEF ClientTakeControl, ActiveInv, SerialInv, ExclusiveTransaction, TypeOK
<1>4. CASE ClientResume(c)
  <2>1. TypeOK'
    BY <1>4 DEF ClientResume, ResumeUnchecked, TypeOK
  <2>2. CounterIsExact'
    BY <1>1, <1>4, CountSame DEF ClientResume
  <2>3. QED
    BY <1>1, <1>4, <2>1, <2>2
    DEF ClientResume, ActiveInv, SerialInv, ExclusiveTransaction, TypeOK
<1>5. QED
  BY <1>2, <1>3, <1>4 DEF ClientStep

\* The steps of a job: none touches a worker or the counter, so the counter
\* stays exact; a job becomes exclusive by reading zero from it.
LEMMA JobStepIInv ==
  ASSUME IInv, NEW j \in Job, JobStep(j) \/ DropRequest(j)
  PROVE  IInv'
<1> USE DEF IInv
<1>1. CounterIsExact'
  BY DEF JobStep, ClaimJob, SpawnJob, DropRequest, TakeSerial, ReadPaused,
         PauseForMaintenance,
         ReadRunningSources, ReadBackgroundWorkers, PollAgain, TimeOut,
         FinishTransaction, Reopen, JobTakeControl, ResumeAfterMaintenance,
         CounterIsExact
<1>2. CASE ClaimJob(j) \/ SpawnJob(j) \/ DropRequest(j)
  <2>1. TypeOK'
    BY <1>2 DEF ClaimJob, SpawnJob, DropRequest, TypeOK
  <2>2. ActiveInv'
    BY <1>2 DEF ClaimJob, SpawnJob, DropRequest, ActiveInv, TypeOK
  <2>3. QED
    BY <1>1, <1>2, <2>1, <2>2
    DEF ClaimJob, SpawnJob, DropRequest, SerialInv, ExclusiveTransaction,
        Serialized, TypeOK
<1>3. CASE TakeSerial(j)
  <2>1. TypeOK'
    BY <1>3 DEF TakeSerial, TypeOK
  <2>2. SerialInv'
    BY <1>3, ConstantsAssumption DEF TakeSerial, SerialInv, Serialized, TypeOK
  <2>3. QED
    BY <1>1, <1>3, <2>1, <2>2
    DEF TakeSerial, ActiveInv, ExclusiveTransaction, TypeOK
<1>4. CASE ReadPaused(j)
  <2>1. TypeOK'
    BY <1>4 DEF ReadPaused, TypeOK
  <2>2. QED
    BY <1>1, <1>4, <2>1
    DEF ReadPaused, ActiveInv, SerialInv, ExclusiveTransaction, Serialized, TypeOK
<1>5. CASE PauseForMaintenance(j)
  <2>1. TypeOK'
    BY <1>5 DEF PauseForMaintenance, PauseUnchecked, TypeOK
  <2>2. QED
    BY <1>1, <1>5, <2>1
    DEF PauseForMaintenance, ActiveInv, SerialInv, ExclusiveTransaction,
        Serialized, TypeOK
<1>6. CASE ReadRunningSources(j)
  <2>1. TypeOK'
    BY <1>6 DEF ReadRunningSources, TypeOK
  <2>2. QED
    BY <1>1, <1>6, <2>1
    DEF ReadRunningSources, ActiveInv, SerialInv, ExclusiveTransaction,
        Serialized, TypeOK
<1>7. CASE ReadBackgroundWorkers(j)
  <2>1. TypeOK'
    BY <1>7 DEF ReadBackgroundWorkers, TypeOK
  <2>2. ExclusiveTransaction'
    <3>1. CASE backgroundWorkers = 0
      BY <1>7, <3>1, ZeroMeansNone DEF ReadBackgroundWorkers, ExclusiveTransaction
    <3>2. CASE backgroundWorkers # 0
      BY <1>7, <3>2 DEF ReadBackgroundWorkers, ExclusiveTransaction, TypeOK
    <3>3. QED
      BY <3>1, <3>2
  <2>3. QED
    BY <1>1, <1>7, <2>1, <2>2
    DEF ReadBackgroundWorkers, ActiveInv, SerialInv, Serialized, TypeOK
<1>8. CASE PollAgain(j)
  <2>1. TypeOK'
    BY <1>8 DEF PollAgain, TypeOK
  <2>2. QED
    BY <1>1, <1>8, <2>1
    DEF PollAgain, ActiveInv, SerialInv, ExclusiveTransaction, Serialized, TypeOK
<1>9. CASE TimeOut(j)
  <2>1. TypeOK'
    BY <1>9 DEF TimeOut, TypeOK
  <2>2. QED
    BY <1>1, <1>9, <2>1
    DEF TimeOut, ActiveInv, SerialInv, ExclusiveTransaction, Serialized, TypeOK
<1>10. CASE FinishTransaction(j)
  <2>1. TypeOK'
    BY <1>10 DEF FinishTransaction, TypeOK
  <2>2. QED
    BY <1>1, <1>10, <2>1
    DEF FinishTransaction, ActiveInv, SerialInv, ExclusiveTransaction,
        Serialized, TypeOK
<1>11. CASE Reopen(j)
  <2>1. TypeOK'
    BY <1>11 DEF Reopen, TypeOK
  <2>2. ActiveInv'
    BY <1>11 DEF Reopen, ActiveInv, TypeOK
  <2>3. SerialInv'
    BY <1>11 DEF Reopen, SerialInv, Serialized, TypeOK
  <2>4. QED
    BY <1>1, <1>11, <2>1, <2>2, <2>3 DEF Reopen, ExclusiveTransaction, TypeOK
<1>12. CASE JobTakeControl(j)
  <2>1. TypeOK'
    BY <1>12 DEF JobTakeControl, TypeOK
  <2>2. QED
    BY <1>1, <1>12, <2>1
    DEF JobTakeControl, ActiveInv, SerialInv, ExclusiveTransaction, Serialized,
        TypeOK
<1>13. CASE ResumeAfterMaintenance(j)
  <2>1. TypeOK'
    BY <1>13 DEF ResumeAfterMaintenance, ResumeUnchecked, TypeOK
  <2>2. QED
    BY <1>1, <1>13, <2>1
    DEF ResumeAfterMaintenance, ActiveInv, SerialInv, ExclusiveTransaction,
        Serialized, TypeOK
<1>14. QED
  BY <1>2, <1>3, <1>4, <1>5, <1>6, <1>7, <1>8, <1>9, <1>10, <1>11, <1>12, <1>13
  DEF JobStep

LEMMA NextIInv == IInv /\ [AbruptNext]_vars => IInv'
<1> SUFFICES ASSUME IInv, [AbruptNext]_vars PROVE IInv'
  OBVIOUS
<1>1. CASE UNCHANGED vars
  BY <1>1
  DEF vars, IInv, TypeOK, CounterIsExact, ActiveInv, SerialInv, ExclusiveTransaction
<1>2. CASE \E w \in Worker : LeaseStep(w)
  BY <1>2, LeaseStepIInv
<1>3. CASE \E c \in Client : ClientStep(c)
  BY <1>3, ClientStepIInv
<1>4. CASE \E j \in Job : JobStep(j)
  BY <1>4, JobStepIInv
<1>5. CASE \E w \in Downloader : Panic(w)
  BY <1>5, PanicIInv
<1>6. CASE \E j \in Job : DropRequest(j)
  BY <1>6, JobStepIInv
<1>7. QED
  BY <1>1, <1>2, <1>3, <1>4, <1>5, <1>6 DEF AbruptNext, PanicNext, Next

THEOREM Invariance == AbruptSpec => []IInv
BY InitIInv, NextIInv, PTL DEF AbruptSpec

LEMMA SpecIsAbruptSpec == Spec => AbruptSpec
<1>1. [Next]_vars => [AbruptNext]_vars
  BY DEF AbruptNext, PanicNext
<1>2. QED
  BY <1>1, PTL DEF Spec, AbruptSpec

-----------------------------------------------------------------------------
(* The theorems.                                                           *)

\* Every variable keeps its type, panics and dropped requests included; in
\* particular the counter never goes below zero.
THEOREM TypeCorrect == AbruptSpec => []TypeOK
<1>1. IInv => TypeOK
  BY DEF IInv
<1>2. QED
  BY <1>1, Invariance, PTL

\* No lease is held during a transaction, for any number of workers and jobs,
\* even when download workers panic (maintenance.rs:186, 348).
THEOREM TransactionsAreExclusive == AbruptSpec => []ExclusiveTransaction
<1>1. IInv => ExclusiveTransaction
  BY DEF IInv
<1>2. QED
  BY <1>1, Invariance, PTL

\* background_workers counts exactly the leases and the attempts that will back
\* out: no path loses a decrement or makes one twice (maintenance.rs:160, 190).
THEOREM CounterExact == AbruptSpec => []CounterIsExact
<1>1. IInv => CounterIsExact
  BY DEF IInv
<1>2. QED
  BY <1>1, Invariance, PTL

\* Jobs do not overlap, and the resume of one job has ended before the next one
\* leaves its queued phase (maintenance.rs:234, 263).
THEOREM JobsDoNotOverlap == AbruptSpec => []OneJobAtATime
<1>1. IInv => OneJobAtATime
  BY DEF IInv, OneJobAtATime, ActiveInv, SerialInv, Serialized
<1>2. QED
  BY <1>1, Invariance, PTL

-----------------------------------------------------------------------------
(* Refinement: the coordinator implements exclusive access.                *)

InTransaction == \E j \in Job : jpc[j] = "transaction"
Holders == {w \in Worker : wpc[w] \in Leased}
Owner == IF InTransaction THEN CHOOSE j \in Job : jpc[j] = "transaction"
                          ELSE Nobody

\* The owner of the library is the one job inside its transaction.
LEMMA OwnerIsTheJob ==
  ASSUME ActiveInv, NEW j \in Job, jpc[j] = "transaction"
  PROVE  Owner = j
<1>1. \A k \in Job : jpc[k] = "transaction" => k = j
  BY DEF ActiveInv
<1>2. QED
  BY <1>1 DEF Owner, InTransaction

\* Steps of workers grant or return one lease, or change no lease at all.
LEMMA WorkerStepRefines ==
  ASSUME IInv, NEW w \in Worker,
         LeaseStep(w) \/ (w \in Downloader /\ Panic(w)) \/ (w \in Client /\ ClientStep(w))
  PROVE  [Access!AccessNext]_<<Holders, Owner>>
<1> USE DEF IInv
<1>1. UNCHANGED <<jpc, active>>
  BY DEF LeaseStep, FirstCheck, Count, SecondCheck, BackOut, DropLease, BeginRun,
         EndRun, Panic, ClientStep, ClientPause, ClientTakeControl, ClientResume
<1>2. UNCHANGED Owner
  BY <1>1 DEF Owner, InTransaction
<1>3. CASE SecondCheck(w) /\ ~active
  <2>1. ~InTransaction
    BY <1>3 DEF InTransaction, ActiveInv
  <2>2. Owner = Nobody
    BY <2>1 DEF Owner
  <2>3. w \notin Holders /\ Holders' = Holders \cup {w}
    BY <1>3 DEF SecondCheck, Holders, TypeOK
  <2>4. QED
    BY <1>2, <2>2, <2>3
    DEF Access!AccessNext, Access!Grant, Holders, Owner, InTransaction
<1>4. CASE DropLease(w) \/ (w \in Downloader /\ Panic(w))
  <2>1. w \in Holders /\ Holders' = Holders \ {w}
    BY <1>4 DEF DropLease, Panic, Holders, TypeOK
  <2>2. QED
    BY <1>2, <2>1
    DEF Access!AccessNext, Access!Return, Holders, Owner, InTransaction
<1>5. CASE \/ FirstCheck(w) \/ Count(w) \/ (SecondCheck(w) /\ active) \/ BackOut(w)
           \/ BeginRun(w) \/ EndRun(w)
  <2>1. UNCHANGED Holders
    BY <1>5 DEF FirstCheck, Count, SecondCheck, BackOut, BeginRun, EndRun,
                Holders, TypeOK
  <2>2. QED
    BY <1>2, <2>1
<1>6. CASE w \in Client /\ ClientStep(w)
  <2>1. UNCHANGED Holders
    BY <1>6 DEF ClientStep, ClientPause, ClientTakeControl, ClientResume,
                Holders, TypeOK
  <2>2. QED
    BY <1>2, <2>1
<1>7. QED
  BY <1>3, <1>4, <1>5, <1>6 DEF LeaseStep

\* Steps of jobs take or give up the ownership, or change neither.
LEMMA JobStepRefines ==
  ASSUME IInv, IInv', NEW j \in Job, JobStep(j) \/ DropRequest(j)
  PROVE  [Access!AccessNext]_<<Holders, Owner>>
<1> USE DEF IInv
<1>1. UNCHANGED Holders
  BY DEF JobStep, ClaimJob, SpawnJob, DropRequest, TakeSerial, ReadPaused,
         PauseForMaintenance,
         ReadRunningSources, ReadBackgroundWorkers, PollAgain, TimeOut,
         FinishTransaction, Reopen, JobTakeControl, ResumeAfterMaintenance, Holders
<1>2. CASE ReadBackgroundWorkers(j) /\ backgroundWorkers = 0
  <2>1. ~InTransaction
    BY <1>2 DEF InTransaction, ReadBackgroundWorkers, ActiveInv
  <2>2. Owner = Nobody /\ Holders = {}
    BY <1>2, <2>1, ZeroMeansNone DEF Owner, Holders
  <2>3. jpc'[j] = "transaction"
    BY <1>2 DEF ReadBackgroundWorkers, TypeOK
  <2>4. Owner' = j
    <3>1. \A k \in Job : jpc'[k] = "transaction" => k = j
      BY <2>3 DEF ActiveInv
    <3>2. QED
      BY <2>3, <3>1 DEF Owner, InTransaction
  <2>5. QED
    BY <1>1, <2>2, <2>4
    DEF Access!AccessNext, Access!Own, Holders, Owner, InTransaction
<1>3. CASE FinishTransaction(j)
  <2>1. Owner = j
    BY <1>3, OwnerIsTheJob DEF FinishTransaction
  <2>2. ~InTransaction'
    BY <1>3 DEF FinishTransaction, InTransaction, ActiveInv, TypeOK
  <2>3. Owner' = Nobody
    BY <2>2 DEF Owner
  <2>4. QED
    BY <1>1, <2>1, <2>3
    DEF Access!AccessNext, Access!Disown, Holders, Owner, InTransaction
<1>4. CASE ~(ReadBackgroundWorkers(j) /\ backgroundWorkers = 0) /\ ~FinishTransaction(j)
  <2>1. \A k \in Job : jpc'[k] = "transaction" <=> jpc[k] = "transaction"
    BY <1>4
    DEF JobStep, ClaimJob, SpawnJob, DropRequest, TakeSerial, ReadPaused,
        PauseForMaintenance,
        ReadRunningSources, ReadBackgroundWorkers, PollAgain, TimeOut, Reopen,
        JobTakeControl, ResumeAfterMaintenance, TypeOK
  <2>2. UNCHANGED Owner
    <3>1. InTransaction' <=> InTransaction
      BY <2>1 DEF InTransaction
    <3>2. CASE ~InTransaction
      BY <3>1, <3>2 DEF Owner
    <3>3. CASE InTransaction
      <4>1. PICK k \in Job : jpc[k] = "transaction"
        BY <3>3 DEF InTransaction
      <4>2. Owner = k
        BY <4>1, OwnerIsTheJob
      <4>3. \A m \in Job : jpc'[m] = "transaction" => m = k
        BY <2>1, <4>1 DEF ActiveInv
      <4>4. Owner' = k
        BY <2>1, <4>1, <4>3 DEF Owner, InTransaction
      <4>5. QED
        BY <4>2, <4>4
    <3>4. QED
      BY <3>2, <3>3
  <2>3. QED
    BY <1>1, <2>2
<1>5. QED
  BY <1>2, <1>3, <1>4

\* The coordinator implements exclusive access to the library, panics and dropped
\* requests included (maintenance.rs:186 for the grant, 262 for the transaction).
THEOREM GateImplementsAccess == AbruptSpec => ImplementsAccess
<1>1. Init => Access!AccessInit
  BY DEF Init, Access!AccessInit
<1>2. IInv /\ IInv' /\ [AbruptNext]_vars => [Access!AccessNext]_<<Holders, Owner>>
  <2> SUFFICES ASSUME IInv, IInv', [AbruptNext]_vars
               PROVE  [Access!AccessNext]_<<Holders, Owner>>
    OBVIOUS
  <2>1. CASE UNCHANGED vars
    BY <2>1 DEF vars, Holders, Owner, InTransaction
  <2>2. CASE \E w \in Worker : LeaseStep(w)
    BY <2>2, WorkerStepRefines
  <2>3. CASE \E c \in Client : ClientStep(c)
    BY <2>3, WorkerStepRefines DEF Worker
  <2>4. CASE \E j \in Job : JobStep(j)
    BY <2>4, JobStepRefines
  <2>5. CASE \E w \in Downloader : Panic(w)
    BY <2>5, WorkerStepRefines DEF Worker
  <2>6. CASE \E j \in Job : DropRequest(j)
    BY <2>6, JobStepRefines
  <2>7. QED
    BY <2>1, <2>2, <2>3, <2>4, <2>5, <2>6 DEF AbruptNext, PanicNext, Next
<1>3. IInv /\ IInv' /\ [AbruptNext]_vars => [Access!AccessNext]_Access!accessVars
  BY <1>2 DEF Access!accessVars, Holders, Owner, InTransaction
<1>4. QED
  BY <1>1, <1>3, Invariance, PTL DEF AbruptSpec, ImplementsAccess, Access!AccessSpec

-----------------------------------------------------------------------------
(* Downloads and the transaction of a job.                                 *)

\* Without panics, running_sources names exactly the workers inside a run.
RunsAreLeased ==
  \A d \in Downloader : d \in runningSources <=> wpc[d] = "running"

LEMMA NextRunsAreLeased == TypeOK /\ RunsAreLeased /\ [Next]_vars => RunsAreLeased'
<1> SUFFICES ASSUME TypeOK, RunsAreLeased, [Next]_vars PROVE RunsAreLeased'
  OBVIOUS
<1> USE DEF TypeOK, RunsAreLeased
<1>1. CASE UNCHANGED vars
  BY <1>1 DEF vars
<1>2. ASSUME NEW w \in Worker, LeaseStep(w)
      PROVE  RunsAreLeased'
  <2>1. CASE BeginRun(w)
    BY <2>1 DEF BeginRun
  <2>2. CASE EndRun(w)
    BY <2>2 DEF EndRun
  <2>3. CASE ~BeginRun(w) /\ ~EndRun(w)
    <3>1. UNCHANGED runningSources
      BY <1>2, <2>3
      DEF LeaseStep, FirstCheck, Count, SecondCheck, BackOut, DropLease
    <3>2. \A v \in Worker : wpc'[v] = "running" <=> wpc[v] = "running"
      BY <1>2, <2>3
      DEF LeaseStep, FirstCheck, Count, SecondCheck, BackOut, DropLease
    <3>3. QED
      BY <3>1, <3>2 DEF Worker
  <2>4. QED
    BY <2>1, <2>2, <2>3
<1>3. ASSUME NEW c \in Client, ClientStep(c)
      PROVE  RunsAreLeased'
  <2>1. c \in Worker /\ c \notin Downloader
    BY ConstantsAssumption DEF Worker
  <2>2. UNCHANGED runningSources
    BY <1>3 DEF ClientStep, ClientPause, ClientTakeControl, ClientResume
  <2>3. \A v \in Worker : v # c => wpc'[v] = wpc[v]
    BY <1>3 DEF ClientStep, ClientPause, ClientTakeControl, ClientResume
  <2>4. QED
    BY <2>1, <2>2, <2>3 DEF Worker
<1>4. ASSUME NEW j \in Job, JobStep(j)
      PROVE  RunsAreLeased'
  BY <1>4
  DEF JobStep, ClaimJob, SpawnJob, TakeSerial, ReadPaused,
      PauseForMaintenance,
      ReadRunningSources, ReadBackgroundWorkers, PollAgain, TimeOut,
      FinishTransaction, Reopen, JobTakeControl, ResumeAfterMaintenance
<1>5. QED
  BY <1>1, <1>2, <1>3, <1>4 DEF Next

\* Although wait_for_quiescence reads running_sources before the counter, no
\* download is in running_sources during a transaction: a run is listed only
\* while it is leased (downloader.rs:1004, maintenance.rs:351).
THEOREM NoRunsInTransactions == Spec => []NoRunDuringTransaction
<1>1. Init => RunsAreLeased
  BY DEF Init, RunsAreLeased, Worker
<1>2. IInv /\ RunsAreLeased => NoRunDuringTransaction
  BY DEF IInv, TypeOK, ExclusiveTransaction, RunsAreLeased, NoRunDuringTransaction,
         Worker
<1>3. IInv => TypeOK
  BY DEF IInv
<1>4. QED
  BY <1>1, <1>2, <1>3, NextRunsAreLeased, Invariance, SpecIsAbruptSpec, PTL DEF Spec

HIDE DEF Leased, Counted, WorkerStates, Closing, JobStates, workerVars, jobVars,
        downloadVars

-----------------------------------------------------------------------------
(* Restores and resets, applied at the next start.                         *)

Match == \A f \in Sidecar : live[f] \in {Absent, live["db"]}

\* Where the work on files is, and that only a marked operation moves files.
Progress ==
  /\ pc \in {"retire"} \cup Undoing => file \in File
  /\ pc \in {"install", "stage_create", "stage_copy"} => file \in Data
  /\ pc \in Applying \cup Undoing \cup {"commit"} => marker \in Operation

\* The sidecars that apply_pending_restart has passed are gone.  Elsewhere they
\* match the database, unless a marker keeps the library from being opened.
SidecarsInv ==
  /\ pc \in Applying =>
       /\ file \in {"shm", "settings", "config", "end"} => live["wal"] = Absent
       /\ file \in {"settings", "config", "end"} => live["shm"] = Absent
  /\ pc = "commit" => live["wal"] = Absent /\ live["shm"] = Absent
  /\ pc \in {"opening", "running"} \cup Staging => Match
  /\ pc \in {"down", "failed"} => Match \/ marker # "none"

RestartInv == RestartTypeOK /\ Progress /\ SidecarsInv

USE DEF Applying, Undoing, Staging, Data, Sidecar, File, Operation

LEMMA InitRestart == RestartInit => RestartInv
BY DEF RestartInit, RestartInv, RestartTypeOK, Progress, SidecarsInv, Match, Content,
       fileVars, DataOf

-----------------------------------------------------------------------------
(* RestartTypeOK and Progress are preserved by every step.                        *)

LEMMA StagingProgress ==
  ASSUME RestartTypeOK, Progress,
         \/ \E s \in Backup \cup {Factory} : BeginStaging(s)
         \/ CreateStaged \/ CopyStaged \/ CreateMarker \/ WriteMarker
         \/ FailStaging
  PROVE  RestartTypeOK' /\ Progress'
<1> USE DEF fileVars, applyVars, pastVars
<1>1. CASE \E s \in Backup \cup {Factory} : BeginStaging(s)
  BY <1>1 DEF BeginStaging, RestartTypeOK, Progress
<1>2. CASE CreateStaged
  <2>1. SourceOperation(source) \in Operation  BY DEF SourceOperation
  <2>2. staged' \in [Operation -> [Data -> Content]]
    BY <1>2, <2>1 DEF CreateStaged, RestartTypeOK, Progress, Content
  <2>. QED  BY <1>2, <2>2 DEF CreateStaged, RestartTypeOK, Progress
<1>3. CASE CopyStaged
  <2>1. SourceOperation(source) \in Operation  BY DEF SourceOperation
  <2>2. staged' \in [Operation -> [Data -> Content]]
    BY <1>3, <2>1 DEF CopyStaged, RestartTypeOK, Progress, Content
  <2>3. NextEntry(source, file) \in {"settings", "config", "end"}
    BY DEF NextEntry
  <2>. QED  BY <1>3, <2>2, <2>3 DEF CopyStaged, RestartTypeOK, Progress
<1>4. CASE CreateMarker  BY <1>4 DEF CreateMarker, RestartTypeOK, Progress
<1>5. CASE WriteMarker
  BY <1>5 DEF WriteMarker, SourceOperation, RestartTypeOK, Progress
<1>6. CASE FailStaging  BY <1>6 DEF FailStaging, RestartTypeOK, Progress
<1>. QED  BY <1>1, <1>2, <1>3, <1>4, <1>5, <1>6

LEMMA ApplyProgress ==
  ASSUME RestartTypeOK, Progress,
         \/ Start \/ Skip \/ ClearRollback \/ RetireLive \/ InstallStaged
         \/ BeginCommit \/ RemoveRollback \/ RemoveMarker
  PROVE  RestartTypeOK' /\ Progress'
<1> USE DEF fileVars, applyVars, pastVars
<1>1. CASE Start  BY <1>1 DEF Start, Pending, RestartTypeOK, Progress
<1>2. CASE Skip  BY <1>2 DEF Skip, After, RestartTypeOK, Progress
<1>3. CASE ClearRollback
  BY <1>3 DEF ClearRollback, RestartTypeOK, Progress, Content
<1>4. CASE RetireLive
  <2>1. /\ live' \in [File -> Content] /\ rollback' \in [File -> Content]
        /\ retired' \subseteq File
    BY <1>4 DEF RetireLive, RestartTypeOK, Progress, Content
  <2>2. /\ pc' \in {"clear", "install"} /\ file' \in File \cup {"end"}
        /\ pc' = "install" => file' \in Data
    BY <1>4 DEF RetireLive, After, RestartTypeOK, Progress
  <2>. QED  BY <1>4, <2>1, <2>2 DEF RetireLive, RestartTypeOK, Progress
<1>5. CASE InstallStaged
  <2>1. staged' \in [Operation -> [Data -> Content]]
    BY <1>5 DEF InstallStaged, RestartTypeOK, Progress, Content
  <2>. QED  BY <1>5, <2>1 DEF InstallStaged, After, RestartTypeOK, Progress
<1>6. CASE BeginCommit  BY <1>6 DEF BeginCommit, RestartTypeOK, Progress
<1>7. CASE RemoveRollback
  BY <1>7 DEF RemoveRollback, After, RestartTypeOK, Progress, Content
<1>8. CASE RemoveMarker  BY <1>8 DEF RemoveMarker, RestartTypeOK, Progress
<1>. QED  BY <1>1, <1>2, <1>3, <1>4, <1>5, <1>6, <1>7, <1>8

LEMMA UndoProgress ==
  ASSUME RestartTypeOK, Progress,
         \/ FailBeforeRename \/ FailInstall \/ UndoStaged \/ UndoLive
         \/ OpenLibrary \/ ShutDown \/ Crash
  PROVE  RestartTypeOK' /\ Progress'
<1> USE DEF fileVars, applyVars, pastVars
<1>1. CASE FailBeforeRename  BY <1>1 DEF FailBeforeRename, RestartTypeOK, Progress
<1>2. CASE FailInstall
  BY <1>2 DEF FailInstall, RestartTypeOK, Progress, Content
<1>3. CASE UndoStaged
  <2>1. /\ live' \in [File -> Content]
        /\ staged' \in [Operation -> [Data -> Content]]
    BY <1>3 DEF UndoStaged, RestartTypeOK, Progress, Content
  <2>. QED  BY <1>3, <2>1 DEF UndoStaged, RestartTypeOK, Progress
<1>4. CASE UndoLive
  BY <1>4 DEF UndoLive, Before, RestartTypeOK, Progress, Content
<1>5. CASE OpenLibrary  BY <1>5 DEF OpenLibrary, RestartTypeOK, Progress
<1>6. CASE ShutDown  BY <1>6 DEF ShutDown, RestartTypeOK, Progress, Content
<1>7. CASE Crash  BY <1>7 DEF Crash, RestartTypeOK, Progress
<1>. QED  BY <1>1, <1>2, <1>3, <1>4, <1>5, <1>6, <1>7

LEMMA NextProgress ==
  RestartTypeOK /\ Progress /\ [RestartNext]_restartVars => RestartTypeOK' /\ Progress'
<1> SUFFICES ASSUME RestartTypeOK, Progress, [RestartNext]_restartVars
             PROVE  RestartTypeOK' /\ Progress'
  OBVIOUS
<1>1. CASE RestartNext  BY <1>1, StagingProgress, ApplyProgress, UndoProgress DEF RestartNext
<1>2. CASE UNCHANGED restartVars
  BY <1>2 DEF restartVars, fileVars, applyVars, pastVars, RestartTypeOK, Progress
<1>. QED  BY <1>1, <1>2

-----------------------------------------------------------------------------
(* SidecarsInv is preserved by every step.                                 *)

LEMMA StagingSidecars ==
  ASSUME RestartInv,
         \/ \E s \in Backup \cup {Factory} : BeginStaging(s)
         \/ CreateStaged \/ CopyStaged \/ CreateMarker \/ WriteMarker
         \/ FailStaging
  PROVE  SidecarsInv'
<1> USE DEF RestartInv, SidecarsInv, Match, fileVars
<1>1. pc \in {"running"} \cup Staging /\ pc' \in {"running"} \cup Staging
  BY DEF BeginStaging, CreateStaged, CopyStaged, CreateMarker, WriteMarker,
         FailStaging
<1>2. live' = live
  BY DEF BeginStaging, CreateStaged, CopyStaged, CreateMarker, WriteMarker,
         FailStaging
<1>. QED  BY <1>1, <1>2

LEMMA ApplySidecars ==
  ASSUME RestartInv,
         \/ Start \/ Skip \/ ClearRollback \/ RetireLive \/ InstallStaged
         \/ BeginCommit \/ RemoveRollback \/ RemoveMarker
  PROVE  SidecarsInv'
<1> USE DEF RestartInv, SidecarsInv, Match, fileVars
<1>1. CASE Start  BY <1>1 DEF Start, Pending
<1>2. CASE Skip  BY <1>2 DEF Skip, After
<1>3. CASE ClearRollback  BY <1>3 DEF ClearRollback
<1>4. CASE RetireLive
  BY <1>4 DEF RetireLive, After, RestartTypeOK, Progress
<1>5. CASE InstallStaged
  BY <1>5 DEF InstallStaged, After, RestartTypeOK, Progress
<1>6. CASE BeginCommit  BY <1>6 DEF BeginCommit
<1>7. CASE RemoveRollback  BY <1>7 DEF RemoveRollback
<1>8. CASE RemoveMarker  BY <1>8 DEF RemoveMarker
<1>. QED  BY <1>1, <1>2, <1>3, <1>4, <1>5, <1>6, <1>7, <1>8

LEMMA UndoSidecars ==
  ASSUME RestartInv,
         \/ FailBeforeRename \/ FailInstall \/ UndoStaged \/ UndoLive
         \/ OpenLibrary \/ ShutDown \/ Crash
  PROVE  SidecarsInv'
<1> USE DEF RestartInv, SidecarsInv, Match, fileVars
<1>1. CASE FailBeforeRename \/ FailInstall \/ UndoStaged
  BY <1>1 DEF FailBeforeRename, FailInstall, UndoStaged
<1>2. CASE UndoLive
  <2>1. marker' # "none"  BY <1>2 DEF UndoLive, Progress
  <2>2. pc' \in {"failed", "undo_staged"}  BY <1>2 DEF UndoLive
  <2>. QED  BY <2>1, <2>2
<1>3. CASE OpenLibrary  BY <1>3 DEF OpenLibrary, RestartTypeOK
<1>4. CASE ShutDown  BY <1>4 DEF ShutDown, RestartTypeOK
<1>5. CASE Crash
  BY <1>5 DEF Crash, RestartTypeOK, Progress
<1>. QED  BY <1>1, <1>2, <1>3, <1>4, <1>5

LEMMA NextRestart == RestartInv /\ [RestartNext]_restartVars => RestartInv'
<1> SUFFICES ASSUME RestartInv, [RestartNext]_restartVars  PROVE RestartInv'
  OBVIOUS
<1>1. RestartTypeOK' /\ Progress'  BY NextProgress DEF RestartInv
<1>2. CASE RestartNext
  <2>1. SidecarsInv'
    BY <1>2, StagingSidecars, ApplySidecars, UndoSidecars DEF RestartNext
  <2>. QED  BY <1>1, <2>1 DEF RestartInv
<1>3. CASE UNCHANGED restartVars
  BY <1>1, <1>3 DEF restartVars, fileVars, RestartInv, SidecarsInv, Match
<1>. QED  BY <1>2, <1>3

THEOREM RestartInvariance == RestartSpec => []RestartInv
BY InitRestart, NextRestart, PTL DEF RestartSpec

-----------------------------------------------------------------------------
\* Every variable keeps its type, the marker in particular.
THEOREM RestartTypeCorrect == RestartSpec => []RestartTypeOK
<1>1. RestartInv => RestartTypeOK  BY DEF RestartInv
<1>. QED  BY <1>1, RestartInvariance, PTL

\* However often starts are killed or fail, and however many operations were
\* staged, no database is opened beside the write-ahead log of another one.
THEOREM SidecarsAlwaysMatch == RestartSpec => []SidecarsMatch
<1>1. RestartInv => SidecarsMatch  BY DEF RestartInv, SidecarsInv, SidecarsMatch, Match
<1>. QED  BY <1>1, RestartInvariance, PTL

-----------------------------------------------------------------------------
(* A failed start is undone.  The argument compares every file with what   *)
(* apply_pending_restart found, for a host whose rollback renames succeed. *)

\* The files apply_pending_restart has dealt with when it is at f, and those
\* its rollback has restored.
Passed(f) ==
  CASE f = "db" -> {} [] f = "wal" -> {"db"} [] f = "shm" -> {"db", "wal"}
    [] f = "settings" -> {"db", "wal", "shm"}
    [] f = "config" -> File \ {"config"} [] OTHER -> File

Restored(f) ==
  CASE f = "config" -> {} [] f = "settings" -> {"config"}
    [] f = "db" -> {"config", "settings"}
    [] f = "shm" -> {"config", "settings", "db"}
    [] f = "wal" -> File \ {"wal"} [] OTHER -> File

\* Where f is, from what was recorded about it: where it was found, moved to
\* the rollback file, or moved and replaced.
Recorded(f) ==
  /\ f \in retired => rollback[f] = before.live[f] /\ before.live[f] # Absent
  /\ f \in retired /\ f \notin replaced => live[f] = Absent
  /\ f \notin retired =>
       before.live[f] = IF f \in replaced THEN Absent ELSE live[f]
  /\ f \in replaced =>
       /\ staged[marker][f] = Absent
       /\ live[f] = before.staged[marker][f] /\ live[f] # Absent
  /\ f \in Data \ replaced => staged[marker][f] = before.staged[marker][f]

\* The staged file has returned, the live one is still to be.
HalfRestored(f) ==
  /\ f \in retired =>
       /\ rollback[f] = before.live[f] /\ before.live[f] # Absent
       /\ live[f] = Absent
  /\ f \notin retired => live[f] = before.live[f]
  /\ f \in Data => staged[marker][f] = before.staged[marker][f]

Undone(f) ==
  /\ live[f] = before.live[f]
  /\ f \in Data => staged[marker][f] = before.staged[marker][f]

BeforeType ==
  before \in [live : [File -> Content],
              staged : [Operation -> [Data -> Content]]]

UndoInv ==
  /\ BeforeType
  /\ pc \in Applying =>
       /\ \A f \in File : Recorded(f)
       /\ before.staged[marker]["db"] # Absent
       /\ \A f \in File \ Passed(file) :
            /\ f \notin replaced
            /\ f \in retired => pc = "install" /\ f = file
  /\ pc \in {"retire", "install"} /\ file \in Data =>
       staged[marker][file] # Absent
  /\ pc = "install" => live[file] = Absent
  /\ pc \in Undoing => \A f \in File :
       IF f \in Restored(file) THEN Undone(f)
       ELSE IF f = file /\ pc = "undo_live" THEN HalfRestored(f)
       ELSE Recorded(f)
  /\ pc \in Applying \cup Undoing =>
       \A o \in Operation \ {marker} : staged[o] = before.staged[o]
  /\ pc = "failed" => live = before.live /\ staged = before.staged

-----------------------------------------------------------------------------
\* The staged files of an operation are complete and the live ones are those
\* of the last run.  Only the database may be missing: a start that was
\* killed had moved it away.
Prepared(lives, stages) ==
  /\ marker = SourceOperation(source)
  /\ intended = Outcome(source)
  /\ \A f \in Data : stages[marker][f] = IF Holds(source, f) THEN source ELSE Absent
  /\ lives["db"] \in {lastRun["db"], Absent}
  /\ \A f \in {"settings", "config"} : lives[f] = lastRun[f]

Empty(o) == \A f \in Data : staged[o][f] = Absent

\* The files a staging job has passed are staged, the others are not.
StagedInOrder ==
  \A f \in Data :
    f # file \/ pc # "stage_copy" =>
      staged[SourceOperation(source)][f] =
        IF /\ Holds(source, f)
           /\ pc \in {"stage_create", "stage_copy"} => f \in Passed(file)
        THEN source ELSE Absent

\* At most one staging has begun since the last start that applied one.
Single == stagings <= 1

OneStaging ==
  /\ stagings \in {0, 1}
  /\ stagings = 0 => marker = "none" /\ (\A o \in Operation : Empty(o))
  /\ \A o \in Operation \ {SourceOperation(source)} : Empty(o)
  /\ pc \in Staging =>
       /\ stagings = 1
       /\ pc \in {"stage_create", "stage_copy"} => Holds(source, file)
       /\ StagedInOrder
       /\ marker = IF pc = "marker_write" THEN "torn" ELSE "none"

WholeInv ==
  /\ pc \in {"running"} \cup Staging => DataOf(live) = lastRun
  /\ pc = "opening" => DataOf(live) \in {lastRun, intended} /\ ~Pending
  /\ pc \in {"down", "failed"} /\ marker = "none" =>
       DataOf(live) \in {lastRun, intended}
  /\ pc \notin Applying \cup Undoing /\ Pending => Prepared(live, staged)
  /\ pc \in Applying \cup Undoing => Prepared(before.live, before.staged)
  /\ pc \in Applying =>
       \A f \in Data \cap Passed(file) :
         /\ f \in replaced <=> Holds(source, f)
         /\ f \in retired => f \in replaced
  /\ pc \in Undoing =>
       \A f \in {"settings", "config"} :
         f \in replaced \cup retired => "db" \in replaced
  /\ pc = "commit" =>
       DataOf(live) = intended /\ (\A o \in Operation : Empty(o))

-----------------------------------------------------------------------------
LEMMA InitUndo == RestartInit => UndoInv
BY DEF RestartInit, UndoInv, BeforeType, Content

\* A step of the running host, and a step that ends a process, touch neither
\* the progress of apply_pending_restart nor its record.
LEMMA OutsideUndo ==
  ASSUME RestartInv, UndoInv,
         \/ \E s \in Backup \cup {Factory} : BeginStaging(s)
         \/ CreateStaged \/ CopyStaged \/ CreateMarker \/ WriteMarker
         \/ FailStaging \/ OpenLibrary \/ ShutDown \/ Crash
         \/ BeginCommit \/ RemoveRollback \/ RemoveMarker
  PROVE  UndoInv'
<1>1. before' = before
  BY DEF BeginStaging, CreateStaged, CopyStaged, CreateMarker, WriteMarker,
         FailStaging, OpenLibrary, ShutDown, Crash, BeginCommit,
         RemoveRollback, RemoveMarker, applyVars
<1>2. pc' \notin Applying \cup Undoing \cup {"failed"}
  BY DEF BeginStaging, CreateStaged, CopyStaged, CreateMarker, WriteMarker,
         FailStaging, OpenLibrary, ShutDown, Crash, BeginCommit,
         RemoveRollback, RemoveMarker
<1>. QED  BY <1>1, <1>2 DEF UndoInv, BeforeType

LEMMA StartUndo == ASSUME RestartInv, UndoInv, Start PROVE UndoInv'
<1> USE DEF Start, fileVars
<1>1. BeforeType'  BY DEF BeforeType, RestartInv, RestartTypeOK
<1>2. pc' = "clear" => marker \in Operation /\ staged[marker]["db"] # Absent
  BY DEF Pending
<1>3. /\ before'.live = live' /\ before'.staged = staged'
      /\ replaced' = {} /\ retired' = {} /\ marker' = marker
      /\ pc' \in {"opening", "clear", "failed"}
  OBVIOUS
<1>4. \A f \in File : Recorded(f)'
  BY <1>3 DEF Recorded
<1>. QED  BY <1>1, <1>2, <1>3, <1>4 DEF UndoInv

LEMMA SkipUndo == ASSUME RestartInv, UndoInv, Skip PROVE UndoInv'
<1> USE DEF Skip, fileVars, applyVars, UndoInv, BeforeType
<1>1. \A f \in File : Recorded(f)'  BY DEF Recorded
<1>2. File \ Passed(file') \subseteq File \ Passed(file)
  BY DEF Passed, After
<1>. QED  BY <1>1, <1>2

LEMMA ClearUndo == ASSUME RestartInv, UndoInv, ClearRollback PROVE UndoInv'
<1> USE DEF ClearRollback, fileVars, applyVars, UndoInv, BeforeType
<1>1. file \in File \ Passed(file)  BY DEF Passed
<1>2. file \notin retired /\ file \notin replaced  BY <1>1
<1>3. \A f \in File \ {file} : rollback'[f] = rollback[f]
  BY DEF RestartInv, RestartTypeOK
<1>4. \A f \in File : Recorded(f)'  BY <1>2, <1>3 DEF Recorded
<1>5. file \in Data => staged[marker][file] # Absent
  <2>1. file \in Data \ {"db"} => staged[marker][file] # Absent
    BY DEF Applies
  <2>2. file = "db" => staged[marker][file] # Absent
    BY <1>2 DEF Recorded
  <2>. QED  BY <2>1, <2>2
<1>. QED  BY <1>2, <1>4, <1>5

LEMMA RetireUndo == ASSUME RestartInv, UndoInv, RetireLive PROVE UndoInv'
<1> USE DEF RetireLive, fileVars, applyVars, UndoInv, BeforeType
<1>1. file \in File \ Passed(file)  BY DEF RestartInv, Progress, Passed
<1>2. file \notin retired /\ file \notin replaced  BY <1>1
<1>3. \A f \in File \ {file} :
        /\ live'[f] = live[f] /\ rollback'[f] = rollback[f]
        /\ f \in retired' <=> f \in retired
  BY <1>1 DEF RestartInv, RestartTypeOK
<1>4. live'[file] = Absent /\ (file \in retired' => live[file] # Absent)
      /\ (file \in retired' => rollback'[file] = live[file])
      /\ (file \notin retired' => live[file] = Absent)
  BY <1>1, <1>2 DEF RestartInv, RestartTypeOK
<1>5. \A f \in File : Recorded(f)'  BY <1>2, <1>3, <1>4 DEF Recorded
<1>6. CASE file \in Sidecar
  <2>1. pc' = "clear" /\ File \ Passed(file') \subseteq File \ Passed(file)
        /\ file \in Passed(file')
    BY <1>6 DEF Passed, After
  <2>. QED  BY <1>3, <1>5, <2>1
<1>7. CASE file \notin Sidecar
  <2>1. pc' = "install" /\ file' = file  BY <1>7
  <2>. QED  BY <1>2, <1>3, <1>4, <1>5, <2>1
<1>. QED  BY <1>6, <1>7

LEMMA InstallUndo == ASSUME RestartInv, UndoInv, InstallStaged PROVE UndoInv'
<1> USE DEF InstallStaged, fileVars, applyVars, UndoInv, BeforeType
<1>1. file \in Data /\ marker \in Operation  BY DEF RestartInv, Progress
<1>2. file \in File \ Passed(file)  BY <1>1 DEF Passed
<1>3. file \notin replaced /\ staged[marker][file] # Absent
      /\ live[file] = Absent
  BY <1>1, <1>2
<1>4. /\ \A f \in File \ {file} : live'[f] = live[f]
      /\ live'[file] = staged[marker][file]
      /\ \A f \in Data \ {file} : staged'[marker][f] = staged[marker][f]
      /\ staged'[marker][file] = Absent
      /\ \A o \in Operation \ {marker} : staged'[o] = staged[o]
  BY <1>1 DEF RestartInv, RestartTypeOK
<1>5. \A f \in File : Recorded(f)'
  BY <1>1, <1>3, <1>4 DEF Recorded
<1>6. File \ Passed(file') \subseteq (File \ Passed(file)) \ {file}
  BY <1>1 DEF Passed, After
<1>. QED  BY <1>4, <1>5, <1>6

LEMMA FailUndo ==
  ASSUME RestartInv, UndoInv, ~RollbackFails, FailBeforeRename \/ FailInstall
  PROVE  UndoInv'
<1> USE DEF fileVars, applyVars, UndoInv, BeforeType
<1>1. CASE FailBeforeRename
  <2>1. \A f \in File : Recorded(f)'
    BY <1>1 DEF FailBeforeRename, Recorded
  <2>. QED  BY <1>1, <2>1 DEF FailBeforeRename, Restored
<1>2. CASE FailInstall
  <2> USE DEF FailInstall
  <2>1. file \in Data /\ file \in File \ Passed(file)
    BY <1>2 DEF RestartInv, Progress, Passed
  <2>2. file \notin replaced /\ live[file] = Absent  BY <1>2, <2>1
  <2>3. \A f \in File \ {file} :
          live'[f] = live[f] /\ rollback'[f] = rollback[f]
    BY <1>2 DEF RestartInv, RestartTypeOK
  <2>4. live'[file] = before.live[file]
    BY <1>2, <2>1, <2>2 DEF RestartInv, RestartTypeOK, Recorded
  <2>5. \A f \in File : Recorded(f)'
    BY <1>2, <2>2, <2>3, <2>4 DEF Recorded
  <2>. QED  BY <1>2, <2>5 DEF Restored
<1>. QED  BY <1>1, <1>2

LEMMA UndoStagedUndo ==
  ASSUME RestartInv, UndoInv, ~RollbackFails, UndoStaged PROVE UndoInv'
<1> USE DEF UndoStaged, fileVars, applyVars, UndoInv, BeforeType
<1> PICK g \in File : g = file  BY DEF RestartInv, Progress
<1>1. marker \in Operation /\ marker' = marker /\ g \notin Restored(g)
  BY DEF RestartInv, Progress, Restored
<1>2. Recorded(g)  BY <1>1
<1>3. /\ \A f \in File \ {g} : live'[f] = live[f]
      /\ \A f \in Data \ {g} : staged'[marker][f] = staged[marker][f]
      /\ \A o \in Operation \ {marker} : staged'[o] = staged[o]
  BY <1>1 DEF RestartInv, RestartTypeOK
<1>4. HalfRestored(g)'
  <2>1. CASE g \in replaced
    <3>1. g \in Data /\ live[g] # Absent /\ staged[marker][g] = Absent
      BY <1>2, <2>1 DEF RestartInv, RestartTypeOK, Recorded
    <3>2. live'[g] = Absent /\ staged'[marker][g] = live[g]
      BY <1>1, <2>1, <3>1 DEF RestartInv, RestartTypeOK
    <3>. QED  BY <1>1, <1>2, <2>1, <3>1, <3>2 DEF HalfRestored, Recorded
  <2>2. CASE g \notin replaced
    <3>1. live' = live /\ staged' = staged  BY <2>2
    <3>. QED  BY <1>1, <1>2, <2>2, <3>1 DEF HalfRestored, Recorded
  <2>. QED  BY <2>1, <2>2
<1>5. Restored(g) \subseteq File  BY DEF Restored
<1>6. \A f \in Restored(g) : Undone(f)'
  <2>1. \A f \in Restored(g) : Undone(f) /\ f # g  BY <1>1, <1>5
  <2>. QED  BY <1>1, <1>3, <1>5, <2>1 DEF Undone
<1>7. \A f \in File \ (Restored(g) \cup {g}) : Recorded(f)'
  <2>1. \A f \in File \ (Restored(g) \cup {g}) : Recorded(f)  OBVIOUS
  <2>2. replaced \subseteq Data  BY DEF RestartInv, RestartTypeOK
  <2>. QED  BY <1>1, <1>3, <2>1, <2>2 DEF Recorded
<1>. QED  BY <1>1, <1>3, <1>4, <1>5, <1>6, <1>7

LEMMA UndoLiveUndo ==
  ASSUME RestartInv, UndoInv, ~RollbackFails, UndoLive PROVE UndoInv'
<1> USE DEF UndoLive, fileVars, applyVars, UndoInv, BeforeType
<1> PICK g \in File : g = file  BY DEF RestartInv, Progress
<1>1. marker \in Operation /\ marker' = marker /\ g \notin Restored(g)
  BY DEF RestartInv, Progress, Restored
<1>2. HalfRestored(g)  BY <1>1
<1>3. \A f \in File \ {g} : live'[f] = live[f] /\ rollback'[f] = rollback[f]
  BY <1>1 DEF RestartInv, RestartTypeOK
<1>4. Undone(g)'
  BY <1>1, <1>2 DEF HalfRestored, Undone, RestartInv, RestartTypeOK
<1>5. Restored(g) \subseteq File  BY DEF Restored
<1>6. \A f \in Restored(g) \cup {g} : Undone(f)'
  <2>1. \A f \in Restored(g) : Undone(f) /\ f # g  BY <1>1, <1>5
  <2>. QED  BY <1>1, <1>3, <1>4, <1>5, <2>1 DEF Undone
<1>7. \A f \in File \ (Restored(g) \cup {g}) : Recorded(f)'
  <2>1. \A f \in File \ (Restored(g) \cup {g}) : Recorded(f)  OBVIOUS
  <2>. QED  BY <1>1, <1>3, <2>1 DEF Recorded
<1>8. CASE file' = "end"
  <2>1. File \subseteq Restored(g) \cup {g}
    BY <1>8 DEF Restored, Before
  <2>2. \A f \in File : Undone(f)'
    BY <1>6, <2>1
  <2>3. live' = before.live
    <3>1. live' \in [File -> Content]  BY NextProgress DEF RestartInv, RestartTypeOK, RestartNext
    <3>. QED  BY <2>2, <3>1 DEF Undone
  <2>4. staged[marker] = before.staged[marker]
    BY <1>1, <2>2 DEF Undone, RestartInv, RestartTypeOK
  <2>5. staged = before.staged
    BY <1>1, <2>4 DEF RestartInv, RestartTypeOK
  <2>. QED  BY <1>8, <2>3, <2>5
<1>9. CASE file' # "end"
  <2>1. Restored(file') = Restored(g) \cup {g}
    BY <1>9 DEF Restored, Before
  <2>. QED  BY <1>1, <1>6, <1>7, <1>9, <2>1
<1>. QED  BY <1>8, <1>9

LEMMA NextUndo ==
  ~RollbackFails /\ RestartInv /\ UndoInv /\ [RestartNext]_restartVars => UndoInv'
<1> SUFFICES ASSUME ~RollbackFails, RestartInv, UndoInv, [RestartNext]_restartVars
             PROVE  UndoInv'
  OBVIOUS
<1>1. CASE RestartNext
  BY <1>1, OutsideUndo, StartUndo, SkipUndo, ClearUndo, RetireUndo,
     InstallUndo, FailUndo, UndoStagedUndo, UndoLiveUndo DEF RestartNext
<1>2. CASE UNCHANGED restartVars
  BY <1>2 DEF restartVars, fileVars, applyVars, UndoInv, BeforeType, Recorded,
              HalfRestored, Undone
<1>. QED  BY <1>1, <1>2

\* When the renames of a rollback succeed, a start that fails has put every
\* file back where it found it, however often starts were killed before it and
\* however many operations were staged.
THEOREM FailureRestoresFiles == ~RollbackFails => (RestartSpec => []FailedStartIsUndone)
<1> SUFFICES ASSUME ~RollbackFails PROVE RestartSpec => []FailedStartIsUndone
  OBVIOUS
<1>1. RestartSpec => []UndoInv
  BY InitUndo, NextUndo, RestartInvariance, PTL DEF RestartSpec
<1>2. UndoInv => FailedStartIsUndone
  BY DEF UndoInv, BeforeType, FailedStartIsUndone
<1>. QED  BY <1>1, <1>2, PTL

-----------------------------------------------------------------------------
(* All or nothing, when one operation is staged between two restarts.      *)

Whole == RestartInv /\ UndoInv /\ OneStaging /\ WholeInv

LEMMA InitWhole == RestartInit => OneStaging /\ WholeInv
BY DEF RestartInit, OneStaging, WholeInv, Empty, Pending, DataOf

LEMMA SourceExists == RestartTypeOK => source # Absent
BY LibrariesAssumption DEF RestartTypeOK

LEMMA BeginWhole ==
  ASSUME Whole, Single', \E s \in Backup \cup {Factory} : BeginStaging(s)
  PROVE  OneStaging' /\ WholeInv'
<1> USE DEF BeginStaging, Whole, fileVars, applyVars
<1>1. /\ stagings = 0 /\ stagings' = 1 /\ pc = "running" /\ pc' = "stage_create"
      /\ marker = "none" /\ marker' = marker /\ file' = "db"
      /\ live' = live /\ staged' = staged /\ lastRun' = lastRun
  BY DEF OneStaging, Single
<1>2. \A o \in Operation : Empty(o)  BY <1>1 DEF OneStaging
<1>3. SourceOperation(source') \in Operation  BY DEF SourceOperation
<1>4. OneStaging'
  BY <1>1, <1>2, <1>3 DEF OneStaging, StagedInOrder, Empty, Holds, Passed
<1>5. WholeInv'
  BY <1>1 DEF WholeInv, Pending, DataOf
<1>. QED  BY <1>4, <1>5

LEMMA CreateWhole ==
  ASSUME Whole, CreateStaged PROVE OneStaging' /\ WholeInv'
<1> USE DEF CreateStaged, Whole, applyVars, pastVars
<1> DEFINE op == SourceOperation(source)
<1>1. op \in Operation /\ op' = op  BY DEF SourceOperation
<1>2. file \in Data  BY DEF RestartInv, Progress
<1>3. /\ \A o \in Operation \ {op} : staged'[o] = staged[o]
      /\ \A g \in Data \ {file} : staged'[op][g] = staged[op][g]
  BY <1>1, <1>2 DEF RestartInv, RestartTypeOK
<1>4. OneStaging'
  <2>1. StagedInOrder  BY DEF OneStaging
  <2>2. StagedInOrder'
    BY <1>1, <1>2, <1>3, <2>1 DEF StagedInOrder, Holds
  <2>3. \A o \in Operation \ {op} : Empty(o)'
    BY <1>3 DEF OneStaging, Empty
  <2>4. Holds(source, file)'  BY DEF OneStaging, Holds
  <2>. QED  BY <1>1, <2>2, <2>3, <2>4 DEF OneStaging
<1>5. WholeInv'
  <2>1. marker = "none"  BY DEF OneStaging
  <2>. QED  BY <2>1 DEF WholeInv, Pending, DataOf
<1>. QED  BY <1>4, <1>5

LEMMA CopyWhole ==
  ASSUME Whole, CopyStaged PROVE OneStaging' /\ WholeInv'
<1> USE DEF CopyStaged, Whole, applyVars, pastVars
<1> DEFINE op == SourceOperation(source)
<1>1. op \in Operation /\ op' = op  BY DEF SourceOperation
<1> PICK g \in Data : g = file  BY DEF RestartInv, Progress
<1>2. /\ \A o \in Operation \ {op} : staged'[o] = staged[o]
      /\ \A f \in Data \ {g} : staged'[op][f] = staged[op][f]
      /\ staged'[op][g] = source
  BY <1>1 DEF RestartInv, RestartTypeOK
<1>3. Holds(source, g) /\ StagedInOrder  BY DEF OneStaging
<1>4. /\ file' \in {"settings", "config", "end"}
      /\ file' # "end" => Holds(source, file')
      /\ \A f \in Data : Holds(source, f) =>
           (f \in Passed(file') <=> f \in Passed(g) \cup {g})
  BY DEF NextEntry, Holds, Passed
<1>5. StagedInOrder'
  <2>1. pc' # "stage_copy" /\ source' = source
        /\ (pc' \in {"stage_create", "stage_copy"} <=> file' # "end")
    OBVIOUS
  <2>2. \A f \in Data \ {g} :
          staged[op][f] = IF Holds(source, f) /\ f \in Passed(g)
                          THEN source ELSE Absent
    BY <1>3 DEF StagedInOrder
  <2>3. \A f \in Data :
          staged'[op][f] = IF Holds(source, f) /\ f \in Passed(file')
                           THEN source ELSE Absent
    BY <1>2, <1>3, <1>4, <2>2
  <2>4. file' = "end" => Data \subseteq Passed(file')  BY DEF Passed
  <2>. QED  BY <1>1, <2>1, <2>3, <2>4 DEF StagedInOrder
<1>6. OneStaging'
  <2>1. pc' = "marker_create" => file' = "end"  OBVIOUS
  <2>2. pc' \in {"marker_create", "stage_create"} /\ marker' = "none"
        /\ stagings' = 1
    BY DEF OneStaging
  <2>3. \A o \in Operation \ {op} : Empty(o)'
    BY <1>2 DEF OneStaging, Empty
  <2>. QED  BY <1>1, <1>4, <1>5, <2>1, <2>2, <2>3 DEF OneStaging
<1>7. WholeInv'
  <2>1. marker = "none"  BY DEF OneStaging
  <2>. QED  BY <2>1 DEF WholeInv, Pending, DataOf
<1>. QED  BY <1>6, <1>7

LEMMA MarkWhole ==
  ASSUME Whole, CreateMarker \/ WriteMarker \/ FailStaging
  PROVE  OneStaging' /\ WholeInv'
<1> USE DEF Whole, fileVars, applyVars, pastVars
<1> DEFINE op == SourceOperation(source)
<1>1. op \in Operation /\ op' = op /\ source' = source /\ staged' = staged
      /\ live' = live /\ lastRun' = lastRun /\ stagings' = stagings
  BY DEF SourceOperation, CreateMarker, WriteMarker, FailStaging
<1>2. \A o \in Operation : Empty(o)' <=> Empty(o)  BY <1>1 DEF Empty
<1>3. CASE CreateMarker
  <2>1. StagedInOrder'
    BY <1>1, <1>3 DEF CreateMarker, OneStaging, StagedInOrder, Holds
  <2>2. OneStaging'
    BY <1>1, <1>2, <1>3, <2>1 DEF CreateMarker, OneStaging
  <2>. QED  BY <1>3, <2>2 DEF CreateMarker, WholeInv, Pending, DataOf
<1>4. CASE WriteMarker
  <2>1. StagedInOrder /\ stagings = 1
    BY <1>4 DEF WriteMarker, OneStaging
  <2>2. OneStaging'
    BY <1>1, <1>2, <1>4, <2>1 DEF WriteMarker, OneStaging
  <2>3. DataOf(live) = lastRun  BY <1>4 DEF WriteMarker, WholeInv
  <2>4. \A f \in Data : live[f] = lastRun[f]  BY <2>3 DEF DataOf
  <2>5. \A f \in Data : staged[op][f] = IF Holds(source, f) THEN source ELSE Absent
    BY <1>4, <2>1 DEF WriteMarker, StagedInOrder
  <2>6. Prepared(live, staged)'
    BY <1>1, <1>4, <2>4, <2>5 DEF WriteMarker, Prepared, Outcome, Holds
  <2>. QED  BY <1>1, <1>4, <2>2, <2>3, <2>6 DEF WriteMarker, WholeInv, DataOf
<1>5. CASE FailStaging
  <2>1. OneStaging'
    BY <1>1, <1>2, <1>5 DEF FailStaging, OneStaging
  <2>2. marker \notin Operation
    BY <1>5 DEF FailStaging, OneStaging
  <2>. QED  BY <1>5, <2>1, <2>2 DEF FailStaging, WholeInv, Pending, DataOf
<1>. QED  BY <1>3, <1>4, <1>5

\* During a start the staged operation is the one of the marker, and nothing
\* of another one is staged.
LEMMA PreparedStart ==
  ASSUME Whole, pc \in Applying \cup Undoing
  PROVE  /\ marker \in Operation /\ marker = SourceOperation(source)
         /\ stagings = 1
         /\ \A o \in Operation \ {marker} : Empty(o)
         /\ Prepared(before.live, before.staged)
<1>1. marker \in Operation  BY DEF Whole, RestartInv, Progress
<1>2. Prepared(before.live, before.staged)  BY DEF Whole, WholeInv
<1>. QED  BY <1>1, <1>2 DEF Whole, OneStaging, Prepared

LEMMA StartWhole == ASSUME Whole, Start PROVE OneStaging' /\ WholeInv'
<1> USE DEF Start, Whole, fileVars, pastVars
<1>1. OneStaging'  BY DEF OneStaging, Empty
<1>2. WholeInv'
  <2>1. CASE pc' = "opening"
    BY <2>1 DEF WholeInv, Pending, DataOf
  <2>2. CASE pc' = "clear"
    <3>1. Pending /\ Prepared(live, staged)  BY <2>2 DEF WholeInv
    <3>2. Prepared(before.live, before.staged)'
      BY <3>1 DEF Prepared, Outcome, Holds
    <3>3. Passed(file') = {}  BY DEF Passed
    <3>. QED  BY <2>2, <3>2, <3>3 DEF WholeInv
  <2>3. CASE pc' = "failed"
    BY <2>3 DEF WholeInv, Pending, Prepared, Outcome, Holds
  <2>. QED  BY <2>1, <2>2, <2>3
<1>. QED  BY <1>1, <1>2

LEMMA SkipWhole == ASSUME Whole, Skip PROVE OneStaging' /\ WholeInv'
<1> USE DEF Skip, Whole, fileVars, applyVars, pastVars
<1>1. OneStaging'  BY DEF OneStaging, Empty
<1> PICK g \in Data : g = file  OBVIOUS
<1>2. g \notin replaced /\ g \notin retired
  BY DEF UndoInv, Passed
<1>3. ~Holds(source, g)
  <2>1. Recorded(g)  BY DEF UndoInv
  <2>2. staged[marker][g] = IF Holds(source, g) THEN source ELSE Absent
    BY <1>2, <2>1, PreparedStart DEF Recorded, Prepared
  <2>3. source # Absent  BY SourceExists DEF RestartInv
  <2>. QED
    BY <2>2, <2>3, PreparedStart DEF Applies, Holds, SourceOperation
<1>4. Data \cap Passed(file') = (Data \cap Passed(g)) \cup {g}
  BY DEF After, Passed
<1>5. Prepared(before.live, before.staged)'
  BY PreparedStart DEF Prepared, Outcome, Holds
<1>6. WholeInv'
  BY <1>2, <1>3, <1>4, <1>5 DEF WholeInv, Holds
<1>. QED  BY <1>1, <1>6

LEMMA ClearWhole == ASSUME Whole, ClearRollback PROVE OneStaging' /\ WholeInv'
<1> USE DEF ClearRollback, Whole, applyVars, pastVars
<1>1. OneStaging'  BY DEF OneStaging, Empty
<1>2. Prepared(before.live, before.staged)'
  BY PreparedStart DEF Prepared, Outcome, Holds
<1>. QED  BY <1>1, <1>2 DEF WholeInv, Holds

LEMMA RetireWhole == ASSUME Whole, RetireLive PROVE OneStaging' /\ WholeInv'
<1> USE DEF RetireLive, Whole, pastVars
<1>1. OneStaging'  BY DEF OneStaging, Empty
<1>2. Prepared(before.live, before.staged)'
  BY PreparedStart DEF Prepared, Outcome, Holds
<1>3. file \in File /\ file \notin Passed(file)
  BY DEF RestartInv, Progress, Passed
<1>4. Data \cap Passed(file') = Data \cap Passed(file)
  BY <1>3 DEF After, Passed
<1>5. \A f \in Data \cap Passed(file) : f \in retired' <=> f \in retired
  BY <1>3
<1>. QED  BY <1>1, <1>2, <1>4, <1>5 DEF WholeInv, Holds

LEMMA InstallWhole == ASSUME Whole, InstallStaged PROVE OneStaging' /\ WholeInv'
<1> USE DEF InstallStaged, Whole, pastVars
<1> PICK g \in Data : g = file  BY DEF RestartInv, Progress
<1>1. \A o \in Operation \ {marker} : Empty(o)'
  <2>1. \A o \in Operation \ {marker} : staged'[o] = staged[o]
    BY PreparedStart DEF RestartInv, RestartTypeOK
  <2>. QED  BY <2>1, PreparedStart DEF Empty
<1>2. OneStaging'
  BY <1>1, PreparedStart DEF OneStaging, SourceOperation
<1>3. Prepared(before.live, before.staged)'
  BY PreparedStart DEF Prepared, Outcome, Holds
<1>4. Holds(source, g)
  <2>1. g \notin replaced /\ Recorded(g) /\ staged[marker][g] # Absent
    BY DEF UndoInv, Passed
  <2>. QED  BY <2>1, PreparedStart DEF Recorded, Prepared
<1>5. Data \cap Passed(file') = (Data \cap Passed(g)) \cup {g}
  BY DEF After, Passed
<1>. QED  BY <1>2, <1>3, <1>4, <1>5 DEF WholeInv, Holds

LEMMA FailWhole ==
  ASSUME Whole, FailBeforeRename \/ FailInstall
  PROVE  OneStaging' /\ WholeInv'
<1> USE DEF FailBeforeRename, FailInstall, Whole, fileVars, applyVars, pastVars
<1>1. OneStaging'  BY DEF OneStaging, Empty
<1>2. Prepared(before.live, before.staged)'
  BY PreparedStart DEF Prepared, Outcome, Holds
<1>3. file \in File  BY DEF RestartInv, Progress
<1>4. CASE file = "db"
  <2>1. \A f \in {"settings", "config"} : f \notin replaced \cup retired
    BY <1>4 DEF UndoInv, Passed
  <2>. QED  BY <1>1, <1>2, <2>1 DEF WholeInv
<1>5. CASE file # "db"
  <2>1. "db" \in Data \cap Passed(file)  BY <1>3, <1>5 DEF Passed
  <2>2. "db" \in replaced  BY <2>1 DEF WholeInv, Holds
  <2>. QED  BY <1>1, <1>2, <2>2 DEF WholeInv
<1>. QED  BY <1>4, <1>5

LEMMA UndoStagedWhole ==
  ASSUME Whole, UndoStaged PROVE OneStaging' /\ WholeInv'
<1> USE DEF UndoStaged, Whole, applyVars, pastVars
<1>1. \A o \in Operation \ {marker} : Empty(o)'
  <2>1. \A o \in Operation \ {marker} : staged'[o] = staged[o]
    BY PreparedStart DEF RestartInv, RestartTypeOK
  <2>. QED  BY <2>1, PreparedStart DEF Empty
<1>2. OneStaging'
  BY <1>1, PreparedStart DEF OneStaging, SourceOperation
<1>3. Prepared(before.live, before.staged)'
  BY PreparedStart DEF Prepared, Outcome, Holds
<1>. QED  BY <1>2, <1>3 DEF WholeInv

LEMMA UndoLiveWhole ==
  ASSUME Whole, ~RollbackFails, UndoLive PROVE OneStaging' /\ WholeInv'
<1> USE DEF UndoLive, Whole, pastVars
<1>1. OneStaging'  BY DEF OneStaging, Empty
<1>2. Prepared(before.live, before.staged)'
  BY PreparedStart DEF Prepared, Outcome, Holds
<1>3. CASE pc' = "failed"
  <2>1. live' = before.live /\ staged' = before.staged /\ before' = before
    BY <1>3, UndoLiveUndo DEF UndoInv
  <2>2. Prepared(live, staged)'  BY <1>2, <2>1 DEF Prepared
  <2>. QED  BY <1>1, <1>3, <2>2, PreparedStart DEF WholeInv
<1>4. CASE pc' = "undo_staged"
  BY <1>1, <1>2, <1>4 DEF WholeInv
<1>. QED  BY <1>3, <1>4

LEMMA CommitWhole ==
  ASSUME Whole, BeginCommit \/ RemoveRollback \/ RemoveMarker
  PROVE  OneStaging' /\ WholeInv'
<1> USE DEF Whole, fileVars, applyVars, pastVars
<1>1. CASE BeginCommit
  <2> USE <1>1 DEF BeginCommit
  <2>1. OneStaging'  BY DEF OneStaging, Empty
  <2>2. \A f \in Data : (f \in replaced <=> Holds(source, f))
                        /\ (f \in retired => f \in replaced) /\ Recorded(f)
    BY DEF WholeInv, UndoInv, Passed
  <2>3. \A f \in Data : staged[marker][f] = Absent
    BY <2>2, PreparedStart DEF Recorded, Prepared
  <2>4. \A f \in Data :
          live[f] = IF Holds(source, f) THEN source ELSE lastRun[f]
    BY <2>2, PreparedStart DEF Recorded, Prepared, Holds
  <2>5. DataOf(live) = intended
    BY <2>4, PreparedStart DEF Prepared, Outcome, DataOf
  <2>6. \A o \in Operation : Empty(o)
    BY <2>3, PreparedStart DEF Empty
  <2>. QED  BY <2>1, <2>5, <2>6 DEF WholeInv, Empty, DataOf, Pending
<1>2. CASE RemoveRollback
  <2>1. OneStaging'  BY <1>2 DEF RemoveRollback, OneStaging, Empty
  <2>. QED  BY <1>2, <2>1 DEF RemoveRollback, WholeInv, Empty, DataOf, Pending
<1>3. CASE RemoveMarker
  <2>1. DataOf(live) = intended /\ \A o \in Operation : Empty(o)
    BY <1>3 DEF RemoveMarker, WholeInv
  <2>2. OneStaging'
    BY <1>3, <2>1 DEF RemoveMarker, OneStaging, Empty
  <2>. QED
    BY <1>3, <2>1, <2>2 DEF RemoveMarker, WholeInv, Empty, DataOf, Pending
<1>. QED  BY <1>1, <1>2, <1>3

LEMMA RunWhole ==
  ASSUME Whole, OpenLibrary \/ ShutDown
  PROVE  OneStaging' /\ WholeInv'
<1> USE DEF Whole, fileVars, applyVars, pastVars
<1>1. OneStaging'
  BY DEF OpenLibrary, ShutDown, OneStaging, Empty
<1>2. DataOf(live)' = DataOf(live)
  BY DEF OpenLibrary, ShutDown, DataOf, RestartInv, RestartTypeOK
<1>3. CASE OpenLibrary
  BY <1>1, <1>2, <1>3 DEF OpenLibrary, WholeInv, Pending, DataOf
<1>4. CASE ShutDown
  <2>1. \A f \in Data : live'[f] = live[f]  BY <1>2 DEF DataOf
  <2>2. Prepared(live, staged) => Prepared(live, staged)'
    BY <1>4, <2>1 DEF ShutDown, Prepared, Outcome, Holds
  <2>. QED  BY <1>1, <1>2, <1>4, <2>2 DEF ShutDown, WholeInv, Pending
<1>. QED  BY <1>3, <1>4

\* Wherever a start is killed, either the database is replaced, and the next
\* start finds none staged, or nothing but the database has moved.
LEMMA KilledStart ==
  ASSUME Whole, pc \in Applying \cup Undoing, Pending
  PROVE  Prepared(live, staged)
<1> USE DEF Whole
<1>1. marker \in Operation /\ staged[marker]["db"] # Absent  BY DEF Pending
<1> DEFINE Same(f) == staged[marker][f] = before.staged[marker][f]
<1>2. /\ Same("db") /\ live["db"] \in {before.live["db"], Absent}
      /\ \A f \in {"settings", "config"} : Same(f) /\ live[f] = before.live[f]
  <2>1. CASE pc \in Applying
    <3>1. \A f \in File : Recorded(f)  BY <2>1 DEF UndoInv
    <3>2. "db" \notin replaced  BY <1>1, <3>1 DEF Recorded
    <3>3. "db" \notin Passed(file)  BY <2>1, <3>2 DEF WholeInv, Holds
    <3>4. file = "db"  BY <3>3 DEF RestartInv, RestartTypeOK, Passed
    <3>5. \A f \in {"settings", "config"} : f \notin replaced /\ f \notin retired
      BY <2>1, <3>4 DEF UndoInv, Passed
    <3>. QED  BY <3>1, <3>2, <3>5 DEF Recorded
  <2>2. CASE pc \in Undoing /\ "db" \in Restored(file)
    <3>1. "settings" \in Restored(file) /\ "config" \in Restored(file)
      BY <2>2 DEF Restored
    <3>. QED  BY <2>2, <3>1 DEF UndoInv, Undone
  <2>3. CASE pc = "undo_live" /\ file = "db"
    <3>1. "settings" \in Restored(file) /\ "config" \in Restored(file)
          /\ "db" \notin Restored(file)
      BY <2>3 DEF Restored
    <3>2. HalfRestored("db") /\ Undone("settings") /\ Undone("config")
      BY <2>3, <3>1 DEF UndoInv
    <3>. QED  BY <3>2 DEF Undone, HalfRestored
  <2>4. CASE pc \in Undoing /\ "db" \notin Restored(file)
             /\ ~(pc = "undo_live" /\ file = "db")
    <3>1. Recorded("db")  BY <2>4 DEF UndoInv
    <3>2. "db" \notin replaced  BY <1>1, <3>1 DEF Recorded
    <3>3. \A f \in {"settings", "config"} : f \notin replaced /\ f \notin retired
      BY <2>4, <3>2 DEF WholeInv
    <3>4. \A f \in {"settings", "config"} :
            Undone(f) \/ HalfRestored(f) \/ Recorded(f)
      BY <2>4 DEF UndoInv
    <3>. QED  BY <3>1, <3>2, <3>3, <3>4 DEF Recorded, Undone, HalfRestored
  <2>. QED  BY <2>1, <2>2, <2>3, <2>4
<1>. QED  BY <1>2, PreparedStart DEF Prepared

LEMMA CrashWhole == ASSUME Whole, Crash PROVE OneStaging' /\ WholeInv'
<1> USE DEF Crash, Whole, fileVars, applyVars, pastVars
<1>1. OneStaging'  BY DEF OneStaging, Empty
<1>2. Pending' <=> Pending  BY DEF Pending
<1>3. Pending => Prepared(live, staged)
  BY KilledStart DEF WholeInv
<1>4. Prepared(live, staged) => Prepared(live, staged)'
  BY DEF Prepared, Outcome, Holds
<1>5. marker = "none" => DataOf(live) \in {lastRun, intended}
  BY DEF WholeInv, RestartInv, RestartTypeOK, Progress
<1>. QED  BY <1>1, <1>2, <1>3, <1>4, <1>5 DEF WholeInv, DataOf

LEMMA NextWhole ==
  ASSUME Whole, [RestartNext]_restartVars, ~RollbackFails, Single'
  PROVE  Whole'
<1>1. RestartInv' /\ UndoInv'  BY NextRestart, NextUndo DEF Whole
<1>2. CASE RestartNext
  <2>1. OneStaging' /\ WholeInv'
    BY <1>2, BeginWhole, CreateWhole, CopyWhole, MarkWhole, StartWhole,
       SkipWhole, ClearWhole, RetireWhole, InstallWhole, FailWhole,
       UndoStagedWhole, UndoLiveWhole, CommitWhole, RunWhole, CrashWhole
       DEF RestartNext
  <2>. QED  BY <1>1, <2>1 DEF Whole
<1>3. CASE UNCHANGED restartVars
  <2> USE <1>3 DEF restartVars, fileVars, applyVars, pastVars, Whole
  <2>1. OneStaging'  BY DEF OneStaging, StagedInOrder, Empty, Holds
  <2>2. Prepared(live, staged)' <=> Prepared(live, staged)
    BY DEF Prepared, Outcome, Holds
  <2>3. Prepared(before.live, before.staged)'
          <=> Prepared(before.live, before.staged)
    BY DEF Prepared, Outcome, Holds
  <2>4. WholeInv'
    BY <2>2, <2>3 DEF WholeInv, DataOf, Pending, Empty, Holds
  <2>. QED  BY <1>1, <2>1, <2>4
<1>. QED  BY <1>2, <1>3

\* A second staging over one that is pending is all that can tear a library
\* (maintenance.rs:726, 740): in a behaviour without one, and unless a rename of
\* a rollback fails, every library that is opened is the whole library of the
\* last run or the whole library of the staged operation, wherever starts and
\* stagings are killed or fail, for any backups.
THEOREM OnlyRestagingTears ==
  ~RollbackFails => (RestartSpec /\ []Single => []AllOrNothing)
<1> SUFFICES ASSUME ~RollbackFails
             PROVE  RestartSpec /\ []Single => []AllOrNothing
  OBVIOUS
<1>1. RestartInit => Whole  BY InitRestart, InitUndo, InitWhole DEF Whole
<1>2. Whole /\ [RestartNext]_restartVars /\ Single' => Whole'  BY NextWhole
<1>3. Whole => AllOrNothing  BY DEF Whole, WholeInv, AllOrNothing
<1>. QED  BY <1>1, <1>2, <1>3, PTL DEF RestartSpec
=============================================================================
