------------------------ MODULE ClassificationProofs ------------------------
(***************************************************************************)
(* Proofs about Classification, for any media, any limit of attempts and   *)
(* any number of versions, changes, failing statements and kills.          *)
(*                                                                         *)
(* Neither the loop nor the probe looks at a stamp when it stores what it  *)
(* found, so that StoredIsOfTheFile needs to know what they are about to   *)
(* store: what they have seen is the file that the row's stamp names,      *)
(* unless the row was indexed again meanwhile (raced).                     *)
(***************************************************************************)
EXTENDS Classification, TLAPS

LoopType ==
  [pc : {"idle", "batch", "claimed", "asked", "answered", "fast", "ended"},
   todo : SUBSET Media, known : SUBSET Video, cur : Media \cup {None},
   seen : Version, answer : {"none", "verdict", "error"}]

Working == {"claimed", "asked", "answered", "fast"}

\* Only what has been seen is stored, and only of what the loop works on.
VerdictsAreSeen ==
  /\ \/ loop.pc = "asked" /\ loop.cur \in Video
     \/ loop.pc = "answered" /\ loop.answer = "verdict"
     \/ loop.pc = "fast"
     => loop.seen # 0
  /\ loop.cur = None => loop.seen = 0

\* Claimable does not look at the attempts: what is in the batch has one left.
Batched(m) == m \in loop.todo => row[m].attempts < Tries

TodoHasAttempts == \A m \in Media : Batched(m)

\* What is known of one of the media: its part of the properties, ...
Rated(m) == row[m].human <=> row[m].shown = "human"

Remembered(m) ==
  row[m].downloaded /\ row[m].state \in {"pending", "working"} =>
    \/ row[m].attempts < Tries /\ row[m].retry # "never"
    \/ loop.cur = m
    \/ m \in cut

\* ... that a new version of its file has a number no row has had, ...
FileIsNew(m) ==
  /\ disk[m] \in {0, written[m]}
  /\ row[m].stamp # 0 /\ row[m].stamp <= written[m]

\* ... that its verdict is of its file, or was not stored, ...
OfItsFile(m) ==
  row[m].verdict = disk[m] \/ (row[m].verdict = 0 /\ m \in cut \cap Video)

\* ... that nothing but a decided row has one, ...
Unjudged(m) ==
  row[m].verdict # 0 =>
    /\ row[m].state \notin {"pending", "working", "failed"}
    /\ loop.cur = m => loop.pc = "fast"

\* ... that what is stored of it, also when it is gone, ...
Stored(m) ==
  m \notin raced /\ row[m].stamp = disk[m] =>
    /\ row[m].state = "done" => OfItsFile(m)
    /\ row[m].duration \in {0, disk[m]}

\* ... and what is about to be stored, is of the file that its stamp names.
Seen(m) ==
  m \notin raced /\ row[m].stamp = disk[m] =>
    /\ loop.cur = m /\ loop.seen # 0 => loop.seen = disk[m]
    /\ loop.cur = m /\ loop.pc = "fast" /\ row[m].downloaded => OfItsFile(m)
    /\ probe.media = m => probe.version = disk[m]

Known(m) ==
  Batched(m) /\ Rated(m) /\ Remembered(m) /\ FileIsNew(m) /\ Unjudged(m)
  /\ Stored(m) /\ Seen(m)

IInv ==
  /\ TypeOK
  /\ VerdictsAreSeen
  /\ \A m \in Media : Known(m)

-----------------------------------------------------------------------------
(* Rows.                                                                   *)

LEMMA MissingRow ==
  ASSUME NEW r \in Row
  PROVE  /\ Missing(r) \in Row /\ ~Missing(r).downloaded
         /\ Missing(r).stamp = r.stamp /\ Missing(r).attempts = r.attempts
         /\ Missing(r).verdict = r.verdict /\ Missing(r).duration = r.duration
         /\ Missing(r).human = r.human /\ Missing(r).shown = r.shown
         /\ Missing(r).state \in {r.state, "missing"}
BY DEF Missing, Row

LEMMA IndexedRow ==
  ASSUME NEW r \in Row, NEW v \in Version
  PROVE  /\ Indexed(r, v) \in Row /\ Indexed(r, v).stamp = v
         /\ Indexed(r, v).state = "pending" /\ Indexed(r, v).attempts = 0
         /\ Indexed(r, v).retry = "due" /\ Indexed(r, v).duration = 0
         /\ Indexed(r, v).verdict = 0
         /\ Indexed(r, v).human = r.human /\ Indexed(r, v).shown = r.shown
<1>1. 0 \in Version /\ 0 \in 0..Tries
  BY ClassificationAssumption DEF Version, ClassificationAssumption
<1> QED
  BY <1>1 DEF Indexed, Row

LEMMA ClaimedRow ==
  ASSUME NEW r \in Row, r.attempts < Tries
  PROVE  /\ Claimed(r) \in Row /\ Claimed(r).state = "working"
         /\ Claimed(r).stamp = r.stamp /\ Claimed(r).duration = r.duration
         /\ Claimed(r).verdict = r.verdict
         /\ Claimed(r).human = r.human /\ Claimed(r).shown = r.shown
<1>1. r.attempts \in 0..Tries
  BY DEF Row
<1>2. r.attempts + 1 \in 0..Tries
  BY <1>1, ClassificationAssumption DEF ClassificationAssumption
<1> QED
  BY <1>2 DEF Claimed, Row

LEMMA JudgedRow ==
  ASSUME NEW r \in Row, NEW v \in Version
  PROVE  /\ Judged(r, v) \in Row
         /\ Judged(r, v).stamp = r.stamp /\ Judged(r, v).attempts = r.attempts
         /\ Judged(r, v).duration = r.duration
         /\ Judged(r, v).downloaded = r.downloaded
         /\ Judged(r, v).human = r.human
         /\ r.downloaded => Judged(r, v).state = "done" /\ Judged(r, v).verdict = v
         /\ r.downloaded => Judged(r, v).shown = IF r.human THEN "human" ELSE "auto"
         /\ ~r.downloaded => Judged(r, v) = r
BY DEF Judged, Row

LEMMA ReviewedRow ==
  ASSUME NEW r \in Row
  PROVE  /\ Reviewed(r) \in Row
         /\ Reviewed(r).stamp = r.stamp /\ Reviewed(r).attempts = r.attempts
         /\ Reviewed(r).duration = r.duration /\ Reviewed(r).verdict = r.verdict
         /\ Reviewed(r).downloaded = r.downloaded
         /\ Reviewed(r).human = r.human /\ Reviewed(r).shown = r.shown
         /\ r.downloaded => Reviewed(r).state = "manual_review"
         /\ ~r.downloaded => Reviewed(r) = r
BY DEF Reviewed, Row

LEMMA RetriedRow ==
  ASSUME NEW r \in Row
  PROVE  /\ Retried(r) \in Row
         /\ Retried(r).stamp = r.stamp /\ Retried(r).attempts = r.attempts
         /\ Retried(r).duration = r.duration /\ Retried(r).verdict = r.verdict
         /\ Retried(r).human = r.human /\ Retried(r).shown = r.shown
         /\ Retried(r).retry = "later"
         /\ \/ Retried(r).state = "failed"
            \/ Retried(r).state = "pending" /\ r.attempts < Tries
<1>1. r.attempts \in 0..Tries
  BY DEF Row
<1>2. r.attempts >= Tries \/ r.attempts < Tries
  BY <1>1, ClassificationAssumption DEF ClassificationAssumption
<1> QED
  BY <1>2 DEF Retried, Row

LEMMA RestingLoop ==
  /\ Resting \in LoopType /\ Resting.pc = "idle" /\ Resting.cur = None
  /\ Resting.todo = {} /\ Resting.seen = 0
<1>1. 0 \in Version
  BY ClassificationAssumption DEF Version, ClassificationAssumption
<1> QED
  BY <1>1 DEF Resting, LoopType

LEMMA ReleasedLoop ==
  ASSUME NEW l \in LoopType
  PROVE  /\ Released(l) \in LoopType /\ Released(l).pc = "batch"
         /\ Released(l).cur = None /\ Released(l).todo = l.todo
         /\ Released(l).seen = 0
<1>1. 0 \in Version
  BY ClassificationAssumption DEF Version, ClassificationAssumption
<1> QED
  BY <1>1 DEF Released, LoopType

LEMMA AnsweredLoop ==
  ASSUME NEW l \in LoopType, NEW answer \in {"verdict", "error"}
  PROVE  /\ Answered(l, answer) \in LoopType
         /\ Answered(l, answer).pc = "answered"
         /\ Answered(l, answer).answer = answer
         /\ Answered(l, answer).cur = l.cur /\ Answered(l, answer).todo = l.todo
         /\ Answered(l, answer).seen = l.seen
BY DEF Answered, LoopType

LEMMA SeenLoop ==
  ASSUME NEW l \in LoopType, NEW v \in Version
  PROVE  /\ [l EXCEPT !.seen = v] \in LoopType
         /\ [l EXCEPT !.seen = v].seen = v
         /\ [l EXCEPT !.seen = v].pc = l.pc /\ [l EXCEPT !.seen = v].cur = l.cur
         /\ [l EXCEPT !.seen = v].todo = l.todo
         /\ [l EXCEPT !.seen = v].answer = l.answer
BY DEF LoopType

LEMMA MovedLoop ==
  ASSUME NEW l \in LoopType, NEW pc \in {"asked", "fast", "ended"}
  PROVE  /\ [l EXCEPT !.pc = pc] \in LoopType
         /\ [l EXCEPT !.pc = pc].pc = pc /\ [l EXCEPT !.pc = pc].cur = l.cur
         /\ [l EXCEPT !.pc = pc].todo = l.todo
         /\ [l EXCEPT !.pc = pc].seen = l.seen
BY DEF LoopType

LEMMA DrainedLoop ==
  ASSUME NEW l \in LoopType
  PROVE  /\ Drained(l) \in LoopType
         /\ Drained(l).cur = l.cur /\ Drained(l).todo = l.todo
         /\ Drained(l).seen = l.seen
         /\ \/ Drained(l) = l
            \/ /\ l.pc = "asked"
               /\ Drained(l).pc = "answered" /\ Drained(l).answer = "error"
BY AnsweredLoop DEF Drained

-----------------------------------------------------------------------------
(* The type invariant, with what it needs of the batch.                    *)

LEMMA TypeInit == Init => TypeOK
<1> SUFFICES ASSUME Init PROVE TypeOK
  OBVIOUS
<1>1. 0 \in Version /\ 1 \in Version /\ 0 \in 0..Tries
  BY ClassificationAssumption DEF Version, ClassificationAssumption
<1>2. count \in [changes : 0..MaxChanges, faults : 0..MaxFaults]
  BY ClassificationAssumption DEF Init, ClassificationAssumption
<1>3. row \in [Media -> Row]
  BY <1>1 DEF Init, Row
<1> QED
  BY <1>1, <1>2, <1>3, RestingLoop
    DEF Init, TypeOK, LoopType, NoProbe, NoCleanup

\* The parts of the type invariant, as each action changes one or two of them.
RowsTyped == row \in [Media -> Row]
LoopTyped ==
  /\ loop \in LoopType
  /\ loop.cur # None <=> loop.pc \in Working
CountTyped == count \in [changes : 0..MaxChanges, faults : 0..MaxFaults]
ProbeTyped == probe \in [media : Video \cup {None}, version : Version]
CleanupTyped == cleanup \in [todo : SUBSET Media, cur : Media \cup {None}]
FilesTyped == disk \in [Media -> Version] /\ written \in [Media -> Version]
RestTyped ==
  /\ worker \in {"starting", "ready", "failed", "backoff", "gone"}
  /\ raced \subseteq Media
  /\ cut \subseteq Media

LEMMA TypeParts ==
  TypeOK <=> /\ RowsTyped /\ LoopTyped /\ CountTyped /\ ProbeTyped
             /\ CleanupTyped /\ FilesTyped /\ RestTyped
BY DEF TypeOK, RowsTyped, LoopTyped, CountTyped, ProbeTyped, CleanupTyped,
       FilesTyped, RestTyped, LoopType, Working

LEMMA ChangesCounted ==
  ASSUME CountTyped, Changes
  PROVE  CountTyped'
BY ClassificationAssumption DEF Changes, CountTyped, ClassificationAssumption

LEMMA FaultCounted ==
  ASSUME CountTyped, Fault
  PROVE  CountTyped'
BY ClassificationAssumption DEF Fault, CountTyped, ClassificationAssumption

LEMMA StoredRow ==
  ASSUME RowsTyped, NEW m \in Media, NEW r \in Row, Store(m, r)
  PROVE  /\ RowsTyped'
         /\ row'[m] = r
         /\ \A n \in Media : n # m => row'[n] = row[n]
BY DEF RowsTyped, Store

\* The outcome of an attempt is stored or not.
LEMMA OutcomeStored ==
  ASSUME RowsTyped, CountTyped, cut \subseteq Media, loop.cur \in Media,
         NEW r \in Row, StoreOutcome(r)
  PROVE  /\ RowsTyped' /\ CountTyped' /\ cut' \subseteq Media
         /\ \/ row'[loop.cur] = r /\ cut' = cut
            \/ row' = row /\ cut' = cut \cup {loop.cur}
         /\ \A n \in Media : n # loop.cur => row'[n] = row[n]
<1>1. CASE Store(loop.cur, r) /\ UNCHANGED <<cut, count>>
  BY <1>1, StoredRow DEF CountTyped
<1>2. CASE Fault /\ cut' = cut \cup {loop.cur} /\ UNCHANGED row
  BY <1>2, FaultCounted DEF RowsTyped
<1> QED
  BY <1>1, <1>2 DEF StoreOutcome

\* The media that the actions speak of.
LEMMA MediaSets == Video \subseteq Media /\ Image \subseteq Media
BY DEF Media

rest == <<disk, written, loop, worker, probe, cleanup, count, history>>

LEMMA TypeStep ==
  ASSUME TypeOK, TodoHasAttempts, Next
  PROVE  TypeOK'
<1> USE DEF history, rest
<1>0. /\ RowsTyped /\ LoopTyped /\ CountTyped /\ ProbeTyped
      /\ CleanupTyped /\ FilesTyped /\ RestTyped
  BY TypeParts
<1> SUFFICES /\ RowsTyped' /\ LoopTyped' /\ CountTyped' /\ ProbeTyped'
             /\ CleanupTyped' /\ FilesTyped' /\ RestTyped'
  BY DEF TypeOK, RowsTyped, LoopTyped, CountTyped, ProbeTyped, CleanupTyped,
         FilesTyped, RestTyped, LoopType, Working
<1>1. CASE \E m \in Media : Write(m) \/ Delete(m)
  <2>1. UNCHANGED <<row, loop, worker, probe, cleanup, raced, cut>> /\ Changes
    BY <1>1 DEF Write, Delete
  <2>2. 0 \in Version /\ \A v \in Version : v < MaxVersion => v + 1 \in Version
    BY ClassificationAssumption DEF Version, ClassificationAssumption
  <2>3. FilesTyped'
    BY <1>0, <1>1, <2>2 DEF Write, Delete, FilesTyped
  <2> QED
    BY <1>0, <2>1, <2>3, ChangesCounted
      DEF RowsTyped, LoopTyped, ProbeTyped, CleanupTyped, RestTyped
<1>2. ASSUME NEW m \in Media, Index(m) PROVE /\ RowsTyped' /\ RestTyped'
        /\ UNCHANGED <<disk, written, loop, worker, probe, cleanup, count>>
  <2>1. row[m] \in Row /\ disk[m] \in Version
    BY <1>0 DEF RowsTyped, FilesTyped
  <2> DEFINE new == Indexed(row[m], disk[m])
  <2>2. /\ new \in Row
        /\ [new EXCEPT !.duration = row[m].duration] \in Row
        /\ Missing(row[m]) \in Row
    BY <2>1, IndexedRow, MissingRow DEF Row
  <2>3. row' \in {[row EXCEPT ![m] = new], [row EXCEPT ![m] = Missing(row[m])],
                  [row EXCEPT ![m] = [new EXCEPT !.duration = row[m].duration]]}
    BY <1>2 DEF Index, Store
  <2>4. RowsTyped'
    BY <1>0, <2>2, <2>3 DEF RowsTyped
  <2> QED
    BY <1>0, <1>2, <2>4 DEF Index, RestTyped
<1>3. ASSUME NEW m \in Media, Rate(m) PROVE RowsTyped' /\ UNCHANGED rest
  <2>1. [row[m] EXCEPT !.human = TRUE, !.shown = "human"] \in Row
    BY <1>0 DEF RowsTyped, Row
  <2> QED
    BY <1>0, <1>3, <2>1, StoredRow DEF Rate
<1>3a. ASSUME NEW m \in Media, UndoRating(m) PROVE RowsTyped' /\ UNCHANGED rest
  <2>1. [row[m] EXCEPT !.human = FALSE,
                       !.shown = IF row[m].auto THEN "auto" ELSE "none"] \in Row
    BY <1>0 DEF RowsTyped, Row
  <2> QED
    BY <1>0, <1>3a, <2>1, StoredRow DEF UndoRating
<1>4. ASSUME TimePasses PROVE RowsTyped' /\ UNCHANGED rest
  BY <1>0, <1>4 DEF TimePasses, RowsTyped, Row
<1>5. ASSUME Fetch PROVE LoopTyped' /\ UNCHANGED <<row, disk, written, worker, probe, cleanup, count, history>>
  BY <1>5, RestingLoop DEF Fetch, LoopTyped, LoopType, Working
<1>6. ASSUME LoopEnds PROVE LoopTyped' /\ UNCHANGED <<row, disk, written, worker, probe, cleanup, count, history>>
  BY <1>0, <1>6, MovedLoop DEF LoopEnds, LoopTyped, Working
<1>7. ASSUME BatchEnds PROVE LoopTyped' /\ UNCHANGED <<row, disk, written, worker, probe, cleanup, count, history>>
  BY <1>7, RestingLoop DEF BatchEnds, LoopTyped, Working
<1>8. ASSUME NEW m \in Media, Take(m) PROVE RowsTyped' /\ LoopTyped' /\ CountTyped' /\ cut' \subseteq Media /\ UNCHANGED <<disk, written, worker, probe, cleanup, raced>>
  <2>1. row[m] \in Row /\ loop \in LoopType /\ row[m].attempts < Tries
    BY <1>0, <1>8 DEF RowsTyped, LoopTyped, Take, TodoHasAttempts, Batched
  <2>2. /\ [loop EXCEPT !.todo = @ \ {m}] \in LoopType
        /\ [loop EXCEPT !.todo = @ \ {m}].pc = loop.pc
        /\ [loop EXCEPT !.todo = @ \ {m}].cur = loop.cur
    BY <2>1 DEF LoopType
  <2>3. /\ [loop EXCEPT !.todo = @ \ {m}, !.pc = "claimed", !.cur = m] \in LoopType
        /\ [loop EXCEPT !.todo = @ \ {m}, !.pc = "claimed", !.cur = m].pc = "claimed"
        /\ [loop EXCEPT !.todo = @ \ {m}, !.pc = "claimed", !.cur = m].cur = m
    BY <2>1 DEF LoopType
  <2>4. LoopTyped'
    BY <1>0, <1>8, <2>2, <2>3, ClassificationAssumption DEF Take, LoopTyped, Working, Media, ClassificationAssumption
  <2>5. RowsTyped'
    BY <1>0, <1>8, <2>1, MissingRow, ClaimedRow, StoredRow DEF Take, RowsTyped
  <2>6. CountTyped' /\ cut' \subseteq Media
    BY <1>0, <1>8, FaultCounted DEF Take, CountTyped, RestTyped
  <2> QED
    BY <1>8, <2>4, <2>5, <2>6 DEF Take
<1>9. ASSUME LeaveToUser PROVE RowsTyped' /\ LoopTyped' /\ CountTyped' /\ cut' \subseteq Media /\ UNCHANGED <<disk, written, worker, probe, cleanup, raced>>
  <2>1. loop \in LoopType /\ loop.cur \in Media /\ row[loop.cur] \in Row
    BY <1>0, <1>9, MediaSets DEF LeaveToUser, LoopTyped, RowsTyped
  <2> QED
    BY <1>0, <1>9, <2>1, ReviewedRow, OutcomeStored, ReleasedLoop
      DEF LeaveToUser, LoopTyped, RestTyped, Working
<1>10. ASSUME Ask PROVE LoopTyped' /\ UNCHANGED <<row, disk, written, worker, probe, cleanup, count, history>>
  <2>1. /\ loop \in LoopType /\ loop.cur \in Media /\ disk[loop.cur] \in Version
        /\ loop.cur # None
    BY <1>0, <1>10 DEF Ask, LoopTyped, LoopType, FilesTyped, Working
  <2> DEFINE sampled == [loop EXCEPT !.seen = disk[loop.cur]]
  <2>2. sampled \in LoopType /\ sampled.cur = loop.cur
    BY <2>1, SeenLoop
  <2>3. loop' \in {Answered(loop, "error"), [loop EXCEPT !.pc = "asked"],
                   Answered(sampled, "error"), [sampled EXCEPT !.pc = "asked"]}
    BY <1>10 DEF Ask
  <2>4. loop' \in LoopType /\ loop'.cur = loop.cur /\ loop'.pc \in {"asked", "answered"}
    <3>1. \A l \in {loop, sampled} : l \in LoopType /\ l.cur = loop.cur
      BY <2>1, <2>2
    <3>2. CASE loop' \in {Answered(loop, "error"), Answered(sampled, "error")}
      <4> HIDE DEF sampled
      <4> QED
        BY <3>1, <3>2, AnsweredLoop
    <3>3. CASE loop' \in {[loop EXCEPT !.pc = "asked"], [sampled EXCEPT !.pc = "asked"]}
      <4>1. PICK l \in {loop, sampled} : loop' = [l EXCEPT !.pc = "asked"]
        BY <3>3
      <4>2. l \in LoopType /\ l.cur = loop.cur
        BY <3>1
      <4> QED
        BY <4>1, <4>2 DEF LoopType
    <3> QED
      BY <2>3, <3>2, <3>3
  <2> QED
    BY <1>10, <2>1, <2>4 DEF Ask, LoopTyped, Working
<1>11. ASSUME Persist PROVE RowsTyped' /\ LoopTyped' /\ CountTyped' /\ cut' \subseteq Media /\ UNCHANGED <<disk, written, worker, probe, cleanup, raced>>
  <2>1. /\ loop \in LoopType /\ loop.cur \in Media /\ row[loop.cur] \in Row
        /\ loop.cur # None /\ loop.seen \in Version
    BY <1>0, <1>11 DEF Persist, LoopTyped, LoopType, RowsTyped, Working
  <2>2. RowsTyped' /\ CountTyped' /\ cut' \subseteq Media
    BY <1>0, <1>11, <2>1, JudgedRow, ReviewedRow, RetriedRow, OutcomeStored DEF Persist, RestTyped
  <2>3. LoopTyped'
    <3>1. loop' \in {Released(loop), [loop EXCEPT !.pc = "fast"]}
      BY <1>11 DEF Persist
    <3>2. CASE loop' = Released(loop)
      BY <2>1, <3>2, ReleasedLoop DEF LoopTyped, Working
    <3>3. CASE loop' = [loop EXCEPT !.pc = "fast"]
      BY <2>1, <3>3, MovedLoop DEF LoopTyped, Working
    <3> QED
      BY <3>1, <3>2, <3>3
  <2> QED
    BY <1>11, <2>2, <2>3 DEF Persist
<1>12. ASSUME PersistFast PROVE RowsTyped' /\ LoopTyped' /\ CountTyped' /\ cut' \subseteq Media /\ UNCHANGED <<disk, written, worker, probe, cleanup, raced>>
  <2>1. /\ loop \in LoopType /\ loop.cur \in Media /\ row[loop.cur] \in Row
        /\ row[loop.cur].verdict \in Version
    BY <1>0, <1>12 DEF PersistFast, LoopTyped, LoopType, RowsTyped, Working, Row
  <2>2. RowsTyped' /\ CountTyped' /\ cut' \subseteq Media
    BY <1>0, <1>12, <2>1, JudgedRow, ReviewedRow, OutcomeStored DEF PersistFast, RestTyped
  <2>3. LoopTyped'
    BY <1>12, <2>1, ReleasedLoop DEF PersistFast, LoopTyped, Working
  <2> QED
    BY <1>12, <2>2, <2>3 DEF PersistFast
<1>13. ASSUME StartFails PROVE LoopTyped' /\ RestTyped' /\ UNCHANGED <<row, disk, written, probe, cleanup, count, history>>
  BY <1>0, <1>13, DrainedLoop DEF StartFails, LoopTyped, RestTyped, Working
<1>14. ASSUME WorkerStarts \/ BackoffEnds PROVE RestTyped' /\ UNCHANGED <<row, disk, written, loop, probe, cleanup, count, history>>
  BY <1>0, <1>14 DEF WorkerStarts, BackoffEnds, RestTyped
<1>15. ASSUME Answer \/ WorkerFails PROVE LoopTyped' /\ RestTyped' /\ UNCHANGED <<row, disk, written, probe, cleanup, count, history>>
  <2>1. /\ loop \in LoopType /\ loop.cur \in Media /\ disk[loop.cur] \in Version
        /\ loop.cur # None
    BY <1>0, <1>15 DEF Answer, WorkerFails, LoopTyped, LoopType, FilesTyped, Working
  <2> DEFINE shown == [loop EXCEPT !.seen = disk[loop.cur]]
  <2>2. shown \in LoopType /\ shown.cur = loop.cur
    BY <2>1, SeenLoop
  <2>3. loop' \in {Answered(loop, "verdict"), Answered(loop, "error"),
                   Answered(shown, "verdict")}
    BY <1>15 DEF Answer, WorkerFails
  <2>4. loop' \in LoopType /\ loop'.cur = loop.cur /\ loop'.pc = "answered"
    <3> HIDE DEF shown
    <3> QED
      BY <2>1, <2>2, <2>3, AnsweredLoop
  <2> QED
    BY <1>0, <1>15, <2>1, <2>4 DEF Answer, WorkerFails, LoopTyped, RestTyped, Working
<1>16. ASSUME NEW m \in Video, ProbeReads(m) PROVE RowsTyped' /\ ProbeTyped' /\ UNCHANGED <<disk, written, loop, worker, cleanup, count, history>>
  <2>1. m \in Media /\ row[m] \in Row /\ disk[m] \in Version
    BY <1>0, MediaSets DEF RowsTyped, FilesTyped
  <2> QED
    BY <1>0, <1>16, <2>1, MissingRow, StoredRow DEF ProbeReads, ProbeTyped, RowsTyped
<1>17. ASSUME ProbeStores PROVE RowsTyped' /\ ProbeTyped' /\ CountTyped' /\ UNCHANGED <<disk, written, loop, worker, cleanup, history>>
  <2>1. 0 \in Version
    BY ClassificationAssumption DEF Version, ClassificationAssumption
  <2>2. ASSUME NEW r \in Row, NEW v \in {0, probe.version}
        PROVE  [r EXCEPT !.duration = v, !.probed = TRUE] \in Row
    <3>1. v \in Version
      BY <1>0, <2>1 DEF ProbeTyped
    <3> QED
      BY <3>1 DEF Row
  <2>3. RowsTyped' /\ CountTyped'
    <3>1. CASE \E v \in {0, probe.version} :
                 Store(probe.media, [row[probe.media] EXCEPT !.duration = v, !.probed = TRUE])
               /\ UNCHANGED count
      <4>1. PICK v \in {0, probe.version} :
              row' = [row EXCEPT ![probe.media] =
                        [row[probe.media] EXCEPT !.duration = v, !.probed = TRUE]]
        BY <3>1 DEF Store
      <4>2. CASE probe.media \in Media
        <5>1. [row[probe.media] EXCEPT !.duration = v, !.probed = TRUE] \in Row
          BY <1>0, <2>2, <4>2 DEF RowsTyped
        <5> QED
          BY <1>0, <3>1, <4>1, <4>2, <5>1 DEF RowsTyped, CountTyped
      <4>3. CASE probe.media \notin Media
        BY <1>0, <3>1, <4>1, <4>3 DEF RowsTyped, CountTyped
      <4> QED
        BY <4>2, <4>3
    <3>2. CASE UNCHANGED row /\ (Fault \/ UNCHANGED count)
      BY <1>0, <3>2, FaultCounted DEF RowsTyped, CountTyped
    <3> QED
      BY <1>17, <3>1, <3>2 DEF ProbeStores
  <2> QED
    BY <1>17, <2>1, <2>3 DEF ProbeStores, ProbeTyped, NoProbe
<1>18. ASSUME CleanupSelects PROVE CleanupTyped' /\ CountTyped' /\ UNCHANGED <<disk, written, row, loop, worker, probe, history>>
  BY <1>0, <1>18, ChangesCounted DEF CleanupSelects, CleanupTyped, NoCleanup
<1>19. ASSUME NEW m \in Media, CleanupRemoves(m) PROVE CleanupTyped' /\ FilesTyped' /\ UNCHANGED <<row, loop, worker, probe, count, history>>
  <2>1. 0 \in Version
    BY ClassificationAssumption DEF Version, ClassificationAssumption
  <2> QED
    BY <1>0, <1>19, <2>1 DEF CleanupRemoves, CleanupTyped, FilesTyped
<1>20. ASSUME CleanupMarks PROVE RowsTyped' /\ CleanupTyped' /\ CountTyped' /\ UNCHANGED <<disk, written, loop, worker, probe, history>>
  <2>1. cleanup.cur \in Media /\ row[cleanup.cur] \in Row
    BY <1>0, <1>20 DEF CleanupMarks, CleanupTyped, RowsTyped
  <2>2. [row[cleanup.cur] EXCEPT !.downloaded = FALSE] \in Row
    BY <2>1 DEF Row
  <2> QED
    BY <1>0, <1>20, <2>1, <2>2, StoredRow, FaultCounted
      DEF CleanupMarks, CleanupTyped, CountTyped, RowsTyped, NoCleanup
<1>21. ASSUME Kill PROVE LoopTyped' /\ RestTyped' /\ ProbeTyped' /\ CleanupTyped' /\ CountTyped' /\ UNCHANGED <<row, disk, written>>
  <2>1. 0 \in Version
    BY ClassificationAssumption DEF Version, ClassificationAssumption
  <2>2. CountTyped'
    BY <1>0, <1>21, FaultCounted DEF Kill
  <2>3. LoopTyped'
    BY <1>21, RestingLoop DEF Kill, LoopTyped, Working
  <2>4. RestTyped'
    BY <1>0, <1>21 DEF Kill, RestTyped, LoopTyped, LoopType
  <2> QED
    BY <1>21, <2>1, <2>2, <2>3, <2>4 DEF Kill, ProbeTyped, CleanupTyped, NoProbe, NoCleanup
<1> USE <1>0
<1> QED
  <2> USE DEF RowsTyped, LoopTyped, CountTyped, ProbeTyped, CleanupTyped, FilesTyped, RestTyped
  <2>1. CASE \E m \in Media : Write(m) \/ Delete(m) \/ Index(m) \/ Rate(m) \/ UndoRating(m) \/ CleanupRemoves(m)
    BY <1>1, <1>2, <1>3, <1>3a, <1>19, <2>1
  <2>2. CASE LoopStep
    BY <1>5, <1>6, <1>7, <1>8, <1>9, <1>10, <1>11, <1>12, <2>2 DEF LoopStep
  <2>3. CASE SupervisorStep
    BY <1>13, <1>14, <1>15, <2>3 DEF SupervisorStep
  <2>4. CASE TimePasses \/ ProbeStores \/ CleanupSelects \/ CleanupMarks \/ Kill \/ \E m \in Video : ProbeReads(m)
    BY <1>4, <1>16, <1>17, <1>18, <1>20, <1>21, <2>4
  <2> QED
    BY <2>1, <2>2, <2>3, <2>4 DEF Next

-----------------------------------------------------------------------------
(* What is known of the media.                                             *)

\* Of those whose row and file are not touched, while the loop keeps or forgets
\* what it works on, nothing new has to be known.
LEMMA Untouched ==
  ASSUME NEW m \in Media, Known(m),
         row'[m] = row[m], disk'[m] = disk[m], written'[m] = written[m],
         m \notin raced' => m \notin raced,
         m \in cut => m \in cut',
         m \in loop'.todo => m \in loop.todo \/ row[m].attempts < Tries,
         loop.cur = m => loop'.cur = m \/ m \in cut',
         loop'.cur = m =>
           \/ loop'.seen = 0
           \/ loop.cur = m /\ loop'.seen \in {loop.seen, disk[m]},
         loop'.pc = "fast" => loop.pc = "fast" /\ loop.cur = loop'.cur,
         loop'.cur = m => loop.cur = m /\ (loop.pc = "fast" => loop'.pc = "fast"),
         probe'.media = m => probe'.version = disk[m] \/ probe' = probe
  PROVE  Known(m)'
BY DEF Known, Batched, Rated, Remembered, FileIsNew, Unjudged, OfItsFile, Stored, Seen

LEMMA KnownStep ==
  ASSUME TypeOK, VerdictsAreSeen, \A m \in Media : Known(m), Next,
         NEW m \in Media
  PROVE  Known(m)'
<1> USE DEF history, rest
<1>0. /\ row[m] \in Row /\ loop \in LoopType /\ disk[m] \in Version
      /\ loop.cur # None <=> loop.pc \in Working
      /\ disk \in [Media -> Version] /\ written \in [Media -> Version]
      /\ row \in [Media -> Row]
      /\ probe.media \in Media \cup {None} /\ probe.version \in Version
      /\ m # None /\ Known(m)
  BY ClassificationAssumption
    DEF TypeOK, LoopType, Working, Media, ClassificationAssumption
<1>1. ASSUME NEW n \in Media, Write(n) PROVE Known(m)'
  <2>1. CASE n # m
    BY <1>0, <1>1, <2>1, Untouched DEF Write
  <2>2. CASE n = m
    <3>1. /\ disk'[m] = written[m] + 1 /\ written'[m] = written[m] + 1
          /\ row' = row /\ loop' = loop /\ cut' = cut
      BY <1>0, <1>1, <2>2 DEF Write
    <3>2. row[m].stamp \in Nat /\ written[m] \in Nat
      BY <1>0 DEF Row, Version
    <3> QED
      BY <1>0, <3>1, <3>2
        DEF Known, Batched, Rated, Remembered, FileIsNew, Unjudged, OfItsFile, Stored, Seen
  <2> QED
    BY <2>1, <2>2
<1>2. ASSUME NEW n \in Media, Delete(n) \/ CleanupRemoves(n) PROVE Known(m)'
  <2>1. CASE n # m
    BY <1>0, <1>2, <2>1, Untouched DEF Delete, CleanupRemoves
  <2>2. CASE n = m
    <3>1. /\ disk'[m] = 0 /\ written' = written
          /\ row' = row /\ loop' = loop /\ cut' = cut
      BY <1>0, <1>2, <2>2 DEF Delete, CleanupRemoves
    <3> QED
      BY <1>0, <3>1
        DEF Known, Batched, Rated, Remembered, FileIsNew, Unjudged, OfItsFile, Stored, Seen
  <2> QED
    BY <2>1, <2>2
<1>3. ASSUME NEW n \in Media, Index(n) PROVE Known(m)'
  <2>0. UNCHANGED <<disk, written, loop, worker, probe, cleanup, count>>
    BY <1>3 DEF Index
  <2>1. CASE n # m
    BY <1>0, <1>3, <2>0, <2>1, Untouched DEF Index, Store
  <2>2. CASE n = m /\ Present(m)
    <3> DEFINE new == Indexed(row[m], disk[m])
               kept == [new EXCEPT !.duration = row[m].duration]
    <3>1. /\ new.stamp = disk[m] /\ new.state = "pending" /\ new.attempts = 0
          /\ new.retry = "due" /\ new.duration = 0 /\ new.verdict = 0
          /\ new.human = row[m].human /\ new.shown = row[m].shown
          /\ new \in Row
      BY <1>0, IndexedRow
    <3>2. /\ kept.stamp = disk[m] /\ kept.state = "pending" /\ kept.attempts = 0
          /\ kept.retry = "due" /\ kept.duration = row[m].duration /\ kept.verdict = 0
          /\ kept.human = row[m].human /\ kept.shown = row[m].shown
      BY <3>1 DEF Row
    <3>3. \/ /\ row'[m] = new
             /\ raced' = IF InUse(m) THEN raced \cup {m} ELSE raced \ {m}
          \/ /\ row[m].stamp = disk[m]
             /\ row'[m] = kept
             /\ raced' = IF InUse(m) THEN raced \cup {m} ELSE raced
      BY <1>0, <1>3, <2>2 DEF Index, Store
    <3>4. 0 < Tries
      BY ClassificationAssumption DEF ClassificationAssumption
    <3>5. disk[m] # 0 /\ disk[m] = written[m] /\ disk[m] <= written[m]
      BY <1>0, <2>2 DEF Known, FileIsNew, Present, Version
    <3>6. m \notin raced' => loop.pc # "fast" \/ loop.cur # m
      BY <1>0, <3>3 DEF InUse, VerdictsAreSeen
    <3> HIDE DEF new, kept
    <3> QED
      BY <1>0, <2>0, <2>2, <3>1, <3>2, <3>3, <3>4, <3>5, <3>6
        DEF Known, Batched, Rated, Remembered, FileIsNew, Unjudged, OfItsFile, Stored, Seen, InUse
  <2>3. CASE n = m /\ ~Present(m)
    <3>1. row'[m] = Missing(row[m]) /\ raced' = raced /\ cut' = cut
      BY <1>0, <1>3, <2>3 DEF Index, Store
    <3> QED
      BY <1>0, <2>0, <3>1, MissingRow
        DEF Known, Batched, Rated, Remembered, FileIsNew, Unjudged, OfItsFile, Stored, Seen
  <2> QED
    BY <2>1, <2>2, <2>3
<1>4. ASSUME NEW n \in Media, Rate(n) \/ UndoRating(n) PROVE Known(m)'
  <2>1. UNCHANGED <<disk, written, loop, probe, raced, cut>>
    BY <1>4 DEF Rate, UndoRating
  <2>2. CASE n # m
    BY <1>0, <1>4, <2>1, <2>2, Untouched DEF Rate, UndoRating, Store
  <2>3. CASE n = m
    <3>1. row'[m] \in {[row[m] EXCEPT !.human = TRUE, !.shown = "human"],
                       [row[m] EXCEPT !.human = FALSE,
                                      !.shown = IF row[m].auto THEN "auto" ELSE "none"]}
      BY <1>0, <1>4, <2>3 DEF Rate, UndoRating, Store
    <3>2. /\ row'[m].human <=> row'[m].shown = "human"
          /\ row'[m].downloaded = row[m].downloaded /\ row'[m].state = row[m].state
          /\ row'[m].attempts = row[m].attempts /\ row'[m].retry = row[m].retry
          /\ row'[m].stamp = row[m].stamp /\ row'[m].verdict = row[m].verdict
          /\ row'[m].duration = row[m].duration
      BY <1>0, <3>1 DEF Row
    <3> QED
      BY <1>0, <2>1, <3>2
        DEF Known, Batched, Rated, Remembered, FileIsNew, Unjudged, OfItsFile, Stored, Seen
  <2> QED
    BY <2>2, <2>3
<1>5. ASSUME TimePasses PROVE Known(m)'
  <2>1. row'[m] = [row[m] EXCEPT !.retry = IF @ = "later" THEN "due" ELSE @]
    BY <1>5 DEF TimePasses
  <2>2. UNCHANGED <<disk, written, loop, probe, raced, cut>>
    BY <1>5 DEF TimePasses
  <2> QED
    BY <1>0, <2>1, <2>2
      DEF Row, Known, Batched, Rated, Remembered, FileIsNew, Unjudged, OfItsFile, Stored, Seen
<1>6. ASSUME Fetch \/ BatchEnds \/ LoopEnds PROVE Known(m)'
  <2>1. /\ UNCHANGED <<disk, written, row, probe, raced, cut>>
        /\ loop.cur = None
    BY <1>0, <1>6 DEF Fetch, BatchEnds, LoopEnds, Working
  <2>2. /\ loop'.cur = None /\ loop'.pc # "fast"
        /\ m \in loop'.todo => m \in loop.todo \/ row[m].attempts < Tries
    <3>1. CASE Fetch
      BY <3>1, RestingLoop DEF Fetch, Selected, Resting
    <3>2. CASE BatchEnds
      BY <3>2, RestingLoop DEF BatchEnds
    <3>3. CASE LoopEnds
      BY <1>0, <2>1, <3>3, MovedLoop DEF LoopEnds
    <3> QED
      BY <1>6, <3>1, <3>2, <3>3
  <2> QED
    BY <1>0, <2>1, <2>2, Untouched
<1>7. ASSUME NEW n \in Media, Take(n) PROVE Known(m)'
  <2>1. /\ UNCHANGED <<disk, written, probe, raced>>
        /\ cut' = cut \/ (cut' = cut \ {n} /\ row'[n] = Claimed(row[n]) /\ loop'.cur = n)
        /\ loop.cur = None /\ n \in loop.todo
    BY <1>0, <1>7 DEF Take, Working, Store, LoopType
  <2>2. /\ loop'.todo = loop.todo \ {n}
        /\ \/ loop'.cur = None /\ loop'.pc = "batch"
           \/ /\ loop'.cur = n /\ loop'.pc = "claimed" /\ loop'.seen = loop.seen
              /\ row' = [row EXCEPT ![n] = Claimed(row[n])]
    BY <1>0, <1>7, <2>1 DEF Take, Store, LoopType
  <2>3. CASE n # m
    BY <1>0, <1>7, <2>1, <2>2, <2>3, Untouched DEF Take, Store
  <2>4. CASE n = m
    <3>1. row[m].attempts < Tries
      BY <1>0, <2>1, <2>4 DEF Known, Batched
    <3>2. \/ row'[m] \in {row[m], Missing(row[m])} /\ loop'.cur = None /\ cut' = cut
          \/ /\ row'[m] = Claimed(row[m]) /\ loop'.cur = m /\ loop'.pc = "claimed"
             /\ row[m].state \in {"pending", "working"}
      BY <1>0, <1>7, <2>1, <2>4 DEF Take, Store, LoopType, Claimable
    <3>3. loop'.cur = m => loop'.seen = 0
      BY <2>1, <2>2, <2>4, <1>0 DEF VerdictsAreSeen
    <3>4. CASE row'[m] \in {row[m], Missing(row[m])} /\ loop'.cur = None /\ cut' = cut
      BY <1>0, <2>1, <2>2, <2>4, <3>4, MissingRow
        DEF Known, Batched, Rated, Remembered, FileIsNew, Unjudged, OfItsFile, Stored, Seen
    <3>5. CASE /\ row'[m] = Claimed(row[m]) /\ loop'.cur = m /\ loop'.pc = "claimed"
               /\ row[m].state \in {"pending", "working"}
      <4>1. m \notin loop'.todo
        BY <2>2, <2>4
      <4> QED
        BY <1>0, <2>1, <3>1, <3>3, <3>5, <4>1, ClaimedRow
          DEF Known, Batched, Rated, Remembered, FileIsNew, Unjudged, OfItsFile, Stored, Seen
    <3> QED
      BY <3>2, <3>4, <3>5
  <2> QED
    BY <2>3, <2>4
<1>8. ASSUME LeaveToUser PROVE Known(m)'
  <2>1. /\ UNCHANGED <<disk, written, probe, raced>> /\ loop.cur \in Media
        /\ \/ row' = [row EXCEPT ![loop.cur] = Reviewed(row[loop.cur])] /\ cut' = cut
           \/ row' = row /\ cut' = cut \cup {loop.cur}
    BY <1>8, MediaSets DEF LeaveToUser, StoreOutcome, Store
  <2>2. /\ loop'.cur = None /\ loop'.seen = 0 /\ loop'.pc = "batch"
        /\ loop'.todo = loop.todo
    BY <1>0, <1>8, ReleasedLoop DEF LeaveToUser
  <2>3. CASE loop.cur # m
    BY <1>0, <2>1, <2>2, <2>3, Untouched
  <2>4. CASE loop.cur = m
    <3>1. CASE row'[m] = Reviewed(row[m]) /\ cut' = cut
      BY <1>0, <2>1, <2>2, <3>1, ReviewedRow
        DEF Known, Batched, Rated, Remembered, FileIsNew, Unjudged, OfItsFile, Stored, Seen
    <3>2. CASE row' = row /\ cut' = cut \cup {m}
      BY <1>0, <2>1, <2>2, <3>2, Untouched
    <3> QED
      BY <1>0, <2>1, <2>4, <3>1, <3>2
  <2> QED
    BY <2>3, <2>4
<1>9. ASSUME Ask \/ Answer \/ WorkerFails PROVE Known(m)'
  <2>1. /\ UNCHANGED <<disk, written, row, probe, raced, cut>>
        /\ loop.cur \in Media /\ loop.cur # None /\ loop.pc # "fast"
    BY <1>0, <1>9 DEF Ask, Answer, WorkerFails, Working, LoopType
  <2>2. /\ loop'.cur = loop.cur /\ loop'.todo = loop.todo
        /\ loop'.pc \in {"asked", "answered"}
        /\ loop'.seen \in {loop.seen, disk[loop.cur]}
    BY <1>0, <1>9, <2>1 DEF Ask, Answer, WorkerFails, Answered, LoopType
  <2> QED
    BY <1>0, <2>1, <2>2, Untouched
<1>10. ASSUME Persist PROVE Known(m)'
  <2>1. /\ UNCHANGED <<disk, written, probe, raced>>
        /\ loop.cur \in Media /\ loop.cur # None /\ loop.seen \in Version
        /\ cut \subseteq cut' /\ loop.pc = "answered"
    BY <1>0, <1>10 DEF Persist, StoreOutcome, Working, LoopType
  <2>2. /\ loop'.todo = loop.todo
        /\ \/ loop'.cur = None /\ loop'.seen = 0 /\ loop'.pc = "batch"
           \/ /\ loop'.cur = loop.cur /\ loop'.seen = loop.seen
              /\ loop'.pc = "fast" /\ loop.answer = "verdict"
    <3>1. CASE loop' = Released(loop)
      BY <1>0, <3>1, ReleasedLoop
    <3>2. CASE loop' = [loop EXCEPT !.pc = "fast"] /\ loop.answer = "verdict"
      BY <1>0, <3>2, MovedLoop
    <3> QED
      BY <1>10, <3>1, <3>2 DEF Persist
  <2>3. CASE loop.cur # m
    <3>1. row'[m] = row[m]
      BY <1>0, <1>10, <2>3 DEF Persist, StoreOutcome, Store
    <3>2. loop'.cur # m
      BY <1>0, <2>2, <2>3
    <3> QED
      BY <1>0, <2>1, <2>2, <2>3, <3>1, <3>2
        DEF Known, Batched, Rated, Remembered, FileIsNew, Unjudged, OfItsFile, Stored, Seen
  <2>4. CASE loop.cur = m
    <3>1. /\ loop.seen \in Version
          /\ \/ loop.answer = "verdict" /\ row'[m] = Judged(row[m], loop.seen)
             \/ loop'.cur = None /\ row'[m] \in {Reviewed(row[m]), Retried(row[m])}
             \/ /\ row'[m] = row[m] /\ m \in cut'
                /\ loop'.pc = "fast" => m \in Video
      BY <1>0, <1>10, <2>1, <2>4, ReleasedLoop DEF Persist, StoreOutcome, Store
    <3>0. row[m].verdict = 0
      BY <1>0, <2>1, <2>4 DEF Known, Unjudged
    <3>2. CASE loop.answer = "verdict" /\ row'[m] = Judged(row[m], loop.seen)
      <4>1. loop.seen # 0
        BY <1>10, <3>2 DEF Persist, VerdictsAreSeen
      <4>2. CASE row[m].downloaded
        BY <1>0, <2>1, <2>2, <2>4, <3>0, <3>2, <4>1, <4>2, JudgedRow
          DEF Known, Batched, Rated, Remembered, FileIsNew, Unjudged, OfItsFile, Stored, Seen, Row
      <4>3. CASE ~row[m].downloaded
        BY <1>0, <2>1, <2>2, <2>4, <3>0, <3>2, <4>1, <4>3, JudgedRow
          DEF Known, Batched, Rated, Remembered, FileIsNew, Unjudged, OfItsFile, Stored, Seen, Row
      <4> QED
        BY <1>0, <4>2, <4>3
    <3>3. CASE loop'.cur = None /\ row'[m] \in {Reviewed(row[m]), Retried(row[m])}
      BY <1>0, <2>1, <2>2, <2>4, <3>0, <3>3, ReviewedRow, RetriedRow
        DEF Known, Batched, Rated, Remembered, FileIsNew, Unjudged, OfItsFile, Stored, Seen
    <3>4. CASE /\ row'[m] = row[m] /\ m \in cut'
               /\ loop'.pc = "fast" => m \in Video
      BY <1>0, <2>1, <2>2, <2>4, <3>0, <3>4
        DEF Known, Batched, Rated, Remembered, FileIsNew, Unjudged, OfItsFile, Stored, Seen
    <3> QED
      BY <3>1, <3>2, <3>3, <3>4
  <2> QED
    BY <2>3, <2>4
<1>11. ASSUME PersistFast PROVE Known(m)'
  <2>1. /\ UNCHANGED <<disk, written, probe, raced>>
        /\ loop.pc = "fast" /\ loop.cur \in Media
        /\ \/ row' = row /\ cut' = cut \cup {loop.cur}
           \/ /\ cut' = cut
              /\ row' \in {[row EXCEPT ![loop.cur] = Judged(@, @.verdict)],
                           [row EXCEPT ![loop.cur] = Reviewed(@)]}
    BY <1>0, <1>11 DEF PersistFast, StoreOutcome, Store, Working, LoopType
  <2>2. /\ loop'.cur = None /\ loop'.seen = 0 /\ loop'.pc = "batch"
        /\ loop'.todo = loop.todo
    BY <1>0, <1>11, ReleasedLoop DEF PersistFast
  <2>3. CASE loop.cur # m
    BY <1>0, <2>1, <2>2, <2>3, Untouched
  <2>4. CASE loop.cur = m
    <3>1. /\ row[m].verdict \in Version
          /\ \/ row'[m] \in {Judged(row[m], row[m].verdict), Reviewed(row[m])} /\ cut' = cut
             \/ row' = row /\ cut' = cut \cup {m}
      BY <1>0, <2>1, <2>4 DEF Row
    <3>2. CASE row' = row /\ cut' = cut \cup {m}
      BY <1>0, <2>1, <2>2, <3>2, Untouched
    <3>3. CASE row'[m] = Judged(row[m], row[m].verdict) /\ cut' = cut
      <4> DEFINE judged == Judged(row[m], row[m].verdict)
      <4>1. /\ judged.stamp = row[m].stamp /\ judged.attempts = row[m].attempts
            /\ judged.duration = row[m].duration /\ judged.verdict = row[m].verdict
            /\ judged.downloaded = row[m].downloaded
            /\ judged.human <=> judged.shown = "human"
            /\ row[m].downloaded => judged.state = "done"
            /\ ~row[m].downloaded => judged = row[m]
        BY <1>0, <3>1, JudgedRow DEF Known, Rated, Row
      <4>2. row'[m] = judged
        BY <3>3
      <4> HIDE DEF judged
      <4>3. Batched(m)' /\ Rated(m)' /\ Remembered(m)' /\ FileIsNew(m)' /\ Unjudged(m)'
        BY <1>0, <2>1, <2>2, <2>4, <3>3, <4>1, <4>2
          DEF Known, Batched, Rated, Remembered, FileIsNew, Unjudged
      <4>4. Stored(m)' /\ Seen(m)'
        BY <1>0, <2>1, <2>2, <2>4, <3>3, <4>1, <4>2
          DEF Known, Unjudged, OfItsFile, Stored, Seen
      <4> QED
        BY <4>3, <4>4 DEF Known
    <3>4. CASE row'[m] = Reviewed(row[m]) /\ cut' = cut
      <4> DEFINE left == Reviewed(row[m])
      <4>1. /\ left.stamp = row[m].stamp /\ left.attempts = row[m].attempts
            /\ left.duration = row[m].duration /\ left.verdict = row[m].verdict
            /\ left.downloaded = row[m].downloaded
            /\ left.human <=> left.shown = "human"
            /\ row[m].downloaded => left.state = "manual_review"
            /\ ~row[m].downloaded => left = row[m]
        BY <1>0 DEF Known, Rated, Row, Reviewed
      <4>2. row'[m] = left
        BY <3>4
      <4> HIDE DEF left
      <4>3. Batched(m)' /\ Rated(m)' /\ Remembered(m)' /\ FileIsNew(m)' /\ Unjudged(m)'
        BY <1>0, <2>1, <2>2, <2>4, <3>4, <4>1, <4>2
          DEF Known, Batched, Rated, Remembered, FileIsNew, Unjudged
      <4>4. Stored(m)' /\ Seen(m)'
        BY <1>0, <2>1, <2>2, <2>4, <3>4, <4>1, <4>2
          DEF Known, Unjudged, OfItsFile, Stored, Seen
      <4> QED
        BY <4>3, <4>4 DEF Known
    <3> QED
      BY <3>1, <3>2, <3>3, <3>4
  <2> QED
    BY <2>3, <2>4
<1>12. ASSUME StartFails \/ WorkerStarts \/ BackoffEnds PROVE Known(m)'
  <2>1. /\ UNCHANGED <<disk, written, row, probe, raced, cut>>
        /\ loop' \in {loop, Drained(loop)}
    BY <1>12 DEF StartFails, WorkerStarts, BackoffEnds
  <2>2. /\ loop'.cur = loop.cur /\ loop'.todo = loop.todo
        /\ loop'.seen = loop.seen
        /\ loop'.pc = "fast" <=> loop.pc = "fast"
    BY <1>0, <2>1, DrainedLoop
  <2> QED
    BY <1>0, <2>1, <2>2, Untouched
<1>13. ASSUME NEW n \in Video, ProbeReads(n) PROVE Known(m)'
  <2>1. UNCHANGED <<disk, written, loop, raced, cut>> /\ n \in Media
    BY <1>13, MediaSets DEF ProbeReads
  <2>2. /\ row'[m] \in {row[m], Missing(row[m])}
        /\ probe' = probe \/ (probe'.media = m => probe'.version = disk[m])
    BY <1>0, <1>13, <2>1 DEF ProbeReads, Store
  <2>3. CASE row'[m] = row[m]
    BY <1>0, <2>1, <2>2, <2>3, Untouched
  <2>4. CASE row'[m] = Missing(row[m])
    BY <1>0, <2>1, <2>2, <2>4, MissingRow
      DEF Known, Batched, Rated, Remembered, FileIsNew, Unjudged, OfItsFile, Stored, Seen
  <2> QED
    BY <2>2, <2>3, <2>4
<1>14. ASSUME ProbeStores PROVE Known(m)'
  <2>1. UNCHANGED <<disk, written, loop, raced, cut>> /\ probe' = NoProbe
    BY <1>14 DEF ProbeStores
  <2>2. probe'.media # m
    BY <1>0, <2>1 DEF NoProbe
  <2>3. CASE row'[m] = row[m]
    BY <1>0, <2>1, <2>2, <2>3, Untouched
  <2>4. CASE row'[m] # row[m]
    <3>1. PICK v \in {0, probe.version} :
            row' = [row EXCEPT ![probe.media] =
                      [row[probe.media] EXCEPT !.duration = v, !.probed = TRUE]]
      BY <1>14, <2>4 DEF ProbeStores, Store
    <3>2. probe.media = m
      BY <1>0, <2>4, <3>1
    <3>3. row'[m] = [row[m] EXCEPT !.duration = v, !.probed = TRUE]
      BY <1>0, <2>4, <3>1, <3>2
    <3> QED
      BY <1>0, <2>1, <2>2, <3>2, <3>3
        DEF Row, Known, Batched, Rated, Remembered, FileIsNew, Unjudged, OfItsFile, Stored, Seen
  <2> QED
    BY <2>3, <2>4
<1>15. ASSUME CleanupSelects PROVE Known(m)'
  BY <1>0, <1>15, Untouched DEF CleanupSelects
<1>16. ASSUME CleanupMarks PROVE Known(m)'
  <2>1. UNCHANGED <<disk, written, loop, probe, raced, cut>>
    BY <1>16 DEF CleanupMarks
  <2>2. row'[m] \in {row[m], [row[m] EXCEPT !.downloaded = FALSE]}
    BY <1>0, <1>16 DEF CleanupMarks, Store
  <2>3. CASE row'[m] = row[m]
    BY <1>0, <2>1, <2>3, Untouched
  <2>4. CASE row'[m] = [row[m] EXCEPT !.downloaded = FALSE]
    BY <1>0, <2>1, <2>4
      DEF Row, Known, Batched, Rated, Remembered, FileIsNew, Unjudged, OfItsFile, Stored, Seen
  <2> QED
    BY <2>2, <2>3, <2>4
<1>17. ASSUME Kill PROVE Known(m)'
  <2>1. /\ UNCHANGED <<disk, written, row, raced>>
        /\ cut \subseteq cut'
        /\ loop.cur = m => m \in cut'
    BY <1>0, <1>17 DEF Kill
  <2>2. /\ loop'.cur = None /\ loop'.pc = "idle" /\ loop'.todo = {}
        /\ loop'.seen = 0 /\ probe'.media = None
    BY <1>17, RestingLoop DEF Kill, NoProbe
  <2> QED
    BY <1>0, <2>1, <2>2, Untouched
<1> QED
  BY <1>1, <1>2, <1>3, <1>4, <1>5, <1>6, <1>7, <1>8, <1>9, <1>10, <1>11, <1>12,
     <1>13, <1>14, <1>15, <1>16, <1>17 DEF Next, LoopStep, SupervisorStep

LEMMA SeenStep ==
  ASSUME TypeOK, VerdictsAreSeen, Next
  PROVE  VerdictsAreSeen'
<1>0. /\ loop \in LoopType
      /\ loop.cur # None <=> loop.pc \in Working
      /\ disk \in [Media -> Version]
      /\ None \notin Image /\ None \notin Video /\ Image \cap Video = {}
  BY ClassificationAssumption
    DEF TypeOK, LoopType, Working, Media, ClassificationAssumption
<1>1. CASE loop' = loop
  BY <1>1 DEF VerdictsAreSeen
<1>2. CASE loop' = Resting \/ loop' = Released(loop)
  BY <1>0, <1>2, RestingLoop, ReleasedLoop DEF VerdictsAreSeen
<1>3. CASE Fetch
  BY <1>3 DEF Fetch, Resting, VerdictsAreSeen
<1>4. CASE LoopEnds
  BY <1>0, <1>4, MovedLoop DEF LoopEnds, VerdictsAreSeen, Working
<1>5. ASSUME NEW m \in Media, Take(m) PROVE VerdictsAreSeen'
  <2>1. /\ loop'.pc \in {"batch", "claimed"} /\ loop'.seen = loop.seen
        /\ loop.cur = None
    BY <1>0, <1>5 DEF Take, LoopType, Working
  <2> QED
    BY <2>1 DEF VerdictsAreSeen
<1>6. CASE Ask
  BY <1>0, <1>6 DEF Ask, Answered, Present, LoopType, Working, VerdictsAreSeen
<1>7. CASE Answer
  BY <1>0, <1>7 DEF Answer, Answered, Present, LoopType, Working, VerdictsAreSeen
<1>8. CASE loop' = Answered(loop, "error")
  BY <1>0, <1>8, AnsweredLoop DEF VerdictsAreSeen
<1>9. CASE loop' = [loop EXCEPT !.pc = "fast"] /\ Persist
  BY <1>0, <1>9, ReleasedLoop DEF Persist, LoopType, Working, VerdictsAreSeen
<1> QED
  <2>1. CASE LoopStep
    BY <1>2, <1>3, <1>4, <1>5, <1>6, <1>9, <2>1
      DEF LoopStep, BatchEnds, LeaveToUser, Persist, PersistFast
  <2>2. CASE SupervisorStep
    BY <1>1, <1>7, <1>8, <2>2
      DEF SupervisorStep, StartFails, Drained, WorkerStarts, BackoffEnds, WorkerFails
  <2>3. CASE ~LoopStep /\ ~SupervisorStep
    BY <1>1, <1>2, <2>3
      DEF Next, Write, Delete, Index, Rate, CleanupRemoves, ProbeReads,
          UndoRating, TimePasses, ProbeStores, CleanupSelects, CleanupMarks, Kill
  <2> QED
    BY <2>1, <2>2, <2>3

-----------------------------------------------------------------------------
(* The theorems.                                                           *)

LEMMA InvariantInit == Init => IInv
<1> SUFFICES ASSUME Init PROVE IInv
  OBVIOUS
<1>1. ASSUME NEW m \in Media PROVE Known(m)
  <2>1. m # None /\ 0 < Tries
    BY ClassificationAssumption DEF Media, ClassificationAssumption
  <2>2. /\ disk[m] = 1 /\ written[m] = 1 /\ row[m].stamp = 1
        /\ row[m].state = "pending" /\ row[m].attempts = 0
        /\ row[m].retry = "due" /\ row[m].duration = 0
        /\ ~row[m].human /\ row[m].shown = "none" /\ row[m].verdict = 0
        /\ loop.cur = None /\ loop.todo = {} /\ probe.media = None
    BY DEF Init, Resting, NoProbe
  <2> QED
    BY <2>1, <2>2
      DEF Known, Batched, Rated, Remembered, FileIsNew, Unjudged, OfItsFile, Stored, Seen
<1>2. VerdictsAreSeen
  BY DEF Init, Resting, VerdictsAreSeen
<1> QED
  BY <1>1, <1>2, TypeInit DEF IInv

LEMMA InvariantStep == IInv /\ [Next]_vars => IInv'
<1> SUFFICES ASSUME IInv, [Next]_vars PROVE IInv'
  OBVIOUS
<1>1. CASE Next
  <2>1. TypeOK'
    BY <1>1, TypeStep DEF IInv, TodoHasAttempts, Known
  <2>2. VerdictsAreSeen'
    BY <1>1, SeenStep DEF IInv
  <2>3. ASSUME NEW m \in Media PROVE Known(m)'
    BY <1>1, <2>3, KnownStep DEF IInv
  <2> QED
    BY <2>1, <2>2, <2>3 DEF IInv
<1>2. CASE UNCHANGED vars
  BY <1>2 DEF vars, history, IInv, TypeOK, VerdictsAreSeen, Known, Batched,
    Rated, Remembered, FileIsNew, Unjudged, OfItsFile, Stored, Seen
<1> QED
  BY <1>1, <1>2

LEMMA InvariantHolds == Spec => []IInv
BY InvariantInit, InvariantStep, PTL DEF Spec

\* The attempts of a row never exceed the limit, although a claim does not look
\* at them, and the loop holds a lease exactly while it works on a row.
THEOREM TypeCorrect == Spec => []TypeOK
<1>1. IInv => TypeOK
  BY DEF IInv
<1> QED
  BY <1>1, InvariantHolds, PTL

\* No verdict, whenever it was asked for, displaces the user's rating, and once the
\* user has taken it back nothing is shown as the user's.
THEOREM HumanRatingIsKept == Spec => []HumanRatingWins
<1>1. IInv => HumanRatingWins
  BY DEF IInv, Known, Rated, HumanRatingWins
<1> QED
  BY <1>1, InvariantHolds, PTL

\* Verdicts and durations are of the file that the stamp of their row names,
\* except where a row was indexed again while somebody worked on it, and a video
\* is done without one only if its verdict was not stored.
THEOREM VerdictsAreOfTheFile == Spec => []StoredIsOfTheFile
<1>1. IInv => StoredIsOfTheFile
  BY DEF IInv, Known, Stored, OfItsFile, StoredIsOfTheFile
<1> QED
  BY <1>1, InvariantHolds, PTL

\* A row that waits for its rating will be selected again, for any limit of the
\* attempts, unless the process was killed during the last one or what came of
\* it was not stored.
THEOREM RowsAreRemembered == Spec => []NoRowIsForgotten
<1>1. IInv => NoRowIsForgotten
  BY DEF IInv, Known, Remembered, NoRowIsForgotten
<1> QED
  BY <1>1, InvariantHolds, PTL

=============================================================================
