-------------------------- MODULE MailQueueProofs --------------------------
(* Theorems about MailQueue for every set of processes, rows and workers,  *)
(* every lease and every bound, checked by TLAPS.                          *)
EXTENDS MailQueue, FiniteSetTheorems, TLAPS

-----------------------------------------------------------------------------
\* What an outcome writes to a row, and the hold on the lane, opened wherever
\* they are met.
USE DEF Sent, Deferred, Failed, Rescheduled, Pause, LaneIsHeld

(* What the operators return. *)

\* A row given back to the queue is a row.
LEMMA UnclaimedType ==
  ASSUME NEW rec \in RowState
  PROVE  /\ Unclaimed(rec) \in RowState
         /\ Unclaimed(rec).by = NoProc /\ Unclaimed(rec).age = NullAge
         /\ Unclaimed(rec).status = "pending"
<1>1. NullAge \in Ages
  BY QueueAssumption DEF Ages, NullAge
<1> QED
  BY <1>1 DEF Unclaimed, RowState

\* A row the reaper went over is a row again.
LEMMA ReclaimedType ==
  ASSUME NEW rec \in RowState
  PROVE  /\ Reclaimed(rec) \in RowState
         /\ Reclaimed(rec) = rec \/ Reclaimed(rec) = Unclaimed(rec)
            \/ Reclaimed(rec).status = "processing"
<1>1. 0 \in Ages
  BY QueueAssumption DEF Ages, NullAge
<1>2. [rec EXCEPT !.age = 0] \in RowState
  BY <1>1 DEF RowState
<1>3. rec.status = "processing" => [rec EXCEPT !.age = 0].status = "processing"
  BY DEF RowState
<1> QED
  BY <1>2, <1>3, UnclaimedType DEF Reclaimed

\* A set of rows has a cardinality, and so does any part of it.
LEMMA RowsAreFinite ==
  ASSUME NEW S \in SUBSET Rows
  PROVE  IsFiniteSet(S) /\ Cardinality(S) \in Nat
BY QueueAssumption, FS_Subset, FS_CardinalityType

LEMMA WorkersAreFinite == Cardinality(Workers) \in Nat
BY QueueAssumption, FS_CardinalityType

\* A take hands out due rows of its lane, each in one job of age 0.
LEMMA TakesAreDue ==
  ASSUME NEW lane \in SUBSET Rows, NEW n, NEW S \in Takes(lane, n)
  PROVE  S \in SUBSET Rows /\ \A r \in S : Due(r)
BY DEF Takes

\* A row with a counter raised and a wait set is a row.
LEMMA CountedType ==
  ASSUME NEW rec \in RowState, NEW d \in Nat
  PROVE  /\ [rec EXCEPT !.throttles = @ + 1, !.wait = d] \in RowState
         /\ [rec EXCEPT !.attempts = @ + 1, !.wait = d] \in RowState
         /\ [rec EXCEPT !.status = "failed", !.attempts = @ + 1] \in RowState
<1>1. rec.throttles + 1 \in Nat /\ rec.attempts + 1 \in Nat
  BY DEF RowState
<1> QED
  BY <1>1 DEF RowState

\* What an outcome leaves of a row: it is over, or waits with no claim.
Finished(rec) ==
  \/ rec.status \in {"sent", "failed"}
  \/ rec.status = "pending" /\ rec.by = NoProc /\ rec.age = NullAge

\* The outcome of a send is a row that is over or waits with no claim: the
\* retry delay is only looked up for a try that is not the last.
LEMMA OutcomeType ==
  ASSUME NEW j \in Job, row[j.row] \in RowState,
         NEW reply \in Replies, NEW retryAfter \in RetryAfters
  PROVE  /\ Outcome(j, reply, retryAfter) \in RowState
         /\ Finished(Outcome(j, reply, retryAfter))
         /\ Outcome(j, reply, retryAfter).status = "sent" <=> reply = "accepted"
<1> DEFINE rec == row[j.row]
           back == Unclaimed(rec)
           delay == Most(RetryDelay[j.attempts], retryAfter)
           pause == Most(ThrottlePause, retryAfter)
<1>1. /\ rec \in RowState /\ back \in RowState
      /\ back.status = "pending" /\ back.by = NoProc /\ back.age = NullAge
  BY UnclaimedType
<1>2. retryAfter \in Nat /\ pause \in Nat
  BY QueueAssumption DEF Most
<1>3. ~GivesUp(j, reply) => delay \in Nat
  <2> SUFFICES ASSUME ~GivesUp(j, reply) PROVE delay \in Nat
    OBVIOUS
  <2>1. j.attempts \in 0..MaxAttempts
    BY QueueAssumption DEF GivesUp, Job
  <2> QED
    BY <1>2, <2>1, QueueAssumption DEF Most
<1>4. Outcome(j, reply, retryAfter) =
        IF reply = "accepted" THEN [rec EXCEPT !.status = "sent"]
        ELSE IF Defers(j, reply)
        THEN [back EXCEPT !.throttles = @ + 1, !.wait = pause]
        ELSE IF GivesUp(j, reply) THEN [rec EXCEPT !.status = "failed", !.attempts = @ + 1]
        ELSE [back EXCEPT !.attempts = @ + 1, !.wait = delay]
  BY DEF Outcome
<1> HIDE DEF rec, back, delay, pause
<1>5. CASE reply = "accepted"
  <2>1. [rec EXCEPT !.status = "sent"] \in RowState
    BY <1>1 DEF RowState
  <2> QED
    BY <1>1, <1>4, <1>5, <2>1 DEF RowState, Finished
<1>6. CASE reply # "accepted" /\ Defers(j, reply)
  <2>1. [back EXCEPT !.throttles = @ + 1, !.wait = pause] \in RowState
    BY <1>1, <1>2, CountedType
  <2> QED
    BY <1>1, <1>4, <1>6, <2>1 DEF RowState, Finished
<1>7. CASE reply # "accepted" /\ ~Defers(j, reply) /\ GivesUp(j, reply)
  <2>1. [rec EXCEPT !.status = "failed", !.attempts = @ + 1] \in RowState
    BY <1>1, <1>2, CountedType
  <2> QED
    BY <1>1, <1>4, <1>7, <2>1 DEF RowState, Finished
<1>8. CASE reply # "accepted" /\ ~Defers(j, reply) /\ ~GivesUp(j, reply)
  <2>1. [back EXCEPT !.attempts = @ + 1, !.wait = delay] \in RowState
    BY <1>1, <1>3, <1>8, CountedType
  <2> QED
    BY <1>1, <1>4, <1>8, <2>1 DEF RowState, Finished
<1> QED
  BY <1>5, <1>6, <1>7, <1>8

-----------------------------------------------------------------------------
(* Type correctness. *)

\* The rows' part of TypeOK.
RowsOK ==
  /\ row \in [Rows -> RowState]
  /\ \A r \in Rows : row[r].status \in {"absent", "pending"} =>
                     row[r].by = NoProc /\ row[r].age = NullAge

\* What a process holds are jobs.
LEMMA HeldJobs ==
  ASSUME TypeOK, NEW p \in Procs
  PROVE  /\ chan[p] \subseteq Job
         /\ \A w \in Busy(p) : worker[p][w].job \in Job
         /\ Held(p) \subseteq Job
<1>1. chan[p] \subseteq Job
  BY DEF TypeOK
<1>2. ASSUME NEW w \in Busy(p) PROVE worker[p][w].job \in Job
  <2>1. w \in Workers /\ worker[p][w].pc \in {"sending", "answered"}
    BY DEF Busy
  <2>2. worker[p][w] \in WorkerState
    BY <2>1 DEF TypeOK
  <2> QED
    BY <2>1, <2>2 DEF WorkerState
<1> QED
  BY <1>1, <1>2 DEF Held

\* A write of a row that is over or waits leaves rows, whether or not the
\* fence lets it through.
LEMMA FencedWriteType ==
  ASSUME RowsOK, NEW p \in Procs, NEW j \in Job, NEW rec \in RowState,
         Finished(rec), FencedWrite(p, j, rec)
  PROVE  RowsOK'
BY DEF RowsOK, FencedWrite, Finished

LEMMA ReclaimType ==
  ASSUME RowsOK, ReclaimExpired
  PROVE  RowsOK'
<1>1. \A r \in Rows : row[r] \in RowState
  BY DEF RowsOK
<1>2. ASSUME NEW r \in Rows
      PROVE  /\ row'[r] \in RowState
             /\ row'[r] = row[r] \/ row'[r] = Unclaimed(row[r])
                \/ row'[r].status = "processing"
  BY <1>1, ReclaimedType DEF ReclaimExpired
<1>3. ASSUME NEW r \in Rows, row'[r].status \in {"absent", "pending"}
      PROVE  row'[r].by = NoProc /\ row'[r].age = NullAge
  BY <1>1, <1>2, <1>3, UnclaimedType DEF RowsOK
<1> QED
  BY <1>2, <1>3 DEF RowsOK, ReclaimExpired

\* A take, whether its answer arrived or was lost, leaves rows, jobs and
\* counters.
LEMMA TakeType ==
  ASSUME TypeOK, NEW p \in Procs, NEW lane \in SUBSET Rows, NEW n,
         NEW S \in Takes(lane, n), NEW answered \in BOOLEAN,
         TakeRows(p, S, answered)
  PROVE  /\ RowsOK'
         /\ chan' \in [Procs -> SUBSET Job]
         /\ taken' \in [Procs -> Int] /\ takenBulk' \in [Procs -> Int]
         /\ faults' \in Nat
<1>1. S \in SUBSET Rows /\ {r \in S : IsBulk(r)} \in SUBSET Rows
  BY DEF Takes
<1>2. Cardinality(S) \in Nat /\ Cardinality({r \in S : IsBulk(r)}) \in Nat
  BY <1>1, RowsAreFinite
<1>3. RowsOK'
  <2>1. 0 \in Ages
    BY QueueAssumption DEF Ages, NullAge
  <2>2. ASSUME NEW r \in Rows
        PROVE  [row[r] EXCEPT !.status = "processing", !.by = p, !.age = 0] \in RowState
    <3>1. row[r] \in RowState
      BY DEF TypeOK
    <3> QED
      BY <2>1, <3>1 DEF RowState
  <2>3. row' = [r \in Rows |->
          IF r \in S THEN [row[r] EXCEPT !.status = "processing", !.by = p, !.age = 0]
                    ELSE row[r]]
    BY DEF TakeRows, Claimed
  <2>4. ASSUME NEW r \in Rows
        PROVE  /\ row'[r] \in RowState
               /\ row'[r].status = "processing" \/ row'[r] = row[r]
    <3>1. CASE r \in S
      BY <2>2, <2>3, <3>1 DEF TypeOK, RowState
    <3>2. CASE r \notin S
      BY <2>3, <3>2 DEF TypeOK
    <3> QED
      BY <3>1, <3>2
  <2> QED
    BY <2>3, <2>4 DEF RowsOK, TypeOK
<1>4. JobsOf(S) \subseteq Job
  BY <1>1, QueueAssumption DEF JobsOf, Job, TypeOK, RowState
<1>5. faults' \in Nat
  BY DEF TakeRows, Fault, TypeOK
<1>6. CASE answered
  <2>1. chan' \in [Procs -> SUBSET Job]
    BY <1>4, <1>6, SMTT(20) DEF TakeRows, TypeOK
  <2>2. taken' \in [Procs -> Int] /\ takenBulk' \in [Procs -> Int]
    BY <1>2, <1>6 DEF TakeRows, TypeOK
  <2> QED
    BY <1>1, <1>3, <1>5, <2>1, <2>2
<1>7. CASE ~answered
  BY <1>3, <1>5, <1>7 DEF TakeRows, TypeOK
<1> QED
  BY <1>6, <1>7

\* Taking a job out of the counters leaves counters.
LEMMA UntakeType ==
  ASSUME taken \in [Procs -> Int], takenBulk \in [Procs -> Int],
         NEW p \in Procs, NEW j, Untake(p, j)
  PROVE  taken' \in [Procs -> Int] /\ takenBulk' \in [Procs -> Int]
BY DEF Untake

\* Giving a job back leaves rows and counters.
LEMMA ReleaseType ==
  ASSUME TypeOK, NEW p \in Procs, NEW j \in Job, NEW written \in BOOLEAN,
         Release(p, j, written)
  PROVE  /\ RowsOK' /\ faults' \in Nat
         /\ taken' \in [Procs -> Int] /\ takenBulk' \in [Procs -> Int]
<1>1. taken' \in [Procs -> Int] /\ takenBulk' \in [Procs -> Int]
  BY UntakeType DEF Release, TypeOK
<1>2. faults' \in Nat
  BY DEF Release, Fault, TypeOK
<1>3. row[j.row] \in RowState /\ RowsOK
  BY DEF Job, TypeOK, RowsOK
<1>4. Unclaimed(row[j.row]) \in RowState /\ Finished(Unclaimed(row[j.row]))
  BY <1>3, UnclaimedType DEF Finished
<1>5. RowsOK'
  BY <1>3, <1>4, FencedWriteType DEF Release, RowsOK
<1> QED
  BY <1>1, <1>2, <1>5

\* What holdBulkLane keeps is a number of ticks.
LEMMA LaneHoldType ==
  ASSUME TypeOK, NEW j, NEW reply, NEW retryAfter \in RetryAfters
  PROVE  LaneHold(j, reply, retryAfter) \in Nat
<1>1. retryAfter \in Nat /\ ThrottlePause \in Nat /\ hold \in Nat
  BY QueueAssumption DEF TypeOK
<1> QED
  BY <1>1 DEF LaneHold, Most

\* A step of a worker keeps the types.
LEMMA WorkerType ==
  ASSUME TypeOK, NEW p \in Procs, NEW w \in Workers, WorkerStep(p, w)
  PROVE  TypeOK'
<1> USE DEF RowsOK
<1>1. ASSUME NEW j \in chan[p], Pick(p, w, j)
      PROVE  TypeOK'
  <2>1. j \in Job
    BY HeldJobs
  <2>2. [pc |-> "sending", job |-> j, reply |-> NoReply] \in WorkerState
    BY <2>1 DEF WorkerState
  <2>3. worker' \in [Procs -> [Workers -> WorkerState]]
    BY <1>1, <2>2 DEF Pick, TypeOK
  <2>4. chan' \in [Procs -> SUBSET Job]
    BY <1>1 DEF Pick, TypeOK
  <2> QED
    BY <1>1, <2>3, <2>4 DEF Pick, TypeOK
<1>2. ASSUME NEW j \in chan[p], NEW written \in BOOLEAN, PickStopped(p, w, j, written)
      PROVE  TypeOK'
  <2>1. j \in Job
    BY HeldJobs
  <2>2. /\ RowsOK' /\ faults' \in Nat
        /\ taken' \in [Procs -> Int] /\ takenBulk' \in [Procs -> Int]
    BY <1>2, <2>1, ReleaseType DEF PickStopped
  <2>3. chan' \in [Procs -> SUBSET Job]
    BY <1>2 DEF PickStopped, TypeOK
  <2> QED
    BY <1>2, <2>2, <2>3 DEF PickStopped, TypeOK
<1>3. ASSUME NEW reply \in Replies, RelayAnswers(p, w, reply)
      PROVE  TypeOK'
  <2> DEFINE r == worker[p][w].job.row
  <2>1. w \in Busy(p)
    BY <1>3 DEF RelayAnswers, Busy
  <2>2. worker[p][w].job \in Job
    BY <2>1, HeldJobs
  <2>3. [worker[p][w] EXCEPT !.pc = "answered", !.reply = reply] \in WorkerState
    <3>1. worker[p][w] \in WorkerState /\ worker[p][w].pc = "sending"
      BY <1>3 DEF RelayAnswers, TypeOK
    <3>2. worker[p][w] \in [pc : {"sending"}, job : Job, reply : {NoReply}]
      BY <3>1 DEF WorkerState
    <3>3. [worker[p][w] EXCEPT !.pc = "answered", !.reply = reply]
            \in [pc : {"answered"}, job : Job, reply : Replies]
      BY <3>2
    <3> QED
      BY <3>3 DEF WorkerState
  <2>4. worker' = [worker EXCEPT ![p][w] =
                     [worker[p][w] EXCEPT !.pc = "answered", !.reply = reply]]
    BY <1>3 DEF RelayAnswers, TypeOK
  <2>5. worker' \in [Procs -> [Workers -> WorkerState]]
    BY <2>3, <2>4 DEF TypeOK
  <2>6. r \in Rows
    BY <2>2 DEF Job
  <2>7. delivered' \in [Rows -> Nat] /\ lapsed' \in [Rows -> Nat]
    BY <1>3, <2>6 DEF RelayAnswers, TypeOK
  <2>8. faults' \in Nat
    BY <1>3 DEF RelayAnswers, Fault, TypeOK
  <2> QED
    BY <1>3, <2>5, <2>7, <2>8 DEF RelayAnswers, TypeOK
<1>4. ASSUME NEW retryAfter \in RetryAfters, NEW holdWritten \in BOOLEAN,
             Record(p, w, retryAfter, holdWritten)
      PROVE  TypeOK'
  <2> DEFINE j == worker[p][w].job
             reply == worker[p][w].reply
             rec == Outcome(j, reply, retryAfter)
  <2>1. w \in Busy(p) /\ worker[p][w].pc = "answered"
    BY <1>4 DEF Record, Busy
  <2>2. j \in Job
    BY <2>1, HeldJobs
  <2>3. reply \in Replies
    <3>1. worker[p][w] \in WorkerState
      BY DEF TypeOK
    <3> QED
      BY <2>1, <3>1 DEF WorkerState
  <2>4. row[j.row] \in RowState
    BY <2>2 DEF Job, TypeOK
  <2>5. rec \in RowState /\ Finished(rec)
    BY <2>2, <2>3, <2>4, OutcomeType
  <2>6. FencedWrite(p, j, rec)
    BY <1>4 DEF Record
  <2>7. RowsOK'
    BY <2>2, <2>5, <2>6, FencedWriteType DEF TypeOK
  <2>8. hold' \in Nat /\ faults' \in Nat
    BY <1>4, LaneHoldType DEF Record, Fault, TypeOK
  <2>9. worker' \in [Procs -> [Workers -> WorkerState]]
    BY <1>4 DEF Record, TypeOK, IdleWorker, WorkerState
  <2>10. taken' \in [Procs -> Int] /\ takenBulk' \in [Procs -> Int]
    BY <1>4, UntakeType DEF Record, TypeOK
  <2> QED
    BY <1>4, <2>7, <2>8, <2>9, <2>10 DEF Record, TypeOK
<1>5. ASSUME NEW retryAfter \in RetryAfters, RecordFails(p, w, retryAfter)
      PROVE  TypeOK'
  <2>1. worker[p][w].job \in Job
    BY <1>5, HeldJobs DEF RecordFails, Busy
  <2>2. lapsed' \in [Rows -> Nat]
    BY <1>5, <2>1 DEF RecordFails, Job, TypeOK
  <2>3. worker' \in [Procs -> [Workers -> WorkerState]]
    BY <1>5 DEF RecordFails, TypeOK, IdleWorker, WorkerState
  <2>4. taken' \in [Procs -> Int] /\ takenBulk' \in [Procs -> Int]
    BY <1>5, UntakeType DEF RecordFails, TypeOK
  <2>5. hold' \in Nat /\ faults' \in Nat
    BY <1>5, LaneHoldType DEF RecordFails, Fault, TypeOK
  <2> QED
    BY <1>5, <2>2, <2>3, <2>4, <2>5 DEF RecordFails, TypeOK
<1>6. CASE WorkerStops(p, w)
  <2>1. ExitedWorker \in WorkerState
    BY DEF ExitedWorker, IdleWorker, WorkerState
  <2> QED
    BY <1>6, <2>1 DEF WorkerStops, TypeOK
<1> QED
  BY <1>1, <1>2, <1>3, <1>4, <1>5, <1>6 DEF WorkerStep

\* A turn of the dispatcher keeps the types.
LEMMA DispatcherType ==
  ASSUME TypeOK, NEW p \in Procs, DispatcherStep(p)
  PROVE  TypeOK'
<1> USE DEF RowsOK
<1>1. CASE TakeSystem(p)
  <2> DEFINE idle == disp[p].room
  <2>1. PICK S \in Takes(SystemRows, idle), answered \in BOOLEAN :
          /\ TakeRows(p, S, answered)
          /\ disp' = [disp EXCEPT ![p] =
               [pc |-> "bulk", room |-> idle - (IF answered THEN Cardinality(S) ELSE 0)]]
    BY <1>1 DEF TakeSystem
  <2>2. SystemRows \in SUBSET Rows
    BY QueueAssumption
  <2> HIDE DEF idle
  <2>3. /\ RowsOK' /\ chan' \in [Procs -> SUBSET Job] /\ faults' \in Nat
        /\ taken' \in [Procs -> Int] /\ takenBulk' \in [Procs -> Int]
    BY <2>1, <2>2, TakeType
  <2>4. Cardinality(S) \in Nat
    BY <2>2, TakesAreDue, RowsAreFinite
  <2>5. idle \in Int
    BY DEF idle, TypeOK
  <2>6. disp' \in [Procs -> [pc : {"waiting", "system", "bulk", "done"}, room : Int]]
    BY <2>1, <2>4, <2>5 DEF TypeOK
  <2> QED
    BY <1>1, <2>3, <2>6 DEF TakeSystem, TypeOK
<1>2. CASE TakeBulk(p)
  <2>0. PICK n : \E S \in Takes(Rows \ SystemRows, n), answered \in BOOLEAN :
                   TakeRows(p, S, answered)
    BY <1>2 DEF TakeBulk
  <2>1. PICK S \in Takes(Rows \ SystemRows, n), answered \in BOOLEAN :
          TakeRows(p, S, answered)
    BY <2>0
  <2>2. /\ RowsOK' /\ chan' \in [Procs -> SUBSET Job] /\ faults' \in Nat
        /\ taken' \in [Procs -> Int] /\ takenBulk' \in [Procs -> Int]
    BY <2>1, TakeType
  <2>3. disp' \in [Procs -> [pc : {"waiting", "system", "bulk", "done"}, room : Int]]
    BY <1>2 DEF TakeBulk, TypeOK
  <2> QED
    BY <1>2, <2>2, <2>3 DEF TakeBulk, TypeOK
<1>3. CASE BeginTurn(p)
  <2>1. Cardinality(Workers) - taken[p] \in Int
    BY WorkersAreFinite DEF TypeOK
  <2>2. disp' \in [Procs -> [pc : {"waiting", "system", "bulk", "done"}, room : Int]]
    BY <1>3, <2>1 DEF BeginTurn, TypeOK
  <2> QED
    BY <1>3, <2>2 DEF BeginTurn, TypeOK
<1> QED
  BY <1>1, <1>2, <1>3 DEF DispatcherStep

\* A step of Stop keeps the types.
LEMMA StopType ==
  ASSUME TypeOK, NEW p \in Procs, Stop(p) \/ StopStep(p)
  PROVE  TypeOK'
<1> USE DEF RowsOK
<1>1. CASE Stop(p)
  BY <1>1 DEF Stop, TypeOK, Phases, StopPhases
<1>2. CASE DispatcherStops(p)
  BY <1>2 DEF DispatcherStops, TypeOK
<1>3. ASSUME NEW j \in chan[p], NEW written \in BOOLEAN, ReleaseWaiting(p, j, written)
      PROVE  TypeOK'
  <2>1. j \in Job
    BY HeldJobs
  <2>2. /\ RowsOK' /\ faults' \in Nat
        /\ taken' \in [Procs -> Int] /\ takenBulk' \in [Procs -> Int]
    BY <1>3, <2>1, ReleaseType DEF ReleaseWaiting
  <2>3. chan' \in [Procs -> SUBSET Job]
    BY <1>3 DEF ReleaseWaiting, TypeOK
  <2> QED
    BY <1>3, <2>2, <2>3 DEF ReleaseWaiting, TypeOK
<1>4. CASE StopProceeds(p)
  <2>1. phase' \in [Procs -> Phases]
    BY <1>4 DEF StopProceeds, TypeOK, Phases, StopPhases
  <2> QED
    BY <1>4, <2>1 DEF StopProceeds, TypeOK
<1> QED
  BY <1>1, <1>2, <1>3, <1>4 DEF StopStep

\* A tick keeps the types: no job is held past MaxHold.
LEMMA TickType ==
  ASSUME TypeOK, Tick
  PROVE  TypeOK'
<1> USE DEF RowsOK
<1>1. ASSUME NEW p \in Procs, NEW j \in Held(p)
      PROVE  Older(j) \in Job
  <2>1. j \in Job /\ j.age < MaxHold
    BY <1>1, HeldJobs DEF Tick
  <2>2. j.age + 1 \in 0..MaxHold
    BY <2>1, QueueAssumption DEF Job
  <2> QED
    BY <2>1, <2>2 DEF Older, Job
<1>2. chan' \in [Procs -> SUBSET Job]
  BY <1>1 DEF Tick, Held
<1>3. worker' \in [Procs -> [Workers -> WorkerState]]
  <2>1. ASSUME NEW p \in Procs, NEW w \in Workers
        PROVE  worker'[p][w] \in WorkerState
    <3>1. worker[p][w] \in WorkerState
      BY DEF TypeOK
    <3>2. CASE w \in Busy(p)
      <4>1. Older(worker[p][w].job) \in Job
        BY <1>1, <3>2 DEF Held
      <4>2. worker'[p][w] = [worker[p][w] EXCEPT !.job = Older(worker[p][w].job)]
        BY <3>2 DEF Tick
      <4>3. worker[p][w].pc \in {"sending", "answered"}
        BY <3>2 DEF Busy
      <4>4. CASE worker[p][w].pc = "sending"
        <5>1. worker[p][w] \in [pc : {"sending"}, job : Job, reply : {NoReply}]
          BY <3>1, <4>4 DEF WorkerState
        <5> QED
          BY <4>1, <4>2, <5>1 DEF WorkerState
      <4>5. CASE worker[p][w].pc = "answered"
        <5>1. worker[p][w] \in [pc : {"answered"}, job : Job, reply : Replies]
          BY <3>1, <4>5 DEF WorkerState
        <5> QED
          BY <4>1, <4>2, <5>1 DEF WorkerState
      <4> QED
        BY <4>3, <4>4, <4>5
    <3>3. CASE w \notin Busy(p)
      BY <3>1, <3>3 DEF Tick
    <3> QED
      BY <3>2, <3>3
  <2> QED
    BY <2>1 DEF Tick
<1>4. RowsOK'
  <2>1. ASSUME NEW r \in Rows
        PROVE  /\ row'[r] \in RowState
               /\ row'[r].status = row[r].status /\ row'[r].by = row[r].by
               /\ row[r].status # "processing" => row'[r].age = row[r].age
    <3> DEFINE wait == IF row[r].wait > 0 THEN row[r].wait - 1 ELSE 0
               age == IF row[r].status = "processing" /\ row[r].age # NullAge
                      THEN Least(row[r].age + 1, MaxAge) ELSE row[r].age
    <3>1. row[r] \in RowState
      BY DEF TypeOK
    <3>2. wait \in Nat /\ age \in Ages
      <4>1. row[r].wait \in Nat /\ row[r].age \in Ages
        BY <3>1 DEF RowState
      <4>2. wait \in Nat
        BY <4>1
      <4>3. CASE row[r].status = "processing" /\ row[r].age # NullAge
        <5>1. age = Least(row[r].age + 1, MaxAge)
          BY <4>3
        <5>2. Least(row[r].age + 1, MaxAge) \in Ages
          <6> DEFINE a == row[r].age
          <6>1. a \in Int /\ -1 <= a /\ a <= MaxAge /\ MaxAge \in Nat
            BY <4>1, QueueAssumption DEF Ages, NullAge
          <6>2. Least(a + 1, MaxAge) \in Ages
            <7> HIDE DEF a
            <7> QED
              BY <6>1 DEF Ages, NullAge, Least
          <6> QED
            BY <6>2
        <5> QED
          BY <4>2, <5>1, <5>2
      <4>4. CASE ~(row[r].status = "processing" /\ row[r].age # NullAge)
        BY <4>1, <4>2, <4>4
      <4> QED
        BY <4>3, <4>4
    <3>3. row'[r] = [row[r] EXCEPT !.wait = wait, !.age = age]
      BY <3>1 DEF Tick, RowState
    <3>4. row[r].status # "processing" => age = row[r].age
      OBVIOUS
    <3> HIDE DEF wait, age
    <3> QED
      BY <3>1, <3>2, <3>3, <3>4 DEF RowState
  <2>2. row' = [r \in Rows |-> row'[r]]
    BY DEF Tick
  <2> QED
    BY <2>1, <2>2 DEF TypeOK
<1>5. hold' \in Nat
  <2>1. hold \in Nat /\ hold' = IF hold > 0 THEN hold - 1 ELSE 0
    BY DEF Tick, TypeOK
  <2> QED
    BY <2>1
<1> QED
  BY <1>2, <1>3, <1>4, <1>5 DEF Tick, TypeOK

\* TypeOK: whatever happens, the variables keep their shapes, a job is held no
\* longer than MaxHold, and a row that waits has no claimant and no
\* claimed_at (the claim columns of mail_queue).
THEOREM TypeCorrect == Spec => []TypeOK
<1> USE DEF RowsOK
<1>1. Init => TypeOK
  <2> SUFFICES ASSUME Init PROVE TypeOK
    OBVIOUS
  <2>1. RowsOK
    <3>1. NullAge \in Ages
      BY QueueAssumption DEF Ages, NullAge
    <3>2. \A s \in {"absent", "pending", "processing"} :
            LET rec == [status |-> s, attempts |-> 0, throttles |-> 0, wait |-> 0,
                        by |-> NoProc, age |-> NullAge]
            IN  rec \in RowState /\ rec.by = NoProc /\ rec.age = NullAge
      BY <3>1 DEF RowState
    <3>3. \A r \in Rows : row[r] \in RowState /\ row[r].by = NoProc /\ row[r].age = NullAge
      BY <3>2 DEF Init
    <3>4. row = [r \in Rows |-> row[r]]
      BY DEF Init
    <3> QED
      BY <3>3, <3>4
  <2>2. worker \in [Procs -> [Workers -> WorkerState]]
    BY DEF Init, ExitedWorker, IdleWorker, WorkerState
  <2> QED
    BY <2>1, <2>2 DEF Init, TypeOK, Phases
<1>2. TypeOK /\ [Next]_vars => TypeOK'
  <2> SUFFICES ASSUME TypeOK, [Next]_vars PROVE TypeOK'
    OBVIOUS
  <2>1. ASSUME NEW r \in Rows, Enqueue(r) PROVE TypeOK'
    <3>1. [row[r] EXCEPT !.status = "pending"] \in RowState
      BY DEF TypeOK, RowState
    <3>2. RowsOK'
      BY <2>1, <3>1 DEF Enqueue, TypeOK, RowState
    <3> QED
      BY <2>1, <3>2 DEF Enqueue, TypeOK
  <2>2. ASSUME NEW p \in Procs, Start(p) PROVE TypeOK'
    <3>1. RowsOK'
      BY <2>2, ReclaimType DEF Start, TypeOK
    <3>2. worker' \in [Procs -> [Workers -> WorkerState]]
      BY <2>2 DEF Start, TypeOK, IdleWorker, WorkerState
    <3> QED
      BY <2>2, <3>1, <3>2 DEF Start, TypeOK, Phases
  <2>3. ASSUME NEW p \in Procs, Reap(p) PROVE TypeOK'
    <3>1. RowsOK'
      BY <2>3, ReclaimType DEF Reap, TypeOK
    <3> QED
      BY <2>3, <3>1 DEF Reap, TypeOK
  <2>4. ASSUME NEW p \in Procs, Crash(p) PROVE TypeOK'
    <3>1. worker' \in [Procs -> [Workers -> WorkerState]]
      BY <2>4 DEF Crash, TypeOK, ExitedWorker, IdleWorker, WorkerState
    <3>2. chan' \in [Procs -> SUBSET Job]
      BY <2>4 DEF Crash, TypeOK
    <3>3. lapsed' \in [Rows -> Nat]
      BY <2>4 DEF Crash, TypeOK
    <3>4. phase' \in [Procs -> Phases]
      BY <2>4 DEF Crash, TypeOK, Phases
    <3>5. disp' \in [Procs -> [pc : {"waiting", "system", "bulk", "done"}, room : Int]]
      BY <2>4 DEF Crash, TypeOK
    <3>6. taken' \in [Procs -> Int] /\ takenBulk' \in [Procs -> Int]
      BY <2>4 DEF Crash, TypeOK
    <3> QED
      BY <2>4, <3>1, <3>2, <3>3, <3>4, <3>5, <3>6 DEF Crash, TypeOK
  <2>5. CASE UNCHANGED vars
    BY <2>5 DEF vars, TypeOK
  <2> QED
    BY <2>1, <2>2, <2>3, <2>4, <2>5, WorkerType, DispatcherType, StopType, TickType DEF Next
<1> QED
  BY <1>1, <1>2, PTL DEF Spec

-----------------------------------------------------------------------------
(* Claims. *)

\* A process that has not started holds nothing: Start gives it workers.
NewHoldsNothing ==
  \A p \in Procs : phase[p] = "new" => chan[p] = {} /\ Busy(p) = {}

\* The inductive invariant.
IInv == TypeOK /\ NewHoldsNothing /\ ClaimsAreExclusive

\* A fenced write spares every claim but its own.
LEMMA FenceSpares ==
  ASSUME TypeOK, NEW p \in Procs, NEW j \in Job, NEW rec, FencedWrite(p, j, rec),
         NEW q \in Procs, NEW i \in Job, Fenced(q, i), ~(q = p /\ SameClaim(i, j))
  PROVE  Fenced(q, i)'
<1>1. CASE ~Fenced(p, j)
  BY <1>1 DEF FencedWrite, Fenced
<1>2. CASE Fenced(p, j)
  <2>1. i.row # j.row
    BY <1>2 DEF Fenced, SameClaim
  <2>2. row' = [row EXCEPT ![j.row] = rec]
    BY <1>2 DEF FencedWrite
  <2>3. row'[i.row] = row[i.row]
    BY <2>1, <2>2 DEF TypeOK
  <2> QED
    BY <2>3 DEF Fenced
<1> QED
  BY <1>1, <1>2

\* The reaper spares every claim within its lease.
LEMMA ReaperSpares ==
  ASSUME TypeOK, ReclaimExpired, NEW p \in Procs, NEW j \in Job,
         Fenced(p, j), j.age <= Lease
  PROVE  Fenced(p, j)'
<1>1. /\ j.row \in Rows /\ j.age \in Nat
      /\ row[j.row].status = "processing" /\ row[j.row].age = j.age
  BY QueueAssumption DEF Fenced, Job
<1>2. Reclaimed(row[j.row]) = row[j.row]
  BY <1>1, QueueAssumption DEF Reclaimed, NullAge
<1>3. row'[j.row] = row[j.row]
  BY <1>1, <1>2 DEF ReclaimExpired
<1> QED
  BY <1>3 DEF Fenced

\* A step after which every hand is one that was there, and no claim within
\* its lease that is still in a hand was touched, keeps claims exclusive.
LEMMA HandsKept ==
  ASSUME ClaimsAreExclusive,
         \A p \in Procs : chan'[p] \subseteq chan[p],
         \A p \in Procs : \A w \in Busy(p)' :
           w \in Busy(p) /\ worker'[p][w].job = worker[p][w].job,
         \A p \in Procs : \A j \in Held(p)' :
           j.age <= Lease /\ Fenced(p, j) => Fenced(p, j)'
  PROVE  ClaimsAreExclusive'
<1> SUFFICES ASSUME NEW p \in Procs
             PROVE  /\ \A j \in Held(p)' : j.age <= Lease => Fenced(p, j)'
                    /\ \A v, w \in Busy(p)' :
                         v # w => ~SameClaim(worker'[p][v].job, worker'[p][w].job)
                    /\ \A w \in Busy(p)', j \in chan'[p] : ~SameClaim(worker'[p][w].job, j)
                    /\ \A i, j \in chan'[p] : SameClaim(i, j) => i = j
  BY DEF ClaimsAreExclusive, SameClaim
<1>1. \A j \in Held(p)' : j \in Held(p)
  BY DEF Held
<1>2. \A j \in Held(p)' : j.age <= Lease => Fenced(p, j)'
  BY <1>1 DEF ClaimsAreExclusive
<1>3. \A v, w \in Busy(p)' : v # w => ~SameClaim(worker'[p][v].job, worker'[p][w].job)
  BY DEF ClaimsAreExclusive
<1>4. \A w \in Busy(p)', j \in chan'[p] : ~SameClaim(worker'[p][w].job, j)
  BY DEF ClaimsAreExclusive
<1>5. \A i, j \in chan'[p] : SameClaim(i, j) => i = j
  BY DEF ClaimsAreExclusive
<1> QED
  BY <1>2, <1>3, <1>4, <1>5

\* A job given back from the channel takes only its own claim with it.
LEMMA ChannelJobReleased ==
  ASSUME TypeOK, ClaimsAreExclusive, NEW p \in Procs, NEW j \in chan[p],
         NEW written \in BOOLEAN, Release(p, j, written),
         chan' = [chan EXCEPT ![p] = @ \ {j}], UNCHANGED worker
  PROVE  ClaimsAreExclusive'
<1>1. ASSUME NEW q \in Procs
      PROVE  /\ chan'[q] \subseteq chan[q] /\ Busy(q)' = Busy(q)
             /\ q = p => j \notin chan'[q]
  BY DEF Busy, TypeOK
<1>2. ASSUME NEW q \in Procs, NEW i \in Held(q)', Fenced(q, i)
      PROVE  Fenced(q, i)'
  <2>1. i \in Held(q) /\ i \in Job /\ j \in Job
    BY <1>1, HeldJobs DEF Held
  <2>2. ~(q = p /\ SameClaim(i, j))
    <3>1. CASE i \in chan'[q]
      BY <1>1, <3>1 DEF ClaimsAreExclusive
    <3>2. CASE i \in {worker[q][w].job : w \in Busy(q)}
      BY <3>2 DEF ClaimsAreExclusive
    <3> QED
      BY <1>1, <1>2, <3>1, <3>2 DEF Held
  <2>3. CASE written
    BY <1>2, <2>1, <2>2, <2>3, FenceSpares DEF Release
  <2>4. CASE ~written
    BY <1>2, <2>4 DEF Release, Fenced
  <2> QED
    BY <2>3, <2>4
<1> QED
  BY <1>1, <1>2, HandsKept

\* A worker that recorded its outcome, or could not, lets go of its own claim
\* only.
LEMMA OutcomeRecorded ==
  ASSUME TypeOK, ClaimsAreExclusive, NEW p \in Procs, NEW w \in Busy(p), NEW rec,
         FencedWrite(p, worker[p][w].job, rec) \/ UNCHANGED row,
         worker' = [worker EXCEPT ![p][w] = IdleWorker], UNCHANGED chan
  PROVE  ClaimsAreExclusive'
<1> DEFINE j == worker[p][w].job
<1>1. ASSUME NEW q \in Procs, NEW v \in Busy(q)'
      PROVE  /\ v \in Busy(q) /\ worker'[q][v].job = worker[q][v].job
             /\ ~(q = p /\ v = w)
  BY DEF Busy, TypeOK, IdleWorker
<1>2. ASSUME NEW q \in Procs, NEW i \in Held(q)', Fenced(q, i)
      PROVE  Fenced(q, i)'
  <2>1. i \in Held(q) /\ i \in Job /\ j \in Job
    BY <1>1, HeldJobs DEF Held
  <2>2. ~(q = p /\ SameClaim(i, j))
    <3>1. CASE i \in chan'[q]
      BY <3>1 DEF ClaimsAreExclusive, SameClaim
    <3>2. ASSUME NEW v \in Busy(q)', i = worker'[q][v].job
          PROVE  ~(q = p /\ SameClaim(i, j))
      BY <1>1, <3>2 DEF ClaimsAreExclusive
    <3> QED
      BY <1>2, <3>1, <3>2 DEF Held
  <2> HIDE DEF j
  <2>3. CASE FencedWrite(p, j, rec)
    BY <1>2, <2>1, <2>2, <2>3, FenceSpares
  <2>4. CASE UNCHANGED row
    BY <1>2, <2>4 DEF Fenced
  <2> QED
    BY <2>3, <2>4 DEF j
<1> QED
  BY <1>1, <1>2, HandsKept

\* A picked job moves from the channel to the worker.
LEMMA JobPicked ==
  ASSUME TypeOK, ClaimsAreExclusive, NEW p \in Procs, NEW w \in Workers,
         NEW j \in chan[p], Pick(p, w, j)
  PROVE  ClaimsAreExclusive'
<1>1. w \notin Busy(p) /\ j \in Job
  BY HeldJobs DEF Pick, Busy
<1>2. /\ \A q \in Procs : q # p => chan'[q] = chan[q]
      /\ chan'[p] = chan[p] \ {j}
  BY DEF Pick, TypeOK
<1>3. ASSUME NEW q \in Procs, NEW v \in Busy(q)'
      PROVE  \/ q = p /\ v = w /\ worker'[q][v].job = j
             \/ v \in Busy(q) /\ worker'[q][v].job = worker[q][v].job
  BY DEF Pick, Busy, TypeOK
<1>4. ASSUME NEW q \in Procs, NEW i \in Held(q)'
      PROVE  i.age <= Lease => Fenced(q, i)'
  <2>1. i \in Held(q)
    BY <1>2, <1>3 DEF Held
  <2> QED
    BY <2>1 DEF ClaimsAreExclusive, Pick, Fenced
<1>5. ASSUME NEW q \in Procs, NEW u \in Busy(q)', NEW v \in Busy(q)', u # v
      PROVE  ~SameClaim(worker'[q][u].job, worker'[q][v].job)
  <2>1. ASSUME NEW x \in Busy(p)
        PROVE  ~SameClaim(worker[p][x].job, j) /\ ~SameClaim(j, worker[p][x].job)
    BY DEF ClaimsAreExclusive, SameClaim
  <2>2. CASE q = p /\ u = w
    BY <1>1, <1>3, <1>5, <2>1, <2>2
  <2>3. CASE q = p /\ v = w
    BY <1>1, <1>3, <1>5, <2>1, <2>3
  <2>4. CASE ~(q = p /\ u = w) /\ ~(q = p /\ v = w)
    <3>1. /\ u \in Busy(q) /\ worker'[q][u].job = worker[q][u].job
          /\ v \in Busy(q) /\ worker'[q][v].job = worker[q][v].job
      BY <1>3, <2>4
    <3> QED
      BY <1>5, <3>1 DEF ClaimsAreExclusive
  <2> QED
    BY <2>2, <2>3, <2>4
<1>6. ASSUME NEW q \in Procs, NEW v \in Busy(q)', NEW i \in chan'[q]
      PROVE  ~SameClaim(worker'[q][v].job, i)
  BY <1>2, <1>3 DEF ClaimsAreExclusive, SameClaim
<1>7. ASSUME NEW q \in Procs, NEW h \in chan'[q], NEW i \in chan'[q], SameClaim(h, i)
      PROVE  h = i
  BY <1>2, <1>7 DEF ClaimsAreExclusive
<1> QED
  BY <1>4, <1>5, <1>6, <1>7 DEF ClaimsAreExclusive, SameClaim

\* A take claims rows that wait, so no job in a hand within its lease.
LEMMA RowsTaken ==
  ASSUME TypeOK, ClaimsAreExclusive, NEW p \in Procs, NEW lane \in SUBSET Rows, NEW n,
         NEW S \in Takes(lane, n), NEW answered \in BOOLEAN,
         TakeRows(p, S, answered), UNCHANGED worker
  PROVE  ClaimsAreExclusive'
<1>1. S \in SUBSET Rows /\ \A r \in S : row[r].status = "pending"
  BY TakesAreDue DEF Due
<1>2. row' = [r \in Rows |->
        IF r \in S THEN [row[r] EXCEPT !.status = "processing", !.by = p, !.age = 0]
                  ELSE row[r]]
  BY DEF TakeRows, Claimed
<1>3. ASSUME NEW q \in Procs, NEW i \in Job, Fenced(q, i)
      PROVE  Fenced(q, i)' /\ i.row \notin S
  <2>1. i.row \in Rows /\ i.row \notin S
    BY <1>1, <1>3 DEF Fenced, Job
  <2> QED
    BY <1>2, <1>3, <2>1 DEF Fenced
<1>4. ASSUME NEW q \in Procs, NEW i \in Held(q), i.age <= Lease
      PROVE  Fenced(q, i)' /\ i.row \notin S
  BY <1>3, <1>4, HeldJobs DEF ClaimsAreExclusive
<1>5. ASSUME NEW r \in S
      PROVE  row'[r].status = "processing" /\ row'[r].by = p /\ row'[r].age = 0
  <2>1. row[r] \in RowState
    BY <1>1 DEF TypeOK
  <2> QED
    BY <1>1, <1>2, <2>1 DEF RowState
<1>6. ASSUME NEW j \in JobsOf(S)
      PROVE  /\ j.age = 0 /\ j.row \in S /\ Fenced(p, j)'
             /\ \A i \in Held(p) : ~SameClaim(i, j) /\ ~SameClaim(j, i)
  <2>1. j.age = 0 /\ j.row \in S
    BY <1>6 DEF JobsOf
  <2>2. Fenced(p, j)'
    BY <1>5, <2>1 DEF Fenced
  <2>3. ASSUME NEW i \in Held(p), i.row = j.row, i.age = j.age
        PROVE  FALSE
    BY <1>4, <2>1, <2>3, QueueAssumption
  <2> QED
    BY <2>1, <2>2, <2>3 DEF SameClaim
<1>7. \A i, j \in JobsOf(S) : SameClaim(i, j) => i = j
  BY DEF JobsOf, SameClaim
<1>8. ASSUME NEW q \in Procs
      PROVE  /\ Busy(q)' = Busy(q)
             /\ \A j \in chan'[q] : j \in chan[q] \/ (q = p /\ j \in JobsOf(S))
  BY DEF Busy, TakeRows, TypeOK
<1>9. ASSUME NEW q \in Procs, NEW i \in Held(q)'
      PROVE  i.age <= Lease => Fenced(q, i)'
  <2>1. i \in Held(q) \/ (q = p /\ i \in JobsOf(S))
    BY <1>8 DEF Held
  <2> QED
    BY <1>4, <1>6, <2>1
<1>10. ASSUME NEW q \in Procs, NEW v \in Busy(q)', NEW i \in chan'[q]
      PROVE  ~SameClaim(worker'[q][v].job, i)
  BY <1>6, <1>8 DEF ClaimsAreExclusive, Held
<1>11. ASSUME NEW q \in Procs, NEW h \in chan'[q], NEW i \in chan'[q], SameClaim(h, i)
      PROVE  h = i
  BY <1>6, <1>7, <1>8, <1>11 DEF ClaimsAreExclusive, Held
<1>12. ASSUME NEW q \in Procs, NEW u \in Busy(q)', NEW v \in Busy(q)', u # v
      PROVE  ~SameClaim(worker'[q][u].job, worker'[q][v].job)
  BY <1>8, <1>12 DEF ClaimsAreExclusive
<1> QED
  BY <1>9, <1>10, <1>11, <1>12 DEF ClaimsAreExclusive, SameClaim

\* A tick ages a claim and the jobs taken under it alike.
LEMMA ClaimsAge ==
  ASSUME TypeOK, ClaimsAreExclusive, Tick
  PROVE  ClaimsAreExclusive'
<1>1. ASSUME NEW q \in Procs, NEW j \in Held(q)
      PROVE  /\ j \in Job /\ j.age + 1 <= MaxHold
             /\ Older(j).row = j.row /\ Older(j).age = j.age + 1
  <2>1. j \in Job /\ j.age < MaxHold
    BY HeldJobs DEF Tick
  <2> QED
    BY <2>1, QueueAssumption DEF Job, Older
<1>2. ASSUME NEW q \in Procs
      PROVE  /\ chan'[q] = {Older(j) : j \in chan[q]}
             /\ Busy(q)' = Busy(q)
             /\ \A w \in Busy(q) : worker'[q][w].job = Older(worker[q][w].job)
  <2>1. chan'[q] = {Older(j) : j \in chan[q]}
    BY DEF Tick
  <2>2. ASSUME NEW w \in Workers
        PROVE  /\ worker'[q][w].pc = worker[q][w].pc
               /\ w \in Busy(q) => worker'[q][w].job = Older(worker[q][w].job)
    <3>1. worker[q][w] \in WorkerState
      BY DEF TypeOK
    <3>2. worker'[q][w] = IF w \in Busy(q)
                          THEN [worker[q][w] EXCEPT !.job = Older(worker[q][w].job)]
                          ELSE worker[q][w]
      BY DEF Tick
    <3> QED
      BY <3>1, <3>2 DEF WorkerState
  <2> QED
    BY <2>1, <2>2 DEF Busy
<1>3. ASSUME NEW q \in Procs, NEW j \in Held(q), Older(j).age <= Lease
      PROVE  Fenced(q, Older(j))'
  <2> DEFINE rec == row[j.row]
  <2>1. j \in Job /\ j.age \in Nat /\ j.age <= Lease /\ j.age + 1 < MaxAge /\ Lease \in Nat
    BY <1>1, <1>3, QueueAssumption DEF Job
  <2>2. Fenced(q, j) /\ rec \in RowState
    BY <2>1 DEF ClaimsAreExclusive, Job, TypeOK
  <2>3. rec.age # NullAge /\ Least(rec.age + 1, MaxAge) = j.age + 1
    BY <2>1, <2>2, QueueAssumption DEF Fenced, NullAge, Least
  <2> DEFINE wait == IF rec.wait > 0 THEN rec.wait - 1 ELSE 0
  <2>4. row'[j.row] = [rec EXCEPT !.wait = wait, !.age = j.age + 1]
    BY <2>1, <2>2, <2>3 DEF Tick, Job, Fenced, RowState
  <2> HIDE DEF wait
  <2>5. /\ row'[j.row].status = "processing" /\ row'[j.row].by = q
        /\ row'[j.row].age = j.age + 1
    BY <2>2, <2>4 DEF RowState, Fenced
  <2> QED
    BY <1>1, <2>5 DEF Fenced
<1>4. ASSUME NEW q \in Procs, NEW i \in Held(q), NEW j \in Held(q),
             SameClaim(Older(i), Older(j))
      PROVE  SameClaim(i, j)
  <2>1. i.age \in Int /\ j.age \in Int
    BY <1>1, QueueAssumption DEF Job
  <2> QED
    BY <1>1, <1>4, <2>1 DEF SameClaim
<1>5. ASSUME NEW q \in Procs, NEW i \in Held(q)', i.age <= Lease
      PROVE  Fenced(q, i)'
  <2>1. PICK j \in Held(q) : i = Older(j)
    BY <1>2 DEF Held
  <2> QED
    BY <1>3, <1>5, <2>1
<1>6. ASSUME NEW q \in Procs, NEW u \in Busy(q)', NEW v \in Busy(q)', u # v
      PROVE  ~SameClaim(worker'[q][u].job, worker'[q][v].job)
  BY <1>2, <1>4, <1>6 DEF ClaimsAreExclusive, Held
<1>7. ASSUME NEW q \in Procs, NEW v \in Busy(q)', NEW i \in chan'[q]
      PROVE  ~SameClaim(worker'[q][v].job, i)
  BY <1>2, <1>4 DEF ClaimsAreExclusive, Held
<1>8. ASSUME NEW q \in Procs, NEW h \in chan'[q], NEW i \in chan'[q], SameClaim(h, i)
      PROVE  h = i
  BY <1>2, <1>4, <1>8 DEF ClaimsAreExclusive, Held
<1> QED
  BY <1>5, <1>6, <1>7, <1>8 DEF ClaimsAreExclusive, SameClaim

\* NewHoldsNothing is kept: only Start ends being new, and nothing is given to
\* a process that is.
LEMMA NewStaysEmpty ==
  ASSUME TypeOK, NewHoldsNothing, [Next]_vars
  PROVE  NewHoldsNothing'
<1> SUFFICES ASSUME NEW q \in Procs, phase'[q] = "new"
             PROVE  chan'[q] = {} /\ Busy(q)' = {}
  BY DEF NewHoldsNothing
<1> DEFINE Kept == phase[q] = "new" /\ chan'[q] = chan[q] /\ worker'[q] = worker[q]
<1>1. Kept => chan'[q] = {} /\ Busy(q)' = {}
  BY DEF NewHoldsNothing, Busy
<1>2. ASSUME NEW r \in Rows, Enqueue(r) PROVE Kept
  BY <1>2 DEF Enqueue
<1>3. ASSUME NEW p \in Procs,
             Start(p) \/ Reap(p) \/ DispatcherStep(p) \/ Stop(p) \/ Crash(p)
      PROVE  Kept
  BY <1>3 DEF Start, Reap, DispatcherStep, BeginTurn, TakeSystem, TakeBulk, TakeRows, Stop, Crash, Running,
              Stopping, StopPhases, TypeOK
<1>4. ASSUME NEW p \in Procs, NEW w \in Workers, WorkerStep(p, w) PROVE Kept
  BY <1>4 DEF WorkerStep, Pick, PickStopped, RelayAnswers, Record, RecordFails,
              WorkerStops, Running, Stopping, StopPhases, TypeOK
<1>5. ASSUME NEW p \in Procs, StopStep(p) PROVE Kept
  BY <1>5 DEF StopStep, DispatcherStops, ReleaseWaiting, StopProceeds, Stopping,
              StopPhases, TypeOK
<1>6. CASE Tick
  <2>1. phase[q] = "new" /\ chan[q] = {} /\ Busy(q) = {}
    BY <1>6 DEF Tick, NewHoldsNothing
  <2>2. chan'[q] = {} /\ \A w \in Workers : worker'[q][w] = worker[q][w]
    BY <1>6, <2>1 DEF Tick
  <2> QED
    BY <2>1, <2>2 DEF Busy
<1>7. CASE UNCHANGED vars
  BY <1>1, <1>7 DEF vars
<1> QED
  BY <1>1, <1>2, <1>3, <1>4, <1>5, <1>6, <1>7 DEF Next

\* A step of a worker keeps claims exclusive.
LEMMA WorkerExclusive ==
  ASSUME IInv, NEW p \in Procs, NEW w \in Workers, WorkerStep(p, w)
  PROVE  ClaimsAreExclusive'
<1> USE DEF IInv
<1>1. ASSUME NEW j \in chan[p], Pick(p, w, j) PROVE ClaimsAreExclusive'
  BY <1>1, JobPicked
<1>2. ASSUME NEW j \in chan[p], NEW written \in BOOLEAN, PickStopped(p, w, j, written)
      PROVE  ClaimsAreExclusive'
  BY <1>2, ChannelJobReleased DEF PickStopped
<1>3. ASSUME NEW reply \in Replies, RelayAnswers(p, w, reply) PROVE ClaimsAreExclusive'
  <2>1. \A q \in Procs : \A v \in Busy(q)' :
          v \in Busy(q) /\ worker'[q][v].job = worker[q][v].job
    <3> SUFFICES ASSUME NEW q \in Procs, NEW v \in Workers
                 PROVE  /\ worker'[q][v].pc \in {"sending", "answered"}
                             => worker[q][v].pc \in {"sending", "answered"}
                        /\ worker'[q][v].job = worker[q][v].job
      BY DEF Busy
    <3>1. worker[p][w] \in WorkerState
      BY DEF TypeOK
    <3>2. worker[p][w].pc = "sending"
      BY <1>3 DEF RelayAnswers
    <3>3. worker[p][w] \in [pc : {"sending"}, job : Job, reply : {NoReply}]
      BY <3>1, <3>2 DEF WorkerState
    <3>4. worker' = [worker EXCEPT ![p][w] =
                       [worker[p][w] EXCEPT !.pc = "answered", !.reply = reply]]
      BY <1>3 DEF RelayAnswers, TypeOK
    <3> QED
      BY <3>2, <3>3, <3>4 DEF TypeOK
  <2>2. \A q \in Procs : chan'[q] \subseteq chan[q]
    BY <1>3 DEF RelayAnswers
  <2>3. \A q \in Procs : \A i \in Held(q)' : Fenced(q, i) => Fenced(q, i)'
    BY <1>3 DEF RelayAnswers, Fenced
  <2> QED
    BY <2>1, <2>2, <2>3, HandsKept
<1>4. ASSUME NEW retryAfter \in RetryAfters, NEW holdWritten \in BOOLEAN,
             Record(p, w, retryAfter, holdWritten)
      PROVE  ClaimsAreExclusive'
  <2>1. w \in Busy(p)
    BY <1>4 DEF Record, Busy
  <2> QED
    BY <1>4, <2>1, OutcomeRecorded DEF Record
<1>5. ASSUME NEW retryAfter \in RetryAfters, RecordFails(p, w, retryAfter)
      PROVE  ClaimsAreExclusive'
  <2>1. w \in Busy(p)
    BY <1>5 DEF RecordFails, Busy
  <2> QED
    BY <1>5, <2>1, OutcomeRecorded DEF RecordFails
<1>6. CASE WorkerStops(p, w)
  <2>1. \A q \in Procs : \A v \in Busy(q)' :
          v \in Busy(q) /\ worker'[q][v].job = worker[q][v].job
    BY <1>6 DEF WorkerStops, Busy, TypeOK, ExitedWorker, IdleWorker
  <2>2. /\ \A q \in Procs : chan'[q] \subseteq chan[q]
        /\ \A q \in Procs : \A i \in Held(q)' : Fenced(q, i) => Fenced(q, i)'
    BY <1>6 DEF WorkerStops, Fenced
  <2> QED
    BY <2>1, <2>2, HandsKept
<1> QED
  BY <1>1, <1>2, <1>3, <1>4, <1>5, <1>6 DEF WorkerStep

\* ClaimsAreExclusive: whoever holds a row within its lease holds its one
\* current claim, for any number of processes, workers, stalls, crashes and
\* failed writes.  It is inductive with the types and NewHoldsNothing.
THEOREM ClaimsExclusive == Spec => [](NewHoldsNothing /\ ClaimsAreExclusive)
<1>1. Init => NewHoldsNothing /\ ClaimsAreExclusive
  BY DEF Init, NewHoldsNothing, ClaimsAreExclusive, Held, Busy, ExitedWorker, IdleWorker
<1>2. IInv /\ TypeOK' /\ [Next]_vars => NewHoldsNothing' /\ ClaimsAreExclusive'
  <2> SUFFICES ASSUME IInv, [Next]_vars PROVE NewHoldsNothing' /\ ClaimsAreExclusive'
    OBVIOUS
  <2> USE DEF IInv
  <2>1. NewHoldsNothing'
    BY NewStaysEmpty
  <2>2. ASSUME \A q \in Procs : chan'[q] \subseteq chan[q],
               \A q \in Procs : \A v \in Busy(q)' :
                 v \in Busy(q) /\ worker'[q][v] = worker[q][v],
               UNCHANGED row \/ ReclaimExpired
        PROVE  ClaimsAreExclusive'
    <3>1. ASSUME NEW q \in Procs, NEW j \in Held(q)', j.age <= Lease, Fenced(q, j)
          PROVE  Fenced(q, j)'
      <4>1. j \in Job
        BY <2>2, HeldJobs DEF Held
      <4> QED
        BY <2>2, <3>1, <4>1, ReaperSpares DEF Fenced
    <3> QED
      BY <2>2, <3>1, HandsKept
  <2>3. ASSUME NEW r \in Rows, Enqueue(r) PROVE ClaimsAreExclusive'
    <3>1. \A q \in Procs : \A j \in Held(q)' : Fenced(q, j) => Fenced(q, j)'
      <4> SUFFICES ASSUME NEW q \in Procs, NEW j, Fenced(q, j) PROVE Fenced(q, j)'
        OBVIOUS
      <4>1. j.row # r
        BY <2>3 DEF Enqueue, Fenced
      <4> QED
        BY <2>3, <4>1 DEF Enqueue, Fenced, TypeOK
    <3>2. \A q \in Procs : chan'[q] \subseteq chan[q] /\ Busy(q)' = Busy(q)
      BY <2>3 DEF Enqueue, Busy
    <3> QED
      BY <2>3, <3>1, <3>2, HandsKept DEF Enqueue
  <2>4. ASSUME NEW p \in Procs, Start(p) PROVE ClaimsAreExclusive'
    <3>1. Busy(p)' = {} /\ \A q \in Procs \ {p} : worker'[q] = worker[q]
      BY <2>4 DEF Start, Busy, TypeOK, IdleWorker
    <3>2. \A q \in Procs : \A v \in Busy(q)' :
            v \in Busy(q) /\ worker'[q][v] = worker[q][v]
      BY <3>1 DEF Busy
    <3> QED
      BY <2>2, <2>4, <3>2 DEF Start
  <2>5. ASSUME NEW p \in Procs, Reap(p) PROVE ClaimsAreExclusive'
    BY <2>2, <2>5 DEF Reap, Busy
  <2>6. ASSUME NEW p \in Procs, TakeSystem(p) PROVE ClaimsAreExclusive'
    BY <2>6, RowsTaken, QueueAssumption DEF TakeSystem
  <2>7. ASSUME NEW p \in Procs, TakeBulk(p) \/ BeginTurn(p) PROVE ClaimsAreExclusive'
    <3>1. CASE TakeBulk(p)
      BY <3>1, RowsTaken DEF TakeBulk
    <3>2. CASE BeginTurn(p)
      BY <2>2, <3>2 DEF BeginTurn, Busy
    <3> QED
      BY <2>7, <3>1, <3>2
  <2>8. ASSUME NEW p \in Procs, NEW w \in Workers, WorkerStep(p, w)
        PROVE  ClaimsAreExclusive'
    BY <2>8, WorkerExclusive
  <2>9. ASSUME NEW p \in Procs, Stop(p) PROVE ClaimsAreExclusive'
    BY <2>2, <2>9 DEF Stop, Busy
  <2>10. ASSUME NEW p \in Procs, StopStep(p) PROVE ClaimsAreExclusive'
    <3>1. ASSUME NEW j \in chan[p], NEW written \in BOOLEAN, ReleaseWaiting(p, j, written)
          PROVE  ClaimsAreExclusive'
      BY <3>1, ChannelJobReleased DEF ReleaseWaiting
    <3>2. CASE DispatcherStops(p) \/ StopProceeds(p)
      BY <2>2, <3>2 DEF DispatcherStops, StopProceeds, Busy
    <3> QED
      BY <2>10, <3>1, <3>2 DEF StopStep
  <2>11. ASSUME NEW p \in Procs, Crash(p) PROVE ClaimsAreExclusive'
    <3>1. Busy(p)' = {} /\ \A q \in Procs \ {p} : worker'[q] = worker[q]
      BY <2>11 DEF Crash, Busy, TypeOK, ExitedWorker, IdleWorker
    <3>2. \A q \in Procs : \A v \in Busy(q)' :
            v \in Busy(q) /\ worker'[q][v] = worker[q][v]
      BY <3>1 DEF Busy
    <3>3. \A q \in Procs : chan'[q] \subseteq chan[q]
      BY <2>11 DEF Crash, TypeOK
    <3> QED
      BY <2>2, <2>11, <3>2, <3>3 DEF Crash
  <2>12. CASE Tick
    BY <2>1, <2>12, ClaimsAge
  <2>13. CASE UNCHANGED vars
    BY <2>1, <2>2, <2>13 DEF vars, Busy
  <2>14. ClaimsAreExclusive'
    BY <2>3, <2>4, <2>5, <2>6, <2>7, <2>8, <2>9, <2>10, <2>11, <2>12, <2>13
       DEF Next, DispatcherStep
  <2> QED
    BY <2>1, <2>14
<1> QED
  BY <1>1, <1>2, TypeCorrect, PTL DEF Spec, IInv

-----------------------------------------------------------------------------
(* Copies: for a lease that outlasts every send. *)

\* A worker's answer is known, and about to be recorded for row r.
Recording(p, w, r) == /\ worker[p][w].pc = "answered" /\ worker[p][w].reply = "accepted"
                      /\ worker[p][w].job.row = r

\* With such a lease every job in a hand is its row's claim, so the hands of
\* all processes hold different rows.
LEMMA OneHandEach ==
  ASSUME IInv, MaxHold <= Lease
  PROVE  /\ \A p \in Procs : \A j \in Held(p) : Fenced(p, j)
         /\ \A p, q \in Procs : \A v \in Busy(p), w \in Busy(q) :
              worker[p][v].job.row = worker[q][w].job.row => p = q /\ v = w
<1>1. ASSUME NEW p \in Procs, NEW j \in Held(p) PROVE Fenced(p, j)
  <2>1. j.age <= Lease
    BY HeldJobs, QueueAssumption DEF IInv, Job
  <2> QED
    BY <2>1 DEF IInv, ClaimsAreExclusive
<1>2. ASSUME NEW p \in Procs, NEW q \in Procs, NEW v \in Busy(p), NEW w \in Busy(q),
             worker[p][v].job.row = worker[q][w].job.row
      PROVE  p = q /\ v = w
  <2>1. Fenced(p, worker[p][v].job) /\ Fenced(q, worker[q][w].job)
    BY <1>1 DEF Held
  <2>2. p = q
    BY <1>2, <2>1 DEF Fenced
  <2>3. SameClaim(worker[p][v].job, worker[q][w].job)
    BY <1>2, <2>1 DEF Fenced, SameClaim
  <2> QED
    BY <2>2, <2>3 DEF IInv, ClaimsAreExclusive
<1> QED
  BY <1>1, <1>2

\* A step that hands nothing to the relay, learns nothing and loses nothing.
LEMMA CopiesKept ==
  ASSUME DuplicatesExplained, UNCHANGED <<delivered, lapsed>>,
         \A r \in Rows : (row'[r].status = "sent") <=> (row[r].status = "sent"),
         \A p \in Procs, w \in Workers, r \in Rows :
           Recording(p, w, r)' <=> Recording(p, w, r)
  PROVE  DuplicatesExplained'
<1>1. \A r \in Rows : BeingRecorded(r)' <=> BeingRecorded(r)
  BY DEF BeingRecorded, Recording
<1> QED
  BY <1>1 DEF DuplicatesExplained

\* Giving a job back ends no row.
LEMMA ReleaseEndsNothing ==
  ASSUME TypeOK, NEW p \in Procs, NEW j \in Job, NEW written \in BOOLEAN,
         Release(p, j, written)
  PROVE  \A r \in Rows : (row'[r].status = "sent") <=> (row[r].status = "sent")
<1>1. j.row \in Rows /\ row[j.row] \in RowState
  BY DEF Job, TypeOK
<1>2. Unclaimed(row[j.row]).status = "pending"
  BY <1>1, UnclaimedType
<1>3. CASE row' = [row EXCEPT ![j.row] = Unclaimed(row[j.row])] /\ Fenced(p, j)
  BY <1>1, <1>2, <1>3 DEF Fenced, TypeOK
<1>4. CASE UNCHANGED row
  BY <1>4
<1> QED
  BY <1>3, <1>4 DEF Release, FencedWrite

\* Nor does the reaper.
LEMMA ReaperEndsNothing ==
  ASSUME TypeOK, ReclaimExpired
  PROVE  \A r \in Rows : (row'[r].status = "sent") <=> (row[r].status = "sent")
<1> SUFFICES ASSUME NEW r \in Rows
             PROVE  (row'[r].status = "sent") <=> (row[r].status = "sent")
  OBVIOUS
<1>1. row[r] \in RowState /\ row'[r] = Reclaimed(row[r])
  BY DEF TypeOK, ReclaimExpired
<1> QED
  BY <1>1 DEF Reclaimed, Unclaimed, RowState

\* Nor does a take.
LEMMA TakeEndsNothing ==
  ASSUME TypeOK, NEW p \in Procs, NEW lane \in SUBSET Rows, NEW n,
         NEW S \in Takes(lane, n), NEW answered \in BOOLEAN, TakeRows(p, S, answered)
  PROVE  \A r \in Rows : (row'[r].status = "sent") <=> (row[r].status = "sent")
<1> SUFFICES ASSUME NEW r \in Rows
             PROVE  (row'[r].status = "sent") <=> (row[r].status = "sent")
  OBVIOUS
<1>1. row[r] \in RowState
  BY DEF TypeOK
<1>2. row'[r] = IF r \in S
                THEN [row[r] EXCEPT !.status = "processing", !.by = p, !.age = 0]
                ELSE row[r]
  BY DEF TakeRows, Claimed
<1>3. r \in S => row[r].status = "pending"
  BY TakesAreDue DEF Due
<1> QED
  BY <1>1, <1>2, <1>3 DEF RowState

\* The relay takes the mail of a row no one else has in hand.
LEMMA AnswerExplained ==
  ASSUME IInv, MaxHold <= Lease, DuplicatesExplained, NEW p \in Procs, NEW w \in Workers,
         NEW reply \in Replies, RelayAnswers(p, w, reply)
  PROVE  DuplicatesExplained'
<1> DEFINE s == worker[p][w].job.row
<1> USE DEF IInv
<1>1. w \in Busy(p) /\ worker[p][w].pc = "sending"
  BY DEF RelayAnswers, Busy
<1>2. s \in Rows
  BY <1>1, HeldJobs DEF Job
<1>3. row[s].status = "processing"
  BY <1>1, OneHandEach DEF Held, Fenced
<1>4. ~BeingRecorded(s)
  BY <1>1, OneHandEach DEF BeingRecorded, Busy
<1>5. delivered[s] = lapsed[s] /\ delivered[s] \in Nat /\ lapsed[s] \in Nat
  BY <1>2, <1>3, <1>4 DEF DuplicatesExplained, TypeOK
<1>6. worker[p][w] \in [pc : {"sending"}, job : Job, reply : {NoReply}]
  BY <1>1 DEF WorkerState, TypeOK
<1>7. /\ worker'[p][w].pc = "answered" /\ worker'[p][w].reply = reply
      /\ worker'[p][w].job.row = s
  <2>1. worker'[p][w] = [worker[p][w] EXCEPT !.pc = "answered", !.reply = reply]
    BY DEF RelayAnswers, TypeOK
  <2> QED
    BY <1>6, <2>1
<1>8. \A q \in Procs, v \in Workers : ~(q = p /\ v = w) => worker'[q][v] = worker[q][v]
  BY DEF RelayAnswers, TypeOK
<1>9. ASSUME NEW r \in Rows, r = s
      PROVE  BeingRecorded(r)' <=> reply = "accepted"
  BY <1>4, <1>7, <1>8, <1>9 DEF BeingRecorded
<1>10. ASSUME NEW r \in Rows, r # s
       PROVE  /\ BeingRecorded(r)' <=> BeingRecorded(r)
              /\ delivered'[r] = delivered[r] /\ lapsed'[r] = lapsed[r]
  <2>1. BeingRecorded(r)' <=> BeingRecorded(r)
    BY <1>1, <1>7, <1>8, <1>10 DEF BeingRecorded
  <2>2. delivered'[r] = delivered[r] /\ lapsed'[r] = lapsed[r]
    BY <1>10 DEF RelayAnswers, TypeOK
  <2> QED
    BY <2>1, <2>2
<1> HIDE DEF s
<1>11. /\ delivered'[s] = IF reply \in {"accepted", "replyLost"}
                          THEN delivered[s] + 1 ELSE delivered[s]
       /\ lapsed'[s] = IF reply = "replyLost" THEN lapsed[s] + 1 ELSE lapsed[s]
  BY <1>2 DEF RelayAnswers, TypeOK, s
<1>12. row' = row
  BY DEF RelayAnswers
<1>13. ASSUME NEW r \in Rows
       PROVE  delivered'[r] = lapsed'[r] + (IF BeingRecorded(r)' \/ row'[r].status = "sent"
                                            THEN 1 ELSE 0)
  <2>1. CASE r = s
    <3>1. BeingRecorded(r)' <=> reply = "accepted"
      BY <1>9, <2>1
    <3> QED
      BY <1>3, <1>5, <1>11, <1>12, <2>1, <3>1
  <2>2. CASE r # s
    <3>1. /\ BeingRecorded(r)' <=> BeingRecorded(r)
          /\ delivered'[r] = delivered[r] /\ lapsed'[r] = lapsed[r]
      BY <1>10, <2>2
    <3>2. delivered[r] = lapsed[r] + (IF BeingRecorded(r) \/ row[r].status = "sent" THEN 1 ELSE 0)
      BY DEF DuplicatesExplained
    <3> QED
      BY <1>12, <3>1, <3>2
  <2> QED
    BY <2>1, <2>2
<1> QED
  BY <1>13 DEF DuplicatesExplained

\* An outcome is written on the row that has it, or is counted as lapsed.
LEMMA OutcomeExplained ==
  ASSUME IInv, MaxHold <= Lease, DuplicatesExplained, NEW p \in Procs, NEW w \in Workers,
         \/ \E retryAfter \in RetryAfters, holdWritten \in BOOLEAN :
              Record(p, w, retryAfter, holdWritten)
         \/ \E retryAfter \in RetryAfters : RecordFails(p, w, retryAfter)
  PROVE  DuplicatesExplained'
<1> DEFINE j == worker[p][w].job
           s == j.row
           reply == worker[p][w].reply
<1> USE DEF IInv
<1>1. w \in Busy(p) /\ worker[p][w].pc = "answered"
  BY DEF Record, RecordFails, Busy
<1>2. /\ j \in Job /\ s \in Rows /\ row[s] \in RowState
      /\ worker[p][w] \in [pc : {"answered"}, job : Job, reply : Replies]
  <2>1. j \in Job /\ s \in Rows
    BY <1>1, HeldJobs DEF Job
  <2>2. row[s] \in RowState /\ worker[p][w] \in WorkerState
    BY <2>1 DEF TypeOK
  <2> QED
    BY <1>1, <2>1, <2>2 DEF WorkerState
<1>3. Fenced(p, j) /\ row[s].status = "processing"
  BY <1>1, OneHandEach DEF Held, Fenced
<1>4. worker' = [worker EXCEPT ![p][w] = IdleWorker]
  BY DEF Record, RecordFails
<1>5. \A q \in Procs, v \in Workers :
        worker'[q][v] = IF q = p /\ v = w THEN IdleWorker ELSE worker[q][v]
  BY <1>4 DEF TypeOK
<1>6. ASSUME NEW r \in Rows, r = s
      PROVE  ~BeingRecorded(r)'
  <2> SUFFICES ASSUME NEW q \in Procs, NEW v \in Workers, Recording(q, v, r)'
               PROVE  FALSE
    BY DEF BeingRecorded, Recording
  <2>1. ~(q = p /\ v = w) /\ v \in Busy(q) /\ worker[q][v].job.row = r
    BY <1>5 DEF Recording, IdleWorker, Busy
  <2> QED
    BY <1>1, <1>6, <2>1, OneHandEach
<1>7. BeingRecorded(s) <=> reply = "accepted"
  <2>1. ASSUME NEW q \in Procs, NEW v \in Workers, Recording(q, v, s)
        PROVE  q = p /\ v = w
    <3>1. v \in Busy(q) /\ worker[q][v].job.row = s
      BY <2>1 DEF Recording, Busy
    <3> QED
      BY <1>1, <3>1, OneHandEach
  <2> QED
    BY <1>1, <2>1 DEF BeingRecorded, Recording, Busy
<1>8. ASSUME NEW r \in Rows, r # s PROVE BeingRecorded(r)' <=> BeingRecorded(r)
  BY <1>5, <1>8 DEF BeingRecorded, IdleWorker
<1>9. /\ delivered[s] \in Nat /\ lapsed[s] \in Nat
      /\ delivered[s] = lapsed[s] + (IF reply = "accepted" THEN 1 ELSE 0)
  BY <1>2, <1>3, <1>7 DEF DuplicatesExplained, TypeOK
<1> SUFFICES ASSUME NEW r \in Rows
             PROVE  delivered'[r] = lapsed'[r] + (IF BeingRecorded(r)' \/ row'[r].status = "sent"
                                                  THEN 1 ELSE 0)
  BY DEF DuplicatesExplained
<1>10. ASSUME NEW retryAfter \in RetryAfters, NEW holdWritten \in BOOLEAN,
             Record(p, w, retryAfter, holdWritten)
       PROVE  delivered'[r] = lapsed'[r] + (IF BeingRecorded(r)' \/ row'[r].status = "sent"
                                            THEN 1 ELSE 0)
  <2> DEFINE rec == Outcome(j, reply, retryAfter)
  <2>1. rec.status = "sent" <=> reply = "accepted"
    BY <1>2, OutcomeType
  <2>2. row' = [row EXCEPT ![s] = rec] /\ delivered' = delivered /\ lapsed' = lapsed
    BY <1>3, <1>10 DEF Record, FencedWrite
  <2>3. row'[s] = rec /\ (r # s => row'[r] = row[r])
    BY <1>2, <2>2 DEF TypeOK
  <2> HIDE DEF rec
  <2>4. CASE r = s
    BY <1>6, <1>9, <2>1, <2>2, <2>3, <2>4
  <2>5. CASE r # s
    <3>1. delivered[r] = lapsed[r] + (IF BeingRecorded(r) \/ row[r].status = "sent" THEN 1 ELSE 0)
      BY DEF DuplicatesExplained
    <3> QED
      BY <1>8, <2>2, <2>3, <2>5, <3>1
  <2> QED
    BY <2>4, <2>5
<1>11. ASSUME NEW retryAfter \in RetryAfters, RecordFails(p, w, retryAfter)
       PROVE  delivered'[r] = lapsed'[r] + (IF BeingRecorded(r)' \/ row'[r].status = "sent"
                                            THEN 1 ELSE 0)
  <2>1. /\ row' = row /\ delivered' = delivered
        /\ lapsed'[r] = IF r = s /\ reply = "accepted" THEN lapsed[r] + 1 ELSE lapsed[r]
    BY <1>2, <1>11 DEF RecordFails, TypeOK
  <2>2. CASE r = s
    BY <1>3, <1>6, <1>9, <2>1, <2>2
  <2>3. CASE r # s
    <3>1. delivered[r] = lapsed[r] + (IF BeingRecorded(r) \/ row[r].status = "sent" THEN 1 ELSE 0)
      BY DEF DuplicatesExplained
    <3> QED
      BY <1>8, <2>1, <2>3, <3>1
  <2> QED
    BY <2>2, <2>3
<1> QED
  BY <1>10, <1>11

\* What a process that dies was about to record is counted as lapsed.
LEMMA CrashExplained ==
  ASSUME IInv, MaxHold <= Lease, DuplicatesExplained, NEW p \in Procs, Crash(p)
  PROVE  DuplicatesExplained'
<1> USE DEF IInv
<1> SUFFICES ASSUME NEW r \in Rows
             PROVE  delivered'[r] = lapsed'[r] + (IF BeingRecorded(r)' \/ row'[r].status = "sent"
                                                  THEN 1 ELSE 0)
  BY DEF DuplicatesExplained
<1>1. /\ row' = row /\ delivered' = delivered
      /\ lapsed'[r] = IF \E w \in Workers : Recording(p, w, r) THEN lapsed[r] + 1 ELSE lapsed[r]
  BY DEF Crash, Recording
<1>2. \A w \in Workers : ~Recording(p, w, r)'
  BY DEF Crash, Recording, TypeOK, ExitedWorker, IdleWorker
<1>3. \A q \in Procs \ {p}, w \in Workers : Recording(q, w, r)' <=> Recording(q, w, r)
  BY DEF Crash, Recording, TypeOK
<1>4. BeingRecorded(r) <=> \E q \in Procs, w \in Workers : Recording(q, w, r)
  BY DEF BeingRecorded, Recording
<1>5. BeingRecorded(r)' <=> \E q \in Procs, w \in Workers : Recording(q, w, r)'
  BY DEF BeingRecorded, Recording
<1>6. CASE \E w \in Workers : Recording(p, w, r)
  <2>1. PICK w \in Workers : Recording(p, w, r)
    BY <1>6
  <2>2. w \in Busy(p)
    BY <2>1 DEF Recording, Busy
  <2>3. row[r].status = "processing"
    BY <2>1, <2>2, OneHandEach DEF Recording, Held, Fenced
  <2>4. \A q \in Procs \ {p}, v \in Workers : ~Recording(q, v, r)
    BY <2>1, <2>2, OneHandEach DEF Recording, Busy
  <2>5. BeingRecorded(r) /\ ~BeingRecorded(r)'
    BY <1>2, <1>3, <1>4, <1>5, <2>1, <2>4
  <2>6. delivered[r] = lapsed[r] + 1 /\ delivered[r] \in Nat /\ lapsed[r] \in Nat
    BY <2>5 DEF DuplicatesExplained, TypeOK
  <2> QED
    BY <1>1, <1>6, <2>3, <2>5, <2>6
<1>7. CASE ~\E w \in Workers : Recording(p, w, r)
  <2>1. BeingRecorded(r)' <=> BeingRecorded(r)
    BY <1>2, <1>3, <1>4, <1>5, <1>7
  <2> QED
    BY <1>1, <1>7, <2>1 DEF DuplicatesExplained
<1> QED
  BY <1>6, <1>7

\* DuplicatesExplained: a lease that outlasts every send leaves a row with one
\* copy more than the queue could not learn of, at most, whatever the
\* processes, the stops, the crashes and the database do.
THEOREM CopiesExplained ==
  ASSUME MaxHold <= Lease
  PROVE  Spec => []DuplicatesExplained
<1>1. Init => DuplicatesExplained
  <2> SUFFICES ASSUME Init PROVE DuplicatesExplained
    OBVIOUS
  <2>1. \A r \in Rows : row[r].status # "sent" /\ ~BeingRecorded(r)
    BY DEF Init, BeingRecorded, ExitedWorker, IdleWorker
  <2> QED
    BY <2>1 DEF Init, DuplicatesExplained
<1>2. IInv /\ DuplicatesExplained /\ [Next]_vars => DuplicatesExplained'
  <2> SUFFICES ASSUME IInv, DuplicatesExplained, [Next]_vars PROVE DuplicatesExplained'
    OBVIOUS
  <2> USE DEF IInv
  <2> DEFINE SameRecording == \A q \in Procs, v \in Workers, r \in Rows :
                                Recording(q, v, r)' <=> Recording(q, v, r)
             SameSent == \A r \in Rows : (row'[r].status = "sent") <=> (row[r].status = "sent")
  <2>1. ASSUME NEW r \in Rows, Enqueue(r) PROVE DuplicatesExplained'
    <3>1. row[r] \in RowState /\ row[r].status = "absent"
          /\ row' = [row EXCEPT ![r].status = "pending"]
      BY <2>1 DEF Enqueue, TypeOK
    <3>2. SameSent
      BY <3>1 DEF TypeOK, RowState
    <3> QED
      BY <2>1, <3>2, CopiesKept DEF Enqueue, Recording
  <2>2. ASSUME NEW p \in Procs, Start(p) PROVE DuplicatesExplained'
    <3>1. SameSent
      BY <2>2, ReaperEndsNothing DEF Start
    <3>2. SameRecording
      BY <2>2 DEF Start, Recording, TypeOK, IdleWorker, NewHoldsNothing, Busy
    <3> QED
      BY <2>2, <3>1, <3>2, CopiesKept DEF Start
  <2>3. ASSUME NEW p \in Procs, Reap(p) PROVE DuplicatesExplained'
    BY <2>3, ReaperEndsNothing, CopiesKept DEF Reap, Recording
  <2>4. ASSUME NEW p \in Procs, TakeSystem(p) PROVE DuplicatesExplained'
    BY <2>4, QueueAssumption, TakeEndsNothing, CopiesKept DEF TakeSystem, Recording
  <2>5. ASSUME NEW p \in Procs, TakeBulk(p) \/ BeginTurn(p) PROVE DuplicatesExplained'
    BY <2>5, TakeEndsNothing, CopiesKept DEF TakeBulk, BeginTurn, Recording
  <2>6. ASSUME NEW p \in Procs, NEW w \in Workers, WorkerStep(p, w)
        PROVE  DuplicatesExplained'
    <3>1. ASSUME NEW j \in chan[p], Pick(p, w, j) PROVE DuplicatesExplained'
      <4>1. SameRecording
        BY <3>1 DEF Pick, Recording, TypeOK
      <4> QED
        BY <3>1, <4>1, CopiesKept DEF Pick
    <3>2. ASSUME NEW j \in chan[p], NEW written \in BOOLEAN, PickStopped(p, w, j, written)
          PROVE  DuplicatesExplained'
      BY <3>2, HeldJobs, ReleaseEndsNothing, CopiesKept DEF PickStopped, Recording
    <3>3. CASE WorkerStops(p, w)
      <4>1. SameRecording
        BY <3>3 DEF WorkerStops, Recording, TypeOK, ExitedWorker, IdleWorker
      <4> QED
        BY <3>3, <4>1, CopiesKept DEF WorkerStops
    <3> QED
      BY <2>6, <3>1, <3>2, <3>3, AnswerExplained, OutcomeExplained DEF WorkerStep
  <2>7. ASSUME NEW p \in Procs, Stop(p) PROVE DuplicatesExplained'
    BY <2>7, CopiesKept DEF Stop, Recording
  <2>8. ASSUME NEW p \in Procs, StopStep(p) PROVE DuplicatesExplained'
    <3>1. ASSUME NEW j \in chan[p], NEW written \in BOOLEAN, ReleaseWaiting(p, j, written)
          PROVE  DuplicatesExplained'
      BY <3>1, HeldJobs, ReleaseEndsNothing, CopiesKept DEF ReleaseWaiting, Recording
    <3>2. CASE DispatcherStops(p) \/ StopProceeds(p)
      BY <3>2, CopiesKept DEF DispatcherStops, StopProceeds, Recording
    <3> QED
      BY <2>8, <3>1, <3>2 DEF StopStep
  <2>9. ASSUME NEW p \in Procs, Crash(p) PROVE DuplicatesExplained'
    BY <2>9, CrashExplained
  <2>10. CASE Tick
    <3>1. ASSUME NEW q \in Procs, NEW v \in Workers, NEW r \in Rows
          PROVE  Recording(q, v, r)' <=> Recording(q, v, r)
      <4>1. worker[q][v] \in WorkerState
        BY DEF TypeOK
      <4>2. v \in Busy(q) => worker[q][v].job \in Job
        BY HeldJobs
      <4>3. worker'[q][v] = IF v \in Busy(q)
                            THEN [worker[q][v] EXCEPT !.job = Older(worker[q][v].job)]
                            ELSE worker[q][v]
        BY <2>10 DEF Tick
      <4> QED
        BY <4>1, <4>2, <4>3 DEF Recording, Busy, Older, Job, WorkerState
    <3>2. ASSUME NEW r \in Rows PROVE row'[r].status = row[r].status
      <4>1. row[r] \in RowState
        BY DEF TypeOK
      <4> QED
        BY <2>10, <4>1 DEF Tick, RowState
    <3> QED
      BY <2>10, <3>1, <3>2, CopiesKept DEF Tick
  <2>11. CASE UNCHANGED vars
    BY <2>11, CopiesKept DEF vars, Recording
  <2> QED
    BY <2>1, <2>2, <2>3, <2>4, <2>5, <2>6, <2>7, <2>8, <2>9, <2>10, <2>11
       DEF Next, DispatcherStep
<1> QED
  BY <1>1, <1>2, TypeCorrect, ClaimsExclusive, PTL DEF Spec, IInv

-----------------------------------------------------------------------------
(* Hands: what a step may do to the jobs in them, and to the rows' claims. *)

\* A row with no claimed_at has no claimant: a take writes both.
ClaimsAreStamped == \A r \in Rows : row[r].age = NullAge => row[r].by \notin Procs

\* A step leaves a row as it is, or with no claim of a process.
Loosened(r) == \/ row'[r] = row[r]
               \/ row'[r].status # "processing"
               \/ row'[r].by \notin Procs

SameHands == \A q \in Procs : Held(q)' = Held(q)

\* No hand moves, and no row is claimed.
NoHandMoves == SameHands /\ \A r \in Rows : Loosened(r)

\* A process lets go of one job; the row keeps that claim only for a fault.
LetsGo(p, j) ==
  /\ \A q \in Procs : Held(q)' \subseteq Held(q)
  /\ \A q \in Procs : \A i \in Held(q) : i \in Held(q)' \/ (q = p /\ i = j)
  /\ \A r \in Rows : Loosened(r)
  /\ Fenced(p, j)' => faults' > 0

\* A process takes rows that wait, or the answer of its take is lost.
ClaimsRows(p, S) ==
  /\ \A r \in S : row[r].status = "pending"
  /\ row' = Claimed(p, S)
  /\ \/ /\ Held(p)' = Held(p) \union JobsOf(S)
        /\ \A q \in Procs \ {p} : Held(q)' = Held(q)
     \/ SameHands /\ faults' > 0

\* A process dies, and its hands with it.
Dies(p) ==
  /\ phase'[p] = "gone" /\ UNCHANGED row /\ Held(p)' = {}
  /\ \A q \in Procs \ {p} : Held(q)' = Held(q)

\* The one thing a step does to hands and claims.
HandsStep ==
  \/ NoHandMoves
  \/ \E p \in Procs : \E j \in Held(p) : LetsGo(p, j)
  \/ \E p \in Procs, S \in SUBSET Rows : ClaimsRows(p, S)
  \/ \E p \in Procs : Dies(p)
  \/ Tick

\* A write of a row that is over or waits ends the claim it was written under.
LEMMA WriteLoosens ==
  ASSUME TypeOK, NEW p \in Procs, NEW j \in Job, NEW rec, Finished(rec),
         FencedWrite(p, j, rec)
  PROVE  (\A r \in Rows : Loosened(r)) /\ ~Fenced(p, j)'
<1>1. rec.status # "processing" /\ j.row \in Rows
  BY DEF Finished, Job
<1>2. CASE Fenced(p, j)
  <2>1. row' = [row EXCEPT ![j.row] = rec]
    BY <1>2 DEF FencedWrite
  <2>2. row'[j.row] = rec /\ \A r \in Rows : r # j.row => row'[r] = row[r]
    BY <1>1, <2>1 DEF TypeOK
  <2> QED
    BY <1>1, <2>2 DEF Loosened, Fenced
<1>3. CASE ~Fenced(p, j)
  <2>1. row' = row
    BY <1>3 DEF FencedWrite
  <2> QED
    BY <1>3, <2>1 DEF Loosened, Fenced
<1> QED
  BY <1>2, <1>3

\* The reaper claims no row for a process.
LEMMA ReaperLoosens ==
  ASSUME TypeOK, ClaimsAreStamped, ReclaimExpired, NEW r \in Rows
  PROVE  Loosened(r)
<1>1. row[r] \in RowState /\ row'[r] = Reclaimed(row[r])
  BY DEF TypeOK, ReclaimExpired
<1>2. CASE row[r].status = "processing" /\ row[r].age = NullAge
  <2>1. row'[r] = [row[r] EXCEPT !.age = 0]
    BY <1>1, <1>2 DEF Reclaimed
  <2>2. row'[r].by = row[r].by
    BY <1>1, <2>1 DEF RowState
  <2> QED
    BY <1>2, <2>2 DEF ClaimsAreStamped, Loosened
<1>3. CASE ~(row[r].status = "processing" /\ row[r].age = NullAge)
  BY <1>1, <1>3, UnclaimedType DEF Reclaimed, Loosened
<1> QED
  BY <1>2, <1>3

\* Giving a job back from the channel lets go of that job.
LEMMA ReleaseLetsGo ==
  ASSUME TypeOK, NEW p \in Procs, NEW j \in chan[p], NEW written \in BOOLEAN,
         Release(p, j, written), chan' = [chan EXCEPT ![p] = @ \ {j}], UNCHANGED worker
  PROVE  LetsGo(p, j)
<1>1. j \in Job /\ row[j.row] \in RowState
  BY HeldJobs DEF Job, TypeOK
<1>2. Finished(Unclaimed(row[j.row]))
  BY <1>1, UnclaimedType DEF Finished
<1>3. \A q \in Procs : Busy(q)' = Busy(q) /\ chan'[q] = IF q = p THEN chan[q] \ {j} ELSE chan[q]
  BY DEF Busy, TypeOK
<1>4. /\ \A q \in Procs : Held(q)' \subseteq Held(q)
      /\ \A q \in Procs : \A i \in Held(q) : i \in Held(q)' \/ (q = p /\ i = j)
  <2> SUFFICES ASSUME NEW q \in Procs
               PROVE  /\ \A i \in Held(q)' : i \in Held(q)
                      /\ \A i \in Held(q) : i \in Held(q)' \/ (q = p /\ i = j)
    OBVIOUS
  <2>1. /\ Held(q) = chan[q] \union {worker[q][w].job : w \in Busy(q)}
        /\ Held(q)' = chan'[q] \union {worker[q][w].job : w \in Busy(q)}
    BY <1>3 DEF Held
  <2>2. chan'[q] \subseteq chan[q] /\ \A i \in chan[q] : i \in chan'[q] \/ (q = p /\ i = j)
    BY <1>3
  <2> QED
    BY <2>1, <2>2
<1>5. CASE written
  BY <1>1, <1>2, <1>4, <1>5, WriteLoosens DEF Release, LetsGo
<1>6. CASE ~written
  <2>1. row' = row /\ faults' > 0
    BY <1>6 DEF Release, Fault, TypeOK
  <2> QED
    BY <1>4, <2>1 DEF LetsGo, Loosened
<1> QED
  BY <1>5, <1>6

\* So does a worker that recorded its outcome, or could not.
LEMMA OutcomeLetsGo ==
  ASSUME TypeOK, NEW p \in Procs, NEW w \in Busy(p), NEW j, j = worker[p][w].job,
         \/ \E rec : Finished(rec) /\ FencedWrite(p, j, rec)
         \/ UNCHANGED row /\ faults' > 0,
         worker' = [worker EXCEPT ![p][w] = IdleWorker], UNCHANGED chan
  PROVE  j \in Held(p) /\ LetsGo(p, j)
<1>1. j \in Job /\ j \in Held(p)
  BY HeldJobs DEF Held
<1>2. ASSUME NEW q \in Procs, NEW v \in Workers
      PROVE  /\ v \in Busy(q)' <=> v \in Busy(q) /\ ~(q = p /\ v = w)
             /\ v \in Busy(q)' => worker'[q][v].job = worker[q][v].job
  BY DEF Busy, TypeOK, IdleWorker
<1>3. /\ \A q \in Procs : Held(q)' \subseteq Held(q)
      /\ \A q \in Procs : \A i \in Held(q) : i \in Held(q)' \/ (q = p /\ i = j)
  <2>1. \A q \in Procs : Busy(q) \subseteq Workers /\ Busy(q)' \subseteq Workers
    BY DEF Busy
  <2>2. \A q \in Procs : \A i \in Held(q)' : i \in Held(q)
    BY <1>2, <2>1 DEF Held
  <2>3. \A q \in Procs : \A i \in Held(q) : i \in Held(q)' \/ (q = p /\ i = j)
    BY <1>2, <2>1 DEF Held
  <2> QED
    BY <2>2, <2>3
<1>4. ASSUME NEW rec, Finished(rec), FencedWrite(p, j, rec)
      PROVE  LetsGo(p, j)
  <2>1. (\A r \in Rows : Loosened(r)) /\ ~Fenced(p, j)'
    BY <1>1, <1>4, WriteLoosens
  <2> QED
    BY <1>3, <2>1 DEF LetsGo
<1>5. CASE UNCHANGED row /\ faults' > 0
  <2>1. (\A r \in Rows : Loosened(r)) /\ faults' > 0
    BY <1>5 DEF Loosened
  <2>2. Fenced(p, j)' => faults' > 0
    BY <2>1
  <2> QED
    BY <1>1, <1>3, <2>1, <2>2 DEF LetsGo
<1> QED
  BY <1>1, <1>4, <1>5

\* A take claims rows that wait for jobs of its own.
LEMMA TakeIsTake ==
  ASSUME TypeOK, NEW p \in Procs, NEW lane \in SUBSET Rows, NEW n,
         NEW S \in Takes(lane, n), NEW answered \in BOOLEAN,
         TakeRows(p, S, answered), UNCHANGED worker
  PROVE  S \in SUBSET Rows /\ ClaimsRows(p, S)
<1>1. S \in SUBSET Rows /\ \A r \in S : row[r].status = "pending"
  BY TakesAreDue DEF Due
<1>2. row' = Claimed(p, S) /\ \A q \in Procs : Busy(q)' = Busy(q)
  BY DEF TakeRows, Busy
<1>3. CASE answered
  <2>1. \A q \in Procs : chan'[q] = IF q = p THEN chan[q] \union JobsOf(S) ELSE chan[q]
    BY <1>3 DEF TakeRows, TypeOK
  <2>2. Held(p)' = Held(p) \union JobsOf(S) /\ \A q \in Procs \ {p} : Held(q)' = Held(q)
    BY <1>2, <2>1 DEF Held
  <2> QED
    BY <1>1, <1>2, <2>2 DEF ClaimsRows
<1>4. CASE ~answered
  <2>1. SameHands /\ faults' > 0
    BY <1>2, <1>4 DEF TakeRows, Fault, Held, SameHands, TypeOK
  <2> QED
    BY <1>1, <1>2, <2>1 DEF ClaimsRows
<1> QED
  BY <1>3, <1>4

\* A worker's step lets go of its job at most.
LEMMA WorkerHands ==
  ASSUME TypeOK, NEW p \in Procs, NEW w \in Workers, WorkerStep(p, w)
  PROVE  NoHandMoves \/ \E j \in Held(p) : LetsGo(p, j)
<1>0. chan[p] \subseteq Held(p)
  BY DEF Held
<1>1. ASSUME NEW j \in chan[p], Pick(p, w, j) PROVE NoHandMoves
  <2>1. w \notin Busy(p) /\ row' = row
    BY <1>1 DEF Pick, Busy
  <2>2. /\ \A q \in Procs : q # p => chan'[q] = chan[q]
        /\ chan'[p] = chan[p] \ {j}
    BY <1>1 DEF Pick, TypeOK
  <2>3. ASSUME NEW q \in Procs, NEW v \in Workers
        PROVE  IF q = p /\ v = w THEN v \in Busy(q)' /\ worker'[q][v].job = j
               ELSE (v \in Busy(q)' <=> v \in Busy(q)) /\ worker'[q][v] = worker[q][v]
    BY <1>1 DEF Pick, Busy, TypeOK
  <2>4. \A q \in Procs : Busy(q) \subseteq Workers /\ Busy(q)' \subseteq Workers
    BY DEF Busy
  <2>5. ASSUME NEW q \in Procs PROVE Held(q)' = Held(q)
    <3>1. ASSUME NEW i \in Held(q)' PROVE i \in Held(q)
      BY <2>2, <2>3, <2>4 DEF Held
    <3>2. ASSUME NEW i \in Held(q) PROVE i \in Held(q)'
      BY <2>1, <2>2, <2>3, <2>4 DEF Held
    <3> QED
      BY <3>1, <3>2
  <2> QED
    BY <2>1, <2>5 DEF NoHandMoves, SameHands, Loosened
<1>2. ASSUME NEW j \in chan[p], NEW written \in BOOLEAN, PickStopped(p, w, j, written)
      PROVE  \E i \in Held(p) : LetsGo(p, i)
  BY <1>0, <1>2, ReleaseLetsGo DEF PickStopped
<1>3. ASSUME NEW reply \in Replies, RelayAnswers(p, w, reply) PROVE NoHandMoves
  <2>1. worker[p][w] \in [pc : {"sending"}, job : Job, reply : {NoReply}]
    <3>1. worker[p][w] \in WorkerState /\ worker[p][w].pc = "sending"
      BY <1>3 DEF RelayAnswers, TypeOK
    <3> QED
      BY <3>1 DEF WorkerState
  <2>2. worker' = [worker EXCEPT ![p][w] =
                     [worker[p][w] EXCEPT !.pc = "answered", !.reply = reply]]
    BY <1>3 DEF RelayAnswers, TypeOK
  <2>3. ASSUME NEW q \in Procs, NEW v \in Workers
        PROVE  (v \in Busy(q)' <=> v \in Busy(q)) /\ worker'[q][v].job = worker[q][v].job
    BY <2>1, <2>2 DEF Busy, TypeOK
  <2>4. \A q \in Procs : Busy(q) \subseteq Workers /\ Busy(q)' \subseteq Workers
    BY DEF Busy
  <2>5. chan' = chan /\ row' = row
    BY <1>3 DEF RelayAnswers
  <2>6. SameHands
    BY <2>3, <2>4, <2>5 DEF SameHands, Held
  <2> QED
    BY <2>5, <2>6 DEF NoHandMoves, Loosened
<1>4. ASSUME NEW retryAfter \in RetryAfters, NEW holdWritten \in BOOLEAN,
             Record(p, w, retryAfter, holdWritten)
      PROVE  \E i \in Held(p) : LetsGo(p, i)
  <2>0. PICK j, reply : j = worker[p][w].job /\ reply = worker[p][w].reply
    OBVIOUS
  <2>1. w \in Busy(p) /\ worker[p][w].pc = "answered"
    BY <1>4 DEF Record, Busy
  <2>2. j \in Job
    BY <2>0, <2>1, HeldJobs
  <2>3. reply \in Replies
    <3>1. worker[p][w] \in WorkerState
      BY DEF TypeOK
    <3> QED
      BY <2>0, <2>1, <3>1 DEF WorkerState
  <2>4. row[j.row] \in RowState
    BY <2>2 DEF Job, TypeOK
  <2>5. Finished(Outcome(j, reply, retryAfter))
    BY <2>2, <2>3, <2>4, OutcomeType
  <2>6. /\ FencedWrite(p, j, Outcome(j, reply, retryAfter))
        /\ worker' = [worker EXCEPT ![p][w] = IdleWorker] /\ chan' = chan
    BY <1>4, <2>0 DEF Record
  <2>7. j \in Held(p) /\ LetsGo(p, j)
    BY <2>0, <2>1, <2>5, <2>6, OutcomeLetsGo
  <2> QED
    BY <2>7
<1>5. ASSUME NEW retryAfter \in RetryAfters, RecordFails(p, w, retryAfter)
      PROVE  \E i \in Held(p) : LetsGo(p, i)
  <2>1. w \in Busy(p)
    BY <1>5 DEF RecordFails, Busy
  <2>2. faults' > 0
    BY <1>5 DEF RecordFails, Fault, TypeOK
  <2>3. PICK j : j = worker[p][w].job
    OBVIOUS
  <2>4. UNCHANGED <<row, chan>> /\ worker' = [worker EXCEPT ![p][w] = IdleWorker]
    BY <1>5 DEF RecordFails
  <2>5. j \in Held(p) /\ LetsGo(p, j)
    BY <2>1, <2>2, <2>3, <2>4, OutcomeLetsGo
  <2> QED
    BY <2>5
<1>6. CASE WorkerStops(p, w)
  <2>1. ASSUME NEW q \in Procs
        PROVE  Busy(q)' = Busy(q) /\ \A v \in Busy(q) : worker'[q][v] = worker[q][v]
    BY <1>6 DEF WorkerStops, Busy, TypeOK, ExitedWorker, IdleWorker
  <2>2. chan' = chan /\ row' = row
    BY <1>6 DEF WorkerStops
  <2> QED
    BY <2>1, <2>2 DEF NoHandMoves, SameHands, Held, Loosened
<1> QED
  BY <1>1, <1>2, <1>3, <1>4, <1>5, <1>6 DEF WorkerStep

\* Every step does one thing to hands and claims.
LEMMA EveryStepIsAHandsStep ==
  ASSUME IInv, ClaimsAreStamped, [Next]_vars
  PROVE  HandsStep
<1> USE DEF IInv
<1>1. ASSUME NEW r \in Rows, Enqueue(r) PROVE NoHandMoves
  <2>1. row' = [row EXCEPT ![r].status = "pending"] /\ row[r] \in RowState
    BY <1>1 DEF Enqueue, TypeOK
  <2>2. \A s \in Rows : Loosened(s)
    BY <2>1 DEF Loosened, TypeOK, RowState
  <2> QED
    BY <1>1, <2>2 DEF Enqueue, NoHandMoves, SameHands, Held, Busy
<1>2. ASSUME NEW p \in Procs, Start(p) PROVE NoHandMoves
  <2>1. chan' = chan /\ chan[p] = {} /\ Busy(p) = {}
    BY <1>2 DEF Start, NewHoldsNothing
  <2>2. Busy(p)' = {} /\ \A q \in Procs \ {p} : worker'[q] = worker[q]
    BY <1>2 DEF Start, Busy, TypeOK, IdleWorker
  <2>3. SameHands
    BY <2>1, <2>2 DEF SameHands, Held, Busy
  <2> QED
    BY <1>2, <2>3, ReaperLoosens DEF Start, NoHandMoves
<1>3. ASSUME NEW p \in Procs, Reap(p) PROVE NoHandMoves
  BY <1>3, ReaperLoosens DEF Reap, NoHandMoves, SameHands, Held, Busy
<1>4. ASSUME NEW p \in Procs, TakeSystem(p) PROVE HandsStep
  <2>1. PICK S \in Takes(SystemRows, disp[p].room), answered \in BOOLEAN :
          TakeRows(p, S, answered)
    BY <1>4 DEF TakeSystem
  <2>2. worker' = worker /\ SystemRows \in SUBSET Rows
    BY <1>4, QueueAssumption DEF TakeSystem
  <2>3. S \in SUBSET Rows /\ ClaimsRows(p, S)
    BY <2>1, <2>2, TakeIsTake
  <2> QED
    BY <2>3 DEF HandsStep
<1>5. ASSUME NEW p \in Procs, TakeBulk(p) PROVE HandsStep
  <2>1. PICK n : \E S \in Takes(Rows \ SystemRows, n), answered \in BOOLEAN :
          TakeRows(p, S, answered)
    BY <1>5 DEF TakeBulk
  <2>2. PICK S \in Takes(Rows \ SystemRows, n), answered \in BOOLEAN :
          TakeRows(p, S, answered)
    BY <2>1
  <2>3. worker' = worker
    BY <1>5 DEF TakeBulk
  <2>4. S \in SUBSET Rows /\ ClaimsRows(p, S)
    BY <2>2, <2>3, TakeIsTake
  <2> QED
    BY <2>4 DEF HandsStep
<1>6. ASSUME NEW p \in Procs,
             BeginTurn(p) \/ Stop(p) \/ DispatcherStops(p) \/ StopProceeds(p)
      PROVE  NoHandMoves
  BY <1>6 DEF BeginTurn, Stop, DispatcherStops, StopProceeds, NoHandMoves, SameHands,
              Held, Busy, Loosened
<1>7. ASSUME NEW p \in Procs, NEW j \in chan[p], NEW written \in BOOLEAN,
             ReleaseWaiting(p, j, written)
      PROVE  j \in Held(p) /\ LetsGo(p, j)
  BY <1>7, ReleaseLetsGo DEF ReleaseWaiting, Held
<1>8. ASSUME NEW p \in Procs, Crash(p) PROVE Dies(p)
  <2>1. Busy(p)' = {} /\ \A q \in Procs \ {p} : worker'[q] = worker[q]
    BY <1>8 DEF Crash, Busy, TypeOK, ExitedWorker, IdleWorker
  <2>2. chan'[p] = {} /\ \A q \in Procs \ {p} : chan'[q] = chan[q]
    BY <1>8 DEF Crash, TypeOK
  <2>3. phase'[p] = "gone" /\ row' = row
    BY <1>8 DEF Crash, TypeOK
  <2>4. Held(p)' = {} /\ \A q \in Procs \ {p} : Held(q)' = Held(q)
    BY <2>1, <2>2 DEF Held, Busy
  <2> QED
    BY <2>3, <2>4 DEF Dies
<1>9. CASE UNCHANGED vars
  <2>1. row' = row /\ chan' = chan /\ worker' = worker
    BY <1>9 DEF vars
  <2>2. SameHands
    BY <2>1 DEF SameHands, Held, Busy
  <2> QED
    BY <2>1, <2>2 DEF NoHandMoves, Loosened, HandsStep
<1> QED
  BY <1>1, <1>2, <1>3, <1>4, <1>5, <1>6, <1>7, <1>8, <1>9, WorkerHands
     DEF Next, DispatcherStep, StopStep, HandsStep

\* Faults are only ever added to, and a process that is gone stays gone.
LEMMA FaultsGrow ==
  ASSUME TypeOK, [Next]_vars
  PROVE  /\ faults' = 0 => faults = 0
         /\ \A q \in Procs : phase[q] = "gone" => phase'[q] = "gone"
<1>0. ASSUME NEW happens, Fault(happens) PROVE faults' = 0 => faults = 0
  BY <1>0 DEF Fault, TypeOK
<1> USE DEF Running, Stopping, StopPhases
<1>1. ASSUME NEW r \in Rows, Enqueue(r) PROVE UNCHANGED <<faults, phase>>
  BY <1>1 DEF Enqueue
<1>2. ASSUME NEW p \in Procs, NEW w \in Workers, WorkerStep(p, w)
      PROVE  phase' = phase /\ (faults' = 0 => faults = 0)
  <2>1. phase' = phase
    BY <1>2 DEF WorkerStep, Pick, PickStopped, RelayAnswers, Record, RecordFails, WorkerStops
  <2>2. faults' = faults \/ \E happens \in BOOLEAN : Fault(happens)
    BY <1>2 DEF WorkerStep, Pick, PickStopped, RelayAnswers, Record, RecordFails,
                WorkerStops, Release
  <2> QED
    BY <1>0, <2>1, <2>2
<1>3. ASSUME NEW p \in Procs, DispatcherStep(p)
      PROVE  phase' = phase /\ (faults' = 0 => faults = 0)
  <2>1. phase' = phase
    BY <1>3 DEF DispatcherStep, BeginTurn, TakeSystem, TakeBulk
  <2>2. faults' = faults \/ \E happens \in BOOLEAN : Fault(happens)
    BY <1>3 DEF DispatcherStep, BeginTurn, TakeSystem, TakeBulk, TakeRows
  <2> QED
    BY <1>0, <2>1, <2>2
<1>4. ASSUME NEW p \in Procs, Start(p) \/ Stop(p) \/ StopProceeds(p) \/ Crash(p)
      PROVE  /\ UNCHANGED faults
             /\ \A q \in Procs : phase[q] = "gone" => phase'[q] = "gone"
  BY <1>4 DEF Start, Stop, StopProceeds, Crash, TypeOK
<1>5. ASSUME NEW p \in Procs, Reap(p) \/ DispatcherStops(p)
      PROVE  UNCHANGED <<faults, phase>>
  BY <1>5 DEF Reap, DispatcherStops
<1>6. ASSUME NEW p \in Procs, NEW j \in chan[p], NEW written \in BOOLEAN,
             ReleaseWaiting(p, j, written)
      PROVE  phase' = phase /\ (faults' = 0 => faults = 0)
  BY <1>0, <1>6 DEF ReleaseWaiting, Release
<1>7. CASE Tick \/ UNCHANGED vars
  BY <1>7 DEF Tick, vars
<1> QED
  BY <1>1, <1>2, <1>3, <1>4, <1>5, <1>6, <1>7 DEF Next, StopStep

\* A row has a claimed_at as soon as a process claims it, and keeps it.
LEMMA StampsStay ==
  ASSUME TypeOK, ClaimsAreStamped, [Next]_vars
  PROVE  ClaimsAreStamped'
<1> SUFFICES ASSUME NEW r \in Rows, row'[r].age = NullAge
             PROVE  row'[r].by \notin Procs
  BY DEF ClaimsAreStamped
<1>1. row[r] \in RowState
  BY DEF TypeOK
<1>2. NoProc \notin Procs /\ 0 # NullAge
  BY QueueAssumption DEF NullAge
<1> DEFINE Kept == row'[r].by \in {NoProc, row[r].by} /\ (row'[r].age = NullAge
                     => row[r].age = NullAge \/ row'[r].by = NoProc)
<1>3. Kept => row'[r].by \notin Procs
  BY <1>2 DEF ClaimsAreStamped
<1>4. ASSUME row'[r] = row[r] PROVE Kept
  BY <1>4
<1>5. ASSUME ReclaimExpired PROVE Kept
  <2>1. row'[r] = Reclaimed(row[r])
    BY <1>5 DEF ReclaimExpired
  <2>2. CASE row'[r] = Unclaimed(row[r])
    BY <1>1, <2>2, UnclaimedType
  <2>3. CASE row[r].age = NullAge /\ row'[r] = [row[r] EXCEPT !.age = 0]
    BY <1>1, <2>3 DEF RowState
  <2> QED
    BY <1>4, <2>1, <2>2, <2>3 DEF Reclaimed
<1>6. ASSUME NEW p \in Procs, NEW j, NEW rec, FencedWrite(p, j, rec),
             j.row = r => rec.by \in {NoProc, row[r].by}
                          /\ (rec.age = NullAge => row[r].age = NullAge \/ rec.by = NoProc)
      PROVE  Kept
  BY <1>4, <1>6 DEF FencedWrite, TypeOK
<1>7. ASSUME NEW p \in Procs, NEW j \in Job, NEW written \in BOOLEAN, Release(p, j, written)
      PROVE  Kept
  <2>1. row[j.row] \in RowState
    BY DEF Job, TypeOK
  <2> QED
    BY <1>4, <1>6, <1>7, <2>1, UnclaimedType DEF Release
<1>8. ASSUME NEW p \in Procs, NEW S, NEW answered \in BOOLEAN, TakeRows(p, S, answered)
      PROVE  row'[r].age # NullAge \/ row'[r] = row[r]
  BY <1>1, <1>2, <1>8 DEF TakeRows, Claimed, RowState
<1>9. ASSUME NEW s \in Rows, Enqueue(s) PROVE Kept
  BY <1>1, <1>9 DEF Enqueue, TypeOK, RowState
<1>10. ASSUME NEW p \in Procs, NEW w \in Workers, WorkerStep(p, w) PROVE Kept
  <2>1. ASSUME NEW retryAfter \in RetryAfters, NEW holdWritten \in BOOLEAN,
               Record(p, w, retryAfter, holdWritten)
        PROVE  Kept
    <3>0. PICK j, reply : j = worker[p][w].job /\ reply = worker[p][w].reply
      OBVIOUS
    <3>1. w \in Busy(p) /\ worker[p][w] \in WorkerState /\ worker[p][w].pc = "answered"
      BY <2>1 DEF Record, Busy, TypeOK
    <3>2. j \in Job /\ reply \in Replies /\ row[j.row] \in RowState
      BY <3>0, <3>1, HeldJobs DEF WorkerState, Job, TypeOK
    <3> DEFINE rec == Outcome(j, reply, retryAfter)
    <3>3. FencedWrite(p, j, rec)
      BY <2>1, <3>0 DEF Record
    <3>4. /\ rec.by \in {NoProc, row[j.row].by}
          /\ rec.age = NullAge => row[j.row].age = NullAge \/ rec.by = NoProc
      <4>1. PICK back : back = Unclaimed(row[j.row])
        OBVIOUS
      <4>2. back \in RowState /\ back.by = NoProc
        BY <3>2, <4>1, UnclaimedType
      <4>3. \/ rec.by = row[j.row].by /\ rec.age = row[j.row].age
            \/ rec.by = NoProc
        BY <3>2, <4>1, <4>2 DEF Outcome, RowState
      <4> QED
        BY <4>3
    <3> HIDE DEF rec
    <3> QED
      BY <1>6, <3>3, <3>4
  <2>2. ASSUME NEW j \in chan[p], NEW written \in BOOLEAN, PickStopped(p, w, j, written)
        PROVE  Kept
    BY <1>7, <2>2, HeldJobs DEF PickStopped
  <2> QED
    BY <1>4, <1>10, <2>1, <2>2 DEF WorkerStep, Pick, RelayAnswers, RecordFails, WorkerStops
<1>11. ASSUME NEW p \in Procs, DispatcherStep(p)
       PROVE  row'[r].age # NullAge \/ row'[r] = row[r]
  BY <1>8, <1>11 DEF DispatcherStep, BeginTurn, TakeSystem, TakeBulk
<1>12. ASSUME NEW p \in Procs, Stop(p) \/ StopStep(p) PROVE Kept
  BY <1>4, <1>7, <1>12, HeldJobs
     DEF Stop, StopStep, DispatcherStops, ReleaseWaiting, StopProceeds
<1>13. CASE Tick
  <2>1. row'[r].by = row[r].by
    BY <1>1, <1>13 DEF Tick, RowState
  <2>2. row'[r].age = IF row[r].status = "processing" /\ row[r].age # NullAge
                      THEN Least(row[r].age + 1, MaxAge) ELSE row[r].age
    BY <1>1, <1>13 DEF Tick, RowState
  <2>3. row[r].age # NullAge => Least(row[r].age + 1, MaxAge) # NullAge
    <3>1. row[r].age # NullAge => row[r].age \in Nat
      BY <1>1, QueueAssumption DEF RowState, Ages, NullAge
    <3> QED
      BY <3>1, QueueAssumption DEF Least, NullAge
  <2> QED
    BY <1>3, <2>1, <2>2, <2>3
<1> QED
  BY <1>3, <1>4, <1>5, <1>7, <1>9, <1>10, <1>11, <1>12, <1>13
     DEF Next, Start, Reap, Crash, vars

-----------------------------------------------------------------------------
(* Tries: what a process counts from is what the row has. *)

\* A row that has not failed for good has a try left.
TriesLeft(rec) ==
  /\ rec.attempts <= MaxAttempts /\ rec.throttles <= MaxRowThrottles
  /\ rec.status # "failed" => rec.attempts < MaxAttempts

\* A job that is its row's claim has the counters the row has.
JobsAreCurrent ==
  \A p \in Procs : \A j \in Held(p) : Fenced(p, j) =>
    j.attempts = row[j.row].attempts /\ j.throttles = row[j.row].throttles

TriesInv == ClaimsAreStamped /\ JobsAreCurrent /\ \A r \in Rows : TriesLeft(row[r])

\* A tick ages a claim and the jobs under it alike, and neither reaches the
\* age past which ages are not told apart.
LEMMA FencedBeforeTick ==
  ASSUME TypeOK, Tick, NEW p \in Procs, NEW i \in Held(p)'
  PROVE  \E j \in Held(p) : i = Older(j) /\ (Fenced(p, i)' <=> Fenced(p, j))
<1>1. PICK j \in Held(p) : i = Older(j)
  <2>1. ASSUME NEW w \in Workers
        PROVE  /\ w \in Busy(p)' <=> w \in Busy(p)
               /\ w \in Busy(p) => worker'[p][w].job = Older(worker[p][w].job)
    <3>1. worker[p][w] \in WorkerState
      BY DEF TypeOK
    <3>2. worker'[p][w] = IF w \in Busy(p)
                          THEN [worker[p][w] EXCEPT !.job = Older(worker[p][w].job)]
                          ELSE worker[p][w]
      BY DEF Tick
    <3> QED
      BY <3>1, <3>2 DEF WorkerState, Busy
  <2>2. Busy(p)' \subseteq Workers /\ chan'[p] = {Older(j) : j \in chan[p]}
    BY DEF Busy, Tick
  <2> QED
    BY <2>1, <2>2 DEF Held
<1>2. j \in Job /\ j.age < MaxHold
  BY HeldJobs DEF Tick
<1>3. /\ i.row = j.row /\ i.age = j.age + 1 /\ j.age \in Nat /\ j.age + 1 < MaxAge
      /\ j.row \in Rows /\ row[j.row] \in RowState
  <2>1. j.row \in Rows /\ j.age \in 0..MaxHold
    BY <1>2 DEF Job
  <2>2. row[j.row] \in RowState
    BY <2>1 DEF TypeOK
  <2>3. i.row = j.row /\ i.age = j.age + 1
    BY <1>1, <1>2 DEF Job, Older
  <2>4. MaxHold \in Nat /\ MaxAge \in Nat /\ MaxAge > MaxHold
    BY QueueAssumption
  <2>5. j.age \in Nat /\ j.age + 1 < MaxAge
    BY <1>2, <2>1, <2>4
  <2> QED
    BY <2>1, <2>2, <2>3, <2>5
<1> DEFINE rec == row[j.row]
           age == IF rec.status = "processing" /\ rec.age # NullAge
                  THEN Least(rec.age + 1, MaxAge) ELSE rec.age
<1>4. /\ row'[j.row].status = rec.status /\ row'[j.row].by = rec.by
      /\ row'[j.row].age = age
  BY <1>3 DEF Tick, RowState
<1>5. rec.status = "processing" => (age = j.age + 1 <=> rec.age = j.age)
  <2>1. rec.age = -1 \/ rec.age \in Nat
    BY <1>3 DEF RowState, Ages, NullAge
  <2>2. MaxAge \in Nat
    BY QueueAssumption
  <2> QED
    BY <1>3, <2>1, <2>2 DEF Least, NullAge
<1> QED
  BY <1>1, <1>3, <1>4, <1>5 DEF Fenced

\* A job in a hand keeps to its row's counters.
LEMMA JobsStayCurrent ==
  ASSUME IInv, TriesInv, HandsStep
  PROVE  JobsAreCurrent'
<1> USE DEF IInv, TriesInv
<1>1. ASSUME \A q \in Procs : Held(q)' \subseteq Held(q), \A r \in Rows : Loosened(r)
      PROVE  JobsAreCurrent'
  <2> SUFFICES ASSUME NEW q \in Procs, NEW j \in Held(q)', Fenced(q, j)'
               PROVE  /\ j.attempts = row'[j.row].attempts
                      /\ j.throttles = row'[j.row].throttles
    BY DEF JobsAreCurrent
  <2>1. j \in Held(q) /\ j.row \in Rows
    BY <1>1, HeldJobs DEF Job
  <2>2. row'[j.row] = row[j.row]
    BY <1>1, <2>1 DEF Loosened, Fenced
  <2>3. Fenced(q, j)
    BY <2>2 DEF Fenced
  <2> QED
    BY <2>1, <2>2, <2>3 DEF JobsAreCurrent
<1>2. CASE NoHandMoves
  BY <1>1, <1>2 DEF NoHandMoves, SameHands
<1>3. ASSUME NEW p \in Procs, NEW j \in Held(p), LetsGo(p, j) PROVE JobsAreCurrent'
  BY <1>1, <1>3 DEF LetsGo
<1>4. ASSUME NEW p \in Procs, NEW S \in SUBSET Rows, ClaimsRows(p, S) PROVE JobsAreCurrent'
  <2> SUFFICES ASSUME NEW q \in Procs, NEW j \in Held(q)', Fenced(q, j)'
               PROVE  /\ j.attempts = row'[j.row].attempts
                      /\ j.throttles = row'[j.row].throttles
    BY DEF JobsAreCurrent
  <2>0. \A r \in Rows : row'[r] = IF r \in S THEN [row[r] EXCEPT !.status = "processing", !.by = p, !.age = 0]
                                  ELSE row[r]
    BY <1>4 DEF ClaimsRows, Claimed
  <2>1. j \in Held(q) \/ (q = p /\ j \in JobsOf(S))
    BY <1>4 DEF ClaimsRows, SameHands
  <2>2. CASE q = p /\ j \in JobsOf(S)
    <3>1. PICK r \in S : j = [row |-> r, age |-> 0, attempts |-> row[r].attempts,
                              throttles |-> row[r].throttles]
      BY <2>2 DEF JobsOf
    <3>2. row[r] \in RowState
      BY DEF TypeOK
    <3> QED
      BY <2>0, <3>1, <3>2 DEF RowState
  <2>3. CASE j \in Held(q)
    <3>1. j \in Job /\ j.row \in Rows /\ row[j.row] \in RowState /\ j.age \in Nat
      <4>1. j \in Job
        BY <2>3, HeldJobs
      <4>2. j.row \in Rows /\ j.age \in 0..MaxHold /\ MaxHold \in Nat
        BY <4>1, QueueAssumption DEF Job
      <4> QED
        BY <4>1, <4>2 DEF TypeOK
    <3>2. CASE j.row \notin S
      <4>1. row'[j.row] = row[j.row]
        BY <2>0, <3>1, <3>2
      <4>2. Fenced(q, j)
        BY <4>1 DEF Fenced
      <4> QED
        BY <2>3, <4>1, <4>2 DEF JobsAreCurrent
    <3>3. CASE j.row \in S
      <4>1. row'[j.row].age = 0
        BY <2>0, <3>1, <3>3 DEF RowState
      <4>2. j.age = 0
        BY <4>1 DEF Fenced
      <4>3. Fenced(q, j)
        BY <2>3, <4>2, QueueAssumption DEF ClaimsAreExclusive
      <4> QED
        BY <1>4, <3>3, <4>3 DEF Fenced, ClaimsRows
    <3> QED
      BY <3>2, <3>3
  <2> QED
    BY <2>1, <2>2, <2>3
<1>5. ASSUME NEW p \in Procs, Dies(p) PROVE JobsAreCurrent'
  <2>1. \A q \in Procs : Held(q)' \subseteq Held(q)
    BY <1>5 DEF Dies
  <2>2. \A r \in Rows : Loosened(r)
    BY <1>5 DEF Dies, Loosened
  <2> QED
    BY <1>1, <2>1, <2>2
<1>6. CASE Tick
  <2> SUFFICES ASSUME NEW q \in Procs, NEW i \in Held(q)', Fenced(q, i)'
               PROVE  /\ i.attempts = row'[i.row].attempts
                      /\ i.throttles = row'[i.row].throttles
    BY DEF JobsAreCurrent
  <2>1. PICK j \in Held(q) : i = Older(j) /\ Fenced(q, j)
    BY <1>6, FencedBeforeTick
  <2>2. j \in Job /\ j.row \in Rows /\ row[j.row] \in RowState
    BY HeldJobs DEF Job, TypeOK
  <2>3. /\ i.row = j.row /\ i.attempts = j.attempts /\ i.throttles = j.throttles
        /\ row'[j.row].attempts = row[j.row].attempts
        /\ row'[j.row].throttles = row[j.row].throttles
    BY <1>6, <2>1, <2>2 DEF Older, Job, Tick, RowState
  <2> QED
    BY <2>1, <2>3 DEF JobsAreCurrent
<1> QED
  BY <1>2, <1>3, <1>4, <1>5, <1>6 DEF HandsStep

\* An outcome counts one try, or one throttle, of the row it is written to.
LEMMA OutcomeCountsOne ==
  ASSUME NEW j \in Job, NEW rec \in RowState, rec = row[j.row], TriesLeft(rec),
         rec.status = "processing",
         j.attempts = rec.attempts, j.throttles = rec.throttles,
         NEW reply \in Replies, NEW retryAfter \in RetryAfters
  PROVE  TriesLeft(Outcome(j, reply, retryAfter))
<1> DEFINE back == Unclaimed(rec)
           delay == Most(RetryDelay[j.attempts], retryAfter)
           pause == Most(ThrottlePause, retryAfter)
<1>1. /\ rec.attempts \in Nat /\ rec.throttles \in Nat /\ rec.attempts < MaxAttempts
      /\ rec.throttles <= MaxRowThrottles
      /\ MaxAttempts \in Nat /\ MaxRowThrottles \in Nat
  BY QueueAssumption DEF TriesLeft, RowState
<1>2. /\ back \in RowState /\ back.status = "pending"
      /\ back.attempts = rec.attempts /\ back.throttles = rec.throttles
  BY UnclaimedType DEF Unclaimed, RowState
<1>3. Outcome(j, reply, retryAfter) =
        IF reply = "accepted" THEN [rec EXCEPT !.status = "sent"]
        ELSE IF Defers(j, reply)
        THEN [back EXCEPT !.throttles = @ + 1, !.wait = pause]
        ELSE IF GivesUp(j, reply) THEN [rec EXCEPT !.status = "failed", !.attempts = @ + 1]
        ELSE [back EXCEPT !.attempts = @ + 1, !.wait = delay]
  BY DEF Outcome
<1> HIDE DEF back, delay, pause
<1>4. CASE reply = "accepted"
  <2>1. LET x == [rec EXCEPT !.status = "sent"]
        IN  x.attempts = rec.attempts /\ x.throttles = rec.throttles
    BY DEF RowState
  <2> QED
    BY <1>1, <1>3, <1>4, <2>1 DEF TriesLeft
<1>5. CASE reply # "accepted" /\ Defers(j, reply)
  <2>1. rec.throttles + 1 <= MaxRowThrottles
    BY <1>1, <1>5 DEF Defers, Holds
  <2>2. LET x == [back EXCEPT !.throttles = @ + 1, !.wait = pause]
        IN  x.attempts = rec.attempts /\ x.throttles = rec.throttles + 1
    BY <1>2 DEF RowState
  <2> QED
    BY <1>1, <1>3, <1>5, <2>1, <2>2 DEF TriesLeft
<1>6. CASE reply # "accepted" /\ ~Defers(j, reply) /\ GivesUp(j, reply)
  <2>1. LET x == [rec EXCEPT !.status = "failed", !.attempts = @ + 1]
        IN  /\ x.attempts = rec.attempts + 1 /\ x.throttles = rec.throttles
            /\ x.status = "failed"
    BY DEF RowState
  <2> QED
    BY <1>1, <1>3, <1>6, <2>1 DEF TriesLeft
<1>7. CASE reply # "accepted" /\ ~Defers(j, reply) /\ ~GivesUp(j, reply)
  <2>1. rec.attempts + 1 < MaxAttempts
    BY <1>1, <1>7 DEF GivesUp
  <2>2. LET x == [back EXCEPT !.attempts = @ + 1, !.wait = delay]
        IN  x.attempts = rec.attempts + 1 /\ x.throttles = rec.throttles
    BY <1>2 DEF RowState
  <2> QED
    BY <1>1, <1>3, <1>7, <2>1, <2>2 DEF TriesLeft
<1> QED
  BY <1>4, <1>5, <1>6, <1>7

\* What else writes a row counts nothing.
LEMMA CountsKept ==
  ASSUME TypeOK, NEW r \in Rows, TriesLeft(row[r]),
         /\ row'[r].attempts = row[r].attempts /\ row'[r].throttles = row[r].throttles
         /\ row'[r].status # "failed" => row[r].status # "failed"
  PROVE  TriesLeft(row'[r])
BY DEF TriesLeft

\* Every row has a try left until it fails for good.
LEMMA TriesStay ==
  ASSUME IInv, TriesInv, [Next]_vars, NEW r \in Rows
  PROVE  TriesLeft(row'[r])
<1> USE DEF IInv
<1>0. row[r] \in RowState /\ TriesLeft(row[r])
  BY DEF TypeOK, TriesInv
<1>1. ASSUME row'[r] = row[r] PROVE TriesLeft(row'[r])
  BY <1>0, <1>1
<1>2. ASSUME ReclaimExpired PROVE TriesLeft(row'[r])
  <2>1. row'[r] = Reclaimed(row[r])
    BY <1>2 DEF ReclaimExpired
  <2>2. /\ row'[r].attempts = row[r].attempts /\ row'[r].throttles = row[r].throttles
        /\ row'[r].status # "failed" => row[r].status # "failed"
    BY <1>0, <2>1 DEF Reclaimed, Unclaimed, RowState
  <2> QED
    BY <1>0, <2>2, CountsKept
<1>3. ASSUME NEW p \in Procs, NEW j \in Job, NEW written \in BOOLEAN, Release(p, j, written)
      PROVE  TriesLeft(row'[r])
  <2>1. CASE row' = [row EXCEPT ![j.row] = Unclaimed(row[j.row])] /\ j.row = r
             /\ row[r].status = "processing"
    <3>1. row'[r] = Unclaimed(row[r])
      BY <2>1 DEF TypeOK
    <3>2. row'[r].attempts = row[r].attempts /\ row'[r].throttles = row[r].throttles
      BY <1>0, <3>1 DEF Unclaimed, RowState
    <3> QED
      BY <1>0, <2>1, <3>2, CountsKept
  <2>2. CASE row'[r] = row[r]
    BY <1>1, <2>2
  <2>3. j.row \in Rows
    BY DEF Job
  <2> QED
    BY <1>3, <2>1, <2>2, <2>3 DEF Release, FencedWrite, Fenced, TypeOK
<1>4. ASSUME NEW p \in Procs, NEW S, NEW answered \in BOOLEAN, TakeRows(p, S, answered),
             \A s \in S : row[s].status = "pending"
      PROVE  TriesLeft(row'[r])
  <2>1. row'[r] = IF r \in S THEN [row[r] EXCEPT !.status = "processing", !.by = p, !.age = 0]
                  ELSE row[r]
    BY <1>4 DEF TakeRows, Claimed
  <2>2. /\ row'[r].attempts = row[r].attempts /\ row'[r].throttles = row[r].throttles
        /\ row'[r].status # "failed" => row[r].status # "failed"
    BY <1>0, <1>4, <2>1 DEF RowState
  <2> QED
    BY <1>0, <2>2, CountsKept
<1>5. ASSUME NEW s \in Rows, Enqueue(s) PROVE TriesLeft(row'[r])
  <2>1. row' = [row EXCEPT ![s].status = "pending"] /\ row[s].status = "absent"
    BY <1>5 DEF Enqueue
  <2>2. /\ row'[r].attempts = row[r].attempts /\ row'[r].throttles = row[r].throttles
        /\ row'[r].status # "failed" => row[r].status # "failed"
    BY <1>0, <2>1 DEF TypeOK, RowState
  <2> QED
    BY <1>0, <2>2, CountsKept
<1>6. ASSUME NEW p \in Procs, NEW w \in Workers, WorkerStep(p, w) PROVE TriesLeft(row'[r])
  <2>1. ASSUME NEW retryAfter \in RetryAfters, NEW holdWritten \in BOOLEAN,
               Record(p, w, retryAfter, holdWritten)
        PROVE  TriesLeft(row'[r])
    <3>0. PICK j, reply : j = worker[p][w].job /\ reply = worker[p][w].reply
      OBVIOUS
    <3>1. w \in Busy(p) /\ worker[p][w] \in WorkerState /\ worker[p][w].pc = "answered"
      BY <2>1 DEF Record, Busy, TypeOK
    <3>2. j \in Job /\ reply \in Replies /\ row[j.row] \in RowState /\ j \in Held(p)
      BY <3>0, <3>1, HeldJobs DEF WorkerState, Job, TypeOK, Held
    <3>3. FencedWrite(p, j, Outcome(j, reply, retryAfter))
      BY <2>1, <3>0 DEF Record
    <3>4. CASE Fenced(p, j) /\ r = j.row
      <4>1. j.attempts = row[r].attempts /\ j.throttles = row[r].throttles
        BY <3>2, <3>4 DEF TriesInv, JobsAreCurrent
      <4>2. TriesLeft(Outcome(j, reply, retryAfter))
        BY <1>0, <3>2, <3>4, <4>1, OutcomeCountsOne DEF Fenced
      <4>3. row'[r] = Outcome(j, reply, retryAfter)
        BY <3>3, <3>4 DEF FencedWrite, TypeOK
      <4> QED
        BY <4>2, <4>3
    <3>5. CASE ~(Fenced(p, j) /\ r = j.row)
      <4>1. row'[r] = row[r]
        BY <3>3, <3>5 DEF FencedWrite, TypeOK
      <4> QED
        BY <1>1, <4>1
    <3> QED
      BY <3>4, <3>5
  <2>2. ASSUME NEW j \in chan[p], NEW written \in BOOLEAN, PickStopped(p, w, j, written)
        PROVE  TriesLeft(row'[r])
    BY <1>3, <2>2, HeldJobs DEF PickStopped
  <2> QED
    BY <1>1, <1>6, <2>1, <2>2 DEF WorkerStep, Pick, RelayAnswers, RecordFails, WorkerStops
<1>7. ASSUME NEW p \in Procs, DispatcherStep(p) PROVE TriesLeft(row'[r])
  <2>1. CASE TakeSystem(p)
    <3>1. SystemRows \in SUBSET Rows
      BY QueueAssumption
    <3>2. PICK S \in Takes(SystemRows, disp[p].room), answered \in BOOLEAN :
            TakeRows(p, S, answered)
      BY <2>1 DEF TakeSystem
    <3> QED
      BY <1>4, <3>1, <3>2, TakesAreDue DEF Due
  <2>2. CASE TakeBulk(p)
    <3>1. PICK n : \E S \in Takes(Rows \ SystemRows, n), answered \in BOOLEAN :
            TakeRows(p, S, answered)
      BY <2>2 DEF TakeBulk
    <3>2. PICK S \in Takes(Rows \ SystemRows, n), answered \in BOOLEAN :
            TakeRows(p, S, answered)
      BY <3>1
    <3> QED
      BY <1>4, <3>2, TakesAreDue DEF Due
  <2> QED
    BY <1>1, <1>7, <2>1, <2>2 DEF DispatcherStep, BeginTurn
<1>8. ASSUME NEW p \in Procs, Stop(p) \/ StopStep(p) PROVE TriesLeft(row'[r])
  BY <1>1, <1>3, <1>8, HeldJobs
     DEF Stop, StopStep, DispatcherStops, ReleaseWaiting, StopProceeds
<1>9. CASE Tick
  <2>1. /\ row'[r].attempts = row[r].attempts /\ row'[r].throttles = row[r].throttles
        /\ row'[r].status = row[r].status
    BY <1>0, <1>9 DEF Tick, RowState
  <2> QED
    BY <1>0, <2>1, CountsKept
<1> QED
  BY <1>1, <1>2, <1>5, <1>6, <1>7, <1>8, <1>9 DEF Next, Start, Reap, Crash, vars

\* Every job of a current claim counts from its row's counters, and every row
\* has a try left until it fails for good.
LEMMA TriesInvariant == Spec => []TriesInv
<1>1. Init => TriesInv
  <2> SUFFICES ASSUME Init PROVE TriesInv
    OBVIOUS
  <2>1. ASSUME NEW r \in Rows
        PROVE  row[r].by = NoProc /\ row[r].attempts = 0 /\ row[r].throttles = 0
    BY DEF Init
  <2>2. \A p \in Procs : Held(p) = {}
    BY DEF Init, Held, Busy, ExitedWorker, IdleWorker
  <2> QED
    BY <2>1, <2>2, QueueAssumption DEF TriesInv, ClaimsAreStamped, JobsAreCurrent, TriesLeft
<1>2. IInv /\ TriesInv /\ [Next]_vars => TriesInv'
  <2> SUFFICES ASSUME IInv, TriesInv, [Next]_vars PROVE TriesInv'
    OBVIOUS
  <2>1. ClaimsAreStamped'
    BY StampsStay DEF IInv, TriesInv
  <2>2. JobsAreCurrent'
    BY EveryStepIsAHandsStep, JobsStayCurrent DEF TriesInv
  <2>3. \A r \in Rows : TriesLeft(row'[r])
    BY TriesStay
  <2> QED
    BY <2>1, <2>2, <2>3 DEF TriesInv, TriesLeft
<1> QED
  BY <1>1, <1>2, TypeCorrect, ClaimsExclusive, PTL DEF Spec, IInv

\* TriesAreBounded: whatever stalls, is reclaimed, answered late or taken
\* again, a row that waits has a try left and no row is tried or deferred past
\* its limit: a process counts from the attempts it read with the claim, and
\* its write goes through only while that claim is the row's.
THEOREM TriesBounded == Spec => []TriesAreBounded
<1>1. TypeOK /\ TriesInv => TriesAreBounded
  <2> SUFFICES ASSUME TypeOK, TriesInv, NEW r \in Rows
               PROVE  /\ row[r].attempts <= MaxAttempts
                      /\ row[r].status = "pending" => row[r].attempts < MaxAttempts
                      /\ row[r].throttles <= MaxRowThrottles
    BY DEF TriesAreBounded
  <2>1. TriesLeft(row[r])
    BY DEF TriesInv
  <2> QED
    BY <2>1 DEF TriesLeft
<1> QED
  BY <1>1, TriesInvariant, TypeCorrect, PTL

-----------------------------------------------------------------------------
(* A stop that came to its end leaves nothing. *)

\* As long as nothing failed, a claim of a process that lives is in its hands.
ClaimsAreInHand ==
  faults = 0 => \A p \in Procs, r \in Rows :
    row[r].status = "processing" /\ row[r].by = p /\ phase[p] # "gone" =>
      \E j \in Held(p) : j.row = r /\ Fenced(p, j)

Drained == {"stopDrain", "stopWorkers", "stopDrainAgain", "stopped"}

\* What a stop has ended by its phases: the dispatcher, the workers, the channel.
StopEnds ==
  \A p \in Procs :
    /\ phase[p] \in Drained => disp[p].pc = "done"
    /\ phase[p] \in {"stopDrainAgain", "stopped"} => \A w \in Workers : worker[p][w].pc = "exited"
    /\ phase[p] = "stopped" => chan[p] = {}

\* A job of the moment before is in the same hand a tick older.
LEMMA TickHands ==
  ASSUME TypeOK, Tick, NEW p \in Procs, NEW j \in Held(p)
  PROVE  Older(j) \in Held(p)' /\ (Fenced(p, Older(j))' <=> Fenced(p, j))
<1>1. Older(j) \in Held(p)'
  <2>1. ASSUME NEW w \in Busy(p)
        PROVE  w \in Busy(p)' /\ worker'[p][w].job = Older(worker[p][w].job)
    <3>1. w \in Workers /\ worker[p][w] \in WorkerState
      BY DEF TypeOK, Busy
    <3>2. worker'[p][w] = [worker[p][w] EXCEPT !.job = Older(worker[p][w].job)]
      BY <3>1 DEF Tick
    <3> QED
      BY <3>1, <3>2 DEF WorkerState, Busy
  <2>2. chan'[p] = {Older(i) : i \in chan[p]}
    BY DEF Tick
  <2> QED
    BY <2>1, <2>2 DEF Held
<1>2. PICK i \in Held(p) : Older(j) = Older(i) /\ (Fenced(p, Older(j))' <=> Fenced(p, i))
  BY <1>1, FencedBeforeTick
<1>3. i \in Job /\ j \in Job
  BY HeldJobs
<1>4. i = j
  <2>1. i.age \in Int /\ j.age \in Int
    BY <1>3, QueueAssumption DEF Job
  <2>2. i.row = j.row /\ i.attempts = j.attempts /\ i.throttles = j.throttles /\ i.age + 1 = j.age + 1
    BY <1>2, <1>3 DEF Older, Job
  <2>3. i.age = j.age
    BY <2>1, <2>2
  <2> QED
    BY <1>3, <2>2, <2>3 DEF Job
<1> QED
  BY <1>1, <1>2, <1>4

\* A claim stays in the hand it was taken with until it is given up.
LEMMA ClaimsStayInHand ==
  ASSUME TypeOK, ClaimsAreInHand, HandsStep, faults' = 0 => faults = 0,
         \A q \in Procs : phase[q] = "gone" => phase'[q] = "gone"
  PROVE  ClaimsAreInHand'
<1> SUFFICES ASSUME faults' = 0, NEW p \in Procs, NEW r \in Rows,
                    row'[r].status = "processing", row'[r].by = p, phase'[p] # "gone"
             PROVE  \E j \in Held(p)' : j.row = r /\ Fenced(p, j)'
  BY DEF ClaimsAreInHand
<1>1. faults = 0 /\ phase[p] # "gone"
  OBVIOUS
<1>2. ASSUME row'[r] = row[r] PROVE \E j \in Held(p) : j.row = r /\ Fenced(p, j) /\ Fenced(p, j)'
  <2>1. PICK j \in Held(p) : j.row = r /\ Fenced(p, j)
    BY <1>1, <1>2 DEF ClaimsAreInHand
  <2> QED
    BY <1>2, <2>1 DEF Fenced
<1>3. ASSUME Loosened(r) PROVE row'[r] = row[r]
  BY <1>3 DEF Loosened
<1>4. CASE NoHandMoves
  BY <1>2, <1>3, <1>4 DEF NoHandMoves, SameHands
<1>5. ASSUME NEW q \in Procs, NEW i \in Held(q), LetsGo(q, i)
      PROVE  \E j \in Held(p)' : j.row = r /\ Fenced(p, j)'
  <2>1. PICK j \in Held(p) : j.row = r /\ Fenced(p, j) /\ Fenced(p, j)'
    BY <1>2, <1>3, <1>5 DEF LetsGo
  <2>2. ~(p = q /\ j = i)
    <3> SUFFICES ASSUME p = q, j = i PROVE FALSE
      OBVIOUS
    <3>1. Fenced(q, i)'
      BY <2>1
    <3> QED
      BY <1>5, <3>1 DEF LetsGo
  <2> QED
    BY <1>5, <2>1, <2>2 DEF LetsGo
<1>6. ASSUME NEW q \in Procs, NEW S \in SUBSET Rows, ClaimsRows(q, S)
      PROVE  \E j \in Held(p)' : j.row = r /\ Fenced(p, j)'
  <2>1. /\ Held(q)' = Held(q) \union JobsOf(S)
        /\ \A s \in Procs \ {q} : Held(s)' = Held(s)
    BY <1>6 DEF ClaimsRows
  <2>2. row'[r] = IF r \in S THEN [row[r] EXCEPT !.status = "processing", !.by = q, !.age = 0]
                  ELSE row[r]
    BY <1>6 DEF ClaimsRows, Claimed
  <2>3. CASE r \in S
    <3>1. row[r] \in RowState
      BY DEF TypeOK
    <3>2. p = q /\ row'[r].age = 0
      BY <2>2, <2>3, <3>1 DEF RowState
    <3>3. [row |-> r, age |-> 0, attempts |-> row[r].attempts, throttles |-> row[r].throttles] \in JobsOf(S)
      BY <2>3 DEF JobsOf
    <3>4. PICK j \in JobsOf(S) : j.row = r /\ j.age = 0
      BY <3>3
    <3>5. j \in Held(p)' /\ Fenced(p, j)'
      BY <2>1, <3>2, <3>4 DEF Fenced
    <3> QED
      BY <3>4, <3>5
  <2>4. CASE r \notin S
    BY <1>2, <2>1, <2>2, <2>4
  <2> QED
    BY <2>3, <2>4
<1>7. ASSUME NEW q \in Procs, Dies(q) PROVE \E j \in Held(p)' : j.row = r /\ Fenced(p, j)'
  <2>1. p # q /\ row' = row
    BY <1>7 DEF Dies
  <2> QED
    BY <1>2, <1>7, <2>1 DEF Dies
<1>8. CASE Tick
  <2>1. row[r] \in RowState
    BY DEF TypeOK
  <2>2. row[r].status = "processing" /\ row[r].by = p
    BY <1>8, <2>1 DEF Tick, RowState
  <2>3. PICK j \in Held(p) : j.row = r /\ Fenced(p, j)
    BY <1>1, <2>2 DEF ClaimsAreInHand
  <2>4. j \in Job
    BY HeldJobs
  <2>5. PICK i : i = Older(j)
    OBVIOUS
  <2>6. i.row = r /\ i \in Held(p)' /\ Fenced(p, i)'
    BY <1>8, <2>3, <2>4, <2>5, TickHands DEF Older, Job
  <2> QED
    BY <2>6
<1> QED
  BY <1>4, <1>5, <1>6, <1>7, <1>8 DEF HandsStep

\* What a stop has ended stays ended.
LEMMA StopEndsStay ==
  ASSUME TypeOK, StopEnds, [Next]_vars
  PROVE  StopEnds'
<1> USE DEF Drained
<1>a. ASSUME UNCHANGED <<phase, disp, worker>>,
             \A q \in Procs : chan[q] = {} => chan'[q] = {}
      PROVE  StopEnds'
  BY <1>a DEF StopEnds
<1>1. ASSUME NEW p \in Procs, Start(p) PROVE StopEnds'
  <2>1. ASSUME NEW q \in Procs PROVE q = p \/ (disp'[q] = disp[q] /\ worker'[q] = worker[q] /\ phase'[q] = phase[q])
    BY <1>1 DEF Start, TypeOK
  <2>2. phase'[p] = "up" /\ chan' = chan
    BY <1>1 DEF Start, TypeOK
  <2> QED
    BY <2>1, <2>2 DEF StopEnds
<1>2. ASSUME NEW p \in Procs, BeginTurn(p) \/ TakeSystem(p) \/ TakeBulk(p) \/ DispatcherStops(p) PROVE StopEnds'
  <2>1. /\ phase' = phase /\ worker' = worker
        /\ \A q \in Procs \ {p} : disp'[q] = disp[q] /\ chan'[q] = chan[q]
    BY <1>2, ZenonT(30) DEF BeginTurn, TakeSystem, TakeBulk, TakeRows, DispatcherStops, TypeOK
  <2>2. disp[p].pc # "done"
    BY <1>2 DEF BeginTurn, TakeSystem, TakeBulk, DispatcherStops
  <2> QED
    BY <2>1, <2>2 DEF StopEnds
<1>3. ASSUME NEW p \in Procs, NEW w \in Workers, WorkerStep(p, w) PROVE StopEnds'
  <2>1. ASSUME NEW j \in chan[p], NEW written \in BOOLEAN, PickStopped(p, w, j, written) PROVE StopEnds'
    <3>1. UNCHANGED <<phase, disp, worker>> /\ chan' = [chan EXCEPT ![p] = @ \ {j}]
      BY <2>1 DEF PickStopped
    <3>2. \A q \in Procs : chan[q] = {} => chan'[q] = {}
      BY <3>1 DEF TypeOK
    <3> QED
      BY <1>a, <3>1, <3>2
  <2>2. ASSUME worker[p][w].pc # "exited", UNCHANGED <<phase, disp>>,
               \A q \in Procs : chan[q] = {} => chan'[q] = {},
               \A q \in Procs \ {p} : worker'[q] = worker[q]
        PROVE  StopEnds'
    <3>1. phase[p] \notin {"stopDrainAgain", "stopped"}
      BY <2>2 DEF StopEnds
    <3> QED
      BY <2>2, <3>1 DEF StopEnds
  <2>3. ASSUME NEW j \in chan[p], Pick(p, w, j) PROVE StopEnds'
    <3>1. /\ UNCHANGED <<phase, disp>> /\ worker[p][w].pc = "idle" /\ chan' = [chan EXCEPT ![p] = @ \ {j}]
          /\ \A q \in Procs \ {p} : worker'[q] = worker[q]
      BY <2>3 DEF Pick, TypeOK
    <3>2. \A q \in Procs : chan[q] = {} => chan'[q] = {}
      BY <3>1 DEF TypeOK
    <3> QED
      BY <2>2, <3>1, <3>2
  <2>4. ASSUME \/ \E reply \in Replies : RelayAnswers(p, w, reply)
               \/ \E retryAfter \in RetryAfters, holdWritten \in BOOLEAN : Record(p, w, retryAfter, holdWritten)
               \/ \E retryAfter \in RetryAfters : RecordFails(p, w, retryAfter)
               \/ WorkerStops(p, w)
        PROVE  StopEnds'
    <3>1. /\ UNCHANGED <<phase, disp, chan>> /\ worker[p][w].pc \in {"idle", "sending", "answered"}
          /\ \A q \in Procs \ {p} : worker'[q] = worker[q]
      BY <2>4 DEF RelayAnswers, Record, RecordFails, WorkerStops, TypeOK
    <3> QED
      BY <2>2, <3>1
  <2> QED
    BY <1>3, <2>1, <2>3, <2>4 DEF WorkerStep
<1>4. ASSUME NEW p \in Procs, NEW j \in chan[p], NEW written \in BOOLEAN, ReleaseWaiting(p, j, written)
      PROVE  StopEnds'
  <2>1. UNCHANGED <<phase, disp, worker>> /\ chan' = [chan EXCEPT ![p] = @ \ {j}]
    BY <1>4 DEF ReleaseWaiting
  <2>2. \A q \in Procs : chan[q] = {} => chan'[q] = {}
    BY <2>1 DEF TypeOK
  <2> QED
    BY <1>a, <2>1, <2>2
<1>5. ASSUME NEW p \in Procs, Stop(p) \/ StopProceeds(p) PROVE StopEnds'
  <2>1. UNCHANGED <<disp, worker, chan>> /\ \A q \in Procs \ {p} : phase'[q] = phase[q]
    BY <1>5 DEF Stop, StopProceeds, TypeOK
  <2>2. \/ phase'[p] = "stopDispatcher"
        \/ phase'[p] = "stopDrain" /\ disp[p].pc = "done"
        \/ phase'[p] = "stopWorkers" /\ phase[p] = "stopDrain"
        \/ phase'[p] = "stopDrainAgain" /\ phase[p] = "stopWorkers"
           /\ \A w \in Workers : worker[p][w].pc = "exited"
        \/ phase'[p] = "stopped" /\ phase[p] = "stopDrainAgain" /\ chan[p] = {}
    BY <1>5 DEF Stop, StopProceeds, TypeOK
  <2> QED
    BY <2>1, <2>2 DEF StopEnds
<1>6. ASSUME NEW p \in Procs, Crash(p) PROVE StopEnds'
  <2>1. /\ phase'[p] = "gone"
        /\ \A q \in Procs \ {p} : phase'[q] = phase[q] /\ disp'[q] = disp[q] /\ worker'[q] = worker[q] /\ chan'[q] = chan[q]
    BY <1>6 DEF Crash, TypeOK
  <2> QED
    BY <2>1 DEF StopEnds
<1>7. CASE Tick
  <2>1. UNCHANGED <<phase, disp>> /\ \A q \in Procs : chan[q] = {} => chan'[q] = {}
    BY <1>7 DEF Tick
  <2>2. ASSUME NEW q \in Procs, NEW w \in Workers PROVE worker[q][w].pc = "exited" => worker'[q][w] = worker[q][w]
    BY <1>7 DEF Tick, Busy
  <2> QED
    BY <2>1, <2>2 DEF StopEnds
<1>8. ASSUME NEW r \in Rows, Enqueue(r) PROVE StopEnds'
  BY <1>a, <1>8 DEF Enqueue
<1>9. ASSUME NEW p \in Procs, Reap(p) PROVE StopEnds'
  BY <1>a, <1>9 DEF Reap
<1>10. CASE UNCHANGED vars
  BY <1>a, <1>10 DEF vars
<1> QED
  BY <1>1, <1>2, <1>3, <1>4, <1>5, <1>6, <1>7, <1>8, <1>9, <1>10 DEF Next, DispatcherStep, StopStep

StopInv == ClaimsAreInHand /\ StopEnds

\* Nothing but a fault takes a claim out of the hands of a process that lives.
LEMMA StopInvariant == Spec => []StopInv
<1>1. Init => StopInv
  <2> SUFFICES ASSUME Init PROVE StopInv
    OBVIOUS
  <2>1. \A r \in Rows : row[r].by = NoProc
    BY DEF Init
  <2>2. \A p \in Procs : phase[p] = "new" /\ NoProc # p
    BY QueueAssumption DEF Init
  <2> QED
    BY <2>1, <2>2 DEF StopInv, ClaimsAreInHand, StopEnds, Drained
<1>2. IInv /\ TriesInv /\ StopInv /\ [Next]_vars => StopInv'
  <2> SUFFICES ASSUME IInv, TriesInv, StopInv, [Next]_vars PROVE StopInv'
    OBVIOUS
  <2>1. TypeOK /\ ClaimsAreStamped
    BY DEF IInv, TriesInv
  <2>2. HandsStep
    BY <2>1, EveryStepIsAHandsStep
  <2>3. (faults' = 0 => faults = 0) /\ \A q \in Procs : phase[q] = "gone" => phase'[q] = "gone"
    BY <2>1, FaultsGrow
  <2>4. ClaimsAreInHand'
    BY <2>1, <2>2, <2>3, ClaimsStayInHand DEF StopInv
  <2>5. StopEnds'
    BY <2>1, StopEndsStay DEF StopInv
  <2> QED
    BY <2>4, <2>5 DEF StopInv
<1> QED
  BY <1>1, <1>2, TriesInvariant, TypeCorrect, ClaimsExclusive, PTL DEF Spec, IInv

\* StopLeavesNothing: the workers have ended and the channel is empty when a
\* stop ends, and a claim that no write failed for is in one of them.
THEOREM StopLeavesNoRow == Spec => []StopLeavesNothing
<1>1. TypeOK /\ StopInv => StopLeavesNothing
  <2> SUFFICES ASSUME TypeOK, StopInv, NEW p \in Procs, phase[p] = "stopped", faults = 0,
                      NEW r \in Rows, row[r].status = "processing", row[r].by = p
               PROVE  FALSE
    BY DEF StopLeavesNothing
  <2>1. chan[p] = {} /\ Busy(p) = {}
    BY DEF StopInv, StopEnds, Busy
  <2>2. Held(p) = {}
    BY <2>1 DEF Held
  <2> QED
    BY <2>2 DEF StopInv, ClaimsAreInHand
<1> QED
  BY <1>1, StopInvariant, TypeCorrect, PTL

-----------------------------------------------------------------------------
(* Counters: a process counts what is in its hands. *)

Bulk(C) == {j \in C : IsBulk(j.row)}
BulkBusy(p) == {w \in Busy(p) : IsBulk(worker[p][w].job.row)}

\* What a process counts, and the room its dispatcher counted on.
CountsOf(p) ==
  /\ taken[p] = Cardinality(chan[p]) + Cardinality(Busy(p))
  /\ takenBulk[p] = Cardinality(Bulk(chan[p])) + Cardinality(BulkBusy(p))
  /\ taken[p] <= Cardinality(Workers) /\ takenBulk[p] <= BulkSlots
  /\ disp[p].pc \in {"system", "bulk"} =>
       disp[p].room \in Nat /\ disp[p].room <= Cardinality(Workers) - taken[p]

CountersInv ==
  \A p \in Procs :
    /\ IsFiniteSet(chan[p])
    /\ phase[p] = "new" => taken[p] = 0 /\ takenBulk[p] = 0 /\ disp[p].pc = "done"
    /\ Running(p) => CountsOf(p)

\* The hands of a process are finite sets, and their sizes numbers.
LEMMA HandsAreFinite ==
  ASSUME TypeOK, NEW p \in Procs, IsFiniteSet(chan[p])
  PROVE  /\ IsFiniteSet(Bulk(chan[p])) /\ IsFiniteSet(Busy(p)) /\ IsFiniteSet(BulkBusy(p))
         /\ Cardinality(chan[p]) \in Nat /\ Cardinality(Bulk(chan[p])) \in Nat
         /\ Cardinality(Busy(p)) \in Nat /\ Cardinality(BulkBusy(p)) \in Nat
<1>1. Bulk(chan[p]) \in SUBSET chan[p] /\ Busy(p) \in SUBSET Workers /\ BulkBusy(p) \in SUBSET Workers
  BY DEF Bulk, Busy, BulkBusy
<1>2. IsFiniteSet(Bulk(chan[p])) /\ IsFiniteSet(Busy(p)) /\ IsFiniteSet(BulkBusy(p))
  BY <1>1, FS_Subset, QueueAssumption
<1> QED
  BY <1>2, FS_CardinalityType

\* A set and its image under a function that tells its elements apart.
LEMMA SameSize ==
  ASSUME NEW S, NEW T, NEW f \in [S -> T], IsFiniteSet(S),
         \A t \in T : \E s \in S : f[s] = t, \A s, u \in S : f[s] = f[u] => s = u
  PROVE  IsFiniteSet(T) /\ Cardinality(T) = Cardinality(S)
<1>1. f \in Surjection(S, T) /\ f \in Injection(S, T)
  BY DEF Surjection, Injection, IsInjective
<1> QED
  BY <1>1, FS_Surjection

\* A take's jobs are as many as its rows, and the bulk ones of both.
LEMMA JobsCounted ==
  ASSUME NEW S \in SUBSET Rows
  PROVE  /\ IsFiniteSet(JobsOf(S)) /\ Cardinality(JobsOf(S)) = Cardinality(S)
         /\ IsFiniteSet(Bulk(JobsOf(S)))
         /\ Cardinality(Bulk(JobsOf(S))) = Cardinality({r \in S : IsBulk(r)})
<1>1. ASSUME NEW U \in SUBSET Rows
      PROVE  IsFiniteSet(JobsOf(U)) /\ Cardinality(JobsOf(U)) = Cardinality(U)
  <2> DEFINE job(r) == [row |-> r, age |-> 0, attempts |-> row[r].attempts, throttles |-> row[r].throttles]
             f == [r \in U |-> job(r)]
  <2>1. \A r \in U : f[r] \in JobsOf(U) /\ f[r].row = r
    BY DEF JobsOf
  <2>2. \A t \in JobsOf(U) : \E r \in U : f[r] = t
    BY DEF JobsOf
  <2>3. f \in [U -> JobsOf(U)]
    BY <2>1
  <2>4. \A r, s \in U : f[r] = f[s] => r = s
    BY <2>1
  <2>5. IsFiniteSet(U)
    BY RowsAreFinite
  <2> HIDE DEF f
  <2> QED
    BY <2>2, <2>3, <2>4, <2>5, SameSize
<1>2. Bulk(JobsOf(S)) = JobsOf({r \in S : IsBulk(r)})
  BY DEF Bulk, JobsOf
<1> QED
  BY <1>1, <1>2

\* Jobs grown a tick older are as many, and the bulk ones too.
LEMMA OlderCounted ==
  ASSUME NEW C \in SUBSET Job, IsFiniteSet(C)
  PROVE  LET D == {Older(j) : j \in C} IN
         /\ IsFiniteSet(D) /\ Cardinality(D) = Cardinality(C)
         /\ Cardinality(Bulk(D)) = Cardinality(Bulk(C))
<1>1. \A j \in Job : Older(j).row = j.row
  BY DEF Older, Job
<1>2. \A i, j \in Job : Older(i) = Older(j) => i = j
  <2> SUFFICES ASSUME NEW i \in Job, NEW j \in Job, Older(i) = Older(j) PROVE i = j
    OBVIOUS
  <2>1. i.age \in Int /\ j.age \in Int
    BY QueueAssumption DEF Job
  <2>2. i.row = j.row /\ i.attempts = j.attempts /\ i.throttles = j.throttles /\ i.age + 1 = j.age + 1
    BY DEF Older, Job
  <2>3. i.age = j.age
    BY <2>1, <2>2
  <2> QED
    BY <2>2, <2>3 DEF Job
<1>3. ASSUME NEW B \in SUBSET C
      PROVE  LET D == {Older(j) : j \in B} IN IsFiniteSet(D) /\ Cardinality(D) = Cardinality(B)
  <2> DEFINE D == {Older(j) : j \in B}
             f == [j \in B |-> Older(j)]
  <2>1. f \in [B -> D] /\ (\A t \in D : \E j \in B : f[j] = t)
    OBVIOUS
  <2>2. \A i, j \in B : f[i] = f[j] => i = j
    BY <1>2
  <2>3. IsFiniteSet(B)
    BY FS_Subset
  <2> HIDE DEF f, D
  <2>4. IsFiniteSet(D) /\ Cardinality(D) = Cardinality(B)
    BY <2>1, <2>2, <2>3, SameSize
  <2> QED
    BY <2>4 DEF D
<1>4. Bulk({Older(j) : j \in C}) = {Older(j) : j \in Bulk(C)} /\ Bulk(C) \in SUBSET C
  BY <1>1 DEF Bulk
<1> QED
  BY <1>3, <1>4

\* What a step does not touch of a process keeps its counters right.
LEMMA CountsUntouched ==
  ASSUME CountersInv, NEW q \in Procs,
         chan'[q] = chan[q], Busy(q)' = Busy(q), BulkBusy(q)' = BulkBusy(q),
         taken'[q] = taken[q], takenBulk'[q] = takenBulk[q], disp'[q] = disp[q],
         Running(q)' => Running(q), phase'[q] = "new" => phase[q] = "new"
  PROVE  /\ IsFiniteSet(chan'[q])
         /\ phase'[q] = "new" => taken'[q] = 0 /\ takenBulk'[q] = 0 /\ disp'[q].pc = "done"
         /\ Running(q)' => CountsOf(q)'
<1>1. IsFiniteSet(chan[q]) /\ (Running(q) => CountsOf(q))
      /\ (phase[q] = "new" => taken[q] = 0 /\ takenBulk[q] = 0 /\ disp[q].pc = "done")
  BY DEF CountersInv
<1>2. Bulk(chan[q])' = Bulk(chan[q])
  BY DEF Bulk
<1> QED
  BY <1>1, <1>2 DEF CountsOf

\* A step of one process is about that process alone.
LEMMA OthersKeepCounts ==
  ASSUME CountersInv, NEW p \in Procs,
         \A q \in Procs \ {p} : /\ chan'[q] = chan[q] /\ worker'[q] = worker[q] /\ phase'[q] = phase[q]
                                /\ taken'[q] = taken[q] /\ takenBulk'[q] = takenBulk[q] /\ disp'[q] = disp[q],
         IsFiniteSet(chan'[p]), phase'[p] # "new", Running(p)' => CountsOf(p)'
  PROVE  CountersInv'
<1>1. ASSUME NEW q \in Procs, q # p
      PROVE  /\ IsFiniteSet(chan'[q])
             /\ phase'[q] = "new" => taken'[q] = 0 /\ takenBulk'[q] = 0 /\ disp'[q].pc = "done"
             /\ Running(q)' => CountsOf(q)'
  <2>1. Busy(q)' = Busy(q) /\ BulkBusy(q)' = BulkBusy(q)
    BY <1>1 DEF Busy, BulkBusy
  <2>2. Running(q)' <=> Running(q)
    BY <1>1 DEF Running, Stopping
  <2> QED
    BY <1>1, <2>1, <2>2, CountsUntouched
<1> QED
  BY <1>1 DEF CountersInv

\* A job given back from the channel, or lost from it, leaves both counts.
LEMMA ReleaseCounted ==
  ASSUME TypeOK, CountersInv, NEW p \in Procs, Running(p), NEW j \in chan[p], Untake(p, j),
         chan' = [chan EXCEPT ![p] = @ \ {j}], UNCHANGED <<worker, phase, disp>>
  PROVE  CountersInv'
<1>1. CountsOf(p) /\ IsFiniteSet(chan[p])
  BY DEF CountersInv
<1>2. chan'[p] = chan[p] \ {j} /\ \A q \in Procs \ {p} : chan'[q] = chan[q]
  BY DEF TypeOK
<1>3. /\ taken'[p] = taken[p] - 1 /\ takenBulk'[p] = takenBulk[p] - (IF IsBulk(j.row) THEN 1 ELSE 0)
      /\ \A q \in Procs \ {p} : taken'[q] = taken[q] /\ takenBulk'[q] = takenBulk[q]
      /\ taken[p] \in Int /\ takenBulk[p] \in Int
  BY DEF Untake, TypeOK
<1>4. Bulk(chan'[p]) = Bulk(chan[p]) \ {j} /\ (j \in Bulk(chan[p]) <=> IsBulk(j.row))
  BY <1>2 DEF Bulk
<1>5. /\ IsFiniteSet(Bulk(chan[p])) /\ Cardinality(chan[p]) \in Nat /\ Cardinality(Bulk(chan[p])) \in Nat
      /\ Cardinality(Busy(p)) \in Nat /\ Cardinality(BulkBusy(p)) \in Nat
  BY <1>1, HandsAreFinite
<1>6. IsFiniteSet(chan'[p]) /\ Cardinality(chan'[p]) = Cardinality(chan[p]) - 1
  <2>1. j \in chan[p] /\ chan'[p] = chan[p] \ {j}
    BY <1>2
  <2>2. IsFiniteSet(chan[p] \ {j}) /\ Cardinality(chan[p] \ {j}) = Cardinality(chan[p]) - 1
    BY <1>1, <2>1, FS_RemoveElement
  <2> QED
    BY <2>1, <2>2, Zenon
<1>7. Cardinality(Bulk(chan'[p])) = Cardinality(Bulk(chan[p])) - (IF IsBulk(j.row) THEN 1 ELSE 0)
  <2>1. Cardinality(Bulk(chan[p]) \ {j}) = IF j \in Bulk(chan[p]) THEN Cardinality(Bulk(chan[p])) - 1
                                           ELSE Cardinality(Bulk(chan[p]))
    BY <1>5, FS_RemoveElement
  <2> QED
    BY <1>4, <1>5, <2>1
<1>8. Busy(p)' = Busy(p) /\ BulkBusy(p)' = BulkBusy(p) /\ Bulk(chan[p])' = Bulk(chan'[p])
  BY DEF Busy, BulkBusy, Bulk
<1>9. Cardinality(Workers) \in Nat /\ BulkSlots \in Nat
  BY WorkersAreFinite, QueueAssumption
<1>10. CountsOf(p)'
  <2>1. taken'[p] = Cardinality(chan'[p]) + Cardinality(Busy(p)) /\ taken'[p] <= Cardinality(Workers)
    BY <1>1, <1>3, <1>5, <1>6, <1>9 DEF CountsOf
  <2>2. takenBulk'[p] = Cardinality(Bulk(chan'[p])) + Cardinality(BulkBusy(p)) /\ takenBulk'[p] <= BulkSlots
    BY <1>1, <1>3, <1>5, <1>7, <1>9 DEF CountsOf
  <2>3. disp[p].pc \in {"system", "bulk"} =>
          disp[p].room \in Nat /\ disp[p].room <= Cardinality(Workers) - taken'[p]
    BY <1>1, <1>3, <1>9 DEF CountsOf
  <2> QED
    BY <1>8, <2>1, <2>2, <2>3 DEF CountsOf
<1>11. phase'[p] # "new"
  BY DEF Running, Stopping, StopPhases
<1> QED
  BY <1>2, <1>3, <1>6, <1>10, <1>11, OthersKeepCounts

\* A worker that ended its send leaves both counts.
LEMMA EndedCounted ==
  ASSUME TypeOK, CountersInv, NEW p \in Procs, Running(p), NEW w \in Busy(p),
         NEW j, j = worker[p][w].job, Untake(p, j),
         worker' = [worker EXCEPT ![p][w] = IdleWorker], UNCHANGED <<chan, phase, disp>>
  PROVE  CountersInv'
<1>1. CountsOf(p) /\ IsFiniteSet(chan[p]) /\ w \in Workers
  BY DEF CountersInv, Busy
<1>2. /\ \A v \in Workers : worker'[p][v] = IF v = w THEN IdleWorker ELSE worker[p][v]
      /\ \A q \in Procs \ {p} : worker'[q] = worker[q]
  BY <1>1 DEF TypeOK
<1>3. /\ taken'[p] = taken[p] - 1 /\ takenBulk'[p] = takenBulk[p] - (IF IsBulk(j.row) THEN 1 ELSE 0)
      /\ \A q \in Procs \ {p} : taken'[q] = taken[q] /\ takenBulk'[q] = takenBulk[q]
      /\ taken[p] \in Int /\ takenBulk[p] \in Int
  BY DEF Untake, TypeOK
<1>4. Busy(p)' = Busy(p) \ {w} /\ BulkBusy(p)' = BulkBusy(p) \ {w} /\ (w \in BulkBusy(p) <=> IsBulk(j.row))
  BY <1>2 DEF Busy, BulkBusy, IdleWorker
<1>5. /\ IsFiniteSet(Busy(p)) /\ IsFiniteSet(BulkBusy(p)) /\ Cardinality(chan[p]) \in Nat
      /\ Cardinality(Bulk(chan[p])) \in Nat /\ Cardinality(Busy(p)) \in Nat /\ Cardinality(BulkBusy(p)) \in Nat
  BY <1>1, HandsAreFinite
<1>6. Cardinality(Busy(p) \ {w}) = Cardinality(Busy(p)) - 1
  BY <1>5, FS_RemoveElement
<1>7. Cardinality(BulkBusy(p) \ {w}) = Cardinality(BulkBusy(p)) - (IF IsBulk(j.row) THEN 1 ELSE 0)
  <2>1. Cardinality(BulkBusy(p) \ {w}) = IF w \in BulkBusy(p) THEN Cardinality(BulkBusy(p)) - 1
                                         ELSE Cardinality(BulkBusy(p))
    BY <1>5, FS_RemoveElement
  <2> QED
    BY <1>4, <1>5, <2>1
<1>8. Cardinality(Workers) \in Nat /\ BulkSlots \in Nat
  BY WorkersAreFinite, QueueAssumption
<1>9. CountsOf(p)'
  <2>1. taken'[p] = Cardinality(chan[p]) + Cardinality(Busy(p) \ {w}) /\ taken'[p] <= Cardinality(Workers)
    BY <1>1, <1>3, <1>5, <1>6, <1>8 DEF CountsOf
  <2>2. /\ takenBulk'[p] = Cardinality(Bulk(chan[p])) + Cardinality(BulkBusy(p) \ {w})
        /\ takenBulk'[p] <= BulkSlots
    BY <1>1, <1>3, <1>5, <1>7, <1>8 DEF CountsOf
  <2>3. disp[p].pc \in {"system", "bulk"} =>
          disp[p].room \in Nat /\ disp[p].room <= Cardinality(Workers) - taken'[p]
    BY <1>1, <1>3, <1>8 DEF CountsOf
  <2>4. Bulk(chan[p])' = Bulk(chan[p])
    BY DEF Bulk
  <2> QED
    BY <1>4, <2>1, <2>2, <2>3, <2>4 DEF CountsOf
<1>10. phase'[p] # "new"
  BY DEF Running, Stopping, StopPhases
<1> QED
  BY <1>1, <1>2, <1>3, <1>9, <1>10, OthersKeepCounts

\* A picked job goes from the channel to its worker, and counts as before.
LEMMA PickCounted ==
  ASSUME TypeOK, CountersInv, NEW p \in Procs, NEW w \in Workers, NEW j \in chan[p], Pick(p, w, j)
  PROVE  CountersInv'
<1>1. Running(p) /\ phase'[p] # "new" /\ w \notin Busy(p)
  BY DEF Pick, Running, Busy
<1>2. CountsOf(p) /\ IsFiniteSet(chan[p])
  BY <1>1 DEF CountersInv
<1>3. /\ chan'[p] = chan[p] \ {j} /\ worker'[p][w].pc = "sending" /\ worker'[p][w].job = j
      /\ \A v \in Workers \ {w} : worker'[p][v] = worker[p][v]
      /\ \A q \in Procs \ {p} : chan'[q] = chan[q] /\ worker'[q] = worker[q]
  BY DEF Pick, TypeOK
<1>4. UNCHANGED <<phase, disp, taken, takenBulk>>
  BY DEF Pick
<1>5. /\ Bulk(chan'[p]) = Bulk(chan[p]) \ {j} /\ (j \in Bulk(chan[p]) <=> IsBulk(j.row))
  BY <1>3 DEF Bulk
<1>6. Busy(p)' = Busy(p) \cup {w}
  BY <1>3 DEF Busy
<1>7. BulkBusy(p)' = IF IsBulk(j.row) THEN BulkBusy(p) \cup {w} ELSE BulkBusy(p)
  <2>1. BulkBusy(p)' = {v \in Busy(p) \cup {w} : IsBulk(worker'[p][v].job.row)}
    BY <1>6 DEF BulkBusy
  <2>2. \A v \in Busy(p) : worker'[p][v] = worker[p][v]
    BY <1>1, <1>3 DEF Busy
  <2> QED
    BY <1>3, <2>1, <2>2 DEF BulkBusy
<1>8. /\ IsFiniteSet(Bulk(chan[p])) /\ IsFiniteSet(Busy(p)) /\ IsFiniteSet(BulkBusy(p))
      /\ Cardinality(chan[p]) \in Nat /\ Cardinality(Bulk(chan[p])) \in Nat
      /\ Cardinality(Busy(p)) \in Nat /\ Cardinality(BulkBusy(p)) \in Nat
  BY <1>2, HandsAreFinite
<1>9. IsFiniteSet(chan'[p]) /\ Cardinality(chan'[p]) = Cardinality(chan[p]) - 1
  <2>1. IsFiniteSet(chan[p] \ {j}) /\ Cardinality(chan[p] \ {j}) = Cardinality(chan[p]) - 1
    BY <1>2, FS_RemoveElement
  <2> QED
    BY <1>3, <2>1
<1>10. Cardinality(Busy(p)') = Cardinality(Busy(p)) + 1
  <2>1. Cardinality(Busy(p) \cup {w}) = Cardinality(Busy(p)) + 1
    BY <1>1, <1>8, FS_AddElement
  <2> QED
    BY <1>6, <2>1, Zenon
<1>11. Cardinality(Bulk(chan'[p])) + Cardinality(BulkBusy(p)') = Cardinality(Bulk(chan[p])) + Cardinality(BulkBusy(p))
  <2>1. CASE IsBulk(j.row)
    <3>1. w \notin BulkBusy(p)
      BY <1>1 DEF BulkBusy
    <3>2. Cardinality(BulkBusy(p)') = Cardinality(BulkBusy(p)) + 1
      <4>1. Cardinality(BulkBusy(p) \cup {w}) = Cardinality(BulkBusy(p)) + 1
        BY <1>8, <3>1, FS_AddElement
      <4>2. BulkBusy(p)' = BulkBusy(p) \cup {w}
        BY <1>7, <2>1, Zenon
      <4> QED
        BY <4>1, <4>2, Zenon
    <3>3. Cardinality(Bulk(chan'[p])) = Cardinality(Bulk(chan[p])) - 1
      <4>1. j \in Bulk(chan[p])
        BY <1>5, <2>1, Zenon
      <4>2. Cardinality(Bulk(chan[p]) \ {j}) = Cardinality(Bulk(chan[p])) - 1
        BY <1>8, <4>1, FS_RemoveElement
      <4> QED
        BY <1>5, <4>2, Zenon
    <3> QED
      BY <1>8, <3>2, <3>3
  <2>2. CASE ~IsBulk(j.row)
    <3>1. Bulk(chan'[p]) = Bulk(chan[p])
      BY <1>5, <2>2
    <3> QED
      BY <1>7, <2>2, <3>1
  <2> QED
    BY <2>1, <2>2
<1>12. CountsOf(p)'
  <2>1. taken[p] = Cardinality(chan'[p]) + Cardinality(Busy(p)')
    BY <1>2, <1>8, <1>9, <1>10 DEF CountsOf
  <2>2. Bulk(chan[p])' = Bulk(chan'[p])
    BY DEF Bulk
  <2> QED
    BY <1>2, <1>4, <1>11, <2>1, <2>2 DEF CountsOf
<1> QED
  BY <1>1, <1>3, <1>4, <1>9, <1>12, OthersKeepCounts

\* A take's jobs are new to the channel, and no more than the room there is.
LEMMA TakeCounted ==
  ASSUME IInv, CountersInv, NEW p \in Procs, Running(p), NEW lane \in SUBSET Rows, NEW n \in Nat,
         NEW S \in Takes(lane, n), NEW answered \in BOOLEAN, TakeRows(p, S, answered),
         n <= Cardinality(Workers) - taken[p],
         n <= BulkSlots - takenBulk[p] \/ lane = SystemRows,
         UNCHANGED <<worker, phase>>, \A q \in Procs \ {p} : disp'[q] = disp[q],
         disp'[p].pc \in {"system", "bulk"} =>
           disp'[p].room \in Nat /\ disp'[p].room <= Cardinality(Workers) - taken'[p]
  PROVE  CountersInv'
<1> USE DEF IInv
<1>1. CountsOf(p) /\ IsFiniteSet(chan[p])
  BY DEF CountersInv
<1>2. phase'[p] # "new"
  BY DEF Running, Stopping, StopPhases
<1>3. Busy(p)' = Busy(p) /\ BulkBusy(p)' = BulkBusy(p)
  BY DEF Busy, BulkBusy
<1>4. /\ S \in SUBSET Rows /\ \A r \in S : r \in lane /\ row[r].status = "pending"
  BY DEF Takes, Due
<1>5. Cardinality(S) \in Nat /\ Cardinality(S) <= n
  <2>1. Cardinality(S) = Least(n, Cardinality({r \in lane : Due(r)})) /\ {r \in lane : Due(r)} \in SUBSET Rows
    BY DEF Takes
  <2>2. Cardinality({r \in lane : Due(r)}) \in Nat /\ Cardinality(S) \in Nat
    BY <1>4, <2>1, RowsAreFinite
  <2> QED
    BY <2>1, <2>2 DEF Least
<1> DEFINE bulk == {r \in S : IsBulk(r)}
<1>6. Cardinality(bulk) \in Nat /\ Cardinality(bulk) <= Cardinality(S)
  BY <1>4, RowsAreFinite, FS_Subset
<1>7. lane = SystemRows => Cardinality(bulk) = 0
  <2>1. lane = SystemRows => bulk = {}
    BY <1>4 DEF IsBulk
  <2> QED
    BY <2>1, FS_EmptySet
<1>8. /\ taken[p] \in Int /\ takenBulk[p] \in Int /\ Cardinality(Workers) \in Nat /\ BulkSlots \in Nat
      /\ Cardinality(chan[p]) \in Nat /\ Cardinality(Bulk(chan[p])) \in Nat /\ IsFiniteSet(Bulk(chan[p]))
      /\ Cardinality(Busy(p)) \in Nat /\ Cardinality(BulkBusy(p)) \in Nat
  BY <1>1, HandsAreFinite, WorkersAreFinite, QueueAssumption DEF TypeOK
<1> HIDE DEF bulk
<1>9. CASE answered
  <2>1. /\ chan'[p] = chan[p] \cup JobsOf(S)
        /\ taken'[p] = taken[p] + Cardinality(S) /\ takenBulk'[p] = takenBulk[p] + Cardinality(bulk)
        /\ \A q \in Procs \ {p} : chan'[q] = chan[q] /\ taken'[q] = taken[q] /\ takenBulk'[q] = takenBulk[q]
    BY <1>9 DEF TakeRows, TypeOK, bulk
  <2>2. chan[p] \cap JobsOf(S) = {}
    <3> SUFFICES ASSUME NEW j \in chan[p], j \in JobsOf(S) PROVE FALSE
      OBVIOUS
    <3>1. PICK r \in S : j = [row |-> r, age |-> 0, attempts |-> row[r].attempts, throttles |-> row[r].throttles]
      BY DEF JobsOf
    <3>2. j.age <= Lease /\ j \in Held(p)
      BY <3>1, QueueAssumption DEF Held
    <3>3. Fenced(p, j)
      BY <3>2 DEF ClaimsAreExclusive
    <3> QED
      BY <1>4, <3>1, <3>3 DEF Fenced
  <2>3. /\ IsFiniteSet(JobsOf(S)) /\ Cardinality(JobsOf(S)) = Cardinality(S)
        /\ IsFiniteSet(Bulk(JobsOf(S))) /\ Cardinality(Bulk(JobsOf(S))) = Cardinality(bulk)
    BY <1>4, JobsCounted DEF bulk
  <2>4. IsFiniteSet(chan'[p]) /\ Cardinality(chan'[p]) = Cardinality(chan[p]) + Cardinality(S)
    <3>1. /\ IsFiniteSet(chan[p] \cup JobsOf(S))
          /\ Cardinality(chan[p] \cup JobsOf(S)) =
               Cardinality(chan[p]) + Cardinality(JobsOf(S)) - Cardinality(chan[p] \cap JobsOf(S))
      BY <1>1, <2>3, FS_Union
    <3> QED
      BY <1>5, <1>8, <2>1, <2>2, <2>3, <3>1, FS_EmptySet, SMTT(20)
  <2>5. Cardinality(Bulk(chan'[p])) = Cardinality(Bulk(chan[p])) + Cardinality(bulk)
    <3>1. /\ Bulk(chan'[p]) = Bulk(chan[p]) \cup Bulk(JobsOf(S))
          /\ Bulk(chan[p]) \cap Bulk(JobsOf(S)) = {}
      BY <2>1, <2>2 DEF Bulk
    <3>2. Cardinality(Bulk(chan[p]) \cup Bulk(JobsOf(S))) =
            Cardinality(Bulk(chan[p])) + Cardinality(Bulk(JobsOf(S))) - Cardinality(Bulk(chan[p]) \cap Bulk(JobsOf(S)))
      BY <1>8, <2>3, FS_Union
    <3>3. Cardinality(Bulk(chan[p]) \cap Bulk(JobsOf(S))) = 0
      BY <3>1, FS_EmptySet
    <3>4. Cardinality(Bulk(chan'[p])) = Cardinality(Bulk(chan[p]) \cup Bulk(JobsOf(S)))
      BY <3>1
    <3> QED
      BY <1>6, <1>8, <2>3, <3>2, <3>3, <3>4
  <2>6. CountsOf(p)'
    <3>1. taken'[p] = Cardinality(chan'[p]) + Cardinality(Busy(p)) /\ taken'[p] <= Cardinality(Workers)
      BY <1>1, <1>5, <1>8, <2>1, <2>4 DEF CountsOf
    <3>2. /\ takenBulk'[p] = Cardinality(Bulk(chan'[p])) + Cardinality(BulkBusy(p))
          /\ takenBulk'[p] <= BulkSlots
      BY <1>1, <1>5, <1>6, <1>7, <1>8, <2>1, <2>5 DEF CountsOf
    <3>3. Bulk(chan[p])' = Bulk(chan'[p])
      BY DEF Bulk
    <3> QED
      BY <1>3, <3>1, <3>2, <3>3 DEF CountsOf
  <2> QED
    BY <1>2, <2>1, <2>4, <2>6, OthersKeepCounts
<1>10. CASE ~answered
  <2>1. UNCHANGED <<chan, taken, takenBulk>>
    BY <1>10 DEF TakeRows
  <2>2. CountsOf(p)'
    <3>1. Bulk(chan[p])' = Bulk(chan[p])
      BY <2>1 DEF Bulk
    <3> QED
      BY <1>1, <1>3, <2>1, <3>1 DEF CountsOf
  <2> QED
    BY <1>1, <1>2, <2>1, <2>2, OthersKeepCounts
<1> QED
  BY <1>9, <1>10

\* A turn's take of the system lane has the room the idle workers leave.
LEMMA SystemTakeCounted ==
  ASSUME IInv, CountersInv, NEW p \in Procs, TakeSystem(p)
  PROVE  CountersInv'
<1>1. PICK S \in Takes(SystemRows, disp[p].room), answered \in BOOLEAN :
        /\ TakeRows(p, S, answered)
        /\ disp' = [disp EXCEPT ![p] =
             [pc |-> "bulk", room |-> disp[p].room - (IF answered THEN Cardinality(S) ELSE 0)]]
  BY DEF TakeSystem
<1>2. Running(p) /\ disp[p].pc = "system" /\ UNCHANGED <<worker, phase>>
  BY DEF TakeSystem
<1>3. /\ disp[p].room \in Nat /\ disp[p].room <= Cardinality(Workers) - taken[p]
      /\ taken[p] \in Int /\ Cardinality(Workers) \in Nat /\ SystemRows \in SUBSET Rows
  BY <1>2, WorkersAreFinite, QueueAssumption DEF CountersInv, CountsOf, IInv, TypeOK
<1>4. Cardinality(S) \in Nat /\ Cardinality(S) <= disp[p].room
  <2>1. /\ Cardinality(S) = Least(disp[p].room, Cardinality({r \in SystemRows : Due(r)}))
        /\ {r \in SystemRows : Due(r)} \in SUBSET Rows
    BY <1>3 DEF Takes
  <2>2. Cardinality({r \in SystemRows : Due(r)}) \in Nat
    BY <2>1, RowsAreFinite
  <2> QED
    BY <1>3, <2>1, <2>2 DEF Least
<1>5. /\ disp'[p].room = disp[p].room - (IF answered THEN Cardinality(S) ELSE 0)
      /\ \A q \in Procs \ {p} : disp'[q] = disp[q]
  BY <1>1 DEF IInv, TypeOK
<1>6. taken'[p] = taken[p] + (IF answered THEN Cardinality(S) ELSE 0)
  BY <1>1, <1>3 DEF TakeRows, IInv, TypeOK
<1>7. disp'[p].room \in Nat /\ disp'[p].room <= Cardinality(Workers) - taken'[p]
  BY <1>3, <1>4, <1>5, <1>6
<1> QED
  BY <1>1, <1>2, <1>3, <1>5, <1>7, TakeCounted

\* And its take of the bulk lane has no more than the bulk slots leave.
LEMMA BulkTakeCounted ==
  ASSUME IInv, CountersInv, NEW p \in Procs, TakeBulk(p)
  PROVE  CountersInv'
<1> DEFINE room == Least(disp[p].room, BulkSlots - takenBulk[p])
           most == IF room > 0 /\ ~LaneIsHeld THEN room ELSE 0
<1>1. PICK n \in (IF Budgeted THEN 0..most ELSE {most}) :
        \E S \in Takes(Rows \ SystemRows, n), answered \in BOOLEAN : TakeRows(p, S, answered)
  BY DEF TakeBulk
<1>2. PICK S \in Takes(Rows \ SystemRows, n), answered \in BOOLEAN : TakeRows(p, S, answered)
  BY <1>1
<1>3. /\ Running(p) /\ disp[p].pc = "bulk" /\ UNCHANGED <<worker, phase>>
      /\ disp' = [disp EXCEPT ![p] = [pc |-> "waiting", room |-> 0]]
  BY DEF TakeBulk
<1>4. /\ disp[p].room \in Nat /\ disp[p].room <= Cardinality(Workers) - taken[p]
      /\ takenBulk[p] <= BulkSlots /\ taken[p] \in Int /\ takenBulk[p] \in Int
      /\ Cardinality(Workers) \in Nat /\ BulkSlots \in Nat
  BY <1>3, WorkersAreFinite, QueueAssumption DEF CountersInv, CountsOf, IInv, TypeOK
<1>5. room \in Int /\ room <= disp[p].room /\ room <= BulkSlots - takenBulk[p]
  BY <1>4 DEF Least
<1>6. most \in Nat /\ most <= disp[p].room /\ most <= BulkSlots - takenBulk[p]
  BY <1>4, <1>5
<1>7. n \in Nat /\ n <= most
  BY <1>1, <1>6, QueueAssumption
<1> HIDE DEF room, most
<1>8. n <= Cardinality(Workers) - taken[p] /\ n <= BulkSlots - takenBulk[p]
  BY <1>4, <1>6, <1>7
<1>9. disp'[p].pc = "waiting" /\ \A q \in Procs \ {p} : disp'[q] = disp[q]
  BY <1>3 DEF IInv, TypeOK
<1> QED
  BY <1>2, <1>3, <1>7, <1>8, <1>9, TakeCounted

\* A tick ages what is counted.
LEMMA TickCounted ==
  ASSUME IInv, CountersInv, Tick
  PROVE  CountersInv'
<1> USE DEF IInv
<1>1. ASSUME NEW q \in Procs
      PROVE  /\ IsFiniteSet(chan'[q])
             /\ phase'[q] = "new" => taken'[q] = 0 /\ takenBulk'[q] = 0 /\ disp'[q].pc = "done"
             /\ Running(q)' => CountsOf(q)'
  <2>1. /\ IsFiniteSet(chan[q]) /\ chan[q] \in SUBSET Job /\ chan'[q] = {Older(j) : j \in chan[q]}
        /\ UNCHANGED <<phase, disp, taken, takenBulk>>
    BY HeldJobs DEF Tick, CountersInv
  <2>2. /\ IsFiniteSet(chan'[q]) /\ Cardinality(chan'[q]) = Cardinality(chan[q])
        /\ Cardinality(Bulk(chan'[q])) = Cardinality(Bulk(chan[q]))
    BY <2>1, OlderCounted
  <2>3. ASSUME NEW w \in Workers
        PROVE  /\ w \in Busy(q)' <=> w \in Busy(q)
               /\ w \in Busy(q) => worker'[q][w].job.row = worker[q][w].job.row
    <3>1. worker[q][w] \in WorkerState
      BY DEF TypeOK
    <3>2. worker'[q][w] = IF w \in Busy(q)
                          THEN [worker[q][w] EXCEPT !.job = Older(worker[q][w].job)]
                          ELSE worker[q][w]
      BY DEF Tick
    <3>3. w \in Busy(q) => worker[q][w].job \in Job
      BY HeldJobs
    <3>4. w \in Busy(q) => Older(worker[q][w].job).row = worker[q][w].job.row
      BY <3>3 DEF Older, Job
    <3>5. /\ worker'[q][w].pc = worker[q][w].pc
          /\ w \in Busy(q) => worker'[q][w].job = Older(worker[q][w].job)
      BY <3>1, <3>2 DEF WorkerState
    <3> QED
      BY <3>4, <3>5 DEF Busy
  <2>4. Busy(q) \subseteq Workers /\ Busy(q)' \subseteq Workers
    BY DEF Busy
  <2>5. Busy(q)' = Busy(q)
    BY <2>3, <2>4
  <2>6. BulkBusy(q)' = BulkBusy(q)
    BY <2>3, <2>4, <2>5 DEF BulkBusy
  <2>7. Running(q)' <=> Running(q)
    BY <2>1 DEF Running, Stopping
  <2>8. Bulk(chan[q])' = Bulk(chan'[q])
    BY DEF Bulk
  <2>9. Running(q)' => CountsOf(q)'
    BY <2>1, <2>2, <2>5, <2>6, <2>7, <2>8 DEF CountersInv, CountsOf
  <2> QED
    BY <2>1, <2>2, <2>9 DEF CountersInv
<1> QED
  BY <1>1 DEF CountersInv

\* A process starts with empty hands.
LEMMA StartCounted ==
  ASSUME IInv, CountersInv, NEW p \in Procs, Start(p)
  PROVE  CountersInv'
<1> USE DEF IInv
<1>1. /\ UNCHANGED <<chan, taken, takenBulk>> /\ phase'[p] = "up" /\ phase[p] = "new"
      /\ disp'[p].pc = "waiting" /\ \A w \in Workers : worker'[p][w] = IdleWorker
      /\ \A q \in Procs \ {p} : disp'[q] = disp[q] /\ worker'[q] = worker[q] /\ phase'[q] = phase[q]
  BY DEF Start, TypeOK
<1>2. chan[p] = {} /\ taken[p] = 0 /\ takenBulk[p] = 0
  BY <1>1 DEF CountersInv, NewHoldsNothing
<1>3. Busy(p)' = {} /\ BulkBusy(p)' = {} /\ Bulk(chan[p])' = {}
  BY <1>1, <1>2 DEF Busy, BulkBusy, Bulk, IdleWorker
<1>4. Cardinality({}) = 0 /\ IsFiniteSet({}) /\ Cardinality(Workers) \in Nat /\ BulkSlots \in Nat
  BY FS_EmptySet, WorkersAreFinite, QueueAssumption
<1>5. CountsOf(p)'
  <2>1. /\ Cardinality(chan'[p]) = 0 /\ Cardinality(Busy(p)') = 0
        /\ Cardinality(Bulk(chan[p])') = 0 /\ Cardinality(BulkBusy(p)') = 0
    BY <1>1, <1>2, <1>3, <1>4
  <2>2. taken'[p] = 0 /\ takenBulk'[p] = 0
    BY <1>1, <1>2
  <2> QED
    BY <1>1, <1>4, <2>1, <2>2 DEF CountsOf
<1> QED
  BY <1>1, <1>2, <1>4, <1>5, OthersKeepCounts

\* A turn counts on no more workers than are idle.
LEMMA TurnCounted ==
  ASSUME IInv, CountersInv, NEW p \in Procs, BeginTurn(p)
  PROVE  CountersInv'
<1> DEFINE idle == Cardinality(Workers) - taken[p]
<1>1. UNCHANGED <<phase, chan, worker, taken, takenBulk>> /\ phase[p] = "up" /\ idle > 0
      /\ disp' = [disp EXCEPT ![p] = [pc |-> "system", room |-> idle]]
  BY DEF BeginTurn
<1>2. disp'[p].room = idle /\ \A q \in Procs \ {p} : disp'[q] = disp[q]
  BY <1>1 DEF IInv, TypeOK
<1>3. Cardinality(Workers) \in Nat /\ taken[p] \in Int
  BY WorkersAreFinite DEF IInv, TypeOK
<1>4. idle \in Nat /\ idle <= Cardinality(Workers) - taken[p]
  BY <1>1, <1>3
<1>5. Running(p) /\ phase'[p] # "new"
  BY <1>1 DEF Running
<1>6. Busy(p)' = Busy(p) /\ BulkBusy(p)' = BulkBusy(p) /\ Bulk(chan[p])' = Bulk(chan[p])
  BY <1>1 DEF Busy, BulkBusy, Bulk
<1>7. CountsOf(p) /\ IsFiniteSet(chan[p])
  BY <1>5 DEF CountersInv
<1> HIDE DEF idle
<1>8. CountsOf(p)'
  <2>1. disp'[p].room \in Nat /\ disp'[p].room <= Cardinality(Workers) - taken'[p]
    BY <1>1, <1>2, <1>4
  <2> QED
    BY <1>1, <1>6, <1>7, <2>1 DEF CountsOf
<1> QED
  BY <1>1, <1>2, <1>5, <1>7, <1>8, OthersKeepCounts

\* A worker's step moves its job, ends it, or touches no count.
LEMMA WorkerCounted ==
  ASSUME IInv, CountersInv, NEW p \in Procs, NEW w \in Workers, WorkerStep(p, w)
  PROVE  CountersInv'
<1> USE DEF IInv
<1>1. ASSUME UNCHANGED <<chan, phase, disp, taken, takenBulk>>,
             \A q \in Procs, v \in Workers :
               /\ v \in Busy(q)' <=> v \in Busy(q)
               /\ worker'[q][v].job = worker[q][v].job
      PROVE  CountersInv'
  <2>1. ASSUME NEW q \in Procs PROVE Busy(q)' = Busy(q) /\ BulkBusy(q)' = BulkBusy(q)
    <3>1. Busy(q) \subseteq Workers /\ Busy(q)' \subseteq Workers
      BY DEF Busy
    <3>2. Busy(q)' = Busy(q)
      BY <1>1, <3>1
    <3> QED
      BY <1>1, <3>1, <3>2 DEF BulkBusy
  <2>2. \A q \in Procs : Running(q)' <=> Running(q)
    BY <1>1 DEF Running, Stopping
  <2>3. ASSUME NEW q \in Procs
        PROVE  /\ IsFiniteSet(chan'[q])
               /\ phase'[q] = "new" => taken'[q] = 0 /\ takenBulk'[q] = 0 /\ disp'[q].pc = "done"
               /\ Running(q)' => CountsOf(q)'
    BY <1>1, <2>1, <2>2, CountsUntouched
  <2> QED
    BY <2>3 DEF CountersInv
<1>2. ASSUME NEW j \in chan[p], NEW written \in BOOLEAN, PickStopped(p, w, j, written) PROVE CountersInv'
  BY <1>2, ReleaseCounted DEF PickStopped, Release, Running
<1>3. ASSUME NEW reply \in Replies, RelayAnswers(p, w, reply) PROVE CountersInv'
  <2>1. worker[p][w] \in [pc : {"sending"}, job : Job, reply : {NoReply}]
    <3>1. worker[p][w] \in WorkerState /\ worker[p][w].pc = "sending"
      BY <1>3 DEF RelayAnswers, TypeOK
    <3> QED
      BY <3>1 DEF WorkerState
  <2>2. worker' = [worker EXCEPT ![p][w] =
                     [worker[p][w] EXCEPT !.pc = "answered", !.reply = reply]]
    BY <1>3 DEF RelayAnswers, TypeOK
  <2>3. ASSUME NEW q \in Procs, NEW v \in Workers
        PROVE  (v \in Busy(q)' <=> v \in Busy(q)) /\ worker'[q][v].job = worker[q][v].job
    BY <2>1, <2>2 DEF Busy, TypeOK
  <2> QED
    BY <1>1, <1>3, <2>3 DEF RelayAnswers
<1>4. ASSUME NEW j, j = worker[p][w].job, Running(p), worker[p][w].pc = "answered", Untake(p, j),
             worker' = [worker EXCEPT ![p][w] = IdleWorker], UNCHANGED <<chan, phase, disp>>
      PROVE  CountersInv'
  <2>1. w \in Busy(p)
    BY <1>4 DEF Busy
  <2> QED
    BY <1>4, <2>1, EndedCounted
<1>5. ASSUME NEW retryAfter \in RetryAfters, NEW holdWritten \in BOOLEAN, Record(p, w, retryAfter, holdWritten)
      PROVE  CountersInv'
  <2>1. PICK j : j = worker[p][w].job
    OBVIOUS
  <2> QED
    BY <1>4, <1>5, <2>1 DEF Record
<1>6. ASSUME NEW retryAfter \in RetryAfters, RecordFails(p, w, retryAfter) PROVE CountersInv'
  <2>1. PICK j : j = worker[p][w].job
    OBVIOUS
  <2> QED
    BY <1>4, <1>6, <2>1 DEF RecordFails
<1>7. CASE WorkerStops(p, w)
  <2>1. worker[p][w] = IdleWorker
    <3>1. worker[p][w] \in WorkerState /\ worker[p][w].pc = "idle"
      BY <1>7 DEF WorkerStops, TypeOK
    <3> QED
      BY <3>1 DEF WorkerState, IdleWorker
  <2>2. ASSUME NEW q \in Procs, NEW v \in Workers
        PROVE  (v \in Busy(q)' <=> v \in Busy(q)) /\ worker'[q][v].job = worker[q][v].job
    BY <1>7, <2>1 DEF WorkerStops, Busy, TypeOK, ExitedWorker, IdleWorker
  <2> QED
    BY <1>1, <1>7, <2>2 DEF WorkerStops
<1> QED
  BY <1>2, <1>3, <1>5, <1>6, <1>7, PickCounted DEF WorkerStep

\* A step that moves a phase, and no hand.
LEMMA PhaseCounted ==
  ASSUME CountersInv, UNCHANGED <<chan, worker, taken, takenBulk>>, NEW p \in Procs,
         \A q \in Procs \ {p} : phase'[q] = phase[q] /\ disp'[q] = disp[q],
         phase'[p] # "new", Running(p)' => Running(p),
         disp'[p] = disp[p] \/ disp'[p].pc = "done"
  PROVE  CountersInv'
<1>1. Busy(p)' = Busy(p) /\ BulkBusy(p)' = BulkBusy(p) /\ Bulk(chan[p])' = Bulk(chan[p])
  BY DEF Busy, BulkBusy, Bulk
<1>2. IsFiniteSet(chan[p]) /\ (Running(p)' => CountsOf(p)')
  BY <1>1 DEF CountersInv, CountsOf
<1> QED
  BY <1>2, OthersKeepCounts

LEMMA CountersStep ==
  ASSUME IInv, CountersInv, [Next]_vars
  PROVE  CountersInv'
<1> USE DEF IInv
<1>1. ASSUME UNCHANGED <<chan, worker, phase, disp, taken, takenBulk>> PROVE CountersInv'
  <2>1. ASSUME NEW q \in Procs
        PROVE  /\ IsFiniteSet(chan'[q])
               /\ phase'[q] = "new" => taken'[q] = 0 /\ takenBulk'[q] = 0 /\ disp'[q].pc = "done"
               /\ Running(q)' => CountsOf(q)'
    <3>1. Busy(q)' = Busy(q) /\ BulkBusy(q)' = BulkBusy(q) /\ (Running(q)' <=> Running(q))
      BY <1>1 DEF Busy, BulkBusy, Running, Stopping
    <3> QED
      BY <1>1, <3>1, CountsUntouched
  <2> QED
    BY <2>1 DEF CountersInv
<1>2. ASSUME NEW p \in Procs, NEW j \in chan[p], NEW written \in BOOLEAN, ReleaseWaiting(p, j, written)
      PROVE  CountersInv'
  <2>1. Running(p)
    BY <1>2 DEF ReleaseWaiting, Running, Stopping, StopPhases
  <2> QED
    BY <1>2, <2>1, ReleaseCounted DEF ReleaseWaiting, Release
<1>3. ASSUME NEW p \in Procs, Stop(p) \/ StopProceeds(p) PROVE CountersInv'
  <2>1. UNCHANGED <<chan, worker, disp, taken, takenBulk>>
    BY <1>3 DEF Stop, StopProceeds
  <2>2. phase'[p] # "new" /\ Running(p) /\ \A q \in Procs \ {p} : phase'[q] = phase[q]
    BY <1>3 DEF Stop, StopProceeds, TypeOK, Running, Stopping, StopPhases
  <2> QED
    BY <2>1, <2>2, PhaseCounted
<1>4. ASSUME NEW p \in Procs, DispatcherStops(p) PROVE CountersInv'
  <2>1. UNCHANGED <<chan, worker, phase, taken, takenBulk>> /\ Running(p)
    BY <1>4 DEF DispatcherStops, Running
  <2>2. disp'[p].pc = "done" /\ \A q \in Procs \ {p} : disp'[q] = disp[q]
    BY <1>4 DEF DispatcherStops, TypeOK
  <2>3. phase'[p] # "new"
    BY <2>1 DEF Running, Stopping, StopPhases
  <2> QED
    BY <2>1, <2>2, <2>3, PhaseCounted
<1>5. ASSUME NEW p \in Procs, Crash(p) PROVE CountersInv'
  <2>1. /\ phase'[p] = "gone" /\ chan'[p] = {}
        /\ \A q \in Procs \ {p} : /\ chan'[q] = chan[q] /\ worker'[q] = worker[q] /\ phase'[q] = phase[q]
                                  /\ taken'[q] = taken[q] /\ takenBulk'[q] = takenBulk[q] /\ disp'[q] = disp[q]
    BY <1>5 DEF Crash, TypeOK
  <2>2. ~Running(p)'
    BY <2>1 DEF Running, Stopping, StopPhases
  <2> QED
    BY <2>1, <2>2, FS_EmptySet, OthersKeepCounts
<1>6. ASSUME NEW r \in Rows, Enqueue(r) PROVE CountersInv'
  BY <1>1, <1>6 DEF Enqueue
<1>7. ASSUME NEW p \in Procs, Reap(p) PROVE CountersInv'
  BY <1>1, <1>7 DEF Reap
<1>8. CASE UNCHANGED vars
  BY <1>1, <1>8 DEF vars
<1> QED
  BY <1>2, <1>3, <1>4, <1>5, <1>6, <1>7, <1>8, StartCounted, TurnCounted, SystemTakeCounted,
     BulkTakeCounted, WorkerCounted, TickCounted
     DEF Next, DispatcherStep, StopStep

\* CountersMatchHands: the channel has a place for every row a turn takes, the
\* system lane's workers are never all on bulk mail, and no way a job leaves a
\* process forgets to count it.
THEOREM CountersMatch == Spec => []CountersMatchHands
<1>1. Init => CountersInv
  <2> SUFFICES ASSUME Init, NEW p \in Procs
               PROVE  /\ IsFiniteSet(chan[p]) /\ ~Running(p)
                      /\ taken[p] = 0 /\ takenBulk[p] = 0 /\ disp[p].pc = "done"
    BY DEF CountersInv
  <2> QED
    BY FS_EmptySet DEF Init, Running, Stopping, StopPhases
<1>2. IInv /\ CountersInv /\ [Next]_vars => CountersInv'
  BY CountersStep
<1>3. TypeOK /\ CountersInv => CountersMatchHands
  BY DEF CountersInv, CountsOf, CountersMatchHands, Bulk, BulkBusy
<1> QED
  BY <1>1, <1>2, <1>3, TypeCorrect, ClaimsExclusive, PTL DEF Spec, IInv

-----------------------------------------------------------------------------
(* The promise: the queue implements MailLedger. *)

\* What a row is to whoever queued its mail.
Told == [r \in Rows |-> IF row[r].status \in {"pending", "processing"}
                        THEN "queued" ELSE row[r].status]

\* A step that no one is told of.
LEMMA StepUntold ==
  ASSUME UNCHANGED <<delivered, lapsed>>, \A r \in Rows : Told'[r] = Told[r]
  PROVE  UNCHANGED Ledger!ledgerVars
<1>1. Told' = Told
  BY DEF Told
<1> QED
  BY <1>1 DEF Told, Ledger!ledgerVars

\* A step that tells of one row.
LEMMA StepTold ==
  ASSUME NEW r \in Rows, NEW v, \A q \in Rows : Told'[q] = IF q = r THEN v ELSE Told[q]
  PROVE  Told' = [Told EXCEPT ![r] = v]
BY DEF Told

\* A row is accepted, and a row ends.
LEMMA RowAccepted ==
  ASSUME NEW r \in Rows, UNCHANGED <<delivered, lapsed>>, Told[r] = "absent",
         \A q \in Rows : Told'[q] = IF q = r THEN "queued" ELSE Told[q]
  PROVE  Ledger!Accept(r)
<1>1. Told' = [Told EXCEPT ![r] = "queued"]
  BY StepTold
<1> QED
  BY <1>1 DEF Told, Ledger!Accept

LEMMA RowEnds ==
  ASSUME NEW r \in Rows, UNCHANGED <<delivered, lapsed>>, Told[r] = "queued"
  PROVE  /\ Told' = [Told EXCEPT ![r] = "sent"] /\ delivered[r] = lapsed[r] + 1
            => Ledger!Confirm(r)
         /\ Told' = [Told EXCEPT ![r] = "failed"] /\ delivered[r] = lapsed[r]
            => Ledger!GiveUp(r)
BY DEF Told, Ledger!Confirm, Ledger!GiveUp

\* Giving a job back leaves its row queued.
LEMMA ReleaseUntold ==
  ASSUME TypeOK, NEW p \in Procs, NEW j \in Job, NEW written \in BOOLEAN,
         Release(p, j, written)
  PROVE  \A r \in Rows : Told'[r] = Told[r]
<1>1. j.row \in Rows /\ row[j.row] \in RowState
  BY DEF Job, TypeOK
<1>2. Unclaimed(row[j.row]).status = "pending"
  BY <1>1, UnclaimedType
<1>3. CASE row' = [row EXCEPT ![j.row] = Unclaimed(row[j.row])] /\ Fenced(p, j)
  <2>1. ASSUME NEW r \in Rows
        PROVE  row'[r] = IF r = j.row THEN Unclaimed(row[j.row]) ELSE row[r]
    BY <1>1, <1>3 DEF TypeOK
  <2> QED
    BY <1>2, <1>3, <2>1 DEF Fenced, Told
<1>4. CASE UNCHANGED row
  BY <1>4 DEF Told
<1> QED
  BY <1>3, <1>4 DEF Release, FencedWrite

\* So does the reaper.
LEMMA ReaperUntold ==
  ASSUME TypeOK, ReclaimExpired
  PROVE  \A r \in Rows : Told'[r] = Told[r]
<1> SUFFICES ASSUME NEW r \in Rows PROVE Told'[r] = Told[r]
  OBVIOUS
<1>1. row[r] \in RowState /\ row'[r] = Reclaimed(row[r])
  BY DEF TypeOK, ReclaimExpired
<1>2. CASE row[r].status = "processing"
  <2>1. row'[r].status \in {"pending", "processing"}
    BY <1>1, <1>2, UnclaimedType DEF Reclaimed, RowState
  <2> QED
    BY <1>2, <2>1 DEF Told
<1>3. CASE row[r].status # "processing"
  BY <1>1, <1>3 DEF Reclaimed, Told
<1> QED
  BY <1>2, <1>3

\* And a take.
LEMMA TakeUntold ==
  ASSUME TypeOK, NEW p \in Procs, NEW lane \in SUBSET Rows, NEW n,
         NEW S \in Takes(lane, n), NEW answered \in BOOLEAN, TakeRows(p, S, answered)
  PROVE  \A r \in Rows : Told'[r] = Told[r]
<1> SUFFICES ASSUME NEW r \in Rows PROVE Told'[r] = Told[r]
  OBVIOUS
<1>1. row[r] \in RowState
  BY DEF TypeOK
<1>2. row'[r] = IF r \in S
                THEN [row[r] EXCEPT !.status = "processing", !.by = p, !.age = 0]
                ELSE row[r]
  BY DEF TakeRows, Claimed
<1>3. r \in S => row[r].status = "pending"
  BY TakesAreDue DEF Due
<1>4. CASE r \in S
  <2>1. row'[r].status = "processing" /\ row[r].status = "pending"
    BY <1>1, <1>2, <1>3, <1>4 DEF RowState
  <2> QED
    BY <2>1 DEF Told
<1>5. CASE r \notin S
  BY <1>2, <1>5 DEF Told
<1> QED
  BY <1>4, <1>5

\* The relay's answer is a delivery, known or not, or nothing.
LEMMA AnswerTold ==
  ASSUME IInv, MaxHold <= Lease, DuplicatesExplained, NEW p \in Procs, NEW w \in Workers,
         NEW reply \in Replies, RelayAnswers(p, w, reply)
  PROVE  [Ledger!Next]_(Ledger!ledgerVars)
<1> DEFINE s == worker[p][w].job.row
<1> USE DEF IInv
<1>1. w \in Busy(p) /\ worker[p][w].pc = "sending"
  BY DEF RelayAnswers, Busy
<1>2. s \in Rows
  BY <1>1, HeldJobs DEF Job
<1>3. row[s].status = "processing"
  BY <1>1, OneHandEach DEF Held, Fenced
<1>4. ~BeingRecorded(s)
  BY <1>1, OneHandEach DEF BeingRecorded, Busy
<1>5. delivered[s] = lapsed[s]
  BY <1>2, <1>3, <1>4 DEF DuplicatesExplained, TypeOK
<1>6. row' = row /\ Told[s] = "queued"
  BY <1>2, <1>3 DEF RelayAnswers, Told
<1>7. Told' = Told
  BY <1>6 DEF Told
<1>8. /\ delivered' = IF reply \in {"accepted", "replyLost"}
                      THEN [delivered EXCEPT ![s] = @ + 1] ELSE delivered
      /\ lapsed' = IF reply = "replyLost" THEN [lapsed EXCEPT ![s] = @ + 1] ELSE lapsed
  BY DEF RelayAnswers
<1> HIDE DEF s
<1>9. CASE reply = "accepted"
  <2>1. Ledger!Deliver(s)
    BY <1>5, <1>6, <1>7, <1>8, <1>9 DEF Ledger!Deliver, Told
  <2> QED
    BY <1>2, <2>1 DEF Ledger!Next
<1>10. CASE reply = "replyLost"
  <2>1. Ledger!DeliverUnknown(s)
    BY <1>5, <1>6, <1>7, <1>8, <1>10 DEF Ledger!DeliverUnknown, Told
  <2> QED
    BY <1>2, <2>1 DEF Ledger!Next
<1>11. CASE reply \notin {"accepted", "replyLost"}
  BY <1>7, <1>8, <1>11, StepUntold
<1> QED
  BY <1>9, <1>10, <1>11

\* An outcome that is written confirms the row's one copy, gives the row up
\* with none, or puts it off.
LEMMA RecordTold ==
  ASSUME NEW s \in Rows, NEW rec, NEW reply,
         rec.status = "sent" <=> reply = "accepted",
         rec.status \in {"pending", "sent", "failed"},
         row \in [Rows -> RowState], Told[s] = "queued",
         row' = [row EXCEPT ![s] = rec], UNCHANGED <<delivered, lapsed>>,
         delivered[s] \in Nat, lapsed[s] \in Nat,
         delivered[s] = lapsed[s] + (IF reply = "accepted" THEN 1 ELSE 0)
  PROVE  [Ledger!Next]_(Ledger!ledgerVars)
<1>1. \A r \in Rows : row'[r] = IF r = s THEN rec ELSE row[r]
  OBVIOUS
<1>2. CASE rec.status = "pending"
  <2>1. \A r \in Rows : Told'[r] = Told[r]
    BY <1>1, <1>2 DEF Told
  <2> QED
    BY <2>1, StepUntold
<1>3. CASE rec.status = "sent"
  <2>1. \A r \in Rows : Told'[r] = IF r = s THEN "sent" ELSE Told[r]
    BY <1>1, <1>3 DEF Told
  <2>2. delivered[s] = lapsed[s] + 1
    BY <1>3
  <2>3. Ledger!Confirm(s)
    BY <2>1, <2>2, StepTold, RowEnds
  <2> QED
    BY <2>3 DEF Ledger!Next
<1>4. CASE rec.status = "failed"
  <2>1. \A r \in Rows : Told'[r] = IF r = s THEN "failed" ELSE Told[r]
    BY <1>1, <1>4 DEF Told
  <2>2. delivered[s] = lapsed[s]
    BY <1>4
  <2>3. Ledger!GiveUp(s)
    BY <2>1, <2>2, StepTold, RowEnds
  <2> QED
    BY <2>3 DEF Ledger!Next
<1> QED
  BY <1>2, <1>3, <1>4

\* An outcome confirms the row's one copy, gives the row up with none, puts it
\* off, or forgets the copy it could not write down.
LEMMA OutcomeTold ==
  ASSUME IInv, MaxHold <= Lease, DuplicatesExplained, NEW p \in Procs, NEW w \in Workers,
         \/ \E retryAfter \in RetryAfters, holdWritten \in BOOLEAN :
              Record(p, w, retryAfter, holdWritten)
         \/ \E retryAfter \in RetryAfters : RecordFails(p, w, retryAfter)
  PROVE  [Ledger!Next]_(Ledger!ledgerVars)
<1> DEFINE j == worker[p][w].job
           s == j.row
           reply == worker[p][w].reply
<1> USE DEF IInv
<1>1. w \in Busy(p) /\ worker[p][w].pc = "answered"
  BY DEF Record, RecordFails, Busy
<1>2. /\ j \in Job /\ s \in Rows /\ row[s] \in RowState
      /\ worker[p][w] \in [pc : {"answered"}, job : Job, reply : Replies]
  <2>1. j \in Job /\ s \in Rows
    BY <1>1, HeldJobs DEF Job
  <2>2. row[s] \in RowState /\ worker[p][w] \in WorkerState
    BY <2>1 DEF TypeOK
  <2> QED
    BY <1>1, <2>1, <2>2 DEF WorkerState
<1>3. Fenced(p, j) /\ row[s].status = "processing"
  BY <1>1, OneHandEach DEF Held, Fenced
<1>4. BeingRecorded(s) <=> reply = "accepted"
  <2>1. ASSUME NEW q \in Procs, NEW v \in Workers, Recording(q, v, s)
        PROVE  q = p /\ v = w
    <3>1. v \in Busy(q) /\ worker[q][v].job.row = s
      BY <2>1 DEF Recording, Busy
    <3> QED
      BY <1>1, <3>1, OneHandEach
  <2> QED
    BY <1>1, <2>1 DEF BeingRecorded, Recording, Busy
<1>5. /\ delivered[s] \in Nat /\ lapsed[s] \in Nat
      /\ delivered[s] = lapsed[s] + (IF reply = "accepted" THEN 1 ELSE 0)
  BY <1>2, <1>3, <1>4 DEF DuplicatesExplained, TypeOK
<1>6. Told[s] = "queued"
  BY <1>2, <1>3 DEF Told
<1>7. ASSUME NEW retryAfter \in RetryAfters, NEW holdWritten \in BOOLEAN,
             Record(p, w, retryAfter, holdWritten)
      PROVE  [Ledger!Next]_(Ledger!ledgerVars)
  <2> DEFINE rec == Outcome(j, reply, retryAfter)
  <2>1. /\ rec.status = "sent" <=> reply = "accepted"
        /\ rec.status \in {"pending", "sent", "failed"}
    BY <1>2, OutcomeType DEF Finished
  <2>2. row' = [row EXCEPT ![s] = rec] /\ delivered' = delivered /\ lapsed' = lapsed
    BY <1>3, <1>7 DEF Record, FencedWrite
  <2>3. row \in [Rows -> RowState] /\ s \in Rows
    BY <1>2 DEF TypeOK
  <2> HIDE DEF rec, s, reply, j
  <2> QED
    BY <1>5, <1>6, <2>1, <2>2, <2>3, RecordTold
<1>8. ASSUME NEW retryAfter \in RetryAfters, RecordFails(p, w, retryAfter)
      PROVE  [Ledger!Next]_(Ledger!ledgerVars)
  <2>1. /\ row' = row /\ delivered' = delivered
        /\ lapsed' = IF reply = "accepted" THEN [lapsed EXCEPT ![s] = @ + 1] ELSE lapsed
    BY <1>8 DEF RecordFails
  <2> HIDE DEF s, reply
  <2>2. Told' = Told
    BY <2>1 DEF Told
  <2>3. CASE reply = "accepted"
    <3>1. lapsed' = [r \in Rows |-> IF r \in {s} THEN lapsed[r] + 1 ELSE lapsed[r]]
      BY <1>2, <2>1, <2>3 DEF TypeOK
    <3>2. Ledger!Forget({s})
      BY <1>2, <1>5, <1>6, <2>1, <2>2, <2>3, <3>1 DEF Ledger!Forget, Told
    <3> QED
      BY <1>2, <3>2 DEF Ledger!Next
  <2>4. CASE reply # "accepted"
    BY <2>1, <2>2, <2>4, StepUntold
  <2> QED
    BY <2>3, <2>4
<1> QED
  BY <1>7, <1>8

\* A process that dies forgets the copies it was about to record.
LEMMA CrashTold ==
  ASSUME IInv, MaxHold <= Lease, DuplicatesExplained, NEW p \in Procs, Crash(p)
  PROVE  [Ledger!Next]_(Ledger!ledgerVars)
<1> DEFINE S == {r \in Rows : \E w \in Workers : Recording(p, w, r)}
<1> USE DEF IInv
<1>1. /\ row' = row /\ delivered' = delivered
      /\ lapsed' = [r \in Rows |-> IF r \in S THEN lapsed[r] + 1 ELSE lapsed[r]]
  BY DEF Crash, Recording
<1>2. Told' = Told
  BY <1>1 DEF Told
<1>3. ASSUME NEW r \in S
      PROVE  Told[r] = "queued" /\ delivered[r] = lapsed[r] + 1
  <2>1. PICK w \in Workers : Recording(p, w, r)
    OBVIOUS
  <2>2. w \in Busy(p)
    BY <2>1 DEF Recording, Busy
  <2>3. row[r].status = "processing"
    BY <2>1, <2>2, OneHandEach DEF Recording, Held, Fenced
  <2>4. BeingRecorded(r)
    BY <2>1 DEF BeingRecorded, Recording
  <2> QED
    BY <2>3, <2>4 DEF DuplicatesExplained, Told
<1>4. S \in SUBSET Rows
  OBVIOUS
<1> HIDE DEF S
<1>5. CASE S = {}
  <2>1. lapsed' = lapsed
    BY <1>1, <1>5 DEF TypeOK
  <2> QED
    BY <1>1, <1>2, <2>1, StepUntold
<1>6. CASE S # {}
  <2>1. Ledger!Forget(S)
    BY <1>1, <1>2, <1>3, <1>6 DEF Ledger!Forget, Told
  <2> QED
    BY <1>4, <2>1 DEF Ledger!Next
<1> QED
  BY <1>5, <1>6

\* Every step of the queue is one of the ledger's, or none.
LEMMA EveryStepIsTold ==
  ASSUME IInv, MaxHold <= Lease, DuplicatesExplained, [Next]_vars
  PROVE  [Ledger!Next]_(Ledger!ledgerVars)
<1> USE DEF IInv
<1> DEFINE Untold == /\ UNCHANGED <<delivered, lapsed>>
                     /\ \A r \in Rows : Told'[r] = Told[r]
<1>1. ASSUME NEW r \in Rows, Enqueue(r)
      PROVE  [Ledger!Next]_(Ledger!ledgerVars)
  <2>1. row[r] \in RowState /\ row[r].status = "absent"
        /\ row' = [row EXCEPT ![r].status = "pending"] /\ UNCHANGED <<delivered, lapsed>>
    BY <1>1 DEF Enqueue, TypeOK
  <2>2. row'[r].status = "pending" /\ \A q \in Rows \ {r} : row'[q] = row[q]
    <3>1. row'[r] = [row[r] EXCEPT !.status = "pending"]
      BY <2>1 DEF TypeOK
    <3>2. row'[r].status = "pending"
      BY <2>1, <3>1 DEF RowState
    <3>3. \A q \in Rows \ {r} : row'[q] = row[q]
      BY <2>1 DEF TypeOK
    <3> QED
      BY <3>2, <3>3
  <2>3. Told[r] = "absent" /\ \A q \in Rows : Told'[q] = IF q = r THEN "queued" ELSE Told[q]
    BY <2>1, <2>2 DEF Told
  <2>4. Ledger!Accept(r)
    BY <2>1, <2>3, RowAccepted
  <2> QED
    BY <2>4 DEF Ledger!Next
<1>2. ASSUME NEW p \in Procs, Start(p) \/ Reap(p) PROVE Untold
  BY <1>2, ReaperUntold DEF Start, Reap
<1>3. ASSUME NEW p \in Procs, DispatcherStep(p) PROVE Untold
  <2>1. CASE BeginTurn(p)
    BY <2>1 DEF BeginTurn, Told
  <2>2. CASE TakeSystem(p)
    BY <2>2, QueueAssumption, TakeUntold DEF TakeSystem
  <2>3. CASE TakeBulk(p)
    BY <2>3, TakeUntold DEF TakeBulk
  <2> QED
    BY <1>3, <2>1, <2>2, <2>3 DEF DispatcherStep
<1>4. ASSUME NEW p \in Procs, NEW w \in Workers, WorkerStep(p, w)
      PROVE  [Ledger!Next]_(Ledger!ledgerVars)
  <2>1. ASSUME NEW j \in chan[p], Pick(p, w, j) PROVE Untold
    BY <2>1 DEF Pick, Told
  <2>2. ASSUME NEW j \in chan[p], NEW written \in BOOLEAN, PickStopped(p, w, j, written)
        PROVE  Untold
    BY <2>2, HeldJobs, ReleaseUntold DEF PickStopped
  <2>3. CASE WorkerStops(p, w)
    <3>1. Untold
      BY <2>3 DEF WorkerStops, Told
    <3> QED
      BY <3>1, StepUntold
  <2> QED
    BY <1>4, <2>1, <2>2, <2>3, StepUntold, AnswerTold, OutcomeTold DEF WorkerStep
<1>5. ASSUME NEW p \in Procs, Stop(p) PROVE Untold
  BY <1>5 DEF Stop, Told
<1>6. ASSUME NEW p \in Procs, StopStep(p) PROVE Untold
  <2>1. ASSUME NEW j \in chan[p], NEW written \in BOOLEAN, ReleaseWaiting(p, j, written)
        PROVE  Untold
    BY <2>1, HeldJobs, ReleaseUntold DEF ReleaseWaiting
  <2>2. CASE DispatcherStops(p) \/ StopProceeds(p)
    BY <2>2 DEF DispatcherStops, StopProceeds, Told
  <2> QED
    BY <1>6, <2>1, <2>2 DEF StopStep
<1>7. CASE Tick
  <2>1. ASSUME NEW r \in Rows PROVE row'[r].status = row[r].status
    <3>1. row[r] \in RowState
      BY DEF TypeOK
    <3> QED
      BY <1>7, <3>1 DEF Tick, RowState
  <2>2. Untold
    BY <1>7, <2>1 DEF Tick, Told
  <2> QED
    BY <2>2, StepUntold
<1>8. CASE UNCHANGED vars
  <2>1. Untold
    BY <1>8 DEF vars, Told
  <2> QED
    BY <2>1, StepUntold
<1>9. ASSUME NEW p \in Procs, Crash(p)
      PROVE  [Ledger!Next]_(Ledger!ledgerVars)
  BY <1>9, CrashTold
<1> QED
  BY <1>1, <1>2, <1>3, <1>4, <1>5, <1>6, <1>7, <1>8, <1>9, StepUntold DEF Next

\* LedgerSpec: with a lease that outlasts every send the queue keeps the
\* promise of MailLedger, for every set of processes, rows and workers: a mail
\* is confirmed with its one known copy, given up with none, and never sent
\* again after either.
THEOREM QueueKeepsLedger ==
  ASSUME MaxHold <= Lease
  PROVE  Spec => LedgerSpec
<1>1. Init => Ledger!Init
  <2> SUFFICES ASSUME Init PROVE Ledger!Init
    OBVIOUS
  <2>1. Told \in [Rows -> {"absent", "queued"}]
    BY DEF Init, Told
  <2> QED
    BY <2>1 DEF Init, Ledger!Init, Told
<1>2. IInv /\ DuplicatesExplained /\ [Next]_vars => [Ledger!Next]_(Ledger!ledgerVars)
  BY EveryStepIsTold
<1> QED
  BY <1>1, <1>2, TypeCorrect, ClaimsExclusive, CopiesExplained, PTL
     DEF Spec, IInv, LedgerSpec, Ledger!Spec

\* A mail that was sent or given up stays as it is, and no copy of it goes out.
EndsForGood ==
  \A r \in Rows : row[r].status \in {"sent", "failed"} =>
    /\ row'[r].status = row[r].status
    /\ delivered'[r] = delivered[r] /\ lapsed'[r] = lapsed[r]

\* No step of the promise is about a mail that ended.
LEMMA PromiseLeavesEnded ==
  ASSUME TypeOK, [Ledger!Next]_(Ledger!ledgerVars)
  PROVE  EndsForGood
<1> SUFFICES ASSUME NEW r \in Rows, row[r].status \in {"sent", "failed"}
             PROVE  /\ row'[r].status = row[r].status
                    /\ delivered'[r] = delivered[r] /\ lapsed'[r] = lapsed[r]
  BY DEF EndsForGood
<1>1. Told[r] = row[r].status /\ DOMAIN Told = Rows
  BY DEF Told
<1>2. DOMAIN delivered = Rows /\ DOMAIN lapsed = Rows
  BY DEF TypeOK
<1>3. Told'[r] = Told[r] /\ delivered'[r] = delivered[r] /\ lapsed'[r] = lapsed[r]
  <2>1. CASE UNCHANGED Ledger!ledgerVars
    <3>1. Told' = Told /\ delivered' = delivered /\ lapsed' = lapsed
      BY <2>1 DEF Ledger!ledgerVars, Told
    <3> QED
      BY <3>1
  <2>2. ASSUME NEW q \in Rows, Ledger!Accept(q)
        PROVE  Told'[r] = Told[r] /\ delivered' = delivered /\ lapsed' = lapsed
    <3>1. /\ Told[q] = "absent" /\ Told' = [Told EXCEPT ![q] = "queued"]
          /\ delivered' = delivered /\ lapsed' = lapsed
      BY <2>2 DEF Ledger!Accept, Told
    <3> QED
      BY <1>1, <3>1
  <2>3. ASSUME NEW q \in Rows, Ledger!Deliver(q) \/ Ledger!DeliverUnknown(q)
        PROVE  Told' = Told /\ delivered'[r] = delivered[r] /\ lapsed'[r] = lapsed[r]
    <3>1. /\ Told[q] = "queued" /\ Told' = Told
          /\ delivered' = [delivered EXCEPT ![q] = @ + 1]
          /\ lapsed' = lapsed \/ lapsed' = [lapsed EXCEPT ![q] = @ + 1]
      BY <2>3 DEF Ledger!Deliver, Ledger!DeliverUnknown, Told
    <3> QED
      BY <1>1, <1>2, <3>1
  <2>4. ASSUME NEW q \in Rows, Ledger!Confirm(q) \/ Ledger!GiveUp(q)
        PROVE  Told'[r] = Told[r] /\ delivered' = delivered /\ lapsed' = lapsed
    <3>1. /\ Told[q] = "queued"
          /\ Told' = [Told EXCEPT ![q] = "sent"] \/ Told' = [Told EXCEPT ![q] = "failed"]
          /\ delivered' = delivered /\ lapsed' = lapsed
      BY <2>4 DEF Ledger!Confirm, Ledger!GiveUp, Told
    <3> QED
      BY <1>1, <3>1
  <2>5. ASSUME NEW S \in SUBSET Rows, Ledger!Forget(S)
        PROVE  Told' = Told /\ delivered' = delivered /\ lapsed'[r] = lapsed[r]
    <3>1. /\ r \in S => Told[r] = "queued"
          /\ Told' = Told /\ delivered' = delivered
          /\ lapsed' = [q \in Rows |-> IF q \in S THEN lapsed[q] + 1 ELSE lapsed[q]]
      BY <2>5 DEF Ledger!Forget, Told
    <3> QED
      BY <1>1, <3>1
  <2> QED
    BY <2>1, <2>2, <2>3, <2>4, <2>5 DEF Ledger!Next
<1>4. Told'[r] \in {"sent", "failed"} => Told'[r] = row'[r].status
  BY DEF Told
<1> QED
  BY <1>1, <1>3, <1>4

\* With a lease that outlasts every send, a row recorded sent or failed keeps
\* that outcome, and no copy of its mail goes out afterwards: not from a worker
\* that still has a claim of it, not by the reaper, a retry or a crash.
THEOREM EndedForGood ==
  ASSUME MaxHold <= Lease
  PROVE  Spec => [][EndsForGood]_vars
<1>1. IInv /\ DuplicatesExplained /\ [Next]_vars => EndsForGood
  BY EveryStepIsTold, PromiseLeavesEnded DEF IInv
<1> QED
  BY <1>1, TypeCorrect, ClaimsExclusive, CopiesExplained, PTL DEF Spec, IInv
=============================================================================
