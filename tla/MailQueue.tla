----------------------------- MODULE MailQueue -----------------------------
(***************************************************************************)
(* The mail queue: rows of the Postgres table mail_queue, taken, sent and  *)
(* finished by several processes at once (a start-first deploy, replicas). *)
(*                                                                         *)
(* A process has one dispatcher, which leases due rows to the process for  *)
(* its idle workers; a channel that holds the rows until a worker picks    *)
(* them; workers, which hand a mail to the relay and then record the       *)
(* outcome; a reaper, which puts expired leases back; and Stop, which      *)
(* gives back what no worker began.  Every outcome is fenced by the claim  *)
(* (claimed_by, claimed_at) it was taken under.                            *)
(*                                                                         *)
(* Time is counted in ticks and kept as durations: wait is what is left    *)
(* until next_attempt_at, age is how long ago claimed_at was.  A restarted *)
(* process has a new claimant name, so it is another element of Procs.     *)
(* The windows of the send budget, the gates a bulk row passes and the     *)
(* controls of a send are other modules' business: to this one a bulk take *)
(* may be smaller than the room the workers leave (Budgeted).              *)
(***************************************************************************)
EXTENDS Integers, FiniteSets

CONSTANTS
  Procs,            \* processes, each named by its claimant
  Rows,             \* queue rows
  SystemRows,       \* those of the system lane (priority above 0)
  Workers,          \* worker slots, the same in every process
  BulkSlots,        \* rows of the bulk lane a process holds at most
  MaxAttempts,      \* maxSendAttempts
  MaxRowThrottles,  \* maxRowThrottles
  RetryDelay,       \* ticks to wait after a failed attempt, by attempts before
  RetryAfters,      \* Retry-After values a relay may answer with, in ticks
  ThrottlePause,    \* SKYMAIL_THROTTLE_PAUSE in ticks, 0 for no hold
  Lease,            \* MAIL_QUEUE_LEASE in ticks
  MaxHold,          \* longest a live process holds a job, from claim to outcome
  MaxAge,           \* bound: ages are counted up to it
  MaxFaults,        \* bound: lost replies and failed database writes
  MaxCopies,        \* bound: how often the relay takes one row's mail
  Budgeted,         \* the send budget may make a bulk take smaller
  NoProc, NoJob, NoReply

ASSUME QueueAssumption ==
  /\ IsFiniteSet(Rows) /\ IsFiniteSet(Workers)
  /\ SystemRows \subseteq Rows
  /\ BulkSlots \in Nat \ {0}
  /\ MaxAttempts \in Nat \ {0}
  /\ MaxRowThrottles \in Nat
  /\ RetryDelay \in [0..MaxAttempts -> Nat]
  /\ RetryAfters \subseteq Nat
  /\ ThrottlePause \in Nat
  /\ Lease \in Nat /\ MaxHold \in Nat /\ MaxFaults \in Nat /\ MaxCopies \in Nat
  /\ MaxAge \in Nat /\ MaxAge > Lease /\ MaxAge > MaxHold
  /\ Budgeted \in BOOLEAN
  /\ NoProc \notin Procs

VARIABLES
  row,        \* mail_queue
  hold,       \* ticks the bulk lane is still held (mail_bulk_holds)
  phase,      \* where each process is, from its start to its end
  disp,       \* each dispatcher: where in its turn, with how many idle workers left
  chan,       \* jobs taken and waiting for a worker
  worker,     \* each worker: what it does, with which job
  taken,      \* how many rows the process counts as held
  takenBulk,  \* how many of them are bulk rows
  delivered,  \* history: how often the relay took the row's mail
  lapsed,     \* history: how many of those the queue could not learn of
  faults      \* history: lost replies and failed writes so far

vars == <<row, hold, phase, disp, chan, worker, taken, takenBulk,
          delivered, lapsed, faults>>

-----------------------------------------------------------------------------
NullAge == -1
Ages == NullAge..MaxAge

RowState == [status : {"absent", "pending", "processing", "sent", "failed"},
             attempts : Nat, throttles : Nat, wait : Nat,
             by : Procs \union {NoProc}, age : Ages]

\* What a process keeps of a row it took: the columns the take returned.
Job == [row : Rows, age : 0..MaxHold, attempts : Nat, throttles : Nat]

Replies == {"accepted",   \* the relay took the mail and said so
            "replyLost",  \* it took the mail; the process saw a failure
            "transient", "throttled", "permanent"}

WorkerState ==
  [pc : {"idle", "exited"}, job : {NoJob}, reply : {NoReply}]
  \union [pc : {"sending"}, job : Job, reply : {NoReply}]
  \union [pc : {"answered"}, job : Job, reply : Replies]

StopPhases == {"stopDispatcher", "stopDrain", "stopWorkers", "stopDrainAgain"}
Phases == {"new", "up", "stopped", "gone"} \union StopPhases

IdleWorker == [pc |-> "idle", job |-> NoJob, reply |-> NoReply]
ExitedWorker == [IdleWorker EXCEPT !.pc = "exited"]

TypeOK ==
  /\ row \in [Rows -> RowState]
  /\ \A r \in Rows : row[r].status \in {"absent", "pending"} =>
                     row[r].by = NoProc /\ row[r].age = NullAge
  /\ hold \in Nat
  /\ phase \in [Procs -> Phases]
  /\ disp \in [Procs -> [pc : {"waiting", "system", "bulk", "done"}, room : Int]]
  /\ chan \in [Procs -> SUBSET Job]
  /\ worker \in [Procs -> [Workers -> WorkerState]]
  /\ taken \in [Procs -> Int] /\ takenBulk \in [Procs -> Int]
  /\ delivered \in [Rows -> Nat] /\ lapsed \in [Rows -> Nat]
  /\ faults \in Nat

-----------------------------------------------------------------------------
Least(a, b) == IF a <= b THEN a ELSE b
Most(a, b) == IF a >= b THEN a ELSE b

Stopping(p) == phase[p] \in StopPhases
Running(p) == phase[p] = "up" \/ Stopping(p)

IsBulk(r) == r \notin SystemRows
Due_AnyStatus(r) == row[r].status # "absent" /\ row[r].wait = 0
Due(r) == row[r].status = "pending" /\ row[r].wait = 0

\* The jobs in a process's hands: waiting in its channel or with a worker.
Busy(p) == {w \in Workers : worker[p][w].pc \in {"sending", "answered"}}
Held(p) == chan[p] \union {worker[p][w].job : w \in Busy(p)}

\* The condition every write of an outcome carries: the row is processing and
\* this very claim of it.
Fenced(p, j) == /\ row[j.row].status = "processing"
                /\ row[j.row].by = p
                /\ row[j.row].age = j.age

Unclaimed(rec) == [rec EXCEPT !.status = "pending", !.by = NoProc, !.age = NullAge]

\* The row's record after a fenced write of rec, or the row as it is.
FencedWrite(p, j, rec) ==
  row' = IF Fenced(p, j) THEN [row EXCEPT ![j.row] = rec] ELSE row

Untake_ForgetsLane(p, j) ==
  taken' = [taken EXCEPT ![p] = @ - 1] /\ UNCHANGED takenBulk
Untake(p, j) ==
  /\ taken' = [taken EXCEPT ![p] = @ - 1]
  /\ takenBulk' = [takenBulk EXCEPT ![p] = IF IsBulk(j.row) THEN @ - 1 ELSE @]

Fault(happens) == /\ happens => faults < MaxFaults
                  /\ faults' = IF happens THEN faults + 1 ELSE faults
-----------------------------------------------------------------------------
Init ==
  /\ row \in [Rows -> {[status |-> s, attempts |-> 0, throttles |-> 0, wait |-> 0,
                        by |-> NoProc, age |-> NullAge] : s \in {"absent", "pending", "processing"}}]
  /\ hold = 0
  /\ phase = [p \in Procs |-> "new"]
  /\ disp = [p \in Procs |-> [pc |-> "done", room |-> 0]]
  /\ chan = [p \in Procs |-> {}]
  /\ worker = [p \in Procs |-> [w \in Workers |-> ExitedWorker]]
  /\ taken = [p \in Procs |-> 0] /\ takenBulk = [p \in Procs |-> 0]
  /\ delivered = [r \in Rows |-> 0] /\ lapsed = [r \in Rows |-> 0]
  /\ faults = 0

\* A send is queued by a process that serves requests, to its shutdown's
\* drain: its row is pending and due at once.
Enqueue(r) ==
  /\ \E p \in Procs : Running(p)
  /\ row[r].status = "absent"
  /\ row' = [row EXCEPT ![r].status = "pending"]
  /\ UNCHANGED <<hold, phase, disp, chan, worker, taken, takenBulk,
                 delivered, lapsed, faults>>

Reclaimed_AnyAge(rec) ==
  IF rec.status = "processing" THEN Unclaimed(rec) ELSE rec
Reclaimed_AtLease(rec) ==
  IF rec.status # "processing" THEN rec
  ELSE IF rec.age = NullAge THEN [rec EXCEPT !.age = 0]
  ELSE IF rec.age >= Lease THEN Unclaimed(rec)
  ELSE rec
Reclaimed_NoStamp(rec) ==
  IF rec.status = "processing" /\ rec.age > Lease THEN Unclaimed(rec) ELSE rec

\* StartLeaseOnUnclaimedJobs, then ResetDeadJobs: a processing row with no
\* claimed_at has its lease start now; one past its lease is pending again.
Reclaimed(rec) ==
  IF rec.status # "processing" THEN rec
  ELSE IF rec.age = NullAge THEN [rec EXCEPT !.age = 0]
  ELSE IF rec.age > Lease THEN Unclaimed(rec)
  ELSE rec

ReclaimExpired == row' = [r \in Rows |-> Reclaimed(row[r])]

Start(p) ==
  /\ phase[p] = "new"
  /\ ReclaimExpired
  /\ phase' = [phase EXCEPT ![p] = "up"]
  /\ disp' = [disp EXCEPT ![p].pc = "waiting"]
  /\ worker' = [worker EXCEPT ![p] = [w \in Workers |-> IdleWorker]]
  /\ UNCHANGED <<hold, chan, taken, takenBulk, delivered, lapsed, faults>>

\* The reaper's turn; one that began before a stop may end after it.
Reap(p) ==
  /\ Running(p)
  /\ \E r \in Rows : Reclaimed(row[r]) # row[r]
  /\ ReclaimExpired
  /\ UNCHANGED <<hold, phase, disp, chan, worker, taken, takenBulk,
                 delivered, lapsed, faults>>

-----------------------------------------------------------------------------
\* The dispatcher's turn (drainQueue): the system lane, then the bulk lane.

Claimed(p, S) ==
  [r \in Rows |-> IF r \in S
                  THEN [row[r] EXCEPT !.status = "processing", !.by = p, !.age = 0]
                  ELSE row[r]]

JobsOf(S) == {[row |-> r, age |-> 0, attempts |-> row[r].attempts,
               throttles |-> row[r].throttles] : r \in S}

\* The rows a take of at most n rows of lane returns: as many as are due.
\* Which ones come first (next_attempt_at, created_at) is left open.
Takes(lane, n) ==
  {S \in SUBSET {r \in lane : Due(r)} :
     Cardinality(S) = Least(n, Cardinality({r \in lane : Due(r)}))}

\* What a take that committed leaves; when its answer was lost (an error to
\* the dispatcher) the rows are leased to a process that does not hold them.
TakeRows(p, S, answered) ==
  /\ row' = Claimed(p, S)
  /\ Fault(~answered)
  /\ IF answered
     THEN /\ chan' = [chan EXCEPT ![p] = @ \union JobsOf(S)]
          /\ taken' = [taken EXCEPT ![p] = @ + Cardinality(S)]
          /\ takenBulk' = [takenBulk EXCEPT ![p] =
                             @ + Cardinality({r \in S : IsBulk(r)})]
     ELSE UNCHANGED <<chan, taken, takenBulk>>

\* A turn begins unless the process is stopping, and counts its idle workers.
BeginTurn(p) ==
  LET idle == Cardinality(Workers) - taken[p] IN
  /\ phase[p] = "up" /\ disp[p].pc = "waiting"
  /\ idle > 0
  /\ disp' = [disp EXCEPT ![p] = [pc |-> "system", room |-> idle]]
  /\ UNCHANGED <<row, hold, phase, chan, worker, taken, takenBulk,
                 delivered, lapsed, faults>>

TakeSystem(p) ==
  /\ Running(p) /\ disp[p].pc = "system"
  /\ \E S \in Takes(SystemRows, disp[p].room), answered \in BOOLEAN :
       /\ answered \/ S # {}
       /\ TakeRows(p, S, answered)
       /\ disp' = [disp EXCEPT ![p] =
            [pc |-> "bulk", room |-> disp[p].room - (IF answered THEN Cardinality(S) ELSE 0)]]
  /\ UNCHANGED <<hold, phase, worker, delivered, lapsed>>

\* A throttling reply's hold of the bulk lane has not run out.
LaneIsHeld == hold # 0

TakeBulk(p) ==
  LET room == Least(disp[p].room, BulkSlots - takenBulk[p])
      most == IF room > 0 /\ ~LaneIsHeld THEN room ELSE 0 IN
  /\ Running(p) /\ disp[p].pc = "bulk"
  /\ \E n \in (IF Budgeted THEN 0..most ELSE {most}) :
     \E S \in Takes(Rows \ SystemRows, n), answered \in BOOLEAN :
       /\ answered \/ S # {}
       /\ TakeRows(p, S, answered)
  /\ disp' = [disp EXCEPT ![p] = [pc |-> "waiting", room |-> 0]]
  /\ UNCHANGED <<hold, phase, worker, delivered, lapsed>>

-----------------------------------------------------------------------------
\* Giving a job back untouched (release); the write may fail.
Release(p, j, written) ==
  /\ IF written THEN FencedWrite(p, j, Unclaimed(row[j.row])) ELSE UNCHANGED row
  /\ Fault(~written)
  /\ Untake(p, j)

\* A worker picks a job and begins to send it.
Pick(p, w, j) ==
  /\ phase[p] = "up" /\ worker[p][w].pc = "idle"
  /\ j \in chan[p]
  /\ chan' = [chan EXCEPT ![p] = @ \ {j}]
  /\ worker' = [worker EXCEPT ![p][w] =
                  [pc |-> "sending", job |-> j, reply |-> NoReply]]
  /\ UNCHANGED <<row, hold, phase, disp, taken, takenBulk, delivered, lapsed, faults>>

\* A worker picks a job together with the stop: the job is given back.
PickStopped(p, w, j, written) ==
  /\ Stopping(p) /\ worker[p][w].pc = "idle"
  /\ j \in chan[p]
  /\ chan' = [chan EXCEPT ![p] = @ \ {j}]
  /\ Release(p, j, written)
  /\ UNCHANGED <<hold, phase, disp, worker, delivered, lapsed>>

\* The relay answers a send, which its deadline (SendBudget) bounds.
RelayAnswers(p, w, reply) ==
  LET r == worker[p][w].job.row IN
  /\ Running(p) /\ worker[p][w].pc = "sending"
  /\ worker' = [worker EXCEPT ![p][w].pc = "answered", ![p][w].reply = reply]
  /\ Fault(reply = "replyLost")
  /\ reply \in {"accepted", "replyLost"} => delivered[r] < MaxCopies
  /\ delivered' = IF reply \in {"accepted", "replyLost"}
                  THEN [delivered EXCEPT ![r] = @ + 1] ELSE delivered
  /\ lapsed' = IF reply = "replyLost" THEN [lapsed EXCEPT ![r] = @ + 1] ELSE lapsed
  /\ UNCHANGED <<row, hold, phase, disp, chan, taken, takenBulk>>

\* A throttling reply holds the bulk lane, unless it answers a bulk row that
\* had maxRowThrottles of them; a bulk row it answers waits the hold out.
Holds(j, reply) ==
  /\ ThrottlePause > 0 /\ reply = "throttled"
  /\ IsBulk(j.row) => j.throttles < MaxRowThrottles
Defers(j, reply) == Holds(j, reply) /\ IsBulk(j.row)

GivesUp_OneTooMany(j, reply) == reply = "permanent" \/ j.attempts >= MaxAttempts
\* A failure that ends the row: a refusal for good, or the last try.
GivesUp(j, reply) == reply = "permanent" \/ j.attempts + 1 >= MaxAttempts

\* What each outcome writes of a row.
Sent(rec) == [rec EXCEPT !.status = "sent"]
Deferred(rec, pause) == [Unclaimed(rec) EXCEPT !.throttles = @ + 1, !.wait = pause]
Failed(rec) == [rec EXCEPT !.status = "failed", !.attempts = @ + 1]
Rescheduled(rec, delay) == [Unclaimed(rec) EXCEPT !.attempts = @ + 1, !.wait = delay]

\* How long a deferred row, and the bulk lane, wait.
Pause(retryAfter) == Most(ThrottlePause, retryAfter)

\* The row after the outcome of a send is written.
Outcome(j, reply, retryAfter) ==
  LET rec == row[j.row] IN
  IF reply = "accepted" THEN Sent(rec)
  ELSE IF Defers(j, reply) THEN Deferred(rec, Pause(retryAfter))
  ELSE IF GivesUp(j, reply) THEN Failed(rec)
  ELSE Rescheduled(rec, Most(RetryDelay[j.attempts], retryAfter))

\* holdBulkLane keeps the later hold; its write may fail on its own.
LaneHold(j, reply, retryAfter) ==
  IF Holds(j, reply) THEN Most(hold, Pause(retryAfter)) ELSE hold

Record(p, w, retryAfter, holdWritten) ==
  LET j == worker[p][w].job
      reply == worker[p][w].reply IN
  /\ Running(p) /\ worker[p][w].pc = "answered"
  /\ holdWritten \/ Holds(j, reply)
  /\ Fault(~holdWritten)
  /\ hold' = IF holdWritten THEN LaneHold(j, reply, retryAfter) ELSE hold
  /\ FencedWrite(p, j, Outcome(j, reply, retryAfter))
  /\ worker' = [worker EXCEPT ![p][w] = IdleWorker]
  /\ Untake(p, j)
  /\ UNCHANGED <<phase, disp, chan, delivered, lapsed>>

\* The outcome cannot be written: the row keeps its claim until the lease
\* runs out.  A hold it came with may have been written before.
RecordFails(p, w, retryAfter) ==
  LET j == worker[p][w].job
      reply == worker[p][w].reply IN
  /\ Running(p) /\ worker[p][w].pc = "answered"
  /\ Fault(TRUE)
  /\ hold' \in {hold, LaneHold(j, reply, retryAfter)}
  /\ lapsed' = IF reply = "accepted" THEN [lapsed EXCEPT ![j.row] = @ + 1] ELSE lapsed
  /\ worker' = [worker EXCEPT ![p][w] = IdleWorker]
  /\ Untake(p, j)
  /\ UNCHANGED <<row, phase, disp, chan, delivered>>

-----------------------------------------------------------------------------
\* Stop: the dispatcher ends, waiting jobs are given back, the workers end,
\* and whatever they left in the channel is given back too.

Stop(p) ==
  /\ phase[p] = "up"
  /\ phase' = [phase EXCEPT ![p] = "stopDispatcher"]
  /\ UNCHANGED <<row, hold, disp, chan, worker, taken, takenBulk,
                 delivered, lapsed, faults>>

DispatcherStops(p) ==
  /\ Stopping(p) /\ disp[p].pc = "waiting"
  /\ disp' = [disp EXCEPT ![p].pc = "done"]
  /\ UNCHANGED <<row, hold, phase, chan, worker, taken, takenBulk,
                 delivered, lapsed, faults>>

WorkerStops(p, w) ==
  /\ Stopping(p) /\ worker[p][w].pc = "idle"
  /\ worker' = [worker EXCEPT ![p][w] = ExitedWorker]
  /\ UNCHANGED <<row, hold, phase, disp, chan, taken, takenBulk,
                 delivered, lapsed, faults>>

ReleaseWaiting(p, j, written) ==
  /\ phase[p] \in {"stopDrain", "stopDrainAgain"}
  /\ j \in chan[p]
  /\ chan' = [chan EXCEPT ![p] = @ \ {j}]
  /\ Release(p, j, written)
  /\ UNCHANGED <<hold, phase, disp, worker, delivered, lapsed>>

StopProceeds_OneDrain(p) ==
  /\ \/ /\ phase[p] = "stopDispatcher" /\ disp[p].pc = "done"
        /\ phase' = [phase EXCEPT ![p] = "stopDrain"]
     \/ /\ phase[p] = "stopDrain"
        /\ phase' = [phase EXCEPT ![p] = "stopWorkers"]
     \/ /\ phase[p] = "stopWorkers"
        /\ \A w \in Workers : worker[p][w].pc = "exited"
        /\ phase' = [phase EXCEPT ![p] = "stopped"]
  /\ UNCHANGED <<row, hold, disp, chan, worker, taken, takenBulk,
                 delivered, lapsed, faults>>
StopProceeds(p) ==
  /\ \/ /\ phase[p] = "stopDispatcher" /\ disp[p].pc = "done"
        /\ phase' = [phase EXCEPT ![p] = "stopDrain"]
     \/ /\ phase[p] = "stopDrain" /\ chan[p] = {}
        /\ phase' = [phase EXCEPT ![p] = "stopWorkers"]
     \/ /\ phase[p] = "stopWorkers"
        /\ \A w \in Workers : worker[p][w].pc = "exited"
        /\ phase' = [phase EXCEPT ![p] = "stopDrainAgain"]
     \/ /\ phase[p] = "stopDrainAgain" /\ chan[p] = {}
        /\ phase' = [phase EXCEPT ![p] = "stopped"]
  /\ UNCHANGED <<row, hold, disp, chan, worker, taken, takenBulk,
                 delivered, lapsed, faults>>

\* The process ends where it is: a crash, SIGKILL, or the shutdown deadline,
\* which cuts off the sends still in progress.
Crash(p) ==
  /\ Running(p)
  /\ phase' = [phase EXCEPT ![p] = "gone"]
  /\ disp' = [disp EXCEPT ![p].pc = "done"]
  /\ chan' = [chan EXCEPT ![p] = {}]
  /\ worker' = [worker EXCEPT ![p] = [w \in Workers |-> ExitedWorker]]
  /\ taken' = [taken EXCEPT ![p] = 0] /\ takenBulk' = [takenBulk EXCEPT ![p] = 0]
  /\ lapsed' = [r \in Rows |->
       IF \E w \in Workers : /\ worker[p][w].pc = "answered"
                             /\ worker[p][w].reply = "accepted"
                             /\ worker[p][w].job.row = r
       THEN lapsed[r] + 1 ELSE lapsed[r]]
  /\ UNCHANGED <<row, hold, delivered, faults>>

-----------------------------------------------------------------------------
\* One tick of the database's clock.  No live process holds a job longer than
\* MaxHold: a send has its budget, a row is taken for an idle worker, and an
\* outcome's write is bounded.  A MaxHold past the lease models a process that
\* was suspended.

Older(j) == [j EXCEPT !.age = @ + 1]

Tick ==
  /\ \A p \in Procs : \A j \in Held(p) : j.age < MaxHold
  /\ row' = [r \in Rows |->
       [row[r] EXCEPT !.wait = IF @ > 0 THEN @ - 1 ELSE 0,
                      !.age = IF row[r].status = "processing" /\ @ # NullAge
                              THEN Least(@ + 1, MaxAge) ELSE @]]
  /\ hold' = IF hold > 0 THEN hold - 1 ELSE 0
  /\ chan' = [p \in Procs |-> {Older(j) : j \in chan[p]}]
  /\ worker' = [p \in Procs |-> [w \in Workers |->
       IF w \in Busy(p) THEN [worker[p][w] EXCEPT !.job = Older(@)]
                        ELSE worker[p][w]]]
  /\ UNCHANGED <<phase, disp, taken, takenBulk, delivered, lapsed, faults>>

-----------------------------------------------------------------------------
WorkerStep(p, w) ==
  \/ \E j \in chan[p] : Pick(p, w, j)
  \/ \E j \in chan[p], written \in BOOLEAN : PickStopped(p, w, j, written)
  \/ \E reply \in Replies : RelayAnswers(p, w, reply)
  \/ \E retryAfter \in RetryAfters, holdWritten \in BOOLEAN :
       Record(p, w, retryAfter, holdWritten)
  \/ \E retryAfter \in RetryAfters : RecordFails(p, w, retryAfter)
  \/ WorkerStops(p, w)

DispatcherStep(p) == BeginTurn(p) \/ TakeSystem(p) \/ TakeBulk(p)

StopStep(p) ==
  \/ DispatcherStops(p)
  \/ \E j \in chan[p], written \in BOOLEAN : ReleaseWaiting(p, j, written)
  \/ StopProceeds(p)

Next ==
  \/ \E r \in Rows : Enqueue(r)
  \/ \E p \in Procs :
       \/ Start(p) \/ Reap(p) \/ DispatcherStep(p)
       \/ \E w \in Workers : WorkerStep(p, w)
       \/ Stop(p) \/ StopStep(p) \/ Crash(p)
  \/ Tick

Spec == Init /\ [][Next]_vars

\* What the scheduler owes: the dispatcher's ticker and the reaper's fire, a
\* goroutine that can go on does, and time passes.  Nothing owes a start, a
\* stop, a crash or a fault.
Fairness ==
  /\ WF_vars(Tick)
  /\ \A p \in Procs :
       /\ WF_vars(phase[p] = "up" /\ Reap(p))
       /\ WF_vars(DispatcherStep(p)) /\ WF_vars(StopStep(p))
       /\ \A w \in Workers : WF_vars(WorkerStep(p, w))

FairSpec == Spec /\ Fairness

-----------------------------------------------------------------------------
(* Properties *)

\* A process counts exactly the rows it holds, never more than it has workers
\* for, and never more bulk rows than its bulk slots: the channel has a place
\* for every row taken, so the dispatcher never waits on a worker, and the
\* workers kept for the system lane are never all on bulk mail.  The counters
\* are written by the dispatcher, the workers and Stop (taken, takenBulk,
\* dispatch and untake in mailer.go).
CountersMatchHands ==
  \A p \in Procs : Running(p) =>
    /\ taken[p] = Cardinality(chan[p]) + Cardinality(Busy(p))
    /\ takenBulk[p] = Cardinality({j \in chan[p] : IsBulk(j.row)})
                      + Cardinality({w \in Busy(p) : IsBulk(worker[p][w].job.row)})
    /\ taken[p] <= Cardinality(Workers)
    /\ takenBulk[p] <= BulkSlots

\* Two jobs of one claim: a claim is known by its row and its claimed_at.
SameClaim(i, j) == i.row = j.row /\ i.age = j.age

\* A job in a process's hands for no longer than the lease is the row's one
\* current claim, which two processes cannot both have: no late outcome of an
\* earlier claim, no reaper and no other take ends or moves it, also when
\* processes and workers stall past their leases and take a row again.  And a
\* claim is in one hand only (lease.go, newClaimant; the fences of
\* SetMailQueueItemSent, SetMailQueueItemFailed, RescheduleMailQueueItem,
\* ReleaseMailQueueItem; ResetDeadJobs).
ClaimsAreExclusive ==
  \A p \in Procs :
    /\ \A j \in Held(p) : j.age <= Lease => Fenced(p, j)
    /\ \A v, w \in Busy(p) :
         v # w => ~SameClaim(worker[p][v].job, worker[p][w].job)
    /\ \A w \in Busy(p), j \in chan[p] : ~SameClaim(worker[p][w].job, j)
    /\ \A i, j \in chan[p] : SameClaim(i, j) => i = j

\* The relay took a row's mail and a live worker is about to record it.
BeingRecorded(r) ==
  \E p \in Procs : \E w \in Workers :
    /\ worker[p][w].pc = "answered" /\ worker[p][w].reply = "accepted"
    /\ worker[p][w].job.row = r

\* A recipient gets the same mail twice only for a delivery the queue could
\* not learn of: the process died between the relay's answer and the outcome,
\* the answer was lost, or the outcome could not be written.  Everything else
\* (a lease reclaimed, a stop, a deploy, a retry) sends a row once (lease.go,
\* "another process send the row too").  For a lease that outlasts every send:
\* MaxHold <= Lease.
DuplicatesExplained ==
  \A r \in Rows :
    delivered[r] = lapsed[r] + (IF BeingRecorded(r) \/ row[r].status = "sent"
                                THEN 1 ELSE 0)

\* A row that still waits has a try left; every failed try is counted, up to
\* maxSendAttempts, and replies that cost no attempt up to maxRowThrottles:
\* also when a process counts from the attempts it read when it took the row.
TriesAreBounded ==
  \A r \in Rows :
    /\ row[r].attempts <= MaxAttempts
    /\ row[r].status = "pending" => row[r].attempts < MaxAttempts
    /\ row[r].throttles <= MaxRowThrottles

\* A stop that came to its end leaves no row leased to the process, unless a
\* write failed on the way: not one picked together with the stop, not one
\* taken by the turn the stop came in, not one left in the channel.
StopLeavesNothing ==
  \A p \in Procs : (phase[p] = "stopped" /\ faults = 0) =>
    \A r \in Rows : row[r].status = "processing" => row[r].by # p

\* While some process stays up every queued row is sent or fails for good:
\* rows a dead process left, rows it took without learning of it, rows the
\* relay throttles for ever, and rows with no claim at all.
EveryRowEnds ==
  (\E p \in Procs : <>[](phase[p] = "up")) =>
    \A r \in Rows : row[r].status \in {"pending", "processing"}
                    ~> row[r].status \in {"sent", "failed"}

-----------------------------------------------------------------------------
\* What the queue promises to whoever queues a mail (MailLedger).
Ledger == INSTANCE MailLedger
  WITH state <- [r \in Rows |-> IF row[r].status \in {"pending", "processing"}
                                 THEN "queued" ELSE row[r].status],
       copies <- delivered,
       unknown <- lapsed
LedgerSpec == Ledger!Spec
=============================================================================
