---------------------------- MODULE TaskControl ----------------------------
(***************************************************************************)
(* Pause, resume and cancel of one bulk send, against everything that      *)
(* moves its queue rows meanwhile: takes of several processes, outcomes,   *)
(* retries, leases that run out, the failure-rate guard and the reaper.    *)
(*                                                                         *)
(* The database runs at READ COMMITTED.  A statement reads a snapshot and  *)
(* waits for the rows others have locked; what it reads again after the    *)
(* wait is only the row it updates.  So a step that reads and a step that  *)
(* writes are apart here wherever another transaction can come between.    *)
(* How a claim is fenced and a lease runs out is MailQueue's business: here *)
(* a row being sent ends, or is put back.                                  *)
(***************************************************************************)
EXTENDS Integers, FiniteSets

CONSTANTS
  Rows,         \* the send's queue rows
  Procs,        \* processes, each with one dispatcher
  Workers,      \* workers that may be counting a failure at a time
  MinFailures,  \* SKYMAIL_FAILURE_PAUSE_COUNT, 0 for never
  MinPercent,   \* SKYMAIL_FAILURE_PAUSE_PERCENT
  MaxPutBacks   \* bound: retries, expired leases, takes rolled back, counts lost

ASSUME TaskAssumption ==
  /\ IsFiniteSet(Rows)
  /\ MinFailures \in Nat /\ MinPercent \in 1..100 /\ MaxPutBacks \in Nat

VARIABLES
  row,       \* each row: its status, and whether it is parked (never due)
  paused,    \* the send's paused_reason, "no" while paused_at is NULL
  cancelled, \* cancelled_at is set
  failures,  \* send_failures
  ctl,       \* the control transaction that holds the send's row lock
  take,      \* each process's open take
  count,     \* each worker that counts a failure, and the reaper's unpark
  putBacks   \* how often something was put back or lost

vars == <<row, paused, cancelled, failures, ctl, take, count, putBacks>>

-----------------------------------------------------------------------------
Statuses == {"pending", "processing", "sent", "failed", "cancelled"}
\* Only a pending row is parked.
RowState == [status : {"pending"}, parked : BOOLEAN]
            \union [status : Statuses \ {"pending"}, parked : {FALSE}]

NoCtl == [op |-> "none", todo |-> {}]
NoTake == [pc |-> "none", rows |-> {}]
Idle == [pc |-> "idle", now |-> FALSE, todo |-> {}]

Reaper == "reaper"
Counting == Workers \union {Reaper}

TypeOK ==
  /\ row \in [Rows -> RowState]
  /\ paused \in {"no", "operator", "failure_rate"}
  /\ cancelled \in BOOLEAN /\ failures \in Nat /\ putBacks \in Nat
  /\ ctl \in [op : {"none", "pause", "resume", "cancel"}, todo : SUBSET Rows]
  /\ take \in [Procs -> [pc : {"none", "open", "send", "hold", "park", "due", "cancel"},
                         rows : SUBSET Rows]]
  /\ count \in [Counting -> [pc : {"idle", "failed", "counting", "pausing", "parking", "unparking"},
                             now : BOOLEAN, todo : SUBSET Rows]]

-----------------------------------------------------------------------------
Held == cancelled \/ paused # "no"
Pending == {r \in Rows : row[r].status = "pending"}
Parked == {r \in Pending : row[r].parked}

\* Rows that an open take has locked; to everyone else they are as they were.
Locked == UNION {take[p].rows : p \in Procs}
Free_NoLock(S) == TRUE
Free(S) == S \intersect Locked = {}

SetRows(S, status, parked) ==
  row' = [r \in Rows |-> IF r \in S THEN [status |-> status, parked |-> parked] ELSE row[r]]

PutBack == putBacks < MaxPutBacks /\ putBacks' = putBacks + 1

Init ==
  /\ row = [r \in Rows |-> [status |-> "pending", parked |-> FALSE]]
  /\ paused = "no" /\ cancelled = FALSE /\ failures = 0 /\ putBacks = 0
  /\ ctl = NoCtl
  /\ take = [p \in Procs |-> NoTake]
  /\ count = [w \in Counting |-> Idle]

-----------------------------------------------------------------------------
\* A take: lock due rows, see whether the send is held, write, commit.

BeginTake(p) ==
  /\ take[p].pc = "none"
  /\ \E S \in SUBSET ((Pending \ Parked) \ Locked) :
       /\ S # {}
       /\ take' = [take EXCEPT ![p] = [pc |-> "open", rows |-> S]]
  /\ UNCHANGED <<row, paused, cancelled, failures, ctl, count, putBacks>>

CheckHeld_NotCancelled(p) ==
  /\ take[p].pc = "open"
  /\ take' = [take EXCEPT ![p].pc = IF paused # "no" THEN "hold" ELSE "send"]
  /\ UNCHANGED <<row, paused, cancelled, failures, ctl, count, putBacks>>
\* GetHeldTasks.
CheckHeld(p) ==
  /\ take[p].pc = "open"
  /\ take' = [take EXCEPT ![p].pc = IF cancelled THEN "cancel"
                                    ELSE IF paused # "no" THEN "hold" ELSE "send"]
  /\ UNCHANGED <<row, paused, cancelled, failures, ctl, count, putBacks>>

\* ParkClaimedRows reads again whether the send is paused.
ParkClaimed(p) ==
  /\ take[p].pc = "hold"
  /\ take' = [take EXCEPT ![p].pc = IF paused # "no" /\ ~cancelled THEN "park" ELSE "due"]
  /\ UNCHANGED <<row, paused, cancelled, failures, ctl, count, putBacks>>

\* What a take writes of its rows: a row that was only held a moment ago stays
\* due, the rows of a cancelled send end with it.
Claim(S) == SetRows(S, "processing", FALSE)
Park(S) == SetRows(S, "pending", TRUE)
CancelClaimed(S) == SetRows(S, "cancelled", FALSE)

CommitTake(p) ==
  /\ \/ take[p].pc = "send" /\ Claim(take[p].rows)
     \/ take[p].pc = "park" /\ Park(take[p].rows)
     \/ take[p].pc = "due" /\ SetRows(take[p].rows, "pending", FALSE)
     \/ take[p].pc = "cancel" /\ CancelClaimed(take[p].rows)
  /\ take' = [take EXCEPT ![p] = NoTake]
  /\ UNCHANGED <<paused, cancelled, failures, ctl, count, putBacks>>

\* The take's transaction ends without a commit.
AbortTake(p) ==
  /\ take[p].pc # "none"
  /\ take' = [take EXCEPT ![p] = NoTake]
  /\ PutBack
  /\ UNCHANGED <<row, paused, cancelled, failures, ctl, count>>

-----------------------------------------------------------------------------
\* Outcomes of rows being sent.

Sent(r) ==
  /\ row[r].status = "processing"
  /\ SetRows({r}, "sent", FALSE)
  /\ UNCHANGED <<paused, cancelled, failures, ctl, take, count, putBacks>>

\* A retry, or a lease that ran out: pending again, whatever its send is.
Return(r) ==
  /\ row[r].status = "processing"
  /\ SetRows({r}, "pending", FALSE)
  /\ PutBack
  /\ UNCHANGED <<paused, cancelled, failures, ctl, take, count>>

\* A failure for good; the worker goes on to count it.
Fails(w, r) ==
  /\ row[r].status = "processing" /\ count[w].pc = "idle"
  /\ SetRows({r}, "failed", FALSE)
  /\ count' = [count EXCEPT ![w].pc = "failed"]
  /\ UNCHANGED <<paused, cancelled, failures, ctl, take, putBacks>>

-----------------------------------------------------------------------------
\* CountTaskSendFailure: whether to pause is read from the statement's
\* snapshot; the write waits for the send's row lock and counts on from what
\* it then finds, with the verdict read before.

PastThreshold ==
  LET n == failures + 1
      sent == Cardinality({r \in Rows : row[r].status = "sent"}) IN
  /\ MinFailures > 0
  /\ n >= MinFailures
  /\ n * 100 >= MinPercent * (n + sent)

CountReads(w) ==
  /\ count[w].pc = "failed"
  /\ count' = [count EXCEPT ![w] = [pc |-> "counting", now |-> ~Held /\ PastThreshold, todo |-> {}]]
  /\ UNCHANGED <<row, paused, cancelled, failures, ctl, take, putBacks>>

CountWrites(w) ==
  /\ count[w].pc = "counting" /\ ctl = NoCtl
  /\ failures' = failures + 1
  /\ paused' = IF count[w].now THEN "failure_rate" ELSE paused
  /\ count' = [count EXCEPT ![w] = IF count[w].now THEN [Idle EXCEPT !.pc = "pausing"] ELSE Idle]
  /\ UNCHANGED <<row, cancelled, ctl, take, putBacks>>

\* ParkPendingRows, after the pause is committed.
ParkReads(w) ==
  /\ count[w].pc = "pausing"
  /\ count' = [count EXCEPT ![w] =
       [pc |-> "parking", now |-> FALSE,
        todo |-> IF paused # "no" /\ ~cancelled THEN Pending ELSE {}]]
  /\ UNCHANGED <<row, paused, cancelled, failures, ctl, take, putBacks>>

ParkWrites(w) ==
  /\ count[w].pc = "parking" /\ Free(count[w].todo)
  /\ Park(count[w].todo \intersect Pending)
  /\ count' = [count EXCEPT ![w] = Idle]
  /\ UNCHANGED <<paused, cancelled, failures, ctl, take, putBacks>>

\* The process dies, or the database refuses, before the count or the park.
CountLost(w) ==
  /\ count[w].pc \notin {"idle", "unparking"}
  /\ count' = [count EXCEPT ![w] = Idle]
  /\ PutBack
  /\ UNCHANGED <<row, paused, cancelled, failures, ctl, take>>

-----------------------------------------------------------------------------
\* The reaper's turn: sweepCancelled, then unparkResumed.

Sweep ==
  /\ cancelled /\ Pending # {} /\ Free(Pending)
  /\ SetRows(Pending, "cancelled", FALSE)
  /\ UNCHANGED <<paused, cancelled, failures, ctl, take, count, putBacks>>

UnparkReads_Never ==
  /\ FALSE
  /\ UNCHANGED vars
UnparkReads ==
  /\ count[Reaper].pc = "idle" /\ ~Held /\ Parked # {}
  /\ count' = [count EXCEPT ![Reaper] = [pc |-> "unparking", now |-> FALSE, todo |-> Parked]]
  /\ UNCHANGED <<row, paused, cancelled, failures, ctl, take, putBacks>>

UnparkWrites ==
  /\ count[Reaper].pc = "unparking"
  /\ SetRows(count[Reaper].todo \intersect Parked, "pending", FALSE)
  /\ count' = [count EXCEPT ![Reaper] = Idle]
  /\ UNCHANGED <<paused, cancelled, failures, ctl, take, putBacks>>

-----------------------------------------------------------------------------
\* An operator's request: GetMailTaskControl locks the send's row and refuses
\* what does not apply; then the control's statement reads the rows.

Unfinished == \E r \in Rows : row[r].status \in {"pending", "processing"}

BeginControl(op) ==
  /\ ctl = NoCtl
  /\ op = "pause" => ~Held /\ Unfinished
  /\ op = "resume" => paused # "no" /\ ~cancelled
  /\ op = "cancel" => ~cancelled /\ Unfinished
  /\ ctl' = [op |-> op, todo |-> IF op = "resume" THEN Parked ELSE Pending]
  /\ UNCHANGED <<row, paused, cancelled, failures, take, count, putBacks>>

CommitPause ==
  /\ ctl.op = "pause" /\ Free(ctl.todo)
  /\ Park(ctl.todo \intersect Pending)
  /\ paused' = "operator"
  /\ ctl' = NoCtl
  /\ UNCHANGED <<cancelled, failures, take, count, putBacks>>

CommitResume ==
  /\ ctl.op = "resume"
  /\ SetRows(ctl.todo \intersect Parked, "pending", FALSE)
  /\ paused' = "no" /\ failures' = 0
  /\ ctl' = NoCtl
  /\ UNCHANGED <<cancelled, take, count, putBacks>>

CommitCancel ==
  /\ ctl.op = "cancel" /\ Free(ctl.todo)
  /\ SetRows(ctl.todo \intersect Pending, "cancelled", FALSE)
  /\ cancelled' = TRUE /\ paused' = "no"
  /\ ctl' = NoCtl
  /\ UNCHANGED <<failures, take, count, putBacks>>

-----------------------------------------------------------------------------
TakeStep(p) == BeginTake(p) \/ CheckHeld(p) \/ ParkClaimed(p) \/ CommitTake(p)
CountStep(w) == CountReads(w) \/ CountWrites(w) \/ ParkReads(w) \/ ParkWrites(w)
Unpark == UnparkReads \/ UnparkWrites
CommitControl == CommitPause \/ CommitResume \/ CommitCancel
Outcome(r) == Sent(r) \/ Return(r) \/ (\E w \in Workers : Fails(w, r))

Next ==
  \/ \E p \in Procs : TakeStep(p) \/ AbortTake(p)
  \/ \E r \in Rows : Outcome(r)
  \/ \E w \in Workers : CountStep(w) \/ CountLost(w)
  \/ Sweep \/ Unpark
  \/ \E op \in {"pause", "resume", "cancel"} : BeginControl(op)
  \/ CommitControl

Spec == Init /\ [][Next]_vars

\* Transactions that began go on, rows being sent end, due rows are taken and
\* the reaper's turns come; nothing owes an operator's request.  A waiting
\* statement gets its row locks in the end: takes come and go, but a row it
\* waits for is granted to it before a later take (strong fairness).
Fairness ==
  /\ \A p \in Procs : WF_vars(TakeStep(p))
  /\ \A r \in Rows : WF_vars(Outcome(r))
  /\ \A w \in Workers : SF_vars(CountStep(w))
  /\ SF_vars(Sweep) /\ SF_vars(Unpark) /\ SF_vars(CommitControl)

FairSpec == Spec /\ Fairness

-----------------------------------------------------------------------------
(* Properties *)

\* Nothing of the send is with a worker, nor decided to be.
Quiet ==
  /\ \A r \in Rows : row[r].status # "processing"
  /\ \A p \in Procs : take[p].pc # "send"

\* A send that is paused or cancelled, and whose rows in progress have ended,
\* stays quiet until it is resumed: no retry, expired lease, open take,
\* unparking or late pause sets one of its mails off (PauseMailTask,
\* "The bulk lane takes none of the send's rows until it is resumed").
HeldStaysQuiet ==
  [][Held /\ Quiet /\ Held' => Quiet']_vars

\* A row written off by a cancel never goes out: it was with no worker and in
\* no take, and no take that began before the cancel, no outcome and no late
\* park or unpark moves it again (CancelPendingRows, CancelClaimedRows).
CancelIsFinal ==
  [][\A r \in Rows : row[r].status = "cancelled" => row'[r] = row[r]]_vars

\* No row is forgotten: once a send is cancelled, or stays neither paused nor
\* cancelled, each of its rows ends, also a row that was parked as, or after,
\* it was resumed (ParkClaimedRows, ParkPendingRows; unparkResumed,
\* sweepCancelled).
NoRowStranded ==
  (<>cancelled \/ <>[](~Held)) =>
    \A r \in Rows : row[r].status = "pending"
                    ~> row[r].status \in {"sent", "failed", "cancelled"}

\* What CountTaskSendFailure says of itself (query.sql): "A cancelled or
\* already paused send is counted and left as it is."
CountLeavesHeldSends ==
  [][failures' = failures + 1 /\ Held => paused' = paused]_vars
=============================================================================
