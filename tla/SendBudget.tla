----------------------------- MODULE SendBudget -----------------------------
(***************************************************************************)
(* The send budget that all processes share: how many bulk rows a take may *)
(* have, counted in Postgres (mail_send_windows) by minute and by hour.    *)
(*                                                                         *)
(* A process's dispatcher takes system rows without asking, counts them    *)
(* afterwards, then tries for the budget's lock; with it, and in one       *)
(* transaction, it reads the clock, reads the windows, takes bulk rows and *)
(* counts them.  Which rows those are is MailQueue's business.             *)
(*                                                                         *)
(* Time is the database's clock in ticks; an instant is a tick.  Rows are  *)
(* counted, not named.  The fractions of the minute's estimate are exact   *)
(* here: everything is counted in units of a row / MinuteSpan.             *)
(***************************************************************************)
EXTENDS Integers, Functions

CONSTANTS
  Procs,
  Live,         \* those that go on; another may hang anywhere for ever
  PerMinute,    \* SKYMAIL_RATE_PER_MINUTE, 0 for no limit
  PerDay,       \* SKYMAIL_DAILY_RECIPIENT_BUDGET, 0 for no limit
  SharePercent, \* BulkSharePercent
  MinuteSpan, HourSpan, DaySpan, KeepWindows, \* in ticks
  MaxRows,      \* bound: rows of a lane a turn finds and has workers for
  MaxSystem,    \* bound: system rows queued
  MaxOpen,      \* bound: ticks a transaction stays open
  MaxNow,       \* bound: ticks
  NoProc

ASSUME BudgetAssumption ==
  /\ Live \subseteq Procs /\ NoProc \notin Procs
  /\ PerMinute \in Nat /\ PerDay \in Nat /\ PerMinute + PerDay > 0
  /\ SharePercent \in 1..100
  /\ MinuteSpan \in Nat \ {0} /\ HourSpan \in Nat \ {0} /\ DaySpan \in Nat
  /\ KeepWindows \in Nat /\ KeepWindows > 2 * MinuteSpan
  /\ KeepWindows + 1 >= DaySpan + HourSpan + MaxOpen   \* 48 h, 24 h, 1 h: open 23 h
  /\ MaxRows \in Nat \ {0} /\ MaxSystem \in Nat /\ MaxOpen \in Nat /\ MaxNow \in Nat

VARIABLES
  now,      \* the database's clock
  minutes,  \* mail_send_windows of a minute: taken, by lane and start
  hours,    \* those of an hour
  lock,     \* who holds the budget's advisory lock
  turn,     \* each dispatcher: where in its turn, and what it read
  due,      \* system rows waiting
  queued,   \* system rows queued so far
  bulkAt    \* history: bulk rows taken, by the instant their take read

vars == <<now, minutes, hours, lock, turn, due, queued, bulkAt>>

-----------------------------------------------------------------------------
Lanes == {"bulk", "system"}
Instants == 0..MaxNow
Rest == [pc |-> "system", at |-> 0, n |-> 0]

TypeOK ==
  /\ now \in Instants
  /\ minutes \in [Lanes -> [Instants -> Nat]]
  /\ hours \in [Lanes -> [Instants -> Nat]]
  /\ lock \in Procs \union {NoProc}
  /\ turn \in [Procs -> [pc : {"system", "count", "counting", "bulk", "locked", "read"},
                         at : Instants, n : Nat]]
  /\ due \in Nat /\ queued \in Nat
  /\ bulkAt \in [Instants -> Nat]
  /\ \A p \in Procs : turn[p].at <= now

InTransaction(p) == turn[p].pc \in {"locked", "read"}

-----------------------------------------------------------------------------
\* The arithmetic of the budget.

Least(a, b) == IF a <= b THEN a ELSE b

bulkShare(n) == LET share == (n * SharePercent) \div 100 IN IF share > 0 THEN share ELSE 1

windowStart(at, span) == at - (at % span)

\* What a window counts of a lane; a window with no row counts nothing.
Counted(windows, lane, start) == IF start \in Instants THEN windows[lane][start] ELSE 0

\* The room in rows, of what is counted in units of a row / scale.
limitRoom(limit, bulk, total, scale) ==
  LET room == Least(bulkShare(limit) * scale - bulk, limit * scale - total) IN
  IF room <= 0 THEN 0 ELSE room \div scale

\* A lane's count in the minute up to at: the previous window counts by as
\* much of it as lies within that minute.
MinuteEstimate(lane, at) ==
  LET current == windowStart(at, MinuteSpan) IN
  Counted(minutes, lane, current - MinuteSpan) * (MinuteSpan - (at - current))
  + Counted(minutes, lane, current) * MinuteSpan

windowRoom_CurrentOnly(at) ==
  LET taken(lane) == Counted(minutes, lane, windowStart(at, MinuteSpan)) IN
  limitRoom(PerMinute, taken("bulk"), taken("bulk") + taken("system"), 1)
windowRoom(at) ==
  LET bulk == MinuteEstimate("bulk", at) IN
  limitRoom(PerMinute, bulk, bulk + MinuteEstimate("system", at), MinuteSpan)

dayFrom_Last24Hours(at) == windowStart(at - DaySpan, HourSpan) + HourSpan
dayFrom(at) == windowStart(at - DaySpan, HourSpan)

DayTaken(lane, at) ==
  SumFunctionOnSet(hours[lane], {start \in Instants : start >= dayFrom(at)})

dayRoom(at) ==
  LET bulk == DayTaken("bulk", at) IN
  limitRoom(PerDay, bulk, bulk + DayTaken("system", at), 1)

\* bulkRoom: the least room of the minute's and the day's holds n rows.
RoomFor(n, at) ==
  /\ PerMinute > 0 => n <= windowRoom(at)
  /\ PerDay > 0 => n <= dayRoom(at)

CountSends(lane, at, n) ==
  /\ minutes' = [minutes EXCEPT ![lane][windowStart(at, MinuteSpan)] = @ + n]
  /\ hours' = [hours EXCEPT ![lane][windowStart(at, HourSpan)] = @ + n]

-----------------------------------------------------------------------------
Init ==
  /\ now = 0
  /\ minutes = [l \in Lanes |-> [i \in Instants |-> 0]] /\ hours = minutes
  /\ lock = NoProc
  /\ turn = [p \in Procs |-> Rest]
  /\ due = 0 /\ queued = 0
  /\ bulkAt = [i \in Instants |-> 0]

QueueSystem ==
  /\ queued < MaxSystem
  /\ queued' = queued + 1 /\ due' = due + 1
  /\ UNCHANGED <<now, minutes, hours, lock, turn, bulkAt>>

\* The system lane's rows are taken without asking the budget, as many as there
\* are workers for.
TakeSystem(p) ==
  /\ turn[p].pc = "system"
  /\ LET n == Least(due, MaxRows) IN
     /\ due' = due - n
     /\ turn' = [turn EXCEPT ![p] =
          [pc |-> IF n = 0 THEN "bulk" ELSE "count", at |-> 0, n |-> n]]
  /\ UNCHANGED <<now, minutes, hours, lock, queued, bulkAt>>

\* countSystem reads the clock, then counts; either may fail.
CountSystemReads(p) ==
  /\ turn[p].pc = "count"
  /\ turn' = [turn EXCEPT ![p] = [pc |-> "counting", at |-> now, n |-> turn[p].n]]
  /\ UNCHANGED <<now, minutes, hours, lock, due, queued, bulkAt>>

CountSystemWrites(p) ==
  /\ turn[p].pc = "counting"
  /\ CountSends("system", turn[p].at, turn[p].n)
  /\ turn' = [turn EXCEPT ![p] = [pc |-> "bulk", at |-> 0, n |-> 0]]
  /\ UNCHANGED <<now, lock, due, queued, bulkAt>>

CountSystemFails(p) ==
  /\ turn[p].pc \in {"count", "counting"}
  /\ turn' = [turn EXCEPT ![p] = [pc |-> "bulk", at |-> 0, n |-> 0]]
  /\ UNCHANGED <<now, minutes, hours, lock, due, queued, bulkAt>>

SkipBulk_WaitsForTheLock(p) ==
  /\ turn[p].pc = "bulk" /\ lock = NoProc
  /\ turn' = [turn EXCEPT ![p] = Rest]
  /\ UNCHANGED <<now, minutes, hours, lock, due, queued, bulkAt>>
\* The lock is taken, or no worker is left: the turn takes no bulk rows.
SkipBulk(p) ==
  /\ turn[p].pc = "bulk"
  /\ turn' = [turn EXCEPT ![p] = Rest]
  /\ UNCHANGED <<now, minutes, hours, lock, due, queued, bulkAt>>

\* The lock, then the clock.
LockBudget(p) ==
  /\ turn[p].pc = "bulk" /\ lock = NoProc
  /\ lock' = p
  /\ turn' = [turn EXCEPT ![p] = [pc |-> "locked", at |-> now, n |-> 0]]
  /\ UNCHANGED <<now, minutes, hours, due, queued, bulkAt>>

\* The windows leave room for the n rows the take will find: fewer than the
\* room when fewer are due or a gate holds some back.
ReadWindows(p) ==
  /\ turn[p].pc = "locked"
  /\ \E n \in 0..MaxRows :
       /\ n > 0 => RoomFor(n, turn[p].at)
       /\ turn' = [turn EXCEPT ![p] = [pc |-> "read", at |-> turn[p].at, n |-> n]]
  /\ UNCHANGED <<now, minutes, hours, lock, due, queued, bulkAt>>

\* They are taken and counted, and the transaction ends.
TakeBulk(p) ==
  /\ turn[p].pc = "read"
  /\ CountSends("bulk", turn[p].at, turn[p].n)
  /\ bulkAt' = [bulkAt EXCEPT ![turn[p].at] = @ + turn[p].n]
  /\ lock' = NoProc
  /\ turn' = [turn EXCEPT ![p] = Rest]
  /\ UNCHANGED <<now, due, queued>>

\* A failure in the transaction, or the end of its process, takes nothing.
AbortBulk(p) ==
  /\ InTransaction(p)
  /\ lock' = NoProc
  /\ turn' = [turn EXCEPT ![p] = Rest]
  /\ UNCHANGED <<now, minutes, hours, due, queued, bulkAt>>

DropBefore_AnHourBack(windows, at) ==
  [l \in Lanes |-> [i \in Instants |-> IF i < at - HourSpan THEN 0 ELSE windows[l][i]]]
DropBefore(windows, at) ==
  [l \in Lanes |-> [i \in Instants |-> IF i < at - KeepWindows THEN 0 ELSE windows[l][i]]]

\* The reaper's turn drops the windows no budget reads any more.
Prune ==
  /\ minutes # DropBefore(minutes, now) \/ hours # DropBefore(hours, now)
  /\ minutes' = DropBefore(minutes, now) /\ hours' = DropBefore(hours, now)
  /\ UNCHANGED <<now, lock, turn, due, queued, bulkAt>>

\* A transaction stays open for MaxOpen ticks at most.
Tick ==
  /\ now < MaxNow
  /\ \A p \in Procs : InTransaction(p) => now - turn[p].at < MaxOpen
  /\ now' = now + 1
  /\ UNCHANGED <<minutes, hours, lock, turn, due, queued, bulkAt>>

-----------------------------------------------------------------------------
TurnStep(p) ==
  \/ TakeSystem(p) \/ CountSystemReads(p) \/ CountSystemWrites(p) \/ CountSystemFails(p)
  \/ SkipBulk(p) \/ LockBudget(p) \/ ReadWindows(p) \/ TakeBulk(p)

Next ==
  \/ QueueSystem \/ Prune \/ Tick
  \/ \E p \in Procs : TurnStep(p) \/ AbortBulk(p)

Spec == Init /\ [][Next]_vars

\* Turns come every ten seconds at least, and go on but in a process that
\* hangs.
FairSpec == Spec /\ \A p \in Live : WF_vars(TurnStep(p))

-----------------------------------------------------------------------------
(* Properties *)

BulkWithin(t, span) == SumFunctionOnSet(bulkAt, {i \in Instants : t - span < i /\ i <= t})

\* One process at a time reads the windows, takes and counts: whoever is in the
\* transaction holds the budget's lock, and it is let go with the transaction,
\* however that ends (LockSendBudget).
LockIsExclusive == \A p \in Procs : InTransaction(p) <=> lock = p

\* In no 24 hours, wherever they begin, do all processes together take more
\* bulk rows than the bulk lane's share of the day's limit: not across the
\* turn of an hour, not with a take that stays open while time passes, not
\* after old windows were pruned (bulkRoom, "at most an hour more than the 24
\* hours hold, never less").
DayHeld ==
  PerDay > 0 => \A t \in Instants : BulkWithin(t, DaySpan) <= bulkShare(PerDay)

\* At every instant, also when a take that began a minute ago commits, the
\* bulk lane's minute, the previous window weighed, is within its share of the
\* limit, and so is each window: a list does not send its share at the end of
\* one minute and again at the start of the next (bulkRoom).
MinuteEstimateHeld ==
  PerMinute > 0 =>
    /\ MinuteEstimate("bulk", now) <= bulkShare(PerMinute) * MinuteSpan
    /\ \A i \in Instants : minutes["bulk"][i] <= bulkShare(PerMinute)

\* A system row is taken though another process hangs anywhere in its turn,
\* the budget's lock in its hands, and though the budget is spent
\* (LockSendBudget, "a process stuck holding it never holds up another's
\* dispatcher").
SystemMailGoes == due > 0 ~> due = 0
=============================================================================
