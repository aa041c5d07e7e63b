--------------------------- MODULE TaskControlProofs ---------------------------
(***************************************************************************)
(* Pause, resume and cancel of a send, proved for every number of rows,    *)
(* processes and workers and every order of takes, outcomes, counts and    *)
(* controls: a held send stays quiet, and a cancel is final.               *)
(***************************************************************************)
EXTENDS TaskControl, TLAPS

-----------------------------------------------------------------------------
(* Types.                                                                   *)

RowStatesAre ==
  /\ \A b \in BOOLEAN : [status |-> "pending", parked |-> b] \in RowState
  /\ \A s \in Statuses : [status |-> s, parked |-> FALSE] \in RowState

LEMMA RowStates == RowStatesAre
BY DEF RowStatesAre, RowState, Statuses

CtlStates == [op : {"none", "pause", "resume", "cancel"}, todo : SUBSET Rows]
TakeStates == [pc : {"none", "open", "send", "hold", "park", "due", "cancel"}, rows : SUBSET Rows]
CountStates == [pc : {"idle", "failed", "counting", "pausing", "parking", "unparking"},
                now : BOOLEAN, todo : SUBSET Rows]

LEMMA TypesAre ==
  TypeOK <=> /\ row \in [Rows -> RowState]
             /\ paused \in {"no", "operator", "failure_rate"}
             /\ cancelled \in BOOLEAN /\ failures \in Nat /\ putBacks \in Nat
             /\ ctl \in CtlStates /\ take \in [Procs -> TakeStates] /\ count \in [Counting -> CountStates]
BY DEF TypeOK, CtlStates, TakeStates, CountStates

LEMMA AtRest == NoCtl \in CtlStates /\ NoTake \in TakeStates /\ Idle \in CountStates
BY DEF NoCtl, NoTake, Idle, CtlStates, TakeStates, CountStates

LEMMA RowsSet ==
  ASSUME row \in [Rows -> RowState], NEW S, NEW status, NEW parked, SetRows(S, status, parked),
         [status |-> status, parked |-> parked] \in RowState
  PROVE  /\ row' \in [Rows -> RowState]
         /\ \A r \in Rows : r \notin S => row'[r] = row[r]
         /\ \A r \in Rows : r \in S => row'[r].status = status
BY DEF SetRows

\* What a take writes of its rows.
LEMMA TakeWrites ==
  ASSUME row \in [Rows -> RowState], NEW p \in Procs, CommitTake(p)
  PROVE  /\ row' \in [Rows -> RowState]
         /\ \A r \in Rows : r \notin take[p].rows => row'[r] = row[r]
         /\ \A r \in take[p].rows \cap Rows : row'[r].status = "processing" => take[p].pc = "send"
<1>1. PICK S : S = take[p].rows  OBVIOUS
<1>2. PICK status \in Statuses, parked \in BOOLEAN :
        /\ SetRows(S, status, parked) /\ (parked => status = "pending")
        /\ status = "processing" => take[p].pc = "send"
  BY <1>1 DEF CommitTake, Claim, Park, CancelClaimed, Statuses
<1>3. [status |-> status, parked |-> parked] \in RowState
  BY <1>2, RowStates DEF RowStatesAre
<1> QED BY <1>1, <1>2, <1>3, RowsSet

\* Every other step that writes rows: those being sent, or those that wait and
\* are in no take unless it only sets them due.
Others ==
  \/ \E r \in Rows : Outcome(r)
  \/ (\E w \in Workers : ParkWrites(w)) \/ Sweep \/ UnparkWrites \/ CommitControl
LEMMA OthersWrite ==
  ASSUME row \in [Rows -> RowState], Others
  PROVE  /\ row' \in [Rows -> RowState] /\ UNCHANGED take
         /\ \A r \in Rows : \/ row'[r] = row[r]
                            \/ row[r].status = "processing"
                            \/ /\ r \in Pending /\ row'[r].status # "processing"
                               /\ r \notin Locked \/ row'[r].status = "pending"
<1> DEFINE Written(S) ==
      /\ row' \in [Rows -> RowState]
      /\ \A r \in Rows : r \notin S => row'[r] = row[r]
<1>1. ASSUME NEW r \in Rows, Outcome(r)
      PROVE  Written({r}) /\ row[r].status = "processing" /\ UNCHANGED take
  <2>1. \E s \in Statuses : SetRows({r}, s, FALSE)
    BY <1>1 DEF Outcome, Sent, Return, Fails, Statuses
  <2>2. Written({r})  BY <2>1, RowsSet, RowStates DEF RowStatesAre
  <2> QED BY <1>1, <2>2 DEF Outcome, Sent, Return, Fails
<1>2. ASSUME NEW S, NEW status \in {"pending", "cancelled"}, NEW parked \in BOOLEAN,
             SetRows(S, status, parked), parked => status = "pending"
      PROVE  Written(S) /\ \A r \in S \cap Rows : row'[r].status = status
  BY <1>2, RowsSet, RowStates DEF RowStatesAre, Statuses
<1>3. CASE \E r \in Rows : Outcome(r)  BY <1>1, <1>3
<1>4. ASSUME NEW w \in Workers, ParkWrites(w)
      PROVE  Written(count[w].todo \cap Pending) /\ Free(count[w].todo) /\ UNCHANGED take
             /\ \A r \in count[w].todo \cap Pending : row'[r].status = "pending"
  <2>1. SetRows(count[w].todo \cap Pending, "pending", TRUE)  BY <1>4 DEF ParkWrites, Park
  <2> QED BY <1>2, <1>4, <2>1 DEF ParkWrites, Pending
<1>5. CASE \E w \in Workers : ParkWrites(w)  BY <1>4, <1>5
<1>6. CASE Sweep
  <2>1. Written(Pending) /\ \A r \in Pending : row'[r].status = "cancelled"
    BY <1>2, <1>6 DEF Sweep, Pending
  <2> QED BY <1>6, <2>1 DEF Sweep, Free
<1>7. CASE UnparkWrites
  <2>1. SetRows(count[Reaper].todo \cap Parked, "pending", FALSE) /\ UNCHANGED take
    BY <1>7 DEF UnparkWrites
  <2>2. Parked \subseteq Pending /\ Pending \subseteq Rows  BY DEF Parked, Pending
  <2> QED BY <1>2, <2>1, <2>2, ZenonT(30)
<1>8. CASE CommitPause
  <2>1. SetRows(ctl.todo \cap Pending, "pending", TRUE) /\ UNCHANGED take
    BY <1>8 DEF CommitPause, Park
  <2>2. Written(ctl.todo \cap Pending) /\ \A r \in ctl.todo \cap Pending : row'[r].status = "pending"
    BY <1>2, <2>1 DEF Pending
  <2> QED BY <2>1, <2>2
<1>9. CASE CommitResume
  <2>1. SetRows(ctl.todo \cap Parked, "pending", FALSE) /\ UNCHANGED take
    BY <1>9 DEF CommitResume
  <2>2. Parked \subseteq Pending /\ Pending \subseteq Rows  BY DEF Parked, Pending
  <2> QED BY <1>2, <2>1, <2>2, ZenonT(30)
<1>10. CASE CommitCancel
  <2>1. SetRows(ctl.todo \cap Pending, "cancelled", FALSE) /\ UNCHANGED take /\ Free(ctl.todo)
    BY <1>10 DEF CommitCancel
  <2>2. Written(ctl.todo \cap Pending) /\ \A r \in ctl.todo \cap Pending : row'[r].status = "cancelled"
    BY <1>2, <2>1 DEF Pending
  <2> QED BY <2>1, <2>2 DEF Free
<1> QED BY <1>3, <1>5, <1>6, <1>7, <1>8, <1>9, <1>10 DEF Others, CommitControl

\* The steps that write no row.
Reads ==
  \/ \E p \in Procs : BeginTake(p) \/ CheckHeld(p) \/ ParkClaimed(p) \/ AbortTake(p)
  \/ \E w \in Workers : CountReads(w) \/ CountWrites(w) \/ ParkReads(w) \/ CountLost(w)
  \/ UnparkReads \/ \E op \in {"pause", "resume", "cancel"} : BeginControl(op)

LEMMA StepsSplit == Next => Reads \/ Others \/ \E p \in Procs : CommitTake(p)
BY DEF Next, TakeStep, CountStep, Unpark, Reads, Others

LEMMA ReadsWriteNothing == Reads => UNCHANGED row
BY DEF Reads, BeginTake, CheckHeld, ParkClaimed, AbortTake, CountReads, CountWrites, ParkReads, CountLost,
       UnparkReads, BeginControl

\* What the takes become.
LEMMA TakesMove ==
  ASSUME TypeOK, [Next]_vars
  PROVE  /\ take' \in [Procs -> TakeStates]
         /\ \/ UNCHANGED take
            \/ \E p \in Procs : /\ \A q \in Procs \ {p} : take'[q] = take[q]
                                /\ \/ take'[p].rows = take[p].rows /\ (take'[p].pc = "send" => ~Held)
                                   \/ take'[p].rows = {} /\ take'[p].pc = "none"
                                   \/ BeginTake(p) /\ take'[p].rows \subseteq Pending \ Locked /\ take'[p].pc = "open"
<1>0. take \in [Procs -> TakeStates]  BY TypesAre
<1>1. CASE UNCHANGED vars  BY <1>0, <1>1 DEF vars
<1>2. CASE Others
  <2>1. UNCHANGED take  BY <1>2, OthersWrite, TypesAre
  <2> QED BY <1>0, <2>1
<1>3. ASSUME NEW p \in Procs, CommitTake(p) \/ AbortTake(p)
      PROVE  /\ take' \in [Procs -> TakeStates]
             /\ \A q \in Procs \ {p} : take'[q] = take[q]
             /\ take'[p].rows = {} /\ take'[p].pc = "none"
  <2>1. take' = [take EXCEPT ![p] = NoTake]  BY <1>3 DEF CommitTake, AbortTake
  <2>2. NoTake.rows = {} /\ NoTake.pc = "none"  BY DEF NoTake
  <2> QED BY <1>0, <2>1, <2>2, AtRest
<1>4. ASSUME NEW p \in Procs, BeginTake(p)
      PROVE  /\ take' \in [Procs -> TakeStates]
             /\ \A q \in Procs \ {p} : take'[q] = take[q]
             /\ take'[p].rows \subseteq Pending \ Locked /\ take'[p].pc = "open"
  <2>1. PICK S \in SUBSET ((Pending \ Parked) \ Locked) : take' = [take EXCEPT ![p] = [pc |-> "open", rows |-> S]]
    BY <1>4 DEF BeginTake
  <2>2. Pending \subseteq Rows  BY DEF Pending
  <2>3. [pc |-> "open", rows |-> S] \in TakeStates  BY <2>2 DEF TakeStates
  <2> QED BY <1>0, <2>1, <2>3
<1>5. ASSUME NEW p \in Procs, CheckHeld(p) \/ ParkClaimed(p)
      PROVE  /\ take' \in [Procs -> TakeStates]
             /\ \A q \in Procs \ {p} : take'[q] = take[q]
             /\ take'[p].rows = take[p].rows /\ (take'[p].pc = "send" => ~Held)
  <2>1. PICK pc \in {"send", "hold", "park", "due", "cancel"} :
          take' = [take EXCEPT ![p].pc = pc] /\ (pc = "send" => ~Held)
    BY <1>5 DEF CheckHeld, ParkClaimed, Held
  <2>2. PICK t : t = [take[p] EXCEPT !.pc = pc]  OBVIOUS
  <2>3. take[p] \in TakeStates  BY <1>0
  <2>4. t \in TakeStates /\ t.rows = take[p].rows /\ t.pc = pc  BY <2>2, <2>3 DEF TakeStates
  <2>5. take' = [take EXCEPT ![p] = t]  BY <2>1, <2>2
  <2> QED BY <1>0, <2>1, <2>4, <2>5
<1>6. CASE Reads
  <2>1. CASE UNCHANGED take  BY <1>0, <2>1
  <2> QED BY <1>3, <1>4, <1>5, <1>6, <2>1
          DEF Reads, CountReads, CountWrites, ParkReads, CountLost, UnparkReads, BeginControl
<1> QED BY <1>1, <1>2, <1>3, <1>6, StepsSplit

\* What the counts, the reaper's unpark and the control become.
LEMMA CountsTyped ==
  ASSUME TypeOK, [Next]_vars
  PROVE  count' \in [Counting -> CountStates] /\ ctl' \in CtlStates
<1>0. count \in [Counting -> CountStates] /\ ctl \in CtlStates  BY TypesAre
<1>1. ASSUME NEW w \in Counting, NEW c \in CountStates, count' = [count EXCEPT ![w] = c]
      PROVE  count' \in [Counting -> CountStates]
  BY <1>0, <1>1
<1>2. Reaper \in Counting /\ \A w \in Workers : w \in Counting  BY DEF Counting
<1>3. Pending \subseteq Rows /\ Parked \subseteq Rows  BY DEF Pending, Parked
<1>4. \A now \in BOOLEAN : [pc |-> "counting", now |-> now, todo |-> {}] \in CountStates
  BY DEF CountStates
<1>5. \A S \in SUBSET Rows : /\ [pc |-> "parking", now |-> FALSE, todo |-> S] \in CountStates
                             /\ [pc |-> "unparking", now |-> FALSE, todo |-> S] \in CountStates
  BY DEF CountStates
<1>6. [Idle EXCEPT !.pc = "pausing"] \in CountStates  BY DEF Idle, CountStates
<1>7. \A w \in Counting : [count[w] EXCEPT !.pc = "failed"] \in CountStates
  <2> SUFFICES ASSUME NEW w \in Counting PROVE [count[w] EXCEPT !.pc = "failed"] \in CountStates  OBVIOUS
  <2>1. count[w] \in CountStates  BY <1>0
  <2> QED BY <2>1 DEF CountStates
<1>8. \A op \in {"pause", "resume", "cancel"}, S \in SUBSET Rows : [op |-> op, todo |-> S] \in CtlStates
  BY DEF CtlStates
<1>10. count' \in [Counting -> CountStates]
  <2>1. CASE UNCHANGED count  BY <1>0, <2>1
  <2>2. ASSUME NEW w \in Workers, NEW r \in Rows, Fails(w, r) PROVE count' \in [Counting -> CountStates]
    <3>1. PICK c \in CountStates : c = [count[w] EXCEPT !.pc = "failed"]  BY <1>2, <1>7
    <3>2. count' = [count EXCEPT ![w] = c]  BY <2>2, <3>1 DEF Fails
    <3> QED BY <1>1, <1>2, <3>2
  <2>3. ASSUME NEW w \in Workers, CountReads(w) PROVE count' \in [Counting -> CountStates]
    <3>1. (~Held /\ PastThreshold) \in BOOLEAN  OBVIOUS
    <3>2. PICK now \in BOOLEAN : count' = [count EXCEPT ![w] = [pc |-> "counting", now |-> now, todo |-> {}]]
      BY <2>3, <3>1 DEF CountReads
    <3> QED BY <1>1, <1>2, <1>4, <3>2
  <2>4. ASSUME NEW w \in Workers, CountWrites(w) PROVE count' \in [Counting -> CountStates]
    <3>1. PICK c \in CountStates : count' = [count EXCEPT ![w] = c]
      BY <1>6, <2>4, AtRest DEF CountWrites
    <3> QED BY <1>1, <1>2, <3>1
  <2>5. ASSUME NEW w \in Workers, ParkReads(w) PROVE count' \in [Counting -> CountStates]
    <3>1. PICK S \in SUBSET Rows : count' = [count EXCEPT ![w] = [pc |-> "parking", now |-> FALSE, todo |-> S]]
      BY <1>3, <2>5 DEF ParkReads
    <3> QED BY <1>1, <1>2, <1>5, <3>1
  <2>6. ASSUME NEW w \in Workers, ParkWrites(w) \/ CountLost(w) PROVE count' \in [Counting -> CountStates]
    <3>1. count' = [count EXCEPT ![w] = Idle]  BY <2>6 DEF ParkWrites, CountLost
    <3> QED BY <1>1, <1>2, <3>1, AtRest
  <2>7. CASE UnparkReads
    <3>1. count' = [count EXCEPT ![Reaper] = [pc |-> "unparking", now |-> FALSE, todo |-> Parked]]
      BY <2>7 DEF UnparkReads
    <3> QED BY <1>1, <1>2, <1>3, <1>5, <3>1
  <2>8. CASE UnparkWrites
    <3>1. count' = [count EXCEPT ![Reaper] = Idle]  BY <2>8 DEF UnparkWrites
    <3> QED BY <1>1, <1>2, <3>1, AtRest
  <2>9. ASSUME NEW p \in Procs, TakeStep(p) \/ AbortTake(p) PROVE UNCHANGED count
    BY <2>9 DEF TakeStep, AbortTake, BeginTake, CheckHeld, ParkClaimed, CommitTake
  <2>10. ASSUME NEW r \in Rows, Outcome(r) PROVE UNCHANGED count \/ \E w \in Workers : Fails(w, r)
    BY <2>10 DEF Outcome, Sent, Return
  <2>11. Sweep \/ CommitControl \/ UNCHANGED vars \/ (\E op \in {"pause", "resume", "cancel"} : BeginControl(op))
           => UNCHANGED count
    BY DEF Sweep, CommitControl, CommitPause, CommitResume, CommitCancel, vars, BeginControl
  <2> QED BY <2>1, <2>2, <2>3, <2>4, <2>5, <2>6, <2>7, <2>8, <2>9, <2>10, <2>11 DEF Next, CountStep, Unpark
<1>11. ctl' \in CtlStates
  <2>1. CASE UNCHANGED ctl  BY <1>0, <2>1
  <2>2. CASE CommitControl
    BY <2>2, AtRest DEF CommitControl, CommitPause, CommitResume, CommitCancel
  <2>3. ASSUME NEW op \in {"pause", "resume", "cancel"}, BeginControl(op) PROVE ctl' \in CtlStates
    <3>1. PICK S \in SUBSET Rows : ctl' = [op |-> op, todo |-> S]  BY <1>3, <2>3 DEF BeginControl
    <3> QED BY <1>8, <3>1
  <2>4. ASSUME NEW p \in Procs, TakeStep(p) \/ AbortTake(p) PROVE UNCHANGED ctl
    BY <2>4 DEF TakeStep, AbortTake, BeginTake, CheckHeld, ParkClaimed, CommitTake
  <2>5. ASSUME NEW r \in Rows, Outcome(r) PROVE UNCHANGED ctl
    BY <2>5 DEF Outcome, Sent, Return, Fails
  <2>6. ASSUME NEW w \in Workers, CountStep(w) \/ CountLost(w) PROVE UNCHANGED ctl
    BY <2>6 DEF CountStep, CountReads, CountWrites, ParkReads, ParkWrites, CountLost
  <2>7. Sweep \/ Unpark \/ UNCHANGED vars => UNCHANGED ctl
    BY DEF Sweep, Unpark, UnparkReads, UnparkWrites, vars
  <2> QED BY <2>1, <2>2, <2>3, <2>4, <2>5, <2>6, <2>7 DEF Next
<1> QED BY <1>10, <1>11

LEMMA FlagsTyped ==
  ASSUME TypeOK, [Next]_vars
  PROVE  /\ paused' \in {"no", "operator", "failure_rate"} /\ cancelled' \in BOOLEAN
         /\ failures' \in Nat /\ putBacks' \in Nat
<1>0. /\ paused \in {"no", "operator", "failure_rate"} /\ cancelled \in BOOLEAN
      /\ failures \in Nat /\ putBacks \in Nat
  BY TypesAre
<1>1. ASSUME NEW p \in Procs, TakeStep(p) \/ AbortTake(p)
      PROVE  UNCHANGED <<paused, cancelled, failures>> /\ putBacks' \in {putBacks, putBacks + 1}
  BY <1>1 DEF TakeStep, AbortTake, BeginTake, CheckHeld, ParkClaimed, CommitTake, PutBack
<1>2. ASSUME NEW r \in Rows, Outcome(r)
      PROVE  UNCHANGED <<paused, cancelled, failures>> /\ putBacks' \in {putBacks, putBacks + 1}
  BY <1>2 DEF Outcome, Sent, Return, Fails, PutBack
<1>3. ASSUME NEW w \in Workers, CountStep(w) \/ CountLost(w)
      PROVE  /\ paused' \in {paused, "failure_rate"} /\ UNCHANGED cancelled
             /\ failures' \in {failures, failures + 1} /\ putBacks' \in {putBacks, putBacks + 1}
  BY <1>3 DEF CountStep, CountReads, CountWrites, ParkReads, ParkWrites, CountLost, PutBack
<1>4. CASE Sweep \/ Unpark \/ UNCHANGED vars \/ \E op \in {"pause", "resume", "cancel"} : BeginControl(op)
  <2>1. UNCHANGED <<paused, cancelled, failures, putBacks>>
    BY <1>4 DEF Sweep, Unpark, UnparkReads, UnparkWrites, vars, BeginControl
  <2> QED BY <1>0, <2>1
<1>5. CASE CommitControl
  <2>1. /\ paused' \in {"no", "operator"} /\ (cancelled' = cancelled \/ cancelled' = TRUE)
        /\ failures' \in {failures, 0} /\ UNCHANGED putBacks
    BY <1>5 DEF CommitControl, CommitPause, CommitResume, CommitCancel
  <2>2. cancelled' \in BOOLEAN  BY <1>0, <2>1, Zenon
  <2>3. failures' \in Nat /\ putBacks' \in Nat  BY <1>0, <2>1
  <2> QED BY <1>0, <2>1, <2>2, <2>3
<1> QED BY <1>0, <1>1, <1>2, <1>3, <1>4, <1>5 DEF Next

-----------------------------------------------------------------------------
(* A take holds rows that wait, and no other take has them: that is what a  *)
(* cancel, a pause and a sweep wait for.                                    *)

TakesWaiting == \A p \in Procs : take[p].rows \subseteq Pending
TakesApart == \A p, q \in Procs : p # q => take[p].rows \cap take[q].rows = {}

ControlInv == TypeOK /\ TakesWaiting /\ TakesApart

LEMMA ControlStart == TaskAssumption /\ Init => ControlInv
<1> SUFFICES ASSUME TaskAssumption, Init PROVE ControlInv  OBVIOUS
<1>1. row \in [Rows -> RowState]  BY RowStates DEF Init, RowStatesAre
<1>2. ctl \in CtlStates /\ take \in [Procs -> TakeStates] /\ count \in [Counting -> CountStates]
  BY AtRest DEF Init
<1>3. TypeOK  BY <1>1, <1>2, TypesAre DEF Init
<1>4. \A p \in Procs : take[p].rows = {}  BY DEF Init, NoTake
<1> QED BY <1>3, <1>4 DEF ControlInv, TakesWaiting, TakesApart

LEMMA TypesKept == TypeOK /\ [Next]_vars => TypeOK'
<1> SUFFICES ASSUME TypeOK, [Next]_vars PROVE TypeOK'  OBVIOUS
<1>1. row \in [Rows -> RowState]  BY TypesAre
<1>2. row' \in [Rows -> RowState]
  <2>1. CASE UNCHANGED vars  BY <1>1, <2>1 DEF vars
  <2> QED BY <1>1, <2>1, StepsSplit, ReadsWriteNothing, OthersWrite, TakeWrites
<1>3. TypeOK' <=> /\ row' \in [Rows -> RowState]
                  /\ paused' \in {"no", "operator", "failure_rate"}
                  /\ cancelled' \in BOOLEAN /\ failures' \in Nat /\ putBacks' \in Nat
                  /\ ctl' \in CtlStates /\ take' \in [Procs -> TakeStates] /\ count' \in [Counting -> CountStates]
  BY DEF TypeOK, CtlStates, TakeStates, CountStates
<1> QED BY <1>2, <1>3, TakesMove, CountsTyped, FlagsTyped

LEMMA ControlStep == ControlInv /\ [Next]_vars => ControlInv'
<1> SUFFICES ASSUME ControlInv, [Next]_vars PROVE ControlInv'  OBVIOUS
<1>0. TypeOK /\ TakesWaiting /\ TakesApart /\ row \in [Rows -> RowState]  BY TypesAre DEF ControlInv
<1>1. TypeOK'  BY <1>0, TypesKept
<1>2. TakesApart'
  <2>1. CASE UNCHANGED take  BY <1>0, <2>1 DEF TakesApart
  <2>2. ASSUME NEW p \in Procs, \A q \in Procs \ {p} : take'[q] = take[q],
               \/ take'[p].rows = take[p].rows
               \/ take'[p].rows = {}
               \/ take'[p].rows \subseteq Pending \ Locked
        PROVE  TakesApart'
    <3>1. \A q \in Procs \ {p} : take'[p].rows \cap take[q].rows = {}
      BY <1>0, <2>2 DEF TakesApart, Locked
    <3> QED BY <1>0, <2>2, <3>1 DEF TakesApart
  <2> QED BY <1>0, <2>1, <2>2, TakesMove
<1>3. TakesWaiting'
  <2> SUFFICES ASSUME NEW p \in Procs, NEW r \in take'[p].rows
               PROVE  r \in Rows /\ row'[r].status = "pending"
    BY DEF TakesWaiting, Pending
  <2>1. CASE UNCHANGED row
    <3>1. take'[p].rows \subseteq Pending  BY <1>0, TakesMove DEF TakesWaiting
    <3> QED BY <2>1, <3>1 DEF Pending
  <2>2. CASE Others
    <3>1. r \in take[p].rows  BY <1>0, <2>2, OthersWrite
    <3>2. r \in Pending /\ r \in Locked  BY <1>0, <3>1 DEF TakesWaiting, Locked
    <3>3. r \in Rows /\ row[r].status = "pending"  BY <3>2 DEF Pending
    <3> QED BY <1>0, <2>2, <3>2, <3>3, OthersWrite
  <2>3. ASSUME NEW q \in Procs, CommitTake(q) PROVE r \in Rows /\ row'[r].status = "pending"
    <3>1. take' = [take EXCEPT ![q] = NoTake] /\ take \in [Procs -> TakeStates]
      BY <1>0, <2>3, TypesAre DEF CommitTake
    <3>2. p # q /\ r \in take[p].rows  BY <3>1 DEF NoTake
    <3>3. r \notin take[q].rows  BY <1>0, <3>2 DEF TakesApart
    <3>4. r \in Rows /\ row[r].status = "pending"  BY <1>0, <3>2 DEF TakesWaiting, Pending
    <3> QED BY <1>0, <2>3, <3>3, <3>4, TakeWrites
  <2>4. CASE UNCHANGED vars  BY <2>1, <2>4 DEF vars
  <2> QED BY <2>1, <2>2, <2>3, <2>4, StepsSplit, ReadsWriteNothing
<1> QED BY <1>1, <1>2, <1>3 DEF ControlInv

LEMMA ControlInvariant == Spec => []ControlInv
BY ControlStart, ControlStep, TaskAssumption, PTL DEF Spec

\* The rows, the flags, the control transaction, the open takes and the counts
\* of failures stay well formed.
THEOREM ControlTypes == Spec => []TypeOK
<1>1. ControlInv => TypeOK  BY DEF ControlInv
<1> QED BY <1>1, ControlInvariant, PTL

\* A row written off by a cancel never moves again, whatever take was open,
\* whatever was about to be parked, unparked or swept, and whichever process
\* sends.
THEOREM CancelledForGood == Spec => CancelIsFinal
<1>1. ASSUME ControlInv, [Next]_vars, NEW r \in Rows, row[r].status = "cancelled"
      PROVE  row'[r] = row[r]
  <2>1. row \in [Rows -> RowState] /\ r \notin Pending  BY <1>1, TypesAre DEF ControlInv, Pending
  <2>2. CASE Others  BY <1>1, <2>1, <2>2, OthersWrite
  <2>3. ASSUME NEW p \in Procs, CommitTake(p) PROVE row'[r] = row[r]
    <3>1. r \notin take[p].rows  BY <1>1, <2>1 DEF ControlInv, TakesWaiting
    <3> QED BY <2>1, <2>3, <3>1, TakeWrites
  <2>4. CASE UNCHANGED vars  BY <2>4 DEF vars
  <2> QED BY <1>1, <2>2, <2>3, <2>4, StepsSplit, ReadsWriteNothing
<1>2. ControlInv /\ [Next]_vars =>
        [\A r \in Rows : row[r].status = "cancelled" => row'[r] = row[r]]_vars
  BY <1>1
<1> QED BY <1>2, ControlInvariant, PTL DEF Spec, CancelIsFinal

\* A held send whose rows in progress have ended sets nothing off: no open
\* take, retry, expired lease, late pause or unparking does, and whoever holds
\* it may change meanwhile.
THEOREM HeldQuiet == Spec => HeldStaysQuiet
<1>1. ASSUME ControlInv, [Next]_vars, Held, Quiet PROVE Quiet'
  <2>0. row \in [Rows -> RowState] /\ TypeOK /\ take \in [Procs -> TakeStates]
    BY <1>1, TypesAre DEF ControlInv
  <2>1. /\ \A r \in Rows : row[r].status # "processing"
        /\ \A p \in Procs : take[p].pc # "send"
    BY <1>1 DEF Quiet
  <2>2. \A p \in Procs : take'[p].pc # "send"
    <3>1. CASE UNCHANGED take  BY <2>1, <3>1
    <3>2. ASSUME NEW p \in Procs, \A q \in Procs \ {p} : take'[q] = take[q],
                 \/ (take'[p].pc = "send" => ~Held)
                 \/ take'[p].pc = "none"
                 \/ take'[p].pc = "open"
          PROVE  \A q \in Procs : take'[q].pc # "send"
      BY <1>1, <2>1, <3>2
    <3> QED BY <1>1, <2>0, <3>1, <3>2, TakesMove
  <2>3. \A r \in Rows : row'[r].status # "processing"
    <3>1. CASE UNCHANGED row  BY <2>1, <3>1
    <3>2. CASE Others
      <4> SUFFICES ASSUME NEW r \in Rows PROVE row'[r].status # "processing"  OBVIOUS
      <4>1. row[r].status # "processing"  BY <2>1
      <4> QED BY <2>0, <3>2, <4>1, OthersWrite
    <3>3. ASSUME NEW p \in Procs, CommitTake(p) PROVE \A r \in Rows : row'[r].status # "processing"
      <4> SUFFICES ASSUME NEW r \in Rows PROVE row'[r].status # "processing"  OBVIOUS
      <4>1. row[r].status # "processing" /\ take[p].pc # "send"  BY <2>1
      <4> QED BY <2>0, <3>3, <4>1, TakeWrites
    <3>4. CASE UNCHANGED vars  BY <3>1, <3>4 DEF vars
    <3> QED BY <1>1, <3>1, <3>2, <3>3, <3>4, StepsSplit, ReadsWriteNothing
  <2> QED BY <2>2, <2>3 DEF Quiet
<1>2. ControlInv /\ [Next]_vars => [Held /\ Quiet /\ Held' => Quiet']_vars
  BY <1>1
<1> QED BY <1>2, ControlInvariant, PTL DEF Spec, HeldStaysQuiet
==============================================================================
