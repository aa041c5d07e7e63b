--------------------------- MODULE SentContentProofs ---------------------------
(***************************************************************************)
(* What is kept of sent mail, proved for every number of sends, rows and   *)
(* replicas, every order of locks, faults, deadlocks and marks: a decided  *)
(* send keeps nothing raw, an erased person's mail stays erased, and a     *)
(* send's failures count only beside successes.                            *)
(***************************************************************************)
EXTENDS SentContent, FiniteSetTheorems, WellFoundedInduction, TLAPS

-----------------------------------------------------------------------------
(* Types.                                                                   *)

Statuses == {"pending", "processing", "done", "gone"}
Failings == {"no", "recent", "old"}
Tasks == [due : BOOLEAN, masked : BOOLEAN, emptied : Reasons, failures : Nat,
          unconfirmed : BOOLEAN, failing : Failings, waits : BOOLEAN]
RunFields == [at : RunStates, seen : SUBSET Sends, saw : BOOLEAN, send : Sends \cup {Nobody},
              tried : SUBSET Sends, failed : SUBSET Sends, inARow : 0..BreakerFailures, useful : BOOLEAN]
\* A run that masks a send has one, and one that goes on is under the breaker.
Runs == {x \in RunFields : /\ x.at \in {"mask", "defer"} => x.send \in Sends
                           /\ x.at # "count" => x.inARow < BreakerFailures}
CallStates == {"idle", "rows", "sends", "judge"}
Calls == [at : CallStates, left : SUBSET (Rows \cup Sends), knows : BOOLEAN, blank : SUBSET Rows]

ContentTypes ==
  /\ status \in [Rows -> Statuses] /\ text \in [Rows -> Kept] /\ vars_of \in [Sends -> Kept]
  /\ opened \subseteq ToPerson /\ closed \subseteq ToPerson
LockTypes == /\ holder \in [Rows -> Actors] /\ keeper \in [Sends -> Actors]
             /\ \A r \in Rows : holder[r] = Reader => r \in ToPerson
FaultTypes == marked \in BOOLEAN /\ outage \in BOOLEAN /\ marks \in 0..MaxMarks /\ outages \in 0..MaxOutages
PersonTypes == erasure \in Calls /\ receipt \in BOOLEAN /\ waited \subseteq Naming
TaskTypes == task \in [Sends -> Tasks]
RunTypes == sweep \in [Sweepers -> Runs]

Types == ContentTypes /\ TaskTypes /\ LockTypes /\ RunTypes /\ PersonTypes /\ FaultTypes

LEMMA TypesAreTypes == Types => TypeOK
BY DEF Types, ContentTypes, TaskTypes, LockTypes, RunTypes, PersonTypes, FaultTypes, TypeOK,
       Tasks, Runs, RunFields, Calls, Statuses, Failings, CallStates

\* The least of some rows.
LEMMA LeastIsOne ==
  ASSUME NEW T, T \subseteq Nat, T # {}
  PROVE  Min(T) \in T
<1> DEFINE L == {pair \in Nat \X Nat : pair[1] < pair[2]}
<1>1. IsWellFoundedOn(L, Nat)  BY NatLessThanWellFounded DEF OpToRel
<1> HIDE DEF L
<1>2. PICK x \in T : \A y \in T : ~(<<y, x>> \in L)  BY <1>1, WFMin
<1>3. ASSUME NEW y \in T PROVE x =< y
  <2>1. y \in Nat /\ x \in Nat  OBVIOUS
  <2>2. y < x => <<y, x>> \in L  BY <2>1 DEF L
  <2> QED BY <1>2, <2>1, <2>2
<1>4. \E z \in T : \A y \in T : z =< y  BY <1>3
<1> QED BY <1>4 DEF Min

LEMMA NewsOfTypes ==
  ASSUME ContentAssumption
  PROVE  NewTask \in Tasks /\ NoRun \in Runs /\ NoCall \in Calls
<1>1. NewTask \in Tasks  BY DEF NewTask, Tasks, Reasons, Failings
<1>2. NoRun \in Runs  BY DEF NoRun, Runs, RunFields, RunStates, ContentAssumption
<1>3. NoCall \in Calls  BY DEF NoCall, Calls, CallStates
<1> QED BY <1>1, <1>2, <1>3

LEMMA ActorsApart ==
  ASSUME ContentAssumption
  PROVE  /\ Eraser # Reader /\ Nobody # Eraser /\ Nobody # Reader
         /\ \A p \in Sweepers : p # Eraser /\ p # Reader /\ p # Nobody
         /\ {Eraser, Reader, Nobody} \subseteq Actors /\ Sweepers \subseteq Actors
BY DEF ContentAssumption, Actors

LEMMA TypesStart == ContentAssumption /\ Init => Types
<1> SUFFICES ASSUME ContentAssumption, Init PROVE Types  OBVIOUS
<1>1. ContentTypes  BY DEF Init, ContentTypes, Statuses, Kept
<1>2. TaskTypes /\ RunTypes  BY NewsOfTypes DEF Init, TaskTypes, RunTypes
<1>3. LockTypes  BY ActorsApart DEF Init, LockTypes, Actors
<1>4. PersonTypes  BY NewsOfTypes DEF Init, PersonTypes
<1>6. 0 \in 0..MaxMarks /\ 0 \in 0..MaxOutages  BY DEF ContentAssumption
<1>5. FaultTypes  BY <1>6 DEF Init, FaultTypes
<1> QED BY <1>1, <1>2, <1>3, <1>4, <1>5 DEF Types

-----------------------------------------------------------------------------
(* What every step leaves of the right type.                                *)

LEMMA LocksReleased ==
  ASSUME ContentAssumption, LockTypes, NEW a, Releases(a)
  PROVE  /\ LockTypes'
         /\ \A r \in Rows : holder'[r] = IF holder[r] = a THEN Nobody ELSE holder[r]
         /\ \A s \in Sends : keeper'[s] = IF keeper[s] = a THEN Nobody ELSE keeper[s]
BY ActorsApart DEF LockTypes, Releases

LEMMA SendsEmptied ==
  ASSUME ContentAssumption, Types, NEW ss \in SUBSET Sends, NEW why \in Reasons, EmptySends(ss, why)
  PROVE  /\ text' \in [Rows -> Kept] /\ vars_of' \in [Sends -> Kept] /\ task' \in [Sends -> Tasks]
         /\ \A r \in Rows : text'[r] = IF SendOf[r] \in ss THEN "empty" ELSE text[r]
         /\ \A s \in Sends : vars_of'[s] = IF s \in ss THEN "empty" ELSE vars_of[s]
         /\ \A s \in Sends \ ss : task'[s] = task[s]
         /\ \A s \in ss : /\ task'[s].masked = task[s].masked
                          /\ task'[s].failures = task[s].failures
                          /\ task'[s].emptied = IF task[s].emptied = "no" THEN why ELSE task[s].emptied
<1>1. /\ text' \in [Rows -> Kept] /\ vars_of' \in [Sends -> Kept]
      /\ \A r \in Rows : text'[r] = IF SendOf[r] \in ss THEN "empty" ELSE text[r]
      /\ \A s \in Sends : vars_of'[s] = IF s \in ss THEN "empty" ELSE vars_of[s]
  BY DEF EmptySends, Types, ContentTypes, Kept
<1> DEFINE E(s) == [task[s] EXCEPT !.due = FALSE, !.emptied = IF @ = "no" THEN why ELSE @]
<1>2. \A s \in Sends : /\ E(s) \in Tasks /\ E(s).masked = task[s].masked
                       /\ E(s).failures = task[s].failures
                       /\ E(s).emptied = IF task[s].emptied = "no" THEN why ELSE task[s].emptied
  <2> SUFFICES ASSUME NEW s \in Sends
               PROVE  /\ E(s) \in Tasks /\ E(s).masked = task[s].masked
                      /\ E(s).failures = task[s].failures
                      /\ E(s).emptied = IF task[s].emptied = "no" THEN why ELSE task[s].emptied
    OBVIOUS
  <2>1. task[s] \in Tasks  BY DEF Types, TaskTypes
  <2>2. PICK r \in Reasons : r = IF task[s].emptied = "no" THEN why ELSE task[s].emptied
    BY <2>1 DEF Tasks
  <2>3. E(s) = [task[s] EXCEPT !.due = FALSE, !.emptied = r]  BY <2>2
  <2> HIDE DEF E
  <2>4. /\ E(s) \in Tasks /\ E(s).masked = task[s].masked
        /\ E(s).failures = task[s].failures /\ E(s).emptied = r
    BY <2>1, <2>3 DEF Tasks
  <2> QED BY <2>2, <2>4
<1>3. task' = [s \in Sends |-> IF s \in ss THEN E(s) ELSE task[s]]
  BY DEF EmptySends
<1> HIDE DEF E
<1>4. /\ task' \in [Sends -> Tasks] /\ \A s \in Sends \ ss : task'[s] = task[s]
      /\ \A s \in ss : task'[s] = E(s)
  BY <1>2, <1>3 DEF Types, TaskTypes
<1> QED BY <1>1, <1>2, <1>4

LEMMA RunTypesKept ==
  ASSUME Types, NEW p \in Sweepers, NEW to \in Runs, Step(p, to)
  PROVE  RunTypes' /\ sweep'[p] = to /\ \A q \in Sweepers \ {p} : sweep'[q] = sweep[q]
BY DEF Types, RunTypes, Step

\* The runs a step of the sweep leads to.
LEMMA RunsReached ==
  ASSUME ContentAssumption, NEW x \in Runs
  PROVE  /\ \A seen \in SUBSET Sends, saw \in BOOLEAN :
              x.at = "look" => [x EXCEPT !.at = "take", !.seen = seen, !.saw = saw] \in Runs
         /\ \A s \in Sends : x.at = "take" => [x EXCEPT !.at = "mask", !.send = s, !.seen = {}] \in Runs
         /\ \A s \in Sends : [x EXCEPT !.at = "look", !.seen = {}, !.inARow = 0, !.tried = @ \cup {s}] \in Runs
         /\ \A s \in Sends : [x EXCEPT !.at = "look", !.send = Nobody, !.inARow = 0,
                                       !.tried = @ \cup {s}, !.useful = TRUE] \in Runs
         /\ x.at = "mask" => [x EXCEPT !.at = "defer"] \in Runs
         /\ [x EXCEPT !.at = "count", !.seen = {}] \in Runs
         /\ \A fs \in SUBSET Sends : [x EXCEPT !.failed = fs] \in Runs
         /\ \A fs \in SUBSET Sends : [NoRun EXCEPT !.at = "empty", !.failed = fs] \in Runs
         /\ \A s \in Sends : x.at = "defer" =>
              [x EXCEPT !.at = IF x.inARow + 1 >= BreakerFailures THEN "count" ELSE "look",
                        !.send = Nobody, !.inARow = @ + 1,
                        !.tried = @ \cup {s}, !.failed = @ \cup {s}] \in Runs
<1>1. x \in RunFields /\ BreakerFailures \in Nat \ {0}  BY DEF Runs, ContentAssumption
<1>2. /\ x.at \in {"mask", "defer"} => x.send \in Sends
      /\ x.at # "count" => x.inARow < BreakerFailures
  BY DEF Runs
<1>3. ASSUME NEW seen \in SUBSET Sends, NEW saw \in BOOLEAN, x.at = "look"
      PROVE  [x EXCEPT !.at = "take", !.seen = seen, !.saw = saw] \in Runs
  BY <1>1, <1>2, <1>3 DEF Runs, RunFields, RunStates
<1>4. ASSUME NEW s \in Sends, x.at = "take"
      PROVE  [x EXCEPT !.at = "mask", !.send = s, !.seen = {}] \in Runs
  BY <1>1, <1>2, <1>4 DEF Runs, RunFields, RunStates
<1>5. ASSUME NEW s \in Sends
      PROVE  [x EXCEPT !.at = "look", !.seen = {}, !.inARow = 0, !.tried = @ \cup {s}] \in Runs
  <2> DEFINE tried == x.tried \cup {s}
  <2>1. tried \in SUBSET Sends /\ 0 \in 0..BreakerFailures /\ 0 < BreakerFailures
    BY <1>1 DEF RunFields
  <2> HIDE DEF tried
  <2>2. [x EXCEPT !.at = "look", !.seen = {}, !.inARow = 0, !.tried = tried] \in Runs
    BY <1>1, <2>1 DEF Runs, RunFields, RunStates
  <2> QED BY <2>2 DEF tried
<1>6. ASSUME NEW s \in Sends
      PROVE  [x EXCEPT !.at = "look", !.send = Nobody, !.inARow = 0, !.tried = @ \cup {s}, !.useful = TRUE] \in Runs
  <2> DEFINE tried == x.tried \cup {s}
  <2>1. tried \in SUBSET Sends /\ 0 \in 0..BreakerFailures /\ 0 < BreakerFailures
    BY <1>1 DEF RunFields
  <2> HIDE DEF tried
  <2>2. [x EXCEPT !.at = "look", !.send = Nobody, !.inARow = 0, !.tried = tried, !.useful = TRUE] \in Runs
    BY <1>1, <2>1 DEF Runs, RunFields, RunStates
  <2> QED BY <2>2 DEF tried
<1>7. ASSUME x.at = "mask" PROVE [x EXCEPT !.at = "defer"] \in Runs
  BY <1>1, <1>2, <1>7 DEF Runs, RunFields, RunStates
<1>8. [x EXCEPT !.at = "count", !.seen = {}] \in Runs
  BY <1>1 DEF Runs, RunFields, RunStates
<1>9. ASSUME NEW fs \in SUBSET Sends PROVE [x EXCEPT !.failed = fs] \in Runs
  BY <1>1, <1>2 DEF Runs, RunFields
<1>10. ASSUME NEW fs \in SUBSET Sends PROVE [NoRun EXCEPT !.at = "empty", !.failed = fs] \in Runs
  <2>1. NoRun \in RunFields /\ NoRun.inARow = 0 /\ 0 < BreakerFailures
    BY <1>1 DEF NoRun, RunFields, RunStates
  <2>2. "empty" \in RunStates  BY DEF RunStates
  <2>3. PICK y : y = [NoRun EXCEPT !.at = "empty", !.failed = fs]  OBVIOUS
  <2>4. y \in RunFields /\ y.at = "empty" /\ y.inARow = 0
    BY <2>1, <2>2, <2>3 DEF RunFields
  <2> QED BY <2>1, <2>3, <2>4 DEF Runs
<1>11. ASSUME NEW s \in Sends, x.at = "defer"
       PROVE  [x EXCEPT !.at = IF x.inARow + 1 >= BreakerFailures THEN "count" ELSE "look",
                        !.send = Nobody, !.inARow = @ + 1,
                        !.tried = @ \cup {s}, !.failed = @ \cup {s}] \in Runs
  <2> DEFINE at == IF x.inARow + 1 >= BreakerFailures THEN "count" ELSE "look"
             n == x.inARow + 1
             tried == x.tried \cup {s}
             failed == x.failed \cup {s}
  <2>1. at \in RunStates /\ n \in 0..BreakerFailures /\ at \in {"count", "look"}
        /\ (at # "count" => n < BreakerFailures)
    BY <1>1, <1>2, <1>11 DEF RunFields, RunStates
  <2>2. tried \in SUBSET Sends /\ failed \in SUBSET Sends  BY <1>1 DEF RunFields
  <2> HIDE DEF at, n, tried, failed
  <2>3. [x EXCEPT !.at = at, !.send = Nobody, !.inARow = n, !.tried = tried, !.failed = failed] \in Runs
    BY <1>1, <2>1, <2>2 DEF Runs, RunFields
  <2> QED BY <2>3 DEF at, n, tried, failed
<1> QED BY <1>3, <1>4, <1>5, <1>6, <1>7, <1>8, <1>9, <1>10, <1>11

\* The mailer, the template's owners, the recipients and the faults.
LEMMA OthersTyped ==
  ASSUME ContentAssumption, Types,
         \/ \E r \in Rows : Send(r) \/ Sent(r) \/ OpenMail(r) \/ RecordTracking(r)
         \/ MarkTemplate \/ Outage \/ (\E s \in Sends : RetryDue(s) \/ DeadlinePasses(s))
  PROVE  Types'
<1>0. ContentTypes /\ TaskTypes /\ LockTypes /\ RunTypes /\ PersonTypes /\ FaultTypes  BY DEF Types
<1>1. ASSUME NEW r \in Rows, Send(r) \/ Sent(r) PROVE Types'
  <2>1. PICK st \in Statuses : status' = [status EXCEPT ![r] = st]  BY <1>1 DEF Send, Sent, Statuses
  <2>2. UNCHANGED <<text, opened, closed, vars_of, task, marked, locks, sweep, person, faults, marks>>
    BY <1>1 DEF Send, Sent
  <2>3. ContentTypes'  BY <1>0, <2>1, <2>2 DEF ContentTypes
  <2> QED BY <1>0, <2>2, <2>3 DEF Types, TaskTypes, LockTypes, RunTypes, PersonTypes, FaultTypes, locks, person, faults
<1>2. ASSUME NEW r \in Rows, OpenMail(r) PROVE Types'
  <2>1. LockTypes'  BY <1>0, <1>2 DEF OpenMail, Trackable, LockTypes, Actors
  <2> QED BY <1>0, <1>2, <2>1 DEF OpenMail, Types, ContentTypes, TaskTypes, RunTypes, PersonTypes, FaultTypes, content, person, faults
<1>3. ASSUME NEW r \in Rows, RecordTracking(r) PROVE Types'
  <2>1. LockTypes'  BY <1>0, <1>3, ActorsApart DEF RecordTracking, LockTypes, Actors
  <2>2. ContentTypes'  BY <1>0, <1>3 DEF RecordTracking, ContentTypes, LockTypes
  <2> QED BY <1>0, <1>3, <2>1, <2>2 DEF RecordTracking, Types, TaskTypes, RunTypes, PersonTypes, FaultTypes, person, faults
<1>4. CASE MarkTemplate
  <2>1. ASSUME NEW s \in Sends PROVE MarkedDue(task[s]) \in Tasks
    <3>1. task[s] \in Tasks  BY <1>0 DEF TaskTypes
    <3> QED BY <3>1 DEF Tasks, MarkedDue
  <2>2. TaskTypes'  BY <1>0, <1>4, <2>1 DEF MarkTemplate, TaskTypes
  <2>3. FaultTypes'  BY <1>0, <1>4 DEF MarkTemplate, FaultTypes, faults, ContentAssumption
  <2> QED BY <1>0, <1>4, <2>2, <2>3 DEF MarkTemplate, Types, ContentTypes, LockTypes, RunTypes, PersonTypes, content, locks, person
<1>5. CASE Outage
  <2>1. FaultTypes'  BY <1>0, <1>5 DEF Outage, FaultTypes, ContentAssumption
  <2> QED BY <1>0, <1>5, <2>1 DEF Outage, Types, ContentTypes, TaskTypes, LockTypes, RunTypes, PersonTypes, content, locks, person
<1>6. ASSUME NEW s \in Sends, RetryDue(s) \/ DeadlinePasses(s) PROVE Types'
  <2>1. task[s] \in Tasks  BY <1>0 DEF TaskTypes
  <2>2. [task[s] EXCEPT !.waits = FALSE] \in Tasks /\ [task[s] EXCEPT !.failing = "old"] \in Tasks
    BY <2>1 DEF Tasks, Failings
  <2>3. PICK t \in Tasks : task' = [task EXCEPT ![s] = t]
    BY <1>6, <2>2 DEF RetryDue, DeadlinePasses
  <2>4. TaskTypes'  BY <1>0, <2>3 DEF TaskTypes
  <2>5. UNCHANGED <<content, marked, locks, sweep, person, faults, marks>>
    BY <1>6 DEF RetryDue, DeadlinePasses
  <2> QED BY <1>0, <2>4, <2>5 DEF Types, ContentTypes, LockTypes, RunTypes, PersonTypes, FaultTypes, content, locks, person, faults
<1> QED BY <1>1, <1>2, <1>3, <1>4, <1>5, <1>6

\* The sweep.
LEMMA SweepTyped ==
  ASSUME ContentAssumption, Types, NEW p \in Sweepers, Sweep(p)
  PROVE  Types'
<1>0. ContentTypes /\ TaskTypes /\ LockTypes /\ RunTypes /\ PersonTypes /\ FaultTypes  BY DEF Types
<1>1. sweep[p] \in Runs /\ sweep[p] \in RunFields /\ (sweep[p].at \in {"mask", "defer"} => sweep[p].send \in Sends)
  BY <1>0 DEF RunTypes, Runs
<1>2. CASE LookForSend(p)
  <2>1. PICK seen \in SUBSET Sends : Step(p, [sweep[p] EXCEPT !.at = "take", !.seen = seen, !.saw = marked])
    BY <1>2 DEF LookForSend
  <2>2. [sweep[p] EXCEPT !.at = "take", !.seen = seen, !.saw = marked] \in Runs
    BY <1>0, <1>1, <1>2, RunsReached DEF LookForSend, FaultTypes
  <2>3. RunTypes'  BY <2>1, <2>2, RunTypesKept
  <2> QED BY <1>0, <1>2, <2>3 DEF LookForSend, Types, ContentTypes, TaskTypes, LockTypes, PersonTypes, FaultTypes, content, locks, person, faults
<1>3. ASSUME NEW s \in Sends, TakeSend(p, s) PROVE Types'
  <2>1. CASE Sensitive(s, sweep[p].saw)
    <3>1. RunTypes'
      BY <1>1, <1>3, <2>1, RunsReached, RunTypesKept DEF TakeSend
    <3>2. LockTypes'  BY <1>0, <1>3, <2>1, ActorsApart DEF TakeSend, LockTypes
    <3> QED BY <1>0, <1>3, <2>1, <3>1, <3>2 DEF TakeSend, Types, ContentTypes, TaskTypes, PersonTypes, FaultTypes, content, person, faults
  <2>2. CASE ~Sensitive(s, sweep[p].saw)
    <3>1. RunTypes'
      BY <1>1, <1>3, <2>2, RunsReached, RunTypesKept DEF TakeSend
    <3>2. NotDue \in Tasks  BY NewsOfTypes DEF NotDue, Tasks
    <3>3. TaskTypes'  BY <1>0, <1>3, <2>2, <3>2 DEF TakeSend, TaskTypes
    <3> QED BY <1>0, <1>3, <2>2, <3>1, <3>3 DEF TakeSend, Types, ContentTypes, LockTypes, PersonTypes, FaultTypes, content, person, faults
  <2> QED BY <2>1, <2>2
<1>4. CASE MaskRow(p)
  <2>1. LockTypes'  BY <1>0, <1>4, ActorsApart DEF MaskRow, LockTypes
  <2> QED BY <1>0, <1>4, <2>1 DEF MaskRow, Types, ContentTypes, TaskTypes, RunTypes, PersonTypes, FaultTypes, content, person, faults
<1>5. CASE MarkSendMasked(p)
  <2>1. PICK s \in Sends : s = sweep[p].send  BY <1>1, <1>5 DEF MarkSendMasked
  <2>2. RunTypes'  BY <1>1, <1>5, <2>1, RunsReached, RunTypesKept DEF MarkSendMasked
  <2>3. LockTypes'  BY <1>0, <1>5, LocksReleased DEF MarkSendMasked
  <2>4. [NotDue EXCEPT !.masked = TRUE] \in Tasks  BY NewsOfTypes DEF NotDue, Tasks
  <2>5. TaskTypes'  BY <1>0, <1>5, <2>4 DEF MarkSendMasked, TaskTypes
  <2>6. ContentTypes'
    BY <1>0, <1>5 DEF MarkSendMasked, MaskedText, ContentTypes, Kept
  <2> QED BY <1>0, <1>5, <2>2, <2>3, <2>5, <2>6 DEF MarkSendMasked, Types, PersonTypes, FaultTypes, person, faults
<1>6. CASE CannotMask(p)
  <2>1. PICK s \in Sends : s = sweep[p].send  BY <1>1, <1>6 DEF CannotMask
  <2>2. RunTypes'  BY <1>1, <1>6, <2>1, RunsReached, RunTypesKept DEF CannotMask
  <2>3. LockTypes'  BY <1>0, <1>6, LocksReleased DEF CannotMask
  <2>4. EmptySends({s}, "unmaskable") /\ "unmaskable" \in Reasons  BY <1>6, <2>1 DEF CannotMask, Reasons
  <2>5. text' \in [Rows -> Kept] /\ vars_of' \in [Sends -> Kept] /\ task' \in [Sends -> Tasks]
    BY <2>4, SendsEmptied
  <2> QED BY <1>0, <1>6, <2>2, <2>3, <2>5 DEF CannotMask, Types, ContentTypes, TaskTypes, PersonTypes, FaultTypes, person, faults
<1>7. CASE FailSend(p)
  <2>1. RunTypes'  BY <1>1, <1>7, RunsReached, RunTypesKept DEF FailSend
  <2>2. LockTypes'  BY <1>0, <1>7, LocksReleased DEF FailSend
  <2> QED BY <1>0, <1>7, <2>1, <2>2 DEF FailSend, Types, ContentTypes, TaskTypes, PersonTypes, FaultTypes, content, person, faults
<1>8. CASE DeferFailure(p)
  <2>1. PICK s \in Sends : s = sweep[p].send  BY <1>1, <1>8 DEF DeferFailure
  <2>2. RunTypes'
    <3>1. PICK to \in Runs : to = [sweep[p] EXCEPT
            !.at = IF sweep[p].inARow + 1 >= BreakerFailures THEN "count" ELSE "look",
            !.send = Nobody, !.inARow = @ + 1, !.tried = @ \cup {s}, !.failed = @ \cup {s}]
      BY <1>1, <1>8, RunsReached DEF DeferFailure
    <3>2. Step(p, to)  BY <1>8, <2>1, <3>1 DEF DeferFailure
    <3> QED BY <3>2, RunTypesKept
  <2>3. PutBack(task[s]) \in Tasks
    <3>1. task[s] \in Tasks  BY <1>0 DEF TaskTypes
    <3>2. PICK f \in Failings : f = IF task[s].failing = "no" THEN "recent" ELSE task[s].failing
      BY <3>1 DEF Tasks, Failings
    <3>3. PutBack(task[s]) = [task[s] EXCEPT !.unconfirmed = TRUE, !.waits = TRUE, !.failing = f]
      BY <3>2 DEF PutBack
    <3> QED BY <3>1, <3>3 DEF Tasks
  <2>4. TaskTypes'  BY <1>0, <1>8, <2>1, <2>3 DEF DeferFailure, TaskTypes
  <2> QED BY <1>0, <1>8, <2>2, <2>4 DEF DeferFailure, Types, ContentTypes, LockTypes, PersonTypes, FaultTypes, content, locks, person, faults
<1>9. CASE EndRun(p)
  <2>1. RunTypes'  BY <1>1, <1>9, RunsReached, RunTypesKept DEF EndRun
  <2> QED BY <1>0, <1>9, <2>1 DEF EndRun, Types, ContentTypes, TaskTypes, LockTypes, PersonTypes, FaultTypes, content, locks, person, faults
<1>10. CASE ConfirmFailures(p)
  <2>1. PICK fs \in SUBSET Sends : Step(p, [NoRun EXCEPT !.at = "empty", !.failed = fs])
    <3>1. Counted(p) \subseteq Sends  BY <1>1 DEF Counted, RunFields
    <3> QED BY <1>10, <3>1 DEF ConfirmFailures
  <2>2. RunTypes'  BY <1>1, <2>1, RunsReached, RunTypesKept
  <2>3. ASSUME NEW s \in Sends PROVE [task[s] EXCEPT !.failures = @ + 1, !.unconfirmed = FALSE] \in Tasks
    <3>1. task[s] \in Tasks  BY <1>0 DEF TaskTypes
    <3>2. PICK n \in Nat : n = task[s].failures + 1  BY <3>1 DEF Tasks
    <3>3. [task[s] EXCEPT !.failures = n, !.unconfirmed = FALSE] \in Tasks  BY <3>1 DEF Tasks
    <3> QED BY <3>2, <3>3
  <2>4. TaskTypes'  BY <1>0, <1>10, <2>3 DEF ConfirmFailures, TaskTypes
  <2> QED BY <1>0, <1>10, <2>2, <2>4 DEF ConfirmFailures, Types, ContentTypes, LockTypes, PersonTypes, FaultTypes, content, locks, person, faults
<1>11. CASE EmptyFailed(p)
  <2>1. PICK s \in sweep[p].failed : /\ EmptySends({s}, "failures")
                                     /\ Step(p, [sweep[p] EXCEPT !.failed = @ \ {s}])
    BY <1>11 DEF EmptyFailed
  <2>2. s \in Sends  BY <1>1 DEF RunFields
  <2>3. PICK fs \in SUBSET Sends : fs = sweep[p].failed \ {s}  BY <1>1 DEF RunFields
  <2>4. RunTypes'  BY <1>1, <2>1, <2>3, RunsReached, RunTypesKept
  <2>5. "failures" \in Reasons  BY DEF Reasons
  <2>6. text' \in [Rows -> Kept] /\ vars_of' \in [Sends -> Kept] /\ task' \in [Sends -> Tasks]
    BY <2>1, <2>2, <2>5, SendsEmptied
  <2> QED BY <1>0, <1>11, <2>4, <2>6 DEF EmptyFailed, Types, ContentTypes, TaskTypes, LockTypes, PersonTypes, FaultTypes, locks, person, faults
<1>12. CASE ClearPastDeadline(p)
  <2>1. RunTypes'  BY <1>12, NewsOfTypes, RunTypesKept DEF ClearPastDeadline
  <2>2. "deadline" \in Reasons /\ PastDeadline \in SUBSET Sends  BY DEF Reasons, PastDeadline
  <2>3. text' \in [Rows -> Kept] /\ vars_of' \in [Sends -> Kept] /\ task' \in [Sends -> Tasks]
    BY <1>12, <2>2, SendsEmptied DEF ClearPastDeadline
  <2> QED BY <1>0, <1>12, <2>1, <2>3 DEF ClearPastDeadline, Types, ContentTypes, TaskTypes, LockTypes, PersonTypes, FaultTypes, locks, person, faults
<1> QED BY <1>2, <1>3, <1>4, <1>5, <1>6, <1>7, <1>8, <1>9, <1>10, <1>11, <1>12 DEF Sweep

\* The erasure.
LEMMA CallsReached ==
  ASSUME ContentAssumption, NEW x \in Calls
  PROVE  /\ \A knows \in BOOLEAN, left \in SUBSET (Rows \cup Sends) :
              [NoCall EXCEPT !.at = "rows", !.knows = knows, !.left = left] \in Calls
         /\ \A a : [x EXCEPT !.left = @ \ {a}] \in Calls
         /\ \A left \in SUBSET (Rows \cup Sends) : [x EXCEPT !.at = "sends", !.left = left] \in Calls
         /\ \A blank \in SUBSET Rows : [x EXCEPT !.at = "judge", !.blank = blank] \in Calls
<1>1. NoCall \in Calls  BY NewsOfTypes
<1>2. ASSUME NEW a PROVE [x EXCEPT !.left = @ \ {a}] \in Calls
  <2>1. PICK left \in SUBSET (Rows \cup Sends) : left = x.left \ {a}  BY DEF Calls
  <2>2. [x EXCEPT !.left = left] \in Calls  BY DEF Calls
  <2> QED BY <2>1, <2>2
<1>3. ASSUME NEW knows \in BOOLEAN, NEW left \in SUBSET (Rows \cup Sends)
      PROVE  [NoCall EXCEPT !.at = "rows", !.knows = knows, !.left = left] \in Calls
  BY <1>1 DEF Calls, CallStates
<1>4. ASSUME NEW left \in SUBSET (Rows \cup Sends)
      PROVE  [x EXCEPT !.at = "sends", !.left = left] \in Calls
  BY DEF Calls, CallStates
<1>5. ASSUME NEW blank \in SUBSET Rows
      PROVE  [x EXCEPT !.at = "judge", !.blank = blank] \in Calls
  BY DEF Calls, CallStates
<1> QED BY <1>2, <1>3, <1>4, <1>5

LEMMA CommitsTyped ==
  ASSUME ContentAssumption, Types, NEW blank \in SUBSET Rows, Commits(blank)
  PROVE  ContentTypes' /\ LockTypes' /\ erasure' \in Calls
<1>1. LockTypes'  BY LocksReleased DEF Commits, Types
<1>2. ContentTypes'
  <2>1. status' \in [Rows -> Statuses]  BY DEF Commits, Types, ContentTypes, Statuses
  <2>2. text' \in [Rows -> Kept] /\ vars_of' \in [Sends -> Kept]
    BY DEF Commits, Types, ContentTypes, Kept
  <2>3. opened' \subseteq ToPerson /\ closed' \subseteq ToPerson
    BY DEF Commits, Types, ContentTypes
  <2> QED BY <2>1, <2>2, <2>3 DEF ContentTypes
<1> QED BY <1>1, <1>2, NewsOfTypes DEF Commits

LEMMA EraseTyped ==
  ASSUME ContentAssumption, Types, Erase \/ AbortErasure
  PROVE  Types'
<1>0. ContentTypes /\ TaskTypes /\ LockTypes /\ RunTypes /\ PersonTypes /\ FaultTypes /\ erasure \in Calls
  BY DEF Types, PersonTypes
<1>1. CASE BeginErasure
  <2>1. PICK left \in SUBSET (Rows \cup Sends) :
          erasure' = [NoCall EXCEPT !.at = "rows", !.knows = NameFound, !.left = left]
    BY <1>1 DEF BeginErasure
  <2>2. NameFound \in BOOLEAN  BY DEF NameFound, ContentAssumption
  <2>3. erasure' \in Calls  BY <1>0, <2>1, <2>2, CallsReached
  <2> QED BY <1>0, <1>1, <2>3 DEF BeginErasure, Types, ContentTypes, TaskTypes, LockTypes, RunTypes, PersonTypes, FaultTypes, content, locks, faults
<1>2. CASE LockQueueRow
  <2>1. erasure' \in Calls  BY <1>0, <1>2, CallsReached DEF LockQueueRow
  <2>2. LockTypes'  BY <1>0, <1>2, ActorsApart DEF LockQueueRow, LockTypes
  <2> QED BY <1>0, <1>2, <2>1, <2>2 DEF LockQueueRow, Types, ContentTypes, TaskTypes, RunTypes, PersonTypes, FaultTypes, content, faults
<1>3. CASE FindSends
  <2>1. TheirSends(erasure.knows) \in SUBSET (Rows \cup Sends)  BY DEF TheirSends
  <2>2. erasure' \in Calls  BY <1>0, <1>3, <2>1, CallsReached DEF FindSends
  <2> QED BY <1>0, <1>3, <2>2 DEF FindSends, Types, ContentTypes, TaskTypes, LockTypes, RunTypes, PersonTypes, FaultTypes, content, locks, faults
<1>4. ASSUME NEW s \in Sends, LockSend(s) PROVE Types'
  <2>1. erasure' \in Calls  BY <1>0, <1>4, CallsReached DEF LockSend
  <2>2. LockTypes'  BY <1>0, <1>4, ActorsApart DEF LockSend, LockTypes
  <2> QED BY <1>0, <1>4, <2>1, <2>2 DEF LockSend, Types, ContentTypes, TaskTypes, RunTypes, PersonTypes, FaultTypes, content, faults
<1>5. CASE ClearBodies
  <2>1. NamingDone(erasure.knows) \in SUBSET Rows  BY DEF NamingDone
  <2>2. erasure' \in Calls  BY <1>0, <1>5, <2>1, CallsReached DEF ClearBodies
  <2>3. LockTypes'  BY <1>0, <1>5, ActorsApart DEF ClearBodies, LockTypes
  <2> QED BY <1>0, <1>5, <2>2, <2>3 DEF ClearBodies, Types, ContentTypes, TaskTypes, RunTypes, PersonTypes, FaultTypes, content, faults
<1>6. CASE AnswerInProgress
  <2>1. erasure.blank \in SUBSET Rows  BY <1>0 DEF Calls
  <2>2. ContentTypes' /\ LockTypes' /\ erasure' \in Calls  BY <1>6, <2>1, CommitsTyped DEF AnswerInProgress
  <2> QED BY <1>0, <1>6, <2>2 DEF AnswerInProgress, Types, TaskTypes, RunTypes, PersonTypes, FaultTypes, faults
<1>7. CASE WriteReceipt
  <2>1. PICK blank \in SUBSET Rows : blank = erasure.blank \cup {r \in Rows : SentTo(r)}  BY <1>0 DEF Calls
  <2>2. ContentTypes' /\ LockTypes' /\ erasure' \in Calls  BY <1>7, <2>1, CommitsTyped DEF WriteReceipt
  <2> QED BY <1>0, <1>7, <2>2 DEF WriteReceipt, Types, TaskTypes, RunTypes, PersonTypes, FaultTypes, faults
<1>8. CASE AbortErasure
  <2>1. LockTypes'  BY <1>0, <1>8, LocksReleased DEF AbortErasure
  <2>2. erasure' \in Calls  BY <1>8, NewsOfTypes DEF AbortErasure
  <2> QED BY <1>0, <1>8, <2>1, <2>2 DEF AbortErasure, Types, ContentTypes, TaskTypes, RunTypes, PersonTypes, FaultTypes, content, faults
<1> QED BY <1>1, <1>2, <1>3, <1>4, <1>5, <1>6, <1>7, <1>8 DEF Erase

LEMMA TypesStep == ContentAssumption /\ Types /\ [Next]_vars => Types'
<1> SUFFICES ASSUME ContentAssumption, Types, [Next]_vars PROVE Types'  OBVIOUS
<1>1. CASE UNCHANGED vars
  BY <1>1 DEF vars, content, locks, person, faults, Types, ContentTypes, TaskTypes, LockTypes, RunTypes,
     PersonTypes, FaultTypes
<1>2. CASE Next
  BY <1>2, OthersTyped, SweepTyped, EraseTyped DEF Next
<1> QED BY <1>1, <1>2

\* The queue's rows, the sends, the sweeps' runs, the locks and the erasure's
\* call keep their types.
THEOREM SentTypes == Spec => []TypeOK
<1>1. Init => Types  BY TypesStart, ContentAssumption
<1>2. Types /\ [Next]_vars => Types'  BY TypesStep, ContentAssumption
<1> QED BY <1>1, <1>2, TypesAreTypes, PTL DEF Spec

-----------------------------------------------------------------------------
(* Failures and successes.                                                  *)

\* Whoever masks a send holds its row, and nobody decided on it meanwhile.
Turn == \A p \in Sweepers : sweep[p].at = "mask" =>
          keeper[sweep[p].send] = p /\ ~Decided(sweep[p].send)

UsefulRuns == {p \in Sweepers : sweep[p].useful}

\* Every run that may still count a failure has a success of its own to count
\* it beside.
Weighed == \A s \in Sends : ~Decided(s) =>
             task[s].failures + Cardinality(UsefulRuns) <= Cardinality(Judged \ {s})

\* What a run is about to empty was failing beside enough successes.
EmptiedLater == \A p \in Sweepers : sweep[p].at = "empty" =>
                  \A s \in sweep[p].failed : Cardinality(Judged \ {s}) >= MaxFailures

CountInv == FailuresNeedSuccesses /\ Weighed /\ EmptiedLater

LEMMA CountedSets ==
  ASSUME ContentAssumption, NEW s
  PROVE  /\ IsFiniteSet(Judged \ {s}) /\ Cardinality(Judged \ {s}) \in Nat
         /\ IsFiniteSet(UsefulRuns) /\ Cardinality(UsefulRuns) \in Nat
<1>1. IsFiniteSet(Sends) /\ IsFiniteSet(Sweepers)  BY DEF ContentAssumption
<1>2. Judged \ {s} \subseteq Sends /\ UsefulRuns \subseteq Sweepers  BY DEF Judged, UsefulRuns
<1>3. IsFiniteSet(Judged \ {s}) /\ IsFiniteSet(UsefulRuns)  BY <1>1, <1>2, FS_Subset
<1> QED BY <1>3, FS_CardinalityType

LEMMA CountStart == ContentAssumption /\ Init => CountInv /\ Turn
<1> SUFFICES ASSUME ContentAssumption, Init PROVE CountInv /\ Turn  OBVIOUS
<1>1. \A s \in Sends : task[s].failures = 0 /\ task[s].emptied = "no"  BY DEF Init, NewTask
<1>2. \A p \in Sweepers : sweep[p].at = "look"  BY DEF Init, NoRun
<1>3. UsefulRuns = {}  BY DEF Init, NoRun, UsefulRuns
<1>4. Cardinality(UsefulRuns) = 0  BY <1>3, FS_EmptySet
<1>7. \A s \in Sends : Cardinality(Judged \ {s}) \in Nat  BY CountedSets
<1> HIDE DEF Init
<1>5. FailuresNeedSuccesses
  <2> SUFFICES ASSUME NEW s \in Sends
               PROVE  /\ task[s].failures <= Cardinality(Judged \ {s})
                      /\ task[s].emptied = "failures" => Cardinality(Judged \ {s}) >= MaxFailures
    BY DEF FailuresNeedSuccesses
  <2>1. task[s].failures = 0 /\ task[s].emptied = "no" /\ Cardinality(Judged \ {s}) \in Nat
    BY <1>1, <1>7
  <2> QED BY <2>1
<1>6. Weighed
  <2> SUFFICES ASSUME NEW s \in Sends
               PROVE  task[s].failures + Cardinality(UsefulRuns) <= Cardinality(Judged \ {s})
    BY DEF Weighed
  <2>1. task[s].failures = 0 /\ Cardinality(Judged \ {s}) \in Nat  BY <1>1, <1>7
  <2> QED BY <1>4, <2>1
<1> QED BY <1>2, <1>5, <1>6 DEF CountInv, EmptiedLater, Turn

\* A step that decides on nothing by masking and counts nothing.
LEMMA CountKept ==
  ASSUME ContentAssumption, Types, CountInv, Types',
         Judged' = Judged, UsefulRuns' \subseteq UsefulRuns,
         \A s \in Sends : /\ task'[s].failures <= task[s].failures
                          /\ Decided(s) => Decided(s)'
                          /\ task'[s].emptied = "failures" =>
                               task[s].emptied = "failures" \/ Cardinality(Judged \ {s}) >= MaxFailures,
         \A p \in Sweepers : sweep'[p].at = "empty" =>
                               /\ sweep[p].at = "empty" /\ sweep'[p].failed \subseteq sweep[p].failed
  PROVE  CountInv'
<1>0. \A s \in Sends : task[s].failures \in Nat /\ task'[s].failures \in Nat
  BY DEF Types, TaskTypes, Tasks
<1>1. Cardinality(UsefulRuns') <= Cardinality(UsefulRuns) /\ Cardinality(UsefulRuns') \in Nat
      /\ Cardinality(UsefulRuns) \in Nat
  BY CountedSets, FS_Subset, FS_CardinalityType
<1>2. FailuresNeedSuccesses'
  <2> SUFFICES ASSUME NEW s \in Sends
               PROVE  /\ task'[s].failures <= Cardinality(Judged \ {s})
                      /\ task'[s].emptied = "failures" => Cardinality(Judged \ {s}) >= MaxFailures
    BY DEF FailuresNeedSuccesses
  <2>1. task[s].failures <= Cardinality(Judged \ {s}) /\ Cardinality(Judged \ {s}) \in Nat
    BY CountedSets DEF CountInv, FailuresNeedSuccesses
  <2>2. task[s].emptied = "failures" => Cardinality(Judged \ {s}) >= MaxFailures
    BY DEF CountInv, FailuresNeedSuccesses
  <2>3. task'[s].failures <= task[s].failures
        /\ task[s].failures \in Nat /\ task'[s].failures \in Nat
    BY <1>0
  <2>4. task'[s].failures <= Cardinality(Judged \ {s})  BY <2>1, <2>3
  <2> QED BY <2>2, <2>4
<1>3. Weighed'
  <2> SUFFICES ASSUME NEW s \in Sends, ~Decided(s)'
               PROVE  task'[s].failures + Cardinality(UsefulRuns') <= Cardinality(Judged \ {s})
    BY DEF Weighed
  <2>1. task[s].failures + Cardinality(UsefulRuns) <= Cardinality(Judged \ {s})
        /\ Cardinality(Judged \ {s}) \in Nat
    BY CountedSets DEF CountInv, Weighed
  <2> QED BY <1>0, <1>1, <2>1
<1>4. EmptiedLater'
  BY DEF CountInv, EmptiedLater
<1> QED BY <1>2, <1>3, <1>4 DEF CountInv

\* A send more is decided by masking, in run p.
LEMMA CountJudged ==
  ASSUME ContentAssumption, Types, CountInv, Types', NEW p \in Sweepers, NEW t \in Sends,
         Judged' = Judged \cup {t}, t \notin Judged, UsefulRuns' = UsefulRuns \cup {p},
         Decided(t)', task'[t].failures <= task[t].failures,
         task'[t].emptied # "failures",
         \A s \in Sends \ {t} : task'[s] = task[s],
         \A q \in Sweepers : sweep'[q].at = "empty" => sweep'[q] = sweep[q]
  PROVE  CountInv'
<1>0. \A s \in Sends : task[s].failures \in Nat /\ task'[s].failures \in Nat
  BY DEF Types, TaskTypes, Tasks
<1>1. Cardinality(UsefulRuns') <= Cardinality(UsefulRuns) + 1 /\ Cardinality(UsefulRuns') \in Nat
      /\ Cardinality(UsefulRuns) \in Nat
  <2>1. IsFiniteSet(UsefulRuns) /\ Cardinality(UsefulRuns) \in Nat  BY CountedSets
  <2>2. CASE p \in UsefulRuns
    <3>1. UsefulRuns' = UsefulRuns  BY <2>2
    <3>2. Cardinality(UsefulRuns') = Cardinality(UsefulRuns)  BY <3>1
    <3> QED BY <2>1, <3>2
  <2>3. CASE p \notin UsefulRuns
    <3>1. Cardinality(UsefulRuns \cup {p}) = Cardinality(UsefulRuns) + 1  BY <2>1, <2>3, FS_AddElement
    <3> QED BY <2>1, <3>1
  <2> QED BY <2>2, <2>3
<1>2. \A s \in Sends \ {t} : Cardinality(Judged' \ {s}) = Cardinality(Judged \ {s}) + 1
  <2> SUFFICES ASSUME NEW s \in Sends \ {t} PROVE Cardinality(Judged' \ {s}) = Cardinality(Judged \ {s}) + 1
    OBVIOUS
  <2>1. Judged' \ {s} = (Judged \ {s}) \cup {t} /\ t \notin Judged \ {s}  OBVIOUS
  <2>2. IsFiniteSet(Judged \ {s})  BY CountedSets
  <2>3. Cardinality((Judged \ {s}) \cup {t}) = Cardinality(Judged \ {s}) + 1
    BY <2>1, <2>2, FS_AddElement
  <2> QED BY <2>1, <2>3
<1>3. Judged' \ {t} = Judged \ {t}  OBVIOUS
<1>4. \A s \in Sends : Cardinality(Judged \ {s}) \in Nat  BY CountedSets
<1>5. FailuresNeedSuccesses'
  <2> SUFFICES ASSUME NEW s \in Sends
               PROVE  /\ task'[s].failures <= Cardinality(Judged' \ {s})
                      /\ task'[s].emptied = "failures" => Cardinality(Judged' \ {s}) >= MaxFailures
    BY DEF FailuresNeedSuccesses
  <2>1. /\ task[s].failures <= Cardinality(Judged \ {s})
        /\ task[s].emptied = "failures" => Cardinality(Judged \ {s}) >= MaxFailures
    BY DEF CountInv, FailuresNeedSuccesses
  <2>2. MaxFailures \in Nat  BY DEF ContentAssumption
  <2>3. CASE s = t
    <3>1. Judged' \ {s} = Judged \ {s}  BY <1>3, <2>3
    <3>2. Cardinality(Judged' \ {s}) = Cardinality(Judged \ {s})  BY <3>1
    <3>3. task'[s].emptied # "failures" /\ task'[s].failures <= task[s].failures  BY <2>3
    <3> QED BY <1>0, <1>4, <2>1, <3>2, <3>3
  <2>4. CASE s # t  BY <1>0, <1>2, <1>4, <2>1, <2>2, <2>4
  <2> QED BY <2>3, <2>4
<1>6. Weighed'
  <2> SUFFICES ASSUME NEW s \in Sends, ~Decided(s)'
               PROVE  task'[s].failures + Cardinality(UsefulRuns') <= Cardinality(Judged' \ {s})
    BY DEF Weighed
  <2>1. s # t  OBVIOUS
  <2>2. task'[s] = task[s] /\ ~Decided(s)  BY <2>1 DEF Decided
  <2>3. task[s].failures + Cardinality(UsefulRuns) <= Cardinality(Judged \ {s})
    BY <2>2 DEF CountInv, Weighed
  <2>4. Cardinality(Judged' \ {s}) = Cardinality(Judged \ {s}) + 1  BY <1>2, <2>1
  <2> HIDE <1>2
  <2> QED BY <1>0, <1>1, <1>4, <2>2, <2>3, <2>4
<1>7. EmptiedLater'
  <2> SUFFICES ASSUME NEW q \in Sweepers, sweep'[q].at = "empty", NEW s \in sweep'[q].failed
               PROVE  Cardinality(Judged' \ {s}) >= MaxFailures
    BY DEF EmptiedLater
  <2>1. Cardinality(Judged \ {s}) >= MaxFailures /\ Cardinality(Judged \ {s}) \in Nat
    BY CountedSets DEF CountInv, EmptiedLater
  <2>2. Judged \ {s} \subseteq Judged' \ {s}  OBVIOUS
  <2>3. IsFiniteSet(Judged' \ {s})
    <3>1. IsFiniteSet(Sends) /\ Judged' \ {s} \subseteq Sends  BY DEF ContentAssumption, Judged
    <3> QED BY <3>1, FS_Subset
  <2>4. Cardinality(Judged \ {s}) <= Cardinality(Judged' \ {s}) /\ Cardinality(Judged' \ {s}) \in Nat
    BY <2>2, <2>3, FS_Subset, FS_CardinalityType
  <2>5. MaxFailures \in Nat  BY DEF ContentAssumption
  <2> QED BY <2>1, <2>4, <2>5
<1> QED BY <1>5, <1>6, <1>7 DEF CountInv

\* The steps that touch no send and no run.
LEMMA TurnFramed ==
  ASSUME Turn, UNCHANGED <<task, sweep>>,
         \A s \in Sends : keeper[s] \in Sweepers => keeper'[s] = keeper[s],
         \A p \in Sweepers : sweep[p].at = "mask" => sweep[p].send \in Sends
  PROVE  Turn'
BY DEF Turn, Decided

LEMMA CountFramed ==
  ASSUME CountInv, UNCHANGED <<task, sweep>>
  PROVE  CountInv'
BY DEF CountInv, FailuresNeedSuccesses, Weighed, EmptiedLater, UsefulRuns, Judged, Decided

LEMMA OthersCount ==
  ASSUME ContentAssumption, Types, Types', CountInv, Turn,
         \/ \E r \in Rows : Send(r) \/ Sent(r) \/ OpenMail(r) \/ RecordTracking(r)
         \/ Outage \/ Erase \/ AbortErasure
  PROVE  CountInv' /\ Turn'
<1>0. \A p \in Sweepers : sweep[p].at = "mask" => sweep[p].send \in Sends
  BY DEF Types, RunTypes, Runs
<1>1. UNCHANGED <<task, sweep>>
  BY DEF Send, Sent, OpenMail, RecordTracking, Outage, Erase, BeginErasure, LockQueueRow, FindSends,
         LockSend, ClearBodies, AnswerInProgress, WriteReceipt, AbortErasure
<1>2. \A s \in Sends : keeper[s] \in Sweepers => keeper'[s] = keeper[s]
  <2>1. CASE UNCHANGED keeper  BY <2>1
  <2>2. CASE \E t \in Sends : keeper[t] = Nobody /\ keeper' = [keeper EXCEPT ![t] = Eraser]
    BY <2>2, ActorsApart DEF Types, LockTypes
  <2>3. CASE Releases(Eraser)
    BY <2>3, ActorsApart DEF Releases, Types, LockTypes
  <2> QED BY <2>1, <2>2, <2>3 DEF Send, Sent, OpenMail, RecordTracking, Outage, Erase, BeginErasure,
       LockQueueRow, FindSends, LockSend, ClearBodies, AnswerInProgress, WriteReceipt, AbortErasure,
       Commits, locks
<1> QED BY <1>0, <1>1, <1>2, TurnFramed, CountFramed

\* Only when a send is due, and how long it failed, changes.
LEMMA MarksCount ==
  ASSUME ContentAssumption, Types, Types', CountInv, Turn,
         MarkTemplate \/ \E s \in Sends : RetryDue(s) \/ DeadlinePasses(s)
  PROVE  CountInv' /\ Turn'
<1>0. \A s \in Sends : task[s] \in Tasks  BY DEF Types, TaskTypes
<1>1. UNCHANGED <<keeper, sweep>>
  BY DEF MarkTemplate, RetryDue, DeadlinePasses, locks
<1>2. \A s \in Sends : /\ task'[s].masked = task[s].masked /\ task'[s].emptied = task[s].emptied
                       /\ task'[s].failures = task[s].failures
  <2>1. CASE MarkTemplate
    <3>1. \A s \in Sends : /\ MarkedDue(task[s]).masked = task[s].masked
                           /\ MarkedDue(task[s]).emptied = task[s].emptied
                           /\ MarkedDue(task[s]).failures = task[s].failures
      BY <1>0 DEF MarkedDue, Tasks
    <3>2. \A s \in Sends : task'[s] \in {task[s], MarkedDue(task[s])}
      BY <2>1 DEF MarkTemplate
    <3> QED BY <3>1, <3>2
  <2>2. ASSUME NEW s \in Sends, RetryDue(s) \/ DeadlinePasses(s)
        PROVE  \A t \in Sends : /\ task'[t].masked = task[t].masked /\ task'[t].emptied = task[t].emptied
                                /\ task'[t].failures = task[t].failures
    <3>1. task \in [Sends -> Tasks]  BY DEF Types, TaskTypes
    <3>2. \A t \in Sends : t # s => task'[t] = task[t]
      BY <2>2, <3>1 DEF RetryDue, DeadlinePasses
    <3>5. PICK t \in {[task[s] EXCEPT !.waits = FALSE], [task[s] EXCEPT !.failing = "old"]} :
            task' = [task EXCEPT ![s] = t]
      BY <2>2 DEF RetryDue, DeadlinePasses
    <3>6. task'[s] = t  BY <3>1, <3>5
    <3>3. \/ task'[s] = [task[s] EXCEPT !.waits = FALSE] \/ task'[s] = [task[s] EXCEPT !.failing = "old"]
      BY <3>5, <3>6
    <3>4. /\ task'[s].masked = task[s].masked /\ task'[s].emptied = task[s].emptied
          /\ task'[s].failures = task[s].failures
      BY <1>0, <3>3 DEF Tasks
    <3> QED BY <3>2, <3>4
  <2> QED BY <2>1, <2>2
<1>3. Judged' = Judged /\ \A s \in Sends : Decided(s)' <=> Decided(s)
  BY <1>2 DEF Judged, Decided
<1>4. UsefulRuns' = UsefulRuns  BY <1>1 DEF UsefulRuns
<1>5. CountInv'
  <2>1. \A s \in Sends : /\ task'[s].failures <= task[s].failures
                         /\ task'[s].emptied = "failures" => task[s].emptied = "failures"
    BY <1>0, <1>2 DEF Tasks
  <2> QED BY <1>1, <1>3, <1>4, <2>1, CountKept
<1>6. Turn'
  <2>1. \A p \in Sweepers : sweep[p].at = "mask" => sweep[p].send \in Sends
    BY DEF Types, RunTypes, Runs
  <2> QED BY <1>1, <1>3, <2>1 DEF Turn
<1> QED BY <1>5, <1>6

\* The sweep's steps.
LEMMA SweepKept ==
  ASSUME ContentAssumption, Types, Types', CountInv, NEW p \in Sweepers, NEW to \in Runs, Step(p, to),
         to.useful => sweep[p].useful,
         to.at = "empty" => sweep[p].at = "empty" /\ to.failed \subseteq sweep[p].failed,
         Judged' = Judged,
         \A s \in Sends : /\ task'[s].failures <= task[s].failures
                          /\ Decided(s) => Decided(s)'
                          /\ task'[s].emptied = "failures" =>
                               task[s].emptied = "failures" \/ Cardinality(Judged \ {s}) >= MaxFailures
  PROVE  CountInv'
<1>1. sweep'[p] = to /\ \A q \in Sweepers \ {p} : sweep'[q] = sweep[q]  BY RunTypesKept
<1>2. UsefulRuns' \subseteq UsefulRuns  BY <1>1 DEF UsefulRuns
<1>3. \A q \in Sweepers : sweep'[q].at = "empty" =>
        /\ sweep[q].at = "empty" /\ sweep'[q].failed \subseteq sweep[q].failed
  BY <1>1
<1> QED BY <1>2, <1>3, CountKept

LEMMA TurnKept ==
  ASSUME Types, Turn, NEW p \in Sweepers, NEW to \in Runs, Step(p, to), to.at # "mask",
         \A s \in Sends : keeper[s] \in Sweepers \ {p} =>
           keeper'[s] = keeper[s] /\ (Decided(s)' => Decided(s))
  PROVE  Turn'
<1>1. sweep'[p] = to /\ \A q \in Sweepers \ {p} : sweep'[q] = sweep[q]  BY RunTypesKept
<1>2. ASSUME NEW q \in Sweepers, sweep'[q].at = "mask"
      PROVE  keeper'[sweep'[q].send] = q /\ ~Decided(sweep[q].send)'
  <2>1. q # p /\ sweep'[q] = sweep[q] /\ sweep[q].at = "mask"  BY <1>1, <1>2
  <2>2. PICK s \in Sends : s = sweep[q].send
    BY <2>1 DEF Types, RunTypes, Runs
  <2>3. keeper[s] = q /\ ~Decided(s)  BY <2>1, <2>2 DEF Turn
  <2>4. keeper'[s] = q /\ ~Decided(s)'  BY <2>1, <2>3
  <2> QED BY <2>1, <2>2, <2>4 DEF Decided
<1> QED BY <1>2 DEF Turn, Decided

\* Where task stays, or is put back, everything counted stays.
LEMMA TasksSame ==
  ASSUME Types, UNCHANGED task
  PROVE  /\ Judged' = Judged
         /\ \A s \in Sends : /\ task'[s].failures <= task[s].failures
                             /\ Decided(s)' <=> Decided(s)
                             /\ task'[s].emptied = "failures" => task[s].emptied = "failures"
BY DEF Types, TaskTypes, Tasks, Judged, Decided

LEMMA ReadsCount ==
  ASSUME ContentAssumption, Types, Types', CountInv, Turn, NEW p \in Sweepers,
         LookForSend(p) \/ MaskRow(p) \/ FailSend(p) \/ EndRun(p)
  PROVE  CountInv' /\ Turn'
<1>0. sweep[p] \in Runs /\ sweep[p] \in RunFields /\ marked \in BOOLEAN
  BY DEF Types, RunTypes, Runs, FaultTypes
<1>1. UNCHANGED task  BY DEF LookForSend, MaskRow, FailSend, EndRun
<1>2. CASE MaskRow(p)
  <2>1. UNCHANGED <<task, sweep, keeper>>  BY <1>2 DEF MaskRow
  <2>2. \A q \in Sweepers : sweep[q].at = "mask" => sweep[q].send \in Sends
    BY DEF Types, RunTypes, Runs
  <2> QED BY <2>1, <2>2, TurnFramed, CountFramed
<1>3. CASE LookForSend(p) \/ FailSend(p) \/ EndRun(p)
  <2>1. \E to \in Runs : Step(p, to) /\ to.useful = sweep[p].useful /\ to.at \in {"take", "defer", "count"}
    <3>1. CASE LookForSend(p)
      <4>1. PICK seen \in SUBSET Sends : Step(p, [sweep[p] EXCEPT !.at = "take", !.seen = seen, !.saw = marked])
        BY <3>1 DEF LookForSend
      <4>2. PICK to \in Runs : to = [sweep[p] EXCEPT !.at = "take", !.seen = seen, !.saw = marked]
        BY <1>0, <3>1, RunsReached DEF LookForSend
      <4>3. to.useful = sweep[p].useful /\ to.at = "take"  BY <1>0, <4>2 DEF RunFields
      <4> QED BY <4>1, <4>2, <4>3
    <3>2. CASE FailSend(p)
      <4>1. PICK to \in Runs : to = [sweep[p] EXCEPT !.at = "defer"]
        BY <1>0, <3>2, RunsReached DEF FailSend
      <4>2. to.useful = sweep[p].useful /\ to.at = "defer"  BY <1>0, <4>1 DEF RunFields
      <4> QED BY <3>2, <4>1, <4>2 DEF FailSend
    <3>3. CASE EndRun(p)
      <4>1. PICK to \in Runs : to = [sweep[p] EXCEPT !.at = "count", !.seen = {}]
        BY <1>0, RunsReached
      <4>2. to.useful = sweep[p].useful /\ to.at = "count"  BY <1>0, <4>1 DEF RunFields
      <4> QED BY <3>3, <4>1, <4>2 DEF EndRun
    <3> QED BY <1>3, <3>1, <3>2, <3>3
  <2>2. PICK to \in Runs : Step(p, to) /\ to.useful = sweep[p].useful /\ to.at \in {"take", "defer", "count"}
    BY <2>1
  <2>3. \A s \in Sends : keeper[s] \in Sweepers \ {p} => keeper'[s] = keeper[s]
    BY <1>3, LocksReleased DEF LookForSend, FailSend, EndRun, locks, Types
  <2>4. CountInv'  BY <1>1, <2>2, TasksSame, SweepKept
  <2>5. Turn'  BY <1>1, <2>2, <2>3, TasksSame, TurnKept
  <2> QED BY <2>4, <2>5
<1> QED BY <1>2, <1>3

LEMMA TakeCounts ==
  ASSUME ContentAssumption, Types, Types', CountInv, Turn, NEW p \in Sweepers,
         NEW s \in Sends, TakeSend(p, s)
  PROVE  CountInv' /\ Turn'
<1>0. sweep[p] \in Runs /\ sweep[p] \in RunFields /\ task \in [Sends -> Tasks] /\ task[s] \in Tasks
  BY DEF Types, RunTypes, Runs, TaskTypes
<1>1. sweep[p].at = "take" /\ keeper[s] = Nobody /\ ~Decided(s)
  BY DEF TakeSend, Takable, DueToMask
<1>2. CASE Sensitive(s, sweep[p].saw)
  <2>1. UNCHANGED task /\ keeper' = [keeper EXCEPT ![s] = p]
        /\ Step(p, [sweep[p] EXCEPT !.at = "mask", !.send = s, !.seen = {}])
    BY <1>2 DEF TakeSend
  <2>2. PICK to \in Runs : to = [sweep[p] EXCEPT !.at = "mask", !.send = s, !.seen = {}]
    BY <1>0, <1>1, RunsReached
  <2>3. to.useful = sweep[p].useful /\ to.at = "mask" /\ to.send = s  BY <1>0, <2>2 DEF RunFields
  <2>4. Step(p, to)  BY <2>1, <2>2
  <2>5. CountInv'  BY <2>1, <2>3, <2>4, TasksSame, SweepKept
  <2>6. sweep'[p] = to /\ \A q \in Sweepers \ {p} : sweep'[q] = sweep[q]  BY <2>4, RunTypesKept
  <2>7. keeper'[s] = p /\ \A t \in Sends \ {s} : keeper'[t] = keeper[t]
    BY <2>1 DEF Types, LockTypes
  <2>8. ASSUME NEW q \in Sweepers, sweep'[q].at = "mask"
        PROVE  keeper'[sweep'[q].send] = q /\ ~Decided(sweep[q].send)'
    <3>1. CASE q = p  BY <1>1, <2>1, <2>3, <2>6, <2>7, <3>1 DEF Decided
    <3>2. CASE q # p
      <4>1. sweep'[q] = sweep[q] /\ sweep[q].at = "mask"  BY <2>6, <2>8, <3>2
      <4>2. PICK t \in Sends : t = sweep[q].send  BY <4>1 DEF Types, RunTypes, Runs
      <4>3. keeper[t] = q /\ ~Decided(t)  BY <4>1, <4>2 DEF Turn
      <4>4. t # s  BY <1>1, <4>3, ActorsApart
      <4>5. keeper'[t] = q /\ ~Decided(t)'  BY <2>1, <2>7, <4>3, <4>4 DEF Decided
      <4> QED BY <4>1, <4>2, <4>5 DEF Decided
    <3> QED BY <3>1, <3>2
  <2> QED BY <2>5, <2>8 DEF Turn, Decided
<1>3. CASE ~Sensitive(s, sweep[p].saw)
  <2>1. task' = [task EXCEPT ![s] = NotDue] /\ UNCHANGED keeper
        /\ Step(p, [sweep[p] EXCEPT !.at = "look", !.seen = {}, !.inARow = 0, !.tried = @ \cup {s}])
    BY <1>3 DEF TakeSend
  <2>2. PICK to \in Runs : to = [sweep[p] EXCEPT !.at = "look", !.seen = {}, !.inARow = 0, !.tried = @ \cup {s}]
    BY <1>0, RunsReached
  <2>3. to.useful = sweep[p].useful /\ to.at = "look"  BY <1>0, <2>2 DEF RunFields
  <2>4. Step(p, to)  BY <2>1, <2>2
  <2>5. NotDue.failures = 0 /\ NotDue.masked = FALSE /\ NotDue.emptied = "no"  BY DEF NotDue, NewTask
  <2>6. task[s].emptied = "no" /\ task[s].masked = FALSE /\ task[s].failures \in Nat
    BY <1>0, <1>1 DEF Decided, Tasks
  <2>7. task'[s] = NotDue /\ \A t \in Sends \ {s} : task'[t] = task[t]  BY <1>0, <2>1
  <2>8. Judged' = Judged  BY <2>5, <2>6, <2>7 DEF Judged
  <2>9. \A t \in Sends : /\ task'[t].failures <= task[t].failures
                         /\ Decided(t)' <=> Decided(t)
                         /\ task'[t].emptied = "failures" => task[t].emptied = "failures"
    <3>1. \A t \in Sends : task[t].failures \in Nat  BY <1>0 DEF Tasks
    <3> QED BY <2>5, <2>6, <2>7, <3>1 DEF Decided
  <2>10. CountInv'  BY <2>3, <2>4, <2>8, <2>9, SweepKept
  <2>11. Turn'  BY <2>1, <2>3, <2>4, <2>9, TurnKept
  <2> QED BY <2>10, <2>11
<1> QED BY <1>2, <1>3

LEMMA MasksCount ==
  ASSUME ContentAssumption, Types, Types', CountInv, Turn, NEW p \in Sweepers,
         MarkSendMasked(p) \/ CannotMask(p)
  PROVE  CountInv' /\ Turn'
<1>0. /\ sweep[p] \in Runs /\ sweep[p] \in RunFields /\ task \in [Sends -> Tasks]
      /\ sweep[p].at = "mask" /\ sweep[p].send \in Sends
  BY DEF Types, RunTypes, Runs, TaskTypes, MarkSendMasked, CannotMask
<1>1. PICK s \in Sends : s = sweep[p].send  BY <1>0
<1>2. keeper[s] = p /\ ~Decided(s)  BY <1>0, <1>1 DEF Turn
<1>3. task[s].emptied = "no" /\ task[s].masked = FALSE /\ task[s].failures \in Nat
  BY <1>0, <1>2 DEF Decided, Tasks
<1>4. PICK to \in Runs : to = [sweep[p] EXCEPT !.at = "look", !.send = Nobody, !.inARow = 0,
                                               !.tried = @ \cup {s}, !.useful = TRUE]
  BY <1>0, RunsReached
<1>5. to.at = "look" /\ to.useful = TRUE  BY <1>0, <1>4 DEF RunFields
<1>6. Step(p, to)  BY <1>1, <1>4 DEF MarkSendMasked, CannotMask
<1>7. sweep'[p] = to /\ \A q \in Sweepers \ {p} : sweep'[q] = sweep[q]  BY <1>6, RunTypesKept
<1>8. /\ task'[s].emptied # "failures" /\ task'[s].failures <= task[s].failures
      /\ task'[s].masked = TRUE \/ task'[s].emptied = "unmaskable"
      /\ \A t \in Sends \ {s} : task'[t] = task[t]
  <2>1. CASE MarkSendMasked(p)
    <3>1. task' = [task EXCEPT ![s] = [NotDue EXCEPT !.masked = TRUE]]  BY <1>1, <2>1 DEF MarkSendMasked
    <3>2. PICK t : t = [NotDue EXCEPT !.masked = TRUE]  OBVIOUS
    <3>3. t.masked = TRUE /\ t.emptied = "no" /\ t.failures = 0  BY <3>2 DEF NotDue, NewTask
    <3>4. task'[s] = t /\ \A u \in Sends \ {s} : task'[u] = task[u]  BY <1>0, <3>1, <3>2
    <3> QED BY <1>3, <3>3, <3>4
  <2>2. CASE CannotMask(p)
    <3>1. EmptySends({s}, "unmaskable") /\ "unmaskable" \in Reasons /\ {s} \in SUBSET Sends
      BY <1>1, <2>2 DEF CannotMask, Reasons
    <3>2. PICK ss \in SUBSET Sends, why \in Reasons : ss = {s} /\ why = "unmaskable"  BY <3>1
    <3>3. EmptySends(ss, why)  BY <3>1, <3>2
    <3>4. /\ \A t \in Sends \ ss : task'[t] = task[t]
          /\ \A t \in ss : /\ task'[t].masked = task[t].masked
                           /\ task'[t].failures = task[t].failures
                           /\ task'[t].emptied = IF task[t].emptied = "no" THEN why ELSE task[t].emptied
      BY <3>3, SendsEmptied, ZenonT(60)
    <3>5. /\ task'[s].failures = task[s].failures /\ task'[s].emptied = "unmaskable"
          /\ \A t \in Sends \ {s} : task'[t] = task[t]
      BY <1>3, <3>2, <3>4
    <3>6. task'[s].failures <= task[s].failures  BY <1>3, <3>5
    <3> QED BY <3>5, <3>6
  <2> QED BY <2>1, <2>2
<1>9. Judged' = Judged \cup {s} /\ s \notin Judged
  BY <1>3, <1>8 DEF Judged
<1>10. UsefulRuns' = UsefulRuns \cup {p}  BY <1>5, <1>7 DEF UsefulRuns
<1>11. Decided(s)'  BY <1>8 DEF Decided
<1>12. \A q \in Sweepers : sweep'[q].at = "empty" => sweep'[q] = sweep[q]
  BY <1>5, <1>7
<1>13. CountInv'
  BY <1>8, <1>9, <1>10, <1>11, <1>12, CountJudged
<1>14. Turn'
  <2>1. LockTypes /\ Releases(p)  BY DEF Types, MarkSendMasked, CannotMask
  <2>2. \A t \in Sends : keeper[t] \in Sweepers \ {p} => keeper'[t] = keeper[t]
    BY <2>1, LocksReleased
  <2>3. \A t \in Sends : keeper[t] \in Sweepers \ {p} => (Decided(t)' => Decided(t))
    BY <1>2, <1>8 DEF Decided
  <2> QED BY <1>5, <1>6, <2>2, <2>3, TurnKept
<1> QED BY <1>13, <1>14

LEMMA DefersCount ==
  ASSUME ContentAssumption, Types, Types', CountInv, Turn, NEW p \in Sweepers, DeferFailure(p)
  PROVE  CountInv' /\ Turn'
<1>0. /\ sweep[p] \in Runs /\ sweep[p] \in RunFields /\ task \in [Sends -> Tasks]
      /\ sweep[p].at = "defer" /\ sweep[p].send \in Sends
  BY DEF Types, RunTypes, Runs, TaskTypes, DeferFailure
<1>1. PICK s \in Sends : s = sweep[p].send  BY <1>0
<1>2. PICK to \in Runs : to = [sweep[p] EXCEPT
        !.at = IF sweep[p].inARow + 1 >= BreakerFailures THEN "count" ELSE "look",
        !.send = Nobody, !.inARow = @ + 1, !.tried = @ \cup {s}, !.failed = @ \cup {s}]
  BY <1>0, RunsReached
<1>3. Step(p, to)  BY <1>1, <1>2 DEF DeferFailure
<1>4. to.useful = sweep[p].useful /\ to.at \in {"count", "look"}
  <2>1. PICK at \in {"count", "look"} : at = IF sweep[p].inARow + 1 >= BreakerFailures THEN "count" ELSE "look"
    OBVIOUS
  <2>2. to = [sweep[p] EXCEPT !.at = at, !.send = Nobody, !.inARow = @ + 1, !.tried = @ \cup {s}, !.failed = @ \cup {s}]
    BY <1>2, <2>1
  <2> HIDE <1>2
  <2> QED BY <1>0, <2>2 DEF RunFields
<1>5. \A t \in Sends : /\ task'[t].masked = task[t].masked /\ task'[t].emptied = task[t].emptied
                       /\ task'[t].failures = task[t].failures
  <2>1. task[s] \in Tasks  BY <1>0
  <2>2. PICK t : t = PutBack(task[s])  OBVIOUS
  <2>3. t.masked = task[s].masked /\ t.emptied = task[s].emptied /\ t.failures = task[s].failures
    BY <2>1, <2>2 DEF PutBack, Tasks
  <2>4. task' = task \/ task' = [task EXCEPT ![s] = t]  BY <1>1, <2>2 DEF DeferFailure
  <2> QED BY <1>0, <2>3, <2>4
<1>6. Judged' = Judged /\ \A t \in Sends : Decided(t)' <=> Decided(t)
  BY <1>5 DEF Judged, Decided
<1>7. \A t \in Sends : task'[t].failures <= task[t].failures
  BY <1>0, <1>5 DEF Tasks
<1>8. CountInv'  BY <1>3, <1>4, <1>5, <1>6, <1>7, SweepKept
<1>9. \A t \in Sends : keeper'[t] = keeper[t]  BY DEF DeferFailure, locks
<1>10. Turn'  BY <1>3, <1>4, <1>6, <1>9, TurnKept
<1> QED BY <1>8, <1>10

LEMMA ConfirmCounts ==
  ASSUME ContentAssumption, Types, Types', CountInv, Turn, NEW p \in Sweepers, ConfirmFailures(p)
  PROVE  CountInv' /\ Turn'
<1> DEFINE C == Counted(p)
           F == {s \in C : task[s].failures + 1 >= MaxFailures}
<1>0. /\ task \in [Sends -> Tasks] /\ C \subseteq Sends /\ MaxFailures \in Nat /\ UNCHANGED locks
      /\ sweep[p] \in Runs /\ sweep[p] \in RunFields
  BY DEF Types, TaskTypes, Counted, RunTypes, Runs, RunFields, ContentAssumption, ConfirmFailures
<1>1. C # {} => p \in UsefulRuns  BY DEF Counted, Counts, UsefulRuns
<1>2. \A s \in C : ~Decided(s)  BY DEF Counted
<1>3. task' = [s \in Sends |-> IF s \notin C THEN task[s]
                 ELSE [task[s] EXCEPT !.failures = @ + 1, !.unconfirmed = FALSE]]
      /\ Step(p, [NoRun EXCEPT !.at = "empty", !.failed = F])
  BY DEF ConfirmFailures
<1> HIDE DEF C, F
<1>4. F \in SUBSET Sends /\ F \subseteq C /\ \A s \in F : task[s].failures + 1 >= MaxFailures
  BY <1>0 DEF F
<1>5. PICK to \in Runs : to = [NoRun EXCEPT !.at = "empty", !.failed = F]  BY <1>0, <1>4, RunsReached
<1>6. to.at = "empty" /\ to.failed = F /\ to.useful = FALSE  BY <1>5 DEF NoRun
<1>7. Step(p, to) /\ sweep'[p] = to /\ \A q \in Sweepers \ {p} : sweep'[q] = sweep[q]
  BY <1>3, <1>5, RunTypesKept
<1>8. \A s \in Sends : /\ task'[s].masked = task[s].masked /\ task'[s].emptied = task[s].emptied
                       /\ task'[s].failures = IF s \in C THEN task[s].failures + 1 ELSE task[s].failures
  <2> SUFFICES ASSUME NEW s \in Sends
               PROVE  /\ task'[s].masked = task[s].masked /\ task'[s].emptied = task[s].emptied
                      /\ task'[s].failures = IF s \in C THEN task[s].failures + 1 ELSE task[s].failures
    OBVIOUS
  <2>1. PICK n : n = task[s].failures + 1  OBVIOUS
  <2>2. PICK t : t = [task[s] EXCEPT !.failures = n, !.unconfirmed = FALSE]  OBVIOUS
  <2>3. task[s] \in Tasks  BY <1>0
  <2>4. t.masked = task[s].masked /\ t.emptied = task[s].emptied /\ t.failures = n  BY <2>2, <2>3 DEF Tasks
  <2>5. task'[s] = IF s \in C THEN t ELSE task[s]  BY <1>3, <2>1, <2>2
  <2> QED BY <2>1, <2>4, <2>5
<1>9. Judged' = Judged /\ \A s \in Sends : Decided(s)' <=> Decided(s)
  BY <1>8 DEF Judged, Decided
<1>10. UsefulRuns' = UsefulRuns \ {p}  BY <1>6, <1>7 DEF UsefulRuns
<1>11. \A s \in Sends : Cardinality(Judged \ {s}) \in Nat /\ task[s].failures \in Nat
  BY <1>0, CountedSets DEF Tasks
<1>12. /\ Cardinality(UsefulRuns) \in Nat /\ Cardinality(UsefulRuns') \in Nat
       /\ Cardinality(UsefulRuns') <= Cardinality(UsefulRuns)
       /\ C # {} => Cardinality(UsefulRuns') = Cardinality(UsefulRuns) - 1 /\ Cardinality(UsefulRuns) >= 1
  <2>1. IsFiniteSet(UsefulRuns) /\ Cardinality(UsefulRuns) \in Nat  BY CountedSets
  <2>2. UsefulRuns \ {p} \subseteq UsefulRuns  OBVIOUS
  <2>3. /\ IsFiniteSet(UsefulRuns \ {p}) /\ Cardinality(UsefulRuns \ {p}) \in Nat
        /\ Cardinality(UsefulRuns \ {p}) <= Cardinality(UsefulRuns)
    BY <2>1, <2>2, FS_Subset, FS_CardinalityType
  <2>4. p \in UsefulRuns => Cardinality(UsefulRuns \ {p}) = Cardinality(UsefulRuns) - 1
    BY <2>1, FS_RemoveElement
  <2>5. Cardinality(UsefulRuns') = Cardinality(UsefulRuns \ {p})  BY <1>10
  <2> QED BY <1>1, <2>1, <2>3, <2>4, <2>5
<1>13. \A s \in C : task[s].failures + 1 <= Cardinality(Judged \ {s})
  <2> SUFFICES ASSUME NEW s \in C PROVE task[s].failures + 1 <= Cardinality(Judged \ {s})  OBVIOUS
  <2>1. s \in Sends /\ task[s].failures + Cardinality(UsefulRuns) <= Cardinality(Judged \ {s})
    BY <1>0, <1>2 DEF CountInv, Weighed
  <2>2. Cardinality(UsefulRuns) >= 1 /\ Cardinality(UsefulRuns) \in Nat  BY <1>12
  <2> QED BY <1>11, <2>1, <2>2
<1>14. FailuresNeedSuccesses'
  <2> SUFFICES ASSUME NEW s \in Sends
               PROVE  /\ task'[s].failures <= Cardinality(Judged' \ {s})
                      /\ task'[s].emptied = "failures" => Cardinality(Judged' \ {s}) >= MaxFailures
    BY DEF FailuresNeedSuccesses
  <2>1. /\ task[s].failures <= Cardinality(Judged \ {s})
        /\ task[s].emptied = "failures" => Cardinality(Judged \ {s}) >= MaxFailures
    BY DEF CountInv, FailuresNeedSuccesses
  <2>2. task'[s].failures <= Cardinality(Judged \ {s})  BY <1>8, <1>13, <2>1
  <2> QED BY <1>8, <1>9, <2>1, <2>2
<1>15. Weighed'
  <2> SUFFICES ASSUME NEW s \in Sends, ~Decided(s)'
               PROVE  task'[s].failures + Cardinality(UsefulRuns') <= Cardinality(Judged' \ {s})
    BY DEF Weighed
  <2>1. task[s].failures + Cardinality(UsefulRuns) <= Cardinality(Judged \ {s})
    BY <1>9 DEF CountInv, Weighed
  <2>2. task[s].failures \in Nat /\ Cardinality(Judged \ {s}) \in Nat /\ Judged' \ {s} = Judged \ {s}
    BY <1>9, <1>11
  <2>3. CASE s \in C
    <3>1. task'[s].failures = task[s].failures + 1  BY <1>8, <2>3
    <3>2. Cardinality(UsefulRuns') = Cardinality(UsefulRuns) - 1 /\ Cardinality(UsefulRuns) \in Nat
      BY <1>12, <2>3
    <3>3. task'[s].failures + Cardinality(UsefulRuns') <= Cardinality(Judged \ {s})
      BY <2>1, <2>2, <3>1, <3>2
    <3> QED BY <2>2, <3>3
  <2>4. CASE s \notin C
    <3>1. task'[s].failures = task[s].failures  BY <1>8, <2>4
    <3>2. task'[s].failures + Cardinality(UsefulRuns') <= Cardinality(Judged \ {s})
      BY <1>12, <2>1, <2>2, <3>1
    <3> QED BY <2>2, <3>2
  <2> QED BY <2>3, <2>4
<1>16. EmptiedLater'
  <2> SUFFICES ASSUME NEW q \in Sweepers, sweep'[q].at = "empty", NEW s \in sweep'[q].failed
               PROVE  Cardinality(Judged' \ {s}) >= MaxFailures
    BY DEF EmptiedLater
  <2>1. Judged' \ {s} = Judged \ {s}  BY <1>9
  <2>2. CASE q = p
    <3>1. s \in C /\ task[s].failures + 1 >= MaxFailures /\ s \in Sends  BY <1>0, <1>4, <1>6, <1>7, <2>2
    <3>2. task[s].failures + 1 <= Cardinality(Judged \ {s})  BY <1>13, <3>1
    <3>3. Cardinality(Judged \ {s}) >= MaxFailures  BY <1>0, <1>11, <3>1, <3>2
    <3> QED BY <2>1, <3>3
  <2>3. CASE q # p
    <3>1. sweep'[q] = sweep[q]  BY <1>7, <2>3
    <3>2. Cardinality(Judged \ {s}) >= MaxFailures  BY <3>1 DEF CountInv, EmptiedLater
    <3> QED BY <2>1, <3>2
  <2> QED BY <2>2, <2>3
<1>17. Turn'  BY <1>0, <1>6, <1>7, <1>9, TurnKept DEF locks
<1> QED BY <1>14, <1>15, <1>16, <1>17 DEF CountInv

LEMMA EmptiesCount ==
  ASSUME ContentAssumption, Types, Types', CountInv, Turn, NEW p \in Sweepers,
         EmptyFailed(p) \/ ClearPastDeadline(p)
  PROVE  CountInv' /\ Turn'
<1>0. /\ sweep[p] \in Runs /\ sweep[p] \in RunFields /\ task \in [Sends -> Tasks]
      /\ sweep[p].at = "empty" /\ UNCHANGED keeper
  BY DEF Types, RunTypes, Runs, TaskTypes, EmptyFailed, ClearPastDeadline, locks
<1>1. PICK ss \in SUBSET Sends, why \in {"failures", "deadline"}, to \in Runs :
        /\ EmptySends(ss, why) /\ Step(p, to) /\ \A s \in ss : keeper[s] = Nobody
        /\ to.useful => sweep[p].useful
        /\ to.at # "mask"
        /\ to.at = "empty" => to.failed \subseteq sweep[p].failed
        /\ why = "failures" => ss \subseteq sweep[p].failed
  <2>1. CASE EmptyFailed(p)
    <3>1. PICK s \in sweep[p].failed : /\ keeper[s] = Nobody /\ EmptySends({s}, "failures")
                                       /\ Step(p, [sweep[p] EXCEPT !.failed = @ \ {s}])
      BY <2>1 DEF EmptyFailed
    <3>2. s \in Sends  BY <1>0 DEF RunFields
    <3>3. PICK fs \in SUBSET Sends : fs = sweep[p].failed \ {s}  BY <1>0 DEF RunFields
    <3>4. PICK to \in Runs : to = [sweep[p] EXCEPT !.failed = fs]  BY <1>0, RunsReached
    <3>5. to.useful = sweep[p].useful /\ to.at = "empty" /\ to.failed = fs  BY <1>0, <3>4 DEF RunFields
    <3>6. Step(p, to)  BY <3>1, <3>3, <3>4
    <3>7. PICK ss \in SUBSET Sends, why \in {"failures", "deadline"} : ss = {s} /\ why = "failures"
      BY <3>2
    <3>8. /\ EmptySends(ss, why) /\ \A t \in ss : keeper[t] = Nobody
          /\ ss \subseteq sweep[p].failed /\ to.failed \subseteq sweep[p].failed /\ to.at # "mask"
          /\ (to.useful => sweep[p].useful)
      BY <3>1, <3>3, <3>5, <3>7
    <3> HIDE <3>3, <3>4, <3>7
    <3> QED BY <3>6, <3>8, ZenonT(60)
  <2>2. CASE ClearPastDeadline(p)
    <3>1. EmptySends(PastDeadline, "deadline") /\ Step(p, NoRun)  BY <2>2 DEF ClearPastDeadline
    <3>2. PastDeadline \in SUBSET Sends /\ \A s \in PastDeadline : keeper[s] = Nobody  BY DEF PastDeadline
    <3>3. NoRun \in Runs /\ NoRun.at = "look" /\ NoRun.useful = FALSE  BY NewsOfTypes DEF NoRun
    <3>4. PICK ss \in SUBSET Sends, why \in {"failures", "deadline"}, to \in Runs :
             ss = PastDeadline /\ why = "deadline" /\ to = NoRun
      BY <3>2, <3>3
    <3>5. /\ EmptySends(ss, why) /\ \A t \in ss : keeper[t] = Nobody
          /\ Step(p, to) /\ to.at = "look" /\ to.useful = FALSE /\ why # "failures"
          /\ to.at # "mask" /\ to.at # "empty"
      BY <3>1, <3>2, <3>3, <3>4
    <3> HIDE <3>4
    <3> QED BY <3>5, ZenonT(60)
  <2> QED BY <2>1, <2>2
<1>2. why \in Reasons /\ EmptySends(ss, why)  BY <1>1 DEF Reasons
<1>3. /\ \A s \in Sends \ ss : task'[s] = task[s]
      /\ \A s \in ss : /\ task'[s].masked = task[s].masked
                       /\ task'[s].failures = task[s].failures
                       /\ task'[s].emptied = IF task[s].emptied = "no" THEN why ELSE task[s].emptied
  BY <1>2, SendsEmptied, ZenonT(60)
<1>4. Judged' = Judged  BY <1>3 DEF Judged
<1>5. ASSUME NEW s \in Sends
      PROVE  /\ task'[s].failures <= task[s].failures
             /\ Decided(s) => Decided(s)'
             /\ task'[s].emptied = "failures" =>
                  task[s].emptied = "failures" \/ Cardinality(Judged \ {s}) >= MaxFailures
  <2>1. task[s].failures \in Nat  BY <1>0 DEF Tasks
  <2>2. CASE s \notin ss  BY <1>3, <2>1, <2>2 DEF Decided
  <2>3. CASE s \in ss
    <3>1. task'[s].failures <= task[s].failures  BY <1>3, <2>1, <2>3
    <3>2. Decided(s) => Decided(s)'  BY <1>3, <2>3 DEF Decided
    <3>3. why = "failures" => Cardinality(Judged \ {s}) >= MaxFailures
      BY <1>0, <1>1, <2>3 DEF CountInv, EmptiedLater
    <3> QED BY <1>3, <2>3, <3>1, <3>2, <3>3
  <2> QED BY <2>2, <2>3
<1>6. CountInv'  BY <1>0, <1>1, <1>4, <1>5, SweepKept
<1>7. \A s \in Sends : keeper[s] \in Sweepers \ {p} => keeper'[s] = keeper[s] /\ (Decided(s)' => Decided(s))
  BY <1>0, <1>1, <1>3, ActorsApart DEF Decided
<1>8. Turn'  BY <1>1, <1>7, TurnKept
<1> QED BY <1>6, <1>8

LEMMA CountStep ==
  ContentAssumption /\ Types /\ CountInv /\ Turn /\ [Next]_vars => CountInv' /\ Turn'
<1> SUFFICES ASSUME ContentAssumption, Types, CountInv, Turn, [Next]_vars PROVE CountInv' /\ Turn'  OBVIOUS
<1>0. Types'  BY TypesStep
<1>1. CASE UNCHANGED vars
  <2>1. UNCHANGED <<task, sweep>> /\ UNCHANGED keeper  BY <1>1 DEF vars, locks
  <2>2. \A p \in Sweepers : sweep[p].at = "mask" => sweep[p].send \in Sends
    BY DEF Types, RunTypes, Runs
  <2> QED BY <2>1, <2>2, TurnFramed, CountFramed
<1>2. ASSUME NEW p \in Sweepers, Sweep(p) PROVE CountInv' /\ Turn'
  BY <1>0, <1>2, ReadsCount, TakeCounts, MasksCount, DefersCount, ConfirmCounts, EmptiesCount DEF Sweep
<1>3. CASE Next /\ ~\E p \in Sweepers : Sweep(p)
  BY <1>0, <1>3, OthersCount, MarksCount DEF Next
<1> QED BY <1>1, <1>2, <1>3

LEMMA CountInvariant == Spec => [](Types /\ CountInv /\ Turn)
<1>1. Init => Types /\ CountInv /\ Turn  BY TypesStart, CountStart, ContentAssumption
<1>2. Types /\ CountInv /\ Turn /\ [Next]_vars => (Types /\ CountInv /\ Turn)'
  BY TypesStep, CountStep, ContentAssumption
<1> QED BY <1>1, <1>2, PTL DEF Spec

\* A send's counted failures never outnumber the other sends whose masking was
\* decided, and none is emptied for its failures before MaxFailures others
\* were: a fault in which nothing is masked empties nothing, whatever marks,
\* deadlocks and other replicas' runs meet it.
THEOREM FailuresWeighed == Spec => []FailuresNeedSuccesses
<1>1. CountInv => FailuresNeedSuccesses  BY DEF CountInv
<1> QED BY <1>1, CountInvariant, PTL

-----------------------------------------------------------------------------
(* What is gone stays gone. Proved from what the two lockers hold: a sweep  *)
(* only rows of its send that still have a mail, the public handler only    *)
(* rows it may record for, the erasure, once it reads the sends, every row  *)
(* to the person that is left.                                              *)

SweepsHold ==
  \A r \in Rows : holder[r] \in Sweepers =>
    /\ status[r] # "gone" /\ text[r] # "empty"
    /\ sweep[holder[r]].at = "mask" /\ sweep[holder[r]].send = SendOf[r]
ReaderHolds ==
  \A r \in Rows : holder[r] = Reader => r \in ToPerson \ closed /\ status[r] = "done"
RowsInOrder ==
  /\ \A r \in opened : status[r] = "done"
  /\ \A r \in Rows : status[r] = "gone" => r \in closed

TheirsAlone(s) == RowsOf(s) # {} /\ RowsOf(s) \subseteq ToPerson
CallHolds ==
  /\ erasure.at = "rows" => erasure.left \subseteq Rows
  /\ erasure.at # "idle" => ~receipt
  /\ erasure.at # "idle" => \A r \in ToPerson :
       status[r] = "gone" \/ holder[r] = Eraser \/ (erasure.at = "rows" /\ r \in erasure.left)
  /\ erasure.at \in {"sends", "judge"} => \A s \in Sends : TheirsAlone(s) =>
       vars_of[s] = "empty" \/ keeper[s] = Eraser \/ (erasure.at = "sends" /\ s \in erasure.left)
  /\ erasure.at = "judge" => \A r \in erasure.blank : holder[r] = Eraser

ContentInv ==
  RawIsGone /\ SweepsHold /\ ReaderHolds /\ RowsInOrder /\ CallHolds /\ ErasedStaysErased

LEMMA ContentStart == ContentAssumption /\ Init => ContentInv
<1> SUFFICES ASSUME ContentAssumption, Init PROVE ContentInv  OBVIOUS
<1>1. \A s \in Sends : ~Decided(s)  BY DEF Init, Decided, NewTask
<1>2. SweepsHold /\ ReaderHolds  BY ActorsApart DEF Init, SweepsHold, ReaderHolds
<1>3. RowsInOrder  BY DEF Init, RowsInOrder
<1>4. erasure.at = "idle" /\ receipt = FALSE  BY DEF Init, NoCall
<1> QED BY <1>1, <1>2, <1>3, <1>4 DEF ContentInv, RawIsGone, CallHolds, ErasedStaysErased

\* What holds of a step that moves no row in the queue and no call: it is
\* enough that nothing empty or masked comes back, that no lock of the erasure
\* is lost and that a send is decided with its mail.
Comes ==
  /\ \A r \in Rows : /\ text[r] # "raw" => text'[r] # "raw"
                     /\ text[r] = "empty" /\ status[r] # "gone" => text'[r] = "empty"
  /\ \A s \in Sends : /\ vars_of[s] # "raw" => vars_of'[s] # "raw"
                      /\ vars_of[s] = "empty" => vars_of'[s] = "empty"
DecidedWhole ==
  \A s \in Sends : Decided(s)' => Decided(s) \/ /\ vars_of'[s] # "raw"
                                                /\ \A r \in RowsOf(s) : text'[r] # "raw"
LocksKept ==
  /\ \A r \in Rows : holder'[r] = holder[r] \/ (holder[r] # Eraser /\ holder'[r] # Reader)
  /\ \A s \in Sends : keeper[s] = Eraser => keeper'[s] = Eraser

LEMMA ContentKept ==
  ASSUME ContentAssumption, Types, Types', ContentInv, Comes, DecidedWhole, LocksKept, SweepsHold',
         UNCHANGED <<status, opened, closed, erasure, receipt>>
  PROVE  ContentInv'
<1>1. /\ RawIsGone /\ ReaderHolds /\ RowsInOrder /\ CallHolds /\ ErasedStaysErased
      /\ \A s \in Sends : RowsOf(s)' = RowsOf(s)
  BY DEF ContentInv, RowsOf
<1>2. RawIsGone'
  <2> SUFFICES ASSUME NEW s \in Sends, Decided(s)'
               PROVE  vars_of'[s] # "raw" /\ \A r \in RowsOf(s) : text'[r] # "raw"
    BY <1>1 DEF RawIsGone
  <2>1. CASE Decided(s)
    <3>1. vars_of[s] # "raw" /\ \A r \in RowsOf(s) : text[r] # "raw"  BY <1>1, <2>1 DEF RawIsGone
    <3>2. RowsOf(s) \subseteq Rows  BY DEF RowsOf
    <3> QED BY <3>1, <3>2 DEF Comes
  <2>2. CASE ~Decided(s)  BY <2>2 DEF DecidedWhole
  <2> QED BY <2>1, <2>2
<1>3. ReaderHolds'  BY <1>1 DEF ReaderHolds, LocksKept
<1>4. RowsInOrder'  BY <1>1 DEF RowsInOrder
<1>5. CallHolds'
  <2>1. \A r \in ToPerson : holder[r] = Eraser => holder'[r] = Eraser
    BY DEF LocksKept, ContentAssumption
  <2>2. erasure.at = "judge" => \A r \in erasure.blank : r \in Rows /\ holder'[r] = Eraser
    BY <1>1 DEF CallHolds, LocksKept, Types, PersonTypes, Calls
  <2>3. \A s \in Sends : (TheirsAlone(s)' <=> TheirsAlone(s))  BY <1>1 DEF TheirsAlone
  <2>4. \A s \in Sends : /\ vars_of[s] = "empty" => vars_of'[s] = "empty"
                         /\ keeper[s] = Eraser => keeper'[s] = Eraser
    BY DEF Comes, LocksKept
  <2> QED BY <1>1, <2>1, <2>2, <2>3, <2>4 DEF CallHolds
<1>6. ErasedStaysErased'
  <2> SUFFICES ASSUME receipt
               PROVE  /\ \A r \in ToPerson : status[r] = "gone" \/ (status[r] = "done" /\ text'[r] = "empty")
                      /\ opened = {} /\ ToPerson \subseteq closed
                      /\ \A s \in Sends : RowsOf(s) # {} /\ RowsOf(s) \subseteq ToPerson => vars_of'[s] = "empty"
    BY <1>1 DEF ErasedStaysErased
  <2>1. \A r \in ToPerson : r \in Rows  BY DEF ContentAssumption
  <2> QED BY <1>1, <2>1 DEF ErasedStaysErased, Comes
<1> QED BY <1>2, <1>3, <1>4, <1>5, <1>6 DEF ContentInv

\* A sweep's step after which it holds nothing.
LEMMA SweepLetsGo ==
  ASSUME ContentAssumption, Types, ContentInv, NEW p \in Sweepers, UNCHANGED status,
         \A q \in Sweepers \ {p} : sweep'[q] = sweep[q],
         \A r \in Rows : holder'[r] = holder[r] \/ holder'[r] = Nobody,
         \A r \in Rows : holder'[r] # p,
         \A r \in Rows : holder[r] \in Sweepers \ {p} /\ text'[r] = "empty" => text[r] = "empty"
  PROVE  SweepsHold'
<1> SUFFICES ASSUME NEW r \in Rows, holder'[r] \in Sweepers
             PROVE  /\ status'[r] # "gone" /\ text'[r] # "empty"
                    /\ sweep'[holder'[r]].at = "mask" /\ sweep'[holder'[r]].send = SendOf[r]
  BY DEF SweepsHold
<1>1. holder'[r] = holder[r] /\ holder[r] \in Sweepers \ {p}  BY ActorsApart
<1>2. /\ status[r] # "gone" /\ text[r] # "empty"
      /\ sweep[holder[r]].at = "mask" /\ sweep[holder[r]].send = SendOf[r]
  BY <1>1 DEF ContentInv, SweepsHold
<1>3. PICK q \in Sweepers \ {p} : q = holder[r] /\ q = holder'[r]  BY <1>1
<1>4. sweep'[q] = sweep[q]  OBVIOUS
<1> QED BY <1>1, <1>2, <1>3, <1>4

\* A sweep that does not mask holds no row.
LEMMA HoldsNothing ==
  ASSUME ContentInv, NEW p \in Sweepers, sweep[p].at # "mask"
  PROVE  \A r \in Rows : holder[r] # p
BY DEF ContentInv, SweepsHold

\* A step that leaves the content and the decisions.
LEMMA ContentLeft ==
  ASSUME ContentAssumption, Types, Types', ContentInv, LocksKept, SweepsHold',
         UNCHANGED content, UNCHANGED <<erasure, receipt>>, \A s \in Sends : Decided(s)' => Decided(s)
  PROVE  ContentInv'
<1>1. UNCHANGED <<status, text, opened, closed, vars_of>>  BY DEF content
<1>2. Comes /\ DecidedWhole  BY <1>1 DEF Comes, DecidedWhole
<1> QED BY <1>1, <1>2, ContentKept

LEMMA OthersRun ==
  ASSUME Types, NEW p \in Sweepers, NEW to, Step(p, to)
  PROVE  sweep'[p] = to /\ \A q \in Sweepers \ {p} : sweep'[q] = sweep[q]
BY DEF Types, RunTypes, Step

\* A sweep reads, takes, ends or counts: no mail and no row's lock changes.
LEMMA QuietKeeps ==
  ASSUME ContentAssumption, Types, Types', ContentInv, NEW p \in Sweepers, sweep[p].at # "mask",
         UNCHANGED <<holder, erasure, receipt>>, UNCHANGED content,
         \A s \in Sends : keeper[s] = Eraser => keeper'[s] = Eraser,
         \A q \in Sweepers \ {p} : sweep'[q] = sweep[q],
         \A s \in Sends : Decided(s)' => Decided(s)
  PROVE  ContentInv'
<1>1. \A r \in Rows : holder'[r] = holder[r] /\ holder[r] # p  BY HoldsNothing
<1>2. UNCHANGED <<status, text>>  BY DEF content
<1>3. SweepsHold'  BY <1>1, <1>2, SweepLetsGo
<1>4. LocksKept  BY DEF LocksKept
<1> QED BY <1>3, <1>4, ContentLeft

LEMMA ReadsKeep ==
  ASSUME ContentAssumption, Types, Types', ContentInv, NEW p \in Sweepers,
         \/ LookForSend(p) \/ (\E s \in Sends : TakeSend(p, s)) \/ EndRun(p)
         \/ DeferFailure(p) \/ ConfirmFailures(p)
  PROVE  ContentInv'
<1>0. task \in [Sends -> Tasks]  BY DEF Types, TaskTypes
<1>1. /\ sweep[p].at # "mask" /\ UNCHANGED <<holder, erasure, receipt>> /\ UNCHANGED content
      /\ \E to : Step(p, to)
  BY DEF LookForSend, TakeSend, EndRun, DeferFailure, ConfirmFailures, locks, person
<1>2. \A q \in Sweepers \ {p} : sweep'[q] = sweep[q]  BY <1>1, OthersRun
<1>3. \A s \in Sends : keeper[s] = Eraser => keeper'[s] = Eraser
  <2>1. CASE UNCHANGED keeper  BY <2>1
  <2>2. CASE \E s \in Sends : keeper[s] = Nobody /\ keeper' = [keeper EXCEPT ![s] = p]
    BY <2>2, ActorsApart DEF Types, LockTypes
  <2>3. ASSUME NEW s \in Sends, TakeSend(p, s)
        PROVE  UNCHANGED keeper \/ (keeper[s] = Nobody /\ keeper' = [keeper EXCEPT ![s] = p])
    BY <2>3 DEF TakeSend, Takable
  <2> QED BY <2>1, <2>2, <2>3 DEF LookForSend, EndRun, DeferFailure, ConfirmFailures, locks
<1>4. ASSUME NEW s \in Sends, Decided(s)' PROVE Decided(s)
  <2>1. CASE UNCHANGED task  BY <1>4, <2>1 DEF Decided
  <2>2. ASSUME NEW t \in Sends, TakeSend(p, t) PROVE task' = task \/ task' = [task EXCEPT ![t] = NotDue]
    BY <2>2 DEF TakeSend
  <2>3. CASE \E t \in Sends : TakeSend(p, t)
    <3>1. PICK t \in Sends : task' = task \/ task' = [task EXCEPT ![t] = NotDue]  BY <2>2, <2>3
    <3>2. NotDue.masked = FALSE /\ NotDue.emptied = "no"  BY DEF NotDue, NewTask
    <3> QED BY <1>0, <1>4, <3>1, <3>2 DEF Decided
  <2>4. CASE DeferFailure(p)
    <3>1. PICK t : t = sweep[p].send  OBVIOUS
    <3>2. PICK x : x = PutBack(task[t])  OBVIOUS
    <3>3. task' = task \/ task' = [task EXCEPT ![t] = x]  BY <2>4, <3>1, <3>2 DEF DeferFailure
    <3>4. t \in Sends => x.masked = task[t].masked /\ x.emptied = task[t].emptied
      <4>1. t \in Sends => task[t] \in Tasks  BY <1>0
      <4> QED BY <3>2, <4>1 DEF PutBack, Tasks
    <3> QED BY <1>0, <1>4, <3>3, <3>4 DEF Decided
  <2>5. CASE ConfirmFailures(p)
    <3>1. task' = [t \in Sends |-> IF t \notin Counted(p) THEN task[t]
                     ELSE [task[t] EXCEPT !.failures = @ + 1, !.unconfirmed = FALSE]]
      BY <2>5 DEF ConfirmFailures
    <3>2. PICK x : x = [task[s] EXCEPT !.failures = @ + 1, !.unconfirmed = FALSE]  OBVIOUS
    <3>3. task[s] \in Tasks  BY <1>0
    <3>4. x.masked = task[s].masked /\ x.emptied = task[s].emptied  BY <3>2, <3>3 DEF Tasks
    <3>5. task'[s] = task[s] \/ task'[s] = x  BY <3>1, <3>2
    <3> QED BY <1>4, <3>4, <3>5 DEF Decided
  <2> QED BY <2>1, <2>3, <2>4, <2>5 DEF LookForSend, TakeSend, EndRun, DeferFailure, ConfirmFailures
<1> QED BY <1>1, <1>2, <1>3, <1>4, QuietKeeps

LEMMA RowKeeps ==
  ASSUME ContentAssumption, Types, Types', ContentInv, NEW p \in Sweepers, MaskRow(p)
  PROVE  ContentInv'
<1>1. sweep[p].at = "mask" /\ ToMask(p) # {}  BY DEF MaskRow
<1>2. PICK r \in ToMask(p) : holder[r] = Nobody /\ holder' = [holder EXCEPT ![r] = p]
  <2>1. ToMask(p) \subseteq Nat  BY DEF ToMask, RowsOf, ContentAssumption
  <2>2. Min(ToMask(p)) \in ToMask(p)  BY <1>1, <2>1, LeastIsOne
  <2> QED BY <2>2 DEF MaskRow
<1>3. r \in Rows /\ SendOf[r] = sweep[p].send /\ status[r] # "gone" /\ text[r] # "empty"
  BY DEF ToMask, RowsOf
<1>4. UNCHANGED <<status, text, sweep, keeper, task, erasure, receipt>> /\ UNCHANGED content
  BY DEF MaskRow, content, person
<1>5. holder'[r] = p /\ \A q \in Rows \ {r} : holder'[q] = holder[q]
  BY <1>2, <1>3 DEF Types, LockTypes
<1>6. SweepsHold'
  <2> SUFFICES ASSUME NEW q \in Rows, holder'[q] \in Sweepers
               PROVE  /\ status[q] # "gone" /\ text[q] # "empty"
                      /\ sweep[holder'[q]].at = "mask" /\ sweep[holder'[q]].send = SendOf[q]
    BY <1>4 DEF SweepsHold
  <2>1. CASE q = r  BY <1>1, <1>3, <1>5, <2>1
  <2>2. CASE q # r
    <3>1. holder'[q] = holder[q]  BY <1>5, <2>2
    <3> QED BY <3>1 DEF ContentInv, SweepsHold
  <2> QED BY <2>1, <2>2
<1>7. LocksKept  BY <1>2, <1>4, <1>5, ActorsApart DEF LocksKept
<1>8. \A s \in Sends : Decided(s)' => Decided(s)  BY <1>4 DEF Decided
<1> QED BY <1>4, <1>6, <1>7, <1>8, ContentLeft

\* What a sweep lets go of when its transaction ends.
LEMMA ReleaseKeeps ==
  ASSUME ContentAssumption, Types, NEW p \in Sweepers, Releases(p)
  PROVE  /\ LocksKept
         /\ \A r \in Rows : holder'[r] = holder[r] \/ holder'[r] = Nobody
         /\ \A r \in Rows : holder'[r] # p
<1>1. LockTypes  BY DEF Types
<1>2. /\ \A r \in Rows : holder'[r] = IF holder[r] = p THEN Nobody ELSE holder[r]
      /\ \A s \in Sends : keeper'[s] = IF keeper[s] = p THEN Nobody ELSE keeper[s]
  BY <1>1, LocksReleased
<1> QED BY <1>2, ActorsApart DEF LocksKept

LEMMA FailKeeps ==
  ASSUME ContentAssumption, Types, Types', ContentInv, NEW p \in Sweepers, FailSend(p)
  PROVE  ContentInv'
<1>1. Releases(p) /\ UNCHANGED content /\ UNCHANGED <<task, erasure, receipt>> /\ \E to : Step(p, to)
  BY DEF FailSend, person
<1>2. \A q \in Sweepers \ {p} : sweep'[q] = sweep[q]  BY <1>1, OthersRun
<1>3. UNCHANGED <<status, text>>  BY <1>1 DEF content
<1>4. LocksKept /\ SweepsHold'  BY <1>1, <1>2, <1>3, ReleaseKeeps, SweepLetsGo
<1>5. \A s \in Sends : Decided(s)' => Decided(s)  BY <1>1 DEF Decided
<1> QED BY <1>1, <1>4, <1>5, ContentLeft

LEMMA MaskKeeps ==
  ASSUME ContentAssumption, Types, Types', ContentInv, NEW p \in Sweepers, MarkSendMasked(p)
  PROVE  ContentInv'
<1>0. sweep[p].at = "mask" /\ sweep[p].send \in Sends /\ ToMask(p) = {}
  BY DEF Types, RunTypes, Runs, MarkSendMasked
<1>1. PICK s \in Sends : s = sweep[p].send  BY <1>0
<1>2. /\ Releases(p) /\ UNCHANGED <<status, opened, closed, erasure, receipt>> /\ \E to : Step(p, to)
      /\ \A r \in Rows : text'[r] = IF holder[r] = p THEN "masked" ELSE text[r]
      /\ vars_of' = [vars_of EXCEPT ![s] = IF @ = "empty" THEN @ ELSE "masked"]
      /\ task' = [task EXCEPT ![s] = [NotDue EXCEPT !.masked = TRUE]]
  BY <1>1 DEF MarkSendMasked, MaskedText, person
<1>3. \A q \in Sweepers \ {p} : sweep'[q] = sweep[q]  BY <1>2, OthersRun
<1>4. \A r \in Rows : holder[r] = p => text[r] # "empty" /\ status[r] # "gone"
  BY DEF ContentInv, SweepsHold
<1>5. SweepsHold' /\ LocksKept  BY <1>2, <1>3, ReleaseKeeps, SweepLetsGo
<1>6. /\ vars_of'[s] = (IF vars_of[s] = "empty" THEN "empty" ELSE "masked")
      /\ \A t \in Sends \ {s} : vars_of'[t] = vars_of[t]
  BY <1>2 DEF Types, ContentTypes
<1>7. Comes  BY <1>2, <1>4, <1>6 DEF Comes
<1>8. \A r \in RowsOf(s) : text'[r] # "raw"
  <2>1. ASSUME NEW r \in RowsOf(s) PROVE text[r] = "empty" \/ holder[r] = p
    BY <1>0, <1>1, <2>1 DEF ToMask
  <2> QED BY <1>2, <2>1 DEF RowsOf
<1>9. DecidedWhole
  <2> SUFFICES ASSUME NEW t \in Sends, Decided(t)', ~Decided(t)
               PROVE  vars_of'[t] # "raw" /\ \A r \in RowsOf(t) : text'[r] # "raw"
    BY DEF DecidedWhole
  <2>1. t = s
    <3>1. t # s => task'[t] = task[t]  BY <1>2 DEF Types, TaskTypes
    <3> QED BY <3>1 DEF Decided
  <2> QED BY <1>6, <1>8, <2>1
<1> QED BY <1>2, <1>5, <1>7, <1>9, ContentKept

\* ClearSendContent over sends whose rows no other holds.
LEMMA EmptyKeeps ==
  ASSUME ContentAssumption, Types, Types', ContentInv, NEW p \in Sweepers,
         NEW ss \in SUBSET Sends, NEW why \in Reasons, EmptySends(ss, why),
         \A s \in ss : Free(RowsOf(s), p),
         UNCHANGED <<status, opened, closed, erasure, receipt>>,
         \A q \in Sweepers \ {p} : sweep'[q] = sweep[q],
         Releases(p) \/ (UNCHANGED locks /\ sweep[p].at # "mask")
  PROVE  ContentInv'
<1>1. /\ \A r \in Rows : text'[r] = IF SendOf[r] \in ss THEN "empty" ELSE text[r]
      /\ \A s \in Sends : vars_of'[s] = IF s \in ss THEN "empty" ELSE vars_of[s]
      /\ \A s \in Sends \ ss : task'[s] = task[s]
  BY SendsEmptied, ZenonT(60)
<1>2. /\ LocksKept
      /\ \A r \in Rows : holder'[r] = holder[r] \/ holder'[r] = Nobody
      /\ \A r \in Rows : holder'[r] # p
  <2>1. CASE Releases(p)  BY <2>1, ReleaseKeeps
  <2>2. CASE UNCHANGED locks /\ sweep[p].at # "mask"
    BY <2>2, HoldsNothing DEF locks, LocksKept
  <2> QED BY <2>1, <2>2
<1>3. ASSUME NEW r \in Rows, holder[r] \in Sweepers \ {p} PROVE text'[r] = text[r]
  <2>1. status[r] # "gone"  BY <1>3 DEF ContentInv, SweepsHold
  <2>2. SendOf[r] \notin ss
    <3> SUFFICES ASSUME SendOf[r] \in ss PROVE FALSE  OBVIOUS
    <3>1. PICK s \in ss : s = SendOf[r] /\ r \in RowsOf(s)  BY <2>1 DEF RowsOf
    <3>2. holder[r] \in {Nobody, p}  BY <3>1 DEF Free
    <3> QED BY <1>3, <3>2, ActorsApart
  <2> QED BY <1>1, <2>2
<1>4. SweepsHold'  BY <1>2, <1>3, SweepLetsGo
<1>5. Comes  BY <1>1 DEF Comes
<1>6. DecidedWhole
  <2> SUFFICES ASSUME NEW s \in Sends, Decided(s)', ~Decided(s)
               PROVE  vars_of'[s] # "raw" /\ \A r \in RowsOf(s) : text'[r] # "raw"
    BY DEF DecidedWhole
  <2>1. s \in ss  BY <1>1 DEF Decided
  <2>2. \A r \in RowsOf(s) : r \in Rows /\ SendOf[r] = s  BY DEF RowsOf
  <2> QED BY <1>1, <2>1, <2>2
<1> QED BY <1>2, <1>4, <1>5, <1>6, ContentKept

LEMMA EmptiesKeep ==
  ASSUME ContentAssumption, Types, Types', ContentInv, NEW p \in Sweepers,
         CannotMask(p) \/ EmptyFailed(p) \/ ClearPastDeadline(p)
  PROVE  ContentInv'
<1>0. sweep[p] \in RunFields /\ (sweep[p].at \in {"mask", "defer"} => sweep[p].send \in Sends)
  BY DEF Types, RunTypes, Runs
<1>1. UNCHANGED <<status, opened, closed, erasure, receipt>>
  BY DEF CannotMask, EmptyFailed, ClearPastDeadline, person
<1>2. \E to : Step(p, to)  BY DEF CannotMask, EmptyFailed, ClearPastDeadline
<1>3. \A q \in Sweepers \ {p} : sweep'[q] = sweep[q]  BY <1>2, OthersRun
<1>4. Releases(p) \/ (UNCHANGED locks /\ sweep[p].at # "mask")
  BY DEF CannotMask, EmptyFailed, ClearPastDeadline
<1>5. PICK ss \in SUBSET Sends, why \in Reasons :
        EmptySends(ss, why) /\ \A s \in ss : Free(RowsOf(s), p)
  <2>1. "unmaskable" \in Reasons /\ "failures" \in Reasons /\ "deadline" \in Reasons  BY DEF Reasons
  <2>2. CASE CannotMask(p)
    <3>1. PICK s \in Sends : s = sweep[p].send  BY <1>0, <2>2 DEF CannotMask
    <3>2. {s} \in SUBSET Sends /\ EmptySends({s}, "unmaskable") /\ \A t \in {s} : Free(RowsOf(t), p)
      BY <2>2, <3>1 DEF CannotMask
    <3> QED BY <2>1, <3>2
  <2>3. CASE EmptyFailed(p)
    <3>1. PICK s \in sweep[p].failed : Free(RowsOf(s), p) /\ EmptySends({s}, "failures")
      BY <2>3 DEF EmptyFailed
    <3>2. {s} \in SUBSET Sends /\ \A t \in {s} : Free(RowsOf(t), p)  BY <1>0, <3>1 DEF RunFields
    <3> QED BY <2>1, <3>1, <3>2
  <2>4. CASE ClearPastDeadline(p)
    <3>1. PastDeadline \in SUBSET Sends  BY DEF PastDeadline
    <3>2. EmptySends(PastDeadline, "deadline") /\ \A s \in PastDeadline : Free(RowsOf(s), p)
      BY <2>4 DEF ClearPastDeadline
    <3> QED BY <2>1, <3>1, <3>2
  <2> QED BY <2>2, <2>3, <2>4
<1>6. EmptySends(ss, why) /\ \A s \in ss : Free(RowsOf(s), p)  BY <1>5
<1> HIDE <1>5
<1> QED BY <1>1, <1>3, <1>4, <1>6, EmptyKeeps

-----------------------------------------------------------------------------
(* The mailer, the public handler, and the clock.                           *)

\* A row still in the queue goes on to its next state.
LEMMA MailerKeeps ==
  ASSUME ContentAssumption, Types, Types', ContentInv, NEW r \in Rows, Send(r) \/ Sent(r)
  PROVE  ContentInv'
<1>1. /\ status[r] \in {"pending", "processing"} /\ holder[r] = Nobody
      /\ \E st \in {"processing", "done"} : status' = [status EXCEPT ![r] = st]
      /\ UNCHANGED <<text, opened, closed, vars_of, task, holder, keeper, sweep, erasure, receipt>>
  BY DEF Send, Sent, locks, person
<1>2. /\ \A q \in Rows \ {r} : status'[q] = status[q]
      /\ status'[r] # "gone" /\ status[r] # "gone" /\ status[r] # "done"
  BY <1>1 DEF Types, ContentTypes
<1>3. \A s \in Sends : RowsOf(s)' = RowsOf(s)  BY <1>2 DEF RowsOf
<1>4. RawIsGone'  BY <1>1, <1>3 DEF ContentInv, RawIsGone, Decided
<1>5. SweepsHold'  BY <1>1, <1>2 DEF ContentInv, SweepsHold
<1>6. ReaderHolds'  BY <1>1, <1>2, ActorsApart DEF ContentInv, ReaderHolds
<1>7. RowsInOrder'
  BY <1>1, <1>2 DEF ContentInv, RowsInOrder, Types, ContentTypes, ContentAssumption
<1>8. CallHolds'
  <2>1. \A q \in ToPerson : status'[q] = "gone" <=> status[q] = "gone"
    BY <1>2 DEF ContentAssumption
  <2>2. \A s \in Sends : TheirsAlone(s)' <=> TheirsAlone(s)  BY <1>3 DEF TheirsAlone
  <2> QED BY <1>1, <2>1, <2>2 DEF ContentInv, CallHolds
<1>9. ErasedStaysErased'
  <2> SUFFICES ASSUME receipt
               PROVE  /\ \A q \in ToPerson : status'[q] = "gone" \/ (status'[q] = "done" /\ text[q] = "empty")
                      /\ opened = {} /\ ToPerson \subseteq closed
                      /\ \A s \in Sends : RowsOf(s) # {} /\ RowsOf(s) \subseteq ToPerson => vars_of[s] = "empty"
    BY <1>1, <1>3 DEF ErasedStaysErased
  <2>1. r \notin ToPerson  BY <1>2 DEF ContentInv, ErasedStaysErased
  <2>2. \A q \in ToPerson : status'[q] = status[q]  BY <1>2, <2>1 DEF ContentAssumption
  <2> QED BY <2>2 DEF ContentInv, ErasedStaysErased
<1> QED BY <1>4, <1>5, <1>6, <1>7, <1>8, <1>9 DEF ContentInv

LEMMA OpeningKeeps ==
  ASSUME ContentAssumption, Types, Types', ContentInv, NEW r \in Rows, OpenMail(r) \/ RecordTracking(r)
  PROVE  ContentInv'
<1>1. UNCHANGED <<status, text, closed, vars_of, task, keeper, sweep, erasure, receipt>>
  BY DEF OpenMail, RecordTracking, content, person
<1>2. /\ r \in ToPerson \ closed /\ status[r] = "done"
      /\ opened' \subseteq opened \cup {r}
      /\ holder[r] \in {Nobody, Reader} /\ holder'[r] \in {Nobody, Reader}
      /\ \A q \in Rows \ {r} : holder'[q] = holder[q]
  BY DEF OpenMail, RecordTracking, Trackable, ContentInv, ReaderHolds, Types, LockTypes, content
<1>3. \A s \in Sends : RowsOf(s)' = RowsOf(s)  BY <1>1 DEF RowsOf
<1>4. RawIsGone'  BY <1>1, <1>3 DEF ContentInv, RawIsGone, Decided
<1>5. SweepsHold'  BY <1>1, <1>2, ActorsApart DEF ContentInv, SweepsHold
<1>6. ReaderHolds'  BY <1>1, <1>2 DEF ContentInv, ReaderHolds
<1>7. RowsInOrder'  BY <1>1, <1>2 DEF ContentInv, RowsInOrder
<1>8. CallHolds'
  <2>1. \A q \in Rows : holder[q] = Eraser => holder'[q] = Eraser  BY <1>2, ActorsApart
  <2>2. \A q \in ToPerson : q \in Rows  BY DEF ContentAssumption
  <2>3. \A q \in erasure.blank : q \in Rows  BY DEF Types, PersonTypes, Calls
  <2>4. \A s \in Sends : TheirsAlone(s)' <=> TheirsAlone(s)  BY <1>3 DEF TheirsAlone
  <2> QED BY <1>1, <2>1, <2>2, <2>3, <2>4 DEF ContentInv, CallHolds
<1>9. ErasedStaysErased'
  <2>1. ~receipt  BY <1>2 DEF ContentInv, ErasedStaysErased
  <2> QED BY <1>1, <2>1 DEF ErasedStaysErased
<1> QED BY <1>4, <1>5, <1>6, <1>7, <1>8, <1>9 DEF ContentInv

LEMMA ClockKeeps ==
  ASSUME ContentAssumption, Types, Types', ContentInv,
         MarkTemplate \/ Outage \/ (\E s \in Sends : RetryDue(s) \/ DeadlinePasses(s))
  PROVE  ContentInv'
<1>0. \A s \in Sends : task[s] \in Tasks  BY DEF Types, TaskTypes
<1>1. /\ UNCHANGED content /\ UNCHANGED <<erasure, receipt>>
      /\ UNCHANGED <<status, text, holder, keeper, sweep>>
  BY DEF MarkTemplate, Outage, RetryDue, DeadlinePasses, content, person, locks
<1>2. \A s \in Sends : task'[s].masked = task[s].masked /\ task'[s].emptied = task[s].emptied
  <2>1. CASE MarkTemplate
    <3>1. \A s \in Sends : /\ MarkedDue(task[s]).masked = task[s].masked
                           /\ MarkedDue(task[s]).emptied = task[s].emptied
      BY <1>0 DEF MarkedDue, Tasks
    <3>2. \A s \in Sends : task'[s] \in {task[s], MarkedDue(task[s])}
      BY <2>1 DEF MarkTemplate
    <3> QED BY <3>1, <3>2
  <2>2. CASE Outage  BY <2>2 DEF Outage
  <2>3. ASSUME NEW s \in Sends, RetryDue(s) \/ DeadlinePasses(s)
        PROVE  \A t \in Sends : task'[t].masked = task[t].masked /\ task'[t].emptied = task[t].emptied
    <3>1. task \in [Sends -> Tasks]  BY DEF Types, TaskTypes
    <3>2. PICK x \in {[task[s] EXCEPT !.waits = FALSE], [task[s] EXCEPT !.failing = "old"]} :
            task' = [task EXCEPT ![s] = x]
      BY <2>3 DEF RetryDue, DeadlinePasses
    <3>3. x.masked = task[s].masked /\ x.emptied = task[s].emptied
      BY <1>0, <3>2 DEF Tasks
    <3> QED BY <3>1, <3>2, <3>3
  <2> QED BY <2>1, <2>2, <2>3
<1>3. \A s \in Sends : Decided(s)' => Decided(s)  BY <1>2 DEF Decided
<1>4. LocksKept  BY <1>1 DEF LocksKept
<1>5. SweepsHold'  BY <1>1 DEF ContentInv, SweepsHold
<1> QED BY <1>1, <1>3, <1>4, <1>5, ContentLeft

-----------------------------------------------------------------------------
(* The erasure.                                                             *)

\* A step of the call that commits nothing, and takes only free locks.
LEMMA CallKeeps ==
  ASSUME ContentAssumption, Types, Types', ContentInv, CallHolds', receipt' = receipt,
         UNCHANGED content, UNCHANGED <<task, sweep>>,
         \A r \in Rows : holder'[r] = holder[r] \/ holder'[r] \in {Eraser, Nobody}
  PROVE  ContentInv'
<1>1. UNCHANGED <<status, text, opened, closed, vars_of>>  BY DEF content
<1>2. \A s \in Sends : RowsOf(s)' = RowsOf(s)  BY <1>1 DEF RowsOf
<1>3. RawIsGone'  BY <1>1, <1>2 DEF ContentInv, RawIsGone, Decided
<1>4. SweepsHold'  BY <1>1, ActorsApart DEF ContentInv, SweepsHold
<1>5. ReaderHolds' /\ RowsInOrder'
  BY <1>1, ActorsApart DEF ContentInv, ReaderHolds, RowsInOrder
<1>6. ErasedStaysErased'  BY <1>1, <1>2 DEF ContentInv, ErasedStaysErased
<1> QED BY <1>3, <1>4, <1>5, <1>6 DEF ContentInv

LEMMA BeginsKeeps ==
  ASSUME ContentAssumption, Types, Types', ContentInv, BeginErasure
  PROVE  ContentInv'
<1>1. PICK known : known = NameFound  OBVIOUS
<1>2. erasure' = [NoCall EXCEPT !.at = "rows", !.knows = known, !.left = {r \in Rows : Touched(r, known)}]
  BY <1>1 DEF BeginErasure
<1>3. erasure'.at = "rows" /\ erasure'.left = {r \in Rows : Touched(r, known)}
  BY <1>2 DEF NoCall
<1>4. /\ ~receipt /\ receipt' = receipt /\ UNCHANGED content /\ UNCHANGED <<status, task, sweep, holder>>
  BY DEF BeginErasure, content, locks
<1>5. \A r \in ToPerson : r \in Rows /\ (status[r] # "gone" => Touched(r, known))
  BY DEF Touched, ContentAssumption
<1>6. CallHolds'  BY <1>3, <1>4, <1>5 DEF CallHolds
<1> QED BY <1>4, <1>6, CallKeeps

LEMMA LocksRowKeeps ==
  ASSUME ContentAssumption, Types, Types', ContentInv, LockQueueRow
  PROVE  ContentInv'
<1>1. erasure.at = "rows" /\ erasure.left # {} /\ erasure.left \subseteq Rows /\ ~receipt
  BY DEF LockQueueRow, ContentInv, CallHolds
<1>2. PICK r \in erasure.left :
        /\ holder[r] = Nobody
        /\ holder' = [holder EXCEPT ![r] = IF Touched(r, erasure.knows) THEN Eraser ELSE Nobody]
        /\ erasure' = [erasure EXCEPT !.left = @ \ {r}]
  <2>1. erasure.left \subseteq Nat  BY <1>1 DEF ContentAssumption
  <2>2. Min(erasure.left) \in erasure.left  BY <1>1, <2>1, LeastIsOne
  <2> QED BY <2>2 DEF LockQueueRow
<1>3. r \in Rows  BY <1>1, <1>2
<1>4. erasure'.at = "rows" /\ erasure'.left = erasure.left \ {r}
  BY <1>1, <1>2 DEF Types, PersonTypes, Calls
<1>5. /\ holder'[r] = IF Touched(r, erasure.knows) THEN Eraser ELSE Nobody
      /\ \A q \in Rows \ {r} : holder'[q] = holder[q]
  BY <1>2, <1>3 DEF Types, LockTypes
<1>6. receipt' = receipt /\ UNCHANGED content /\ UNCHANGED <<status, task, sweep>>
  BY DEF LockQueueRow, content
<1>7. ASSUME NEW q \in ToPerson
      PROVE  status[q] = "gone" \/ holder'[q] = Eraser \/ q \in erasure'.left
  <2>1. q \in Rows  BY DEF ContentAssumption
  <2>2. status[q] = "gone" \/ holder[q] = Eraser \/ q \in erasure.left
    BY <1>1 DEF ContentInv, CallHolds
  <2>3. CASE q = r
    BY <1>5, <2>3 DEF Touched
  <2>4. CASE q # r  BY <1>4, <1>5, <2>1, <2>2, <2>4
  <2> QED BY <2>3, <2>4
<1>8. CallHolds'  BY <1>1, <1>4, <1>6, <1>7 DEF CallHolds
<1>9. \A q \in Rows : holder'[q] = holder[q] \/ holder'[q] \in {Eraser, Nobody}  BY <1>5
<1> QED BY <1>6, <1>8, <1>9, CallKeeps

LEMMA FindsKeeps ==
  ASSUME ContentAssumption, Types, Types', ContentInv, FindSends
  PROVE  ContentInv'
<1>1. PICK theirs \in SUBSET Sends : theirs = TheirSends(erasure.knows)  BY DEF TheirSends
<1>2. erasure.at = "rows" /\ erasure.left = {} /\ ~receipt
  BY DEF FindSends, ContentInv, CallHolds
<1>3. erasure'.at = "sends" /\ erasure'.left = theirs
  BY <1>1 DEF FindSends, Types, PersonTypes, Calls
<1>4. /\ receipt' = receipt /\ UNCHANGED content /\ UNCHANGED <<status, vars_of, task, sweep, holder, keeper>>
  BY DEF FindSends, content, locks
<1>5. \A s \in Sends : TheirsAlone(s)' <=> TheirsAlone(s)  BY <1>4 DEF TheirsAlone, RowsOf
<1>6. \A s \in Sends : TheirsAlone(s) => vars_of[s] = "empty" \/ s \in theirs
  BY <1>1 DEF TheirsAlone, TheirSends
<1>7. \A r \in ToPerson : status[r] = "gone" \/ holder[r] = Eraser
  BY <1>2 DEF ContentInv, CallHolds
<1>8. CallHolds'  BY <1>2, <1>3, <1>4, <1>5, <1>6, <1>7 DEF CallHolds
<1> QED BY <1>4, <1>8, CallKeeps

LEMMA LocksSendKeeps ==
  ASSUME ContentAssumption, Types, Types', ContentInv, NEW s \in Sends, LockSend(s)
  PROVE  ContentInv'
<1>1. /\ erasure.at = "sends" /\ ~receipt /\ keeper' = [keeper EXCEPT ![s] = Eraser]
      /\ receipt' = receipt /\ UNCHANGED content /\ UNCHANGED <<status, vars_of, task, sweep, holder>>
  BY DEF LockSend, content, ContentInv, CallHolds
<1>2. erasure'.at = "sends" /\ erasure'.left = erasure.left \ {s}
  BY <1>1 DEF LockSend, Types, PersonTypes, Calls
<1>3. \A t \in Sends : TheirsAlone(t)' <=> TheirsAlone(t)  BY <1>1 DEF TheirsAlone, RowsOf
<1>4. keeper'[s] = Eraser /\ \A t \in Sends \ {s} : keeper'[t] = keeper[t]
  BY <1>1 DEF Types, LockTypes
<1>5. ASSUME NEW t \in Sends, TheirsAlone(t)
      PROVE  vars_of[t] = "empty" \/ keeper'[t] = Eraser \/ t \in erasure'.left
  <2>1. vars_of[t] = "empty" \/ keeper[t] = Eraser \/ t \in erasure.left
    BY <1>1, <1>5 DEF ContentInv, CallHolds
  <2> QED BY <1>2, <1>4, <2>1
<1>6. \A r \in ToPerson : status[r] = "gone" \/ holder[r] = Eraser
  BY <1>1 DEF ContentInv, CallHolds
<1>7. CallHolds'  BY <1>1, <1>2, <1>3, <1>5, <1>6 DEF CallHolds
<1> QED BY <1>1, <1>7, CallKeeps

LEMMA BodiesKeep ==
  ASSUME ContentAssumption, Types, Types', ContentInv, ClearBodies
  PROVE  ContentInv'
<1>1. PICK blank \in SUBSET Rows : blank = NamingDone(erasure.knows)  BY DEF NamingDone
<1>2. /\ erasure.at = "sends" /\ erasure.left = {} /\ ~receipt
      /\ holder' = [r \in Rows |-> IF r \in blank THEN Eraser ELSE holder[r]]
      /\ receipt' = receipt /\ UNCHANGED content /\ UNCHANGED <<status, vars_of, task, sweep, keeper>>
  BY <1>1 DEF ClearBodies, content, ContentInv, CallHolds
<1>3. erasure'.at = "judge" /\ erasure'.blank = blank
  BY <1>1 DEF ClearBodies, Types, PersonTypes, Calls
<1>4. \A r \in Rows : holder'[r] = IF r \in blank THEN Eraser ELSE holder[r]  BY <1>2
<1>5. \A t \in Sends : TheirsAlone(t)' <=> TheirsAlone(t)  BY <1>2 DEF TheirsAlone, RowsOf
<1>6. \A t \in Sends : TheirsAlone(t) => vars_of[t] = "empty" \/ keeper[t] = Eraser
  BY <1>2 DEF ContentInv, CallHolds
<1>7. \A r \in ToPerson : status[r] = "gone" \/ holder'[r] = Eraser
  <2>1. \A r \in ToPerson : r \in Rows /\ (status[r] = "gone" \/ holder[r] = Eraser)
    BY <1>2 DEF ContentInv, CallHolds, ContentAssumption
  <2> QED BY <1>4, <2>1
<1>8. \A r \in blank : holder'[r] = Eraser  BY <1>4
<1>9. CallHolds'  BY <1>2, <1>3, <1>5, <1>6, <1>7, <1>8 DEF CallHolds
<1>10. \A r \in Rows : holder'[r] = holder[r] \/ holder'[r] \in {Eraser, Nobody}  BY <1>4
<1> QED BY <1>2, <1>9, <1>10, CallKeeps

LEMMA AbortKeeps ==
  ASSUME ContentAssumption, Types, Types', ContentInv, AbortErasure
  PROVE  ContentInv'
<1>1. /\ erasure' = NoCall /\ receipt' = receipt /\ UNCHANGED content /\ UNCHANGED <<task, sweep>>
      /\ Releases(Eraser)
  BY DEF AbortErasure
<1>2. erasure'.at = "idle"  BY <1>1 DEF NoCall
<1>3. CallHolds'  BY <1>2 DEF CallHolds
<1>4. \A r \in Rows : holder'[r] = holder[r] \/ holder'[r] \in {Eraser, Nobody}
  BY <1>1 DEF Releases
<1> QED BY <1>1, <1>3, <1>4, CallKeeps

\* What a call that commits leaves, the receipt apart.
LEMMA CommitKeeps ==
  ASSUME ContentAssumption, Types, Types', ContentInv, erasure.at = "judge",
         NEW blank \in SUBSET Rows, Commits(blank), \A r \in blank : holder[r] = Eraser,
         UNCHANGED <<task, sweep>>
  PROVE  /\ RawIsGone' /\ SweepsHold' /\ ReaderHolds' /\ RowsInOrder' /\ CallHolds'
         /\ \A r \in ToPerson : status[r] = "gone" \/ holder[r] = Eraser
         /\ \A r \in Rows : status'[r] = IF r \in ToPerson /\ holder[r] = Eraser /\ status[r] = "pending"
                                         THEN "gone" ELSE status[r]
         /\ \A r \in Rows : text'[r] = IF r \in blank THEN "empty" ELSE text[r]
         /\ \A s \in Sends : vars_of'[s] = IF keeper[s] = Eraser THEN "empty" ELSE vars_of[s]
         /\ opened' = {} /\ ToPerson \subseteq closed'
<1> DEFINE locked == Held(Eraser) \cap ToPerson
<1>0. /\ \A r \in ToPerson : r \in Rows /\ (status[r] = "gone" \/ holder[r] = Eraser)
      /\ \A r \in opened : r \in ToPerson /\ status[r] = "done"
      /\ \A r \in Rows : status[r] = "gone" => r \in closed
      /\ \A r \in Rows : r \in locked <=> r \in ToPerson /\ holder[r] = Eraser
      /\ locked \subseteq ToPerson
  BY DEF ContentInv, CallHolds, RowsInOrder, Types, ContentTypes, ContentAssumption, Held
<1>1. /\ \A r \in Rows : status'[r] = IF r \in ToPerson /\ holder[r] = Eraser /\ status[r] = "pending"
                                      THEN "gone" ELSE status[r]
      /\ \A r \in Rows : text'[r] = IF r \in blank THEN "empty" ELSE text[r]
      /\ \A s \in Sends : vars_of'[s] = IF keeper[s] = Eraser THEN "empty" ELSE vars_of[s]
  BY <1>0 DEF Commits
<1>2. opened' = opened \ locked /\ closed' = closed \cup locked  BY DEF Commits
<1>3. /\ \A r \in Rows : holder'[r] = IF holder[r] = Eraser THEN Nobody ELSE holder[r]
      /\ erasure'.at = "idle"
  <2>1. Releases(Eraser) /\ LockTypes /\ erasure' = NoCall  BY DEF Commits, Types
  <2> QED BY <2>1, LocksReleased DEF NoCall
<1> HIDE DEF locked
<1>4. opened' = {} /\ ToPerson \subseteq closed'  BY <1>0, <1>2
<1>5. RawIsGone'
  <2> SUFFICES ASSUME NEW s \in Sends, Decided(s)'
               PROVE  vars_of'[s] # "raw" /\ \A r \in RowsOf(s)' : text'[r] # "raw"
    BY DEF RawIsGone
  <2>1. Decided(s)  BY DEF Decided
  <2>2. vars_of[s] # "raw" /\ \A r \in RowsOf(s) : text[r] # "raw"  BY <2>1 DEF ContentInv, RawIsGone
  <2>3. \A r \in RowsOf(s)' : r \in Rows /\ r \in RowsOf(s)  BY <1>1 DEF RowsOf
  <2> QED BY <1>1, <2>2, <2>3
<1>6. SweepsHold'
  <2> SUFFICES ASSUME NEW r \in Rows, holder'[r] \in Sweepers
               PROVE  /\ status'[r] # "gone" /\ text'[r] # "empty"
                      /\ sweep[holder'[r]].at = "mask" /\ sweep[holder'[r]].send = SendOf[r]
    BY DEF SweepsHold
  <2>1. holder'[r] = holder[r] /\ holder[r] # Eraser  BY <1>3, ActorsApart
  <2>2. status'[r] = status[r] /\ text'[r] = text[r]  BY <1>1, <2>1
  <2> QED BY <2>1, <2>2 DEF ContentInv, SweepsHold
<1>7. ReaderHolds'
  <2> SUFFICES ASSUME NEW r \in Rows, holder'[r] = Reader
               PROVE  r \in ToPerson \ closed' /\ status'[r] = "done"
    BY DEF ReaderHolds
  <2>1. holder[r] = Reader /\ holder[r] # Eraser  BY <1>3, ActorsApart
  <2>2. r \in ToPerson \ closed /\ status[r] = "done"  BY <2>1 DEF ContentInv, ReaderHolds
  <2> QED BY <1>0, <1>1, <1>2, <2>1, <2>2
<1>8. RowsInOrder'
  <2>1. \A r \in Rows : status'[r] = "gone" => r \in closed'  BY <1>0, <1>1, <1>2
  <2> QED BY <1>4, <2>1 DEF RowsInOrder
<1>9. CallHolds'  BY <1>3 DEF CallHolds
<1> QED BY <1>0, <1>1, <1>4, <1>5, <1>6, <1>7, <1>8, <1>9

LEMMA AnswerKeeps ==
  ASSUME ContentAssumption, Types, Types', ContentInv, AnswerInProgress
  PROVE  ContentInv'
<1>1. /\ erasure.at = "judge" /\ Commits(erasure.blank) /\ UNCHANGED <<task, sweep>> /\ receipt' = receipt
      /\ erasure.blank \in SUBSET Rows /\ ~receipt
      /\ \A r \in erasure.blank : holder[r] = Eraser
  BY DEF AnswerInProgress, Types, PersonTypes, Calls, ContentInv, CallHolds
<1>2. PICK blank \in SUBSET Rows : blank = erasure.blank  BY <1>1
<1>3. Commits(blank) /\ \A r \in blank : holder[r] = Eraser  BY <1>1, <1>2
<1>4. RawIsGone' /\ SweepsHold' /\ ReaderHolds' /\ RowsInOrder' /\ CallHolds'
  BY <1>1, <1>3, CommitKeeps
<1>5. ErasedStaysErased'  BY <1>1 DEF ErasedStaysErased
<1> QED BY <1>4, <1>5 DEF ContentInv

LEMMA ReceiptKeeps ==
  ASSUME ContentAssumption, Types, Types', ContentInv, WriteReceipt
  PROVE  ContentInv'
<1>1. /\ erasure.at = "judge" /\ UNCHANGED <<task, sweep>> /\ Waits(erasure.knows) = {}
      /\ erasure.blank \in SUBSET Rows
      /\ \A r \in erasure.blank : holder[r] = Eraser
  BY DEF WriteReceipt, Types, PersonTypes, Calls, ContentInv, CallHolds
<1>2. PICK blank \in SUBSET Rows : blank = erasure.blank \cup {r \in Rows : SentTo(r)}  BY <1>1
<1>3. Commits(blank)  BY <1>2 DEF WriteReceipt
<1>4. \A r \in blank : holder[r] = Eraser
  BY <1>1, <1>2 DEF SentTo, ContentInv, CallHolds
<1>5. /\ RawIsGone' /\ SweepsHold' /\ ReaderHolds' /\ RowsInOrder' /\ CallHolds'
      /\ \A r \in ToPerson : status[r] = "gone" \/ holder[r] = Eraser
      /\ \A r \in Rows : status'[r] = IF r \in ToPerson /\ holder[r] = Eraser /\ status[r] = "pending"
                                      THEN "gone" ELSE status[r]
      /\ \A r \in Rows : text'[r] = IF r \in blank THEN "empty" ELSE text[r]
      /\ \A s \in Sends : vars_of'[s] = IF keeper[s] = Eraser THEN "empty" ELSE vars_of[s]
      /\ opened' = {} /\ ToPerson \subseteq closed'
  BY <1>1, <1>3, <1>4, CommitKeeps
<1>6. ASSUME NEW r \in ToPerson
      PROVE  status'[r] = "gone" \/ (status'[r] = "done" /\ text'[r] = "empty")
  <2>1. r \in Rows /\ status[r] \in Statuses  BY DEF ContentAssumption, Types, ContentTypes
  <2>2. status[r] # "processing"  BY <1>1, <2>1 DEF Waits
  <2>3. CASE status[r] = "done"
    <3>1. r \in blank  BY <1>2, <2>1, <2>3 DEF SentTo
    <3> QED BY <1>5, <2>1, <2>3, <3>1
  <2>4. CASE status[r] \in {"pending", "gone"}  BY <1>5, <2>1, <2>4
  <2> QED BY <2>1, <2>2, <2>3, <2>4 DEF Statuses
<1>7. ASSUME NEW s \in Sends, RowsOf(s)' # {}, RowsOf(s)' \subseteq ToPerson
      PROVE  vars_of'[s] = "empty"
  <2>1. RowsOf(s)' \subseteq RowsOf(s)  BY <1>5 DEF RowsOf
  <2>2. RowsOf(s) \subseteq ToPerson
    <3>1. ASSUME NEW r \in RowsOf(s), r \notin ToPerson PROVE r \in RowsOf(s)'
      BY <1>5, <3>1 DEF RowsOf
    <3> QED BY <1>7, <3>1
  <2>3. TheirsAlone(s)  BY <1>7, <2>1, <2>2 DEF TheirsAlone
  <2>4. vars_of[s] = "empty" \/ keeper[s] = Eraser  BY <1>1, <2>3 DEF ContentInv, CallHolds
  <2> QED BY <1>5, <2>4
<1>8. ErasedStaysErased'  BY <1>5, <1>6, <1>7 DEF ErasedStaysErased
<1> QED BY <1>5, <1>8 DEF ContentInv

LEMMA ContentStep ==
  ContentAssumption /\ Types /\ ContentInv /\ [Next]_vars => ContentInv'
<1> SUFFICES ASSUME ContentAssumption, Types, ContentInv, [Next]_vars PROVE ContentInv'  OBVIOUS
<1>0. Types'  BY TypesStep
<1>1. CASE UNCHANGED vars
  <2>1. /\ UNCHANGED content /\ UNCHANGED <<erasure, receipt>>
        /\ UNCHANGED <<status, text, holder, keeper, sweep, task>>
    BY <1>1 DEF vars, locks, person, content
  <2>2. LocksKept /\ SweepsHold' /\ \A s \in Sends : Decided(s)' => Decided(s)
    BY <2>1 DEF LocksKept, ContentInv, SweepsHold, Decided
  <2> QED BY <1>0, <2>1, <2>2, ContentLeft
<1>2. ASSUME NEW p \in Sweepers, Sweep(p) PROVE ContentInv'
  BY <1>0, <1>2, ReadsKeep, RowKeeps, FailKeeps, MaskKeeps, EmptiesKeep DEF Sweep
<1>3. ASSUME Erase \/ AbortErasure PROVE ContentInv'
  BY <1>0, <1>3, BeginsKeeps, LocksRowKeeps, FindsKeeps, LocksSendKeeps, BodiesKeep, AnswerKeeps,
     ReceiptKeeps, AbortKeeps DEF Erase
<1>4. ASSUME \/ \E r \in Rows : Send(r) \/ Sent(r) \/ OpenMail(r) \/ RecordTracking(r)
             \/ MarkTemplate \/ Outage \/ (\E s \in Sends : RetryDue(s) \/ DeadlinePasses(s))
      PROVE  ContentInv'
  BY <1>0, <1>4, MailerKeeps, OpeningKeeps, ClockKeeps
<1> QED BY <1>1, <1>2, <1>3, <1>4 DEF Next

LEMMA ContentInvariant == Spec => [](Types /\ ContentInv)
<1>1. Init => Types /\ ContentInv  BY TypesStart, ContentStart, ContentAssumption
<1>2. Types /\ ContentInv /\ [Next]_vars => (Types /\ ContentInv)'
  BY TypesStep, ContentStep, ContentAssumption
<1> QED BY <1>1, <1>2, PTL DEF Spec

\* Once a send is masked or emptied, no row or variable of it is raw: however
\* many replicas sweep, whatever fails or is ended, and whoever empties it.
THEOREM RawGone == Spec => []RawIsGone
<1>1. ContentInv => RawIsGone  BY DEF ContentInv
<1> QED BY <1>1, ContentInvariant, PTL

\* From the receipt on no mail to the person, no opening, no live token and no
\* variable of a send to them alone is there: a sweep that masked their rows at
\* the same time, an opening under way or a repeated call brings nothing back.
THEOREM ErasedForGood == Spec => []ErasedStaysErased
<1>1. ContentInv => ErasedStaysErased  BY DEF ContentInv
<1> QED BY <1>1, ContentInvariant, PTL
===============================================================================
