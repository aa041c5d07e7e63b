---------------------------- MODULE SentContent ----------------------------
(* What the queue keeps of the mail it sent, and the two that take it away  *)
(* (internal/mailer/mask_sweep.go, internal/database/account_erasure.go).   *)
(* The mask sweep of each replica replaces the raw mail of a sensitive send *)
(* with a masked copy, or empties it. Account erasure, one transaction for  *)
(* one person, deletes their queued rows, empties what was sent to them and *)
(* what names them, and answers "in progress" while the mailer still holds  *)
(* such a row. Both lock rows of mail_queue and mail_tasks, in other orders:*)
(* the sweep the send and then its rows, the erasure the rows and then the  *)
(* sends. A transaction's writes show when it commits; until then it holds  *)
(* the locks. PostgreSQL's READ COMMITTED is modelled where it matters: a   *)
(* statement reads at its start, and a row it waited for is read again.     *)
EXTENDS Naturals, FiniteSets, FiniteSetsExt

CONSTANTS
  Sends,            \* rows of mail_tasks, of one template
  Rows,             \* rows of mail_queue, by their id
  SendOf,           \* the send of each row
  ToPerson,         \* rows to the person being erased
  Naming,           \* rows to others whose mail holds the person's full name
  Queued,           \* rows still to go out at the start; the others have
  NameKept,         \* the name is also held outside the queue until the end
  SensitiveAtSend,  \* sends sensitive since they were queued
  Broken,           \* sends whose masking fails whenever it is tried
  Sweepers,         \* replicas running the sweep
  Eraser,           \* the erasure's transaction
  Reader,           \* the public handler recording an opening
  Nobody,           \* holder of no lock
  MaxFailures,      \* MaskOptions.MaxFailures
  BreakerFailures,  \* MaskOptions.BreakerFailures
  MaxMarks,         \* bound: changes of the template's content_sensitive
  MaxOutages        \* bound: faults across SkyMail

ASSUME ContentAssumption ==
  /\ IsFiniteSet(Sends) /\ Rows \subseteq Nat /\ IsFiniteSet(Rows) /\ IsFiniteSet(Sweepers)
  /\ SendOf \in [Rows -> Sends]
  /\ ToPerson \subseteq Rows /\ Naming \subseteq Rows \ ToPerson
  /\ Queued \subseteq Rows /\ SensitiveAtSend \subseteq Sends /\ Broken \subseteq Sends
  /\ NameKept \in BOOLEAN
  /\ {Eraser, Reader, Nobody} \cap Sweepers = {}
  /\ Eraser # Reader /\ Nobody \notin {Eraser, Reader}
  /\ MaxFailures \in Nat \ {0} /\ BreakerFailures \in Nat \ {0}
  /\ MaxMarks \in Nat /\ MaxOutages \in Nat

VARIABLES
  status,    \* mail_queue.status, "gone" once deleted
  text,      \* subject, body and HTML: raw, masked or empty
  opened,    \* rows with a tracking event
  closed,    \* rows whose tracking token was dropped
  vars_of,   \* mail_tasks.body_variables
  task,      \* the sweep's columns of mail_tasks
  marked,    \* templates.content_sensitive
  holder,    \* who has locked each row of mail_queue
  keeper,    \* who has locked each row of mail_tasks
  sweep,     \* each replica's run
  erasure,   \* the erasure's transaction
  receipt,   \* account_erasure_receipts has the request
  waited,    \* naming rows a call answered "in progress" for
  outage,    \* every masking fails for now
  marks, outages

content == <<status, text, opened, closed, vars_of>>
locks == <<holder, keeper>>
person == <<erasure, receipt, waited>>
faults == <<outage, outages>>
vars == <<content, task, marked, locks, sweep, person, faults, marks>>

Kept == {"raw", "masked", "empty"}
Reasons == {"no", "unmaskable", "failures", "deadline"}
NewTask == [due |-> TRUE, masked |-> FALSE, emptied |-> "no", failures |-> 0,
            unconfirmed |-> FALSE, failing |-> "no", waits |-> FALSE]
NoRun == [at |-> "look", seen |-> {}, saw |-> FALSE, send |-> Nobody,
          tried |-> {}, failed |-> {}, inARow |-> 0, useful |-> FALSE]
NoCall == [at |-> "idle", left |-> {}, knows |-> FALSE, blank |-> {}]

RowsOf(s) == {r \in Rows : SendOf[r] = s /\ status[r] # "gone"}
Held(a) == {r \in Rows : holder[r] = a}
Done(s) == \A r \in RowsOf(s) : status[r] = "done"
Free(rs, a) == \A r \in rs : holder[r] \in {Nobody, a}
Unheld(ss) == \A s \in ss : keeper[s] = Nobody

\* mail_task_content_sensitive(), with the template's value as it was read.
Sensitive(s, m) == s \in SensitiveAtSend \/ m
Decided(s) == task[s].masked \/ task[s].emptied # "no"

Init ==
  /\ status = [r \in Rows |-> IF r \in Queued THEN "pending" ELSE "done"]
  /\ text = [r \in Rows |-> "raw"]
  /\ opened = {} /\ closed = {}
  /\ vars_of = [s \in Sends |-> "raw"]
  /\ task = [s \in Sends |-> NewTask]
  /\ marked = FALSE
  /\ holder = [r \in Rows |-> Nobody]
  /\ keeper = [s \in Sends |-> Nobody]
  /\ sweep = [p \in Sweepers |-> NoRun]
  /\ erasure = NoCall /\ receipt = FALSE /\ waited = {}
  /\ outage = FALSE
  /\ marks = 0 /\ outages = 0

-----------------------------------------------------------------------------
(* The mailer, the template's owners and the recipients.                    *)

\* A take skips a locked row; an outcome waits for it.
Send(r) ==
  /\ status[r] = "pending" /\ holder[r] = Nobody
  /\ status' = [status EXCEPT ![r] = "processing"]
  /\ UNCHANGED <<text, opened, closed, vars_of, task, marked, locks, sweep,
                 person, faults, marks>>

Sent(r) ==
  /\ status[r] = "processing" /\ holder[r] = Nobody
  /\ status' = [status EXCEPT ![r] = "done"]
  /\ UNCHANGED <<text, opened, closed, vars_of, task, marked, locks, sweep,
                 person, faults, marks>>

\* The trigger makes every send of the template due that was not decided on,
\* after the sweeps that hold one.
MarkedDue(t) == [t EXCEPT !.due = TRUE]
MarkTemplate ==
  /\ marks < MaxMarks
  /\ Unheld({s \in Sends : ~Decided(s)})
  /\ marks' = marks + 1
  /\ marked' = ~marked
  /\ task' = [s \in Sends |-> IF Decided(s) THEN task[s] ELSE MarkedDue(task[s])]
  /\ UNCHANGED <<content, locks, sweep, person, faults>>

Trackable(r) == r \in ToPerson \ closed /\ status[r] = "done"
OpenMail(r) ==
  /\ Held(Reader) = {} /\ Trackable(r) /\ r \notin opened /\ holder[r] = Nobody
  /\ holder' = [holder EXCEPT ![r] = Reader]
  /\ UNCHANGED <<content, task, marked, keeper, sweep, person, faults, marks>>

RecordTracking(r) ==
  /\ holder[r] = Reader
  /\ opened' = opened \cup {r}
  /\ holder' = [holder EXCEPT ![r] = Nobody]
  /\ UNCHANGED <<status, text, closed, vars_of, task, marked, keeper, sweep,
                 person, faults, marks>>

Outage ==
  /\ \/ ~outage /\ outages < MaxOutages /\ outages' = outages + 1
     \/ outage /\ UNCHANGED outages
  /\ outage' = ~outage
  /\ UNCHANGED <<content, task, marked, locks, sweep, person, marks>>

\* content_mask_retry_at comes, and the deadline of a send that keeps failing.
RetryDue(s) ==
  /\ task[s].waits
  /\ task' = [task EXCEPT ![s].waits = FALSE]
  /\ UNCHANGED <<content, marked, locks, sweep, person, faults, marks>>

DeadlinePasses(s) ==
  /\ task[s].failing = "recent"
  /\ task' = [task EXCEPT ![s].failing = "old"]
  /\ UNCHANGED <<content, marked, locks, sweep, person, faults, marks>>

-----------------------------------------------------------------------------
(* The mask sweep.                                                          *)

Step(p, to) == sweep' = [sweep EXCEPT ![p] = to]
Releases(a) ==
  /\ holder' = [r \in Rows |-> IF holder[r] = a THEN Nobody ELSE holder[r]]
  /\ keeper' = [s \in Sends |-> IF keeper[s] = a THEN Nobody ELSE keeper[s]]

\* TakeSendToMask, its statement's start: what is due, and whether the
\* template says sensitive.
DueToMask(s) ==
  /\ task[s].due /\ ~Decided(s) /\ Done(s) /\ ~task[s].waits
LookForSend(p) ==
  LET seen == {s \in Sends \ sweep[p].tried : DueToMask(s)} IN
  /\ sweep[p].at = "look"
  /\ Step(p, [sweep[p] EXCEPT !.at = "take", !.seen = seen, !.saw = marked])
  /\ UNCHANGED <<content, task, marked, locks, person, faults, marks>>

\* Its row lock: a send locked by another is skipped, one written since the
\* start is read again, the template is not. Sends that never failed go first.
Takable(p) == {s \in sweep[p].seen : DueToMask(s) /\ keeper[s] = Nobody}
NotDue == [NewTask EXCEPT !.due = FALSE]
TakeSend(p, s) ==
  /\ sweep[p].at = "take" /\ s \in Takable(p)
  /\ task[s].failing = "no" \/ \A t \in Takable(p) : task[t].failing # "no"
  /\ IF Sensitive(s, sweep[p].saw)
     THEN /\ Step(p, [sweep[p] EXCEPT !.at = "mask", !.send = s, !.seen = {}])
          /\ keeper' = [keeper EXCEPT ![s] = p]
          /\ UNCHANGED task
     ELSE /\ Step(p, [sweep[p] EXCEPT !.at = "look", !.seen = {}, !.inARow = 0,
                                      !.tried = @ \cup {s}])
          /\ task' = [task EXCEPT ![s] = NotDue]
          /\ UNCHANGED keeper
  /\ UNCHANGED <<content, marked, holder, person, faults, marks>>

\* ListQueueRowsToMask locks the rows that still hold a mail, by id.
ToMask_OneChunk(p) == {r \in RowsOf(sweep[p].send) : text[r] # "empty" /\ Held(p) = {}}
ToMask(p) == {r \in RowsOf(sweep[p].send) : text[r] # "empty" /\ holder[r] # p}
WaitsFor(p) == IF sweep[p].at = "mask" THEN ToMask(p) ELSE {}
MaskRow(p) ==
  /\ sweep[p].at = "mask" /\ ToMask(p) # {}
  /\ LET r == Min(ToMask(p)) IN
       /\ holder[r] = Nobody
       /\ holder' = [holder EXCEPT ![r] = p]
  /\ UNCHANGED <<content, task, marked, keeper, sweep, person, faults, marks>>

\* Every row masked and the send marked: the transaction commits.
MaskedText(p) == [r \in Rows |-> IF holder[r] = p THEN "masked" ELSE text[r]]
MarkSendMasked(p) ==
  LET s == sweep[p].send IN
  /\ sweep[p].at = "mask" /\ ToMask(p) = {} /\ s \notin Broken /\ ~outage
  /\ text' = MaskedText(p)
  /\ vars_of' = [vars_of EXCEPT ![s] = IF @ = "empty" THEN @ ELSE "masked"]
  /\ task' = [task EXCEPT ![s] = [NotDue EXCEPT !.masked = TRUE]]
  /\ Step(p, [sweep[p] EXCEPT !.at = "look", !.send = Nobody, !.inARow = 0,
                              !.tried = @ \cup {s}, !.useful = TRUE])
  /\ Releases(p)
  /\ UNCHANGED <<status, opened, closed, marked, person, faults, marks>>

\* ClearSendContent: the send's rows and variables are emptied for good. (The
\* reason is the one the log first gives.)
EmptySends(ss, why) ==
  /\ text' = [r \in Rows |-> IF SendOf[r] \in ss THEN "empty" ELSE text[r]]
  /\ vars_of' = [s \in Sends |-> IF s \in ss THEN "empty" ELSE vars_of[s]]
  /\ task' = [s \in Sends |-> IF s \in ss
                THEN [task[s] EXCEPT !.due = FALSE, !.emptied = IF @ = "no" THEN why ELSE @]
                ELSE task[s]]

\* A credential is still found in a masked row: the send is not kept.
CannotMask(p) ==
  LET s == sweep[p].send IN
  /\ sweep[p].at = "mask" /\ Held(p) # {} /\ s \notin Broken /\ ~outage
  /\ Free(RowsOf(s), p)
  /\ EmptySends({s}, "unmaskable")
  /\ Step(p, [sweep[p] EXCEPT !.at = "look", !.send = Nobody, !.inARow = 0,
                              !.tried = @ \cup {s}, !.useful = TRUE])
  /\ Releases(p)
  /\ UNCHANGED <<status, opened, closed, marked, person, faults, marks>>

\* Two that wait for one another: PostgreSQL ends one of them.
Deadlocked(p) ==
  /\ erasure.at = "sends" /\ sweep[p].at = "mask"
  /\ sweep[p].send \in erasure.left
  /\ WaitsFor(p) # {} /\ holder[Min(WaitsFor(p))] = Eraser

FailSend(p) ==
  LET s == sweep[p].send IN
  /\ sweep[p].at = "mask"
  /\ s \in Broken \/ outage \/ Deadlocked(p)
  /\ Step(p, [sweep[p] EXCEPT !.at = "defer"])
  /\ Releases(p)
  /\ UNCHANGED <<content, task, marked, person, faults, marks>>

\* deferFailure, a transaction of its own, which may fail too.
PutBack_DeadlineAgain(t) == [t EXCEPT !.unconfirmed = TRUE, !.waits = TRUE, !.failing = "recent"]
PutBack(t) == [t EXCEPT !.unconfirmed = TRUE, !.waits = TRUE,
                        !.failing = IF @ = "no" THEN "recent" ELSE @]
DeferFailure(p) ==
  LET s == sweep[p].send IN
  /\ sweep[p].at = "defer" /\ keeper[s] = Nobody
  /\ \/ task' = [task EXCEPT ![s] = PutBack(@)]
     \/ outage /\ UNCHANGED task
  /\ Step(p, [sweep[p] EXCEPT
       !.at = IF sweep[p].inARow + 1 >= BreakerFailures THEN "count" ELSE "look",
       !.send = Nobody, !.inARow = @ + 1,
       !.tried = @ \cup {s}, !.failed = @ \cup {s}])
  /\ UNCHANGED <<content, marked, locks, person, faults, marks>>

EndRun(p) ==
  /\ sweep[p].at = "take" /\ Takable(p) = {}
  /\ Step(p, [sweep[p] EXCEPT !.at = "count", !.seen = {}])
  /\ UNCHANGED <<content, task, marked, locks, person, faults, marks>>

\* ConfirmMaskFailures, in a run that masked some other send.
Counts_Always(p) == TRUE
Counts(p) == sweep[p].useful
Counted(p) == IF ~Counts(p) THEN {} ELSE
  {s \in sweep[p].failed : task[s].unconfirmed /\ ~Decided(s)}
ConfirmFailures(p) ==
  /\ sweep[p].at = "count" /\ Unheld(Counted(p))
  /\ task' = [s \in Sends |-> IF s \notin Counted(p) THEN task[s]
                ELSE [task[s] EXCEPT !.failures = @ + 1, !.unconfirmed = FALSE]]
  /\ Step(p, [NoRun EXCEPT !.at = "empty",
       !.failed = {s \in Counted(p) : task[s].failures + 1 >= MaxFailures}])
  /\ UNCHANGED <<content, marked, locks, person, faults, marks>>

EmptyFailed(p) ==
  /\ sweep[p].at = "empty"
  /\ \E s \in sweep[p].failed :
       /\ keeper[s] = Nobody /\ Free(RowsOf(s), p)
       /\ EmptySends({s}, "failures")
       /\ Step(p, [sweep[p] EXCEPT !.failed = @ \ {s}])
  /\ UNCHANGED <<status, opened, closed, marked, locks, person, faults, marks>>

\* ClearSendsPastMaskDeadline, at the end of every run.
PastDeadline == {s \in Sends : /\ task[s].failing = "old" /\ ~Decided(s)
                               /\ Sensitive(s, marked) /\ Done(s)
                               /\ keeper[s] = Nobody}
ClearPastDeadline(p) ==
  /\ sweep[p].at = "empty" /\ sweep[p].failed = {}
  /\ \A s \in PastDeadline : Free(RowsOf(s), p)
  /\ EmptySends(PastDeadline, "deadline")
  /\ Step(p, NoRun)
  /\ UNCHANGED <<status, opened, closed, marked, locks, person, faults, marks>>

-----------------------------------------------------------------------------
(* Account erasure: one transaction of the repeated command.                *)

NameFound == NameKept \/ \E r \in ToPerson : status[r] # "gone"
Names(r, known) == r \in Naming /\ known /\ text[r] # "empty"
Unfinished(r) == status[r] \in {"pending", "processing"}
Touched(r, known) ==
  /\ status[r] # "gone"
  /\ r \in ToPerson \/ (status[r] = "done" /\ Names(r, known))

\* The names are read, and the rows to lock.
BeginErasure ==
  /\ erasure.at = "idle" /\ ~receipt
  /\ erasure' = [NoCall EXCEPT !.at = "rows", !.knows = NameFound,
                   !.left = {r \in Rows : Touched(r, NameFound)}]
  /\ UNCHANGED <<content, task, marked, locks, sweep, receipt, waited,
                 faults, marks>>

\* lockQueueRows, by id; a row it waited for is read again.
LockQueueRow ==
  /\ erasure.at = "rows" /\ erasure.left # {}
  /\ LET r == Min(erasure.left) IN
       /\ holder[r] = Nobody
       /\ holder' = [holder EXCEPT ![r] =
                       IF Touched(r, erasure.knows) THEN Eraser ELSE Nobody]
       /\ erasure' = [erasure EXCEPT !.left = @ \ {r}]
  /\ UNCHANGED <<content, task, marked, keeper, sweep, receipt, waited,
                 faults, marks>>

\* The "send variables" statement: sends that name the person, and those to
\* the person alone.
TheirSends(known) == {s \in Sends :
  /\ vars_of[s] # "empty"
  /\ \/ \E r \in Naming : SendOf[r] = s /\ known
     \/ RowsOf(s) # {} /\ RowsOf(s) \subseteq ToPerson}
FindSends ==
  /\ erasure.at = "rows" /\ erasure.left = {}
  /\ erasure' = [erasure EXCEPT !.at = "sends", !.left = TheirSends(erasure.knows)]
  /\ UNCHANGED <<content, task, marked, locks, sweep, receipt, waited,
                 faults, marks>>

LockSend(s) ==
  /\ erasure.at = "sends" /\ s \in erasure.left /\ keeper[s] = Nobody
  /\ keeper' = [keeper EXCEPT ![s] = Eraser]
  /\ erasure' = [erasure EXCEPT !.left = @ \ {s}]
  /\ UNCHANGED <<content, task, marked, holder, sweep, receipt, waited,
                 faults, marks>>

\* "bodies naming the person": others' mail that has gone out by now.
NamingDone(known) ==
  {r \in Rows \ ToPerson : status[r] = "done" /\ Names(r, known)}
ClearBodies ==
  LET blank == NamingDone(erasure.knows) IN
  /\ erasure.at = "sends" /\ erasure.left = {} /\ Free(blank, Eraser)
  /\ holder' = [r \in Rows |-> IF r \in blank THEN Eraser ELSE holder[r]]
  /\ erasure' = [erasure EXCEPT !.at = "judge", !.blank = blank]
  /\ UNCHANGED <<content, task, marked, keeper, sweep, receipt, waited,
                 faults, marks>>

\* mailInFlight: rows the mailer still has.
Waits_ForOthers(known) == {r \in Rows : Unfinished(r) /\ Names(r, known)}
Waits_ForAnyRow(known) == {r \in ToPerson : status[r] # "gone"}
Waits(known) == {r \in Rows : \/ r \in ToPerson /\ status[r] = "processing"
                              \/ Unfinished(r) /\ Names(r, known)}

\* What every call commits, and what the last one adds.
Commits(blank) ==
  LET locked == Held(Eraser) \cap ToPerson IN
  /\ status' = [r \in Rows |->
       IF r \in locked /\ status[r] = "pending" THEN "gone" ELSE status[r]]
  /\ text' = [r \in Rows |-> IF r \in blank THEN "empty" ELSE text[r]]
  /\ opened' = opened \ locked
  /\ closed' = closed \cup locked
  /\ vars_of' = [s \in Sends |-> IF keeper[s] = Eraser THEN "empty" ELSE vars_of[s]]
  /\ Releases(Eraser)
  /\ erasure' = NoCall

AnswerInProgress ==
  /\ erasure.at = "judge" /\ Waits(erasure.knows) # {}
  /\ Commits(erasure.blank)
  /\ waited' = waited \cup (Waits(erasure.knows) \cap Naming)
  /\ UNCHANGED <<task, marked, sweep, receipt, faults, marks>>

SentTo(r) == r \in ToPerson /\ status[r] = "done"
WriteReceipt ==
  /\ erasure.at = "judge" /\ Waits(erasure.knows) = {}
  /\ Commits(erasure.blank \cup {r \in Rows : SentTo(r)})
  /\ receipt' = TRUE
  /\ UNCHANGED <<task, marked, sweep, waited, faults, marks>>

\* The erasure ended to break a deadlock: nothing is kept of the call, which
\* core repeats.
AbortErasure ==
  /\ \E p \in Sweepers : Deadlocked(p)
  /\ erasure' = NoCall
  /\ Releases(Eraser)
  /\ UNCHANGED <<content, task, marked, sweep, receipt, waited, faults, marks>>

-----------------------------------------------------------------------------
Sweep(p) ==
  \/ LookForSend(p) \/ (\E s \in Sends : TakeSend(p, s))
  \/ MaskRow(p) \/ MarkSendMasked(p) \/ CannotMask(p) \/ FailSend(p)
  \/ DeferFailure(p) \/ EndRun(p) \/ ConfirmFailures(p) \/ EmptyFailed(p)
  \/ ClearPastDeadline(p)

Erase ==
  \/ BeginErasure \/ LockQueueRow \/ FindSends \/ (\E s \in Sends : LockSend(s))
  \/ ClearBodies \/ AnswerInProgress \/ WriteReceipt

Next ==
  \/ \E r \in Rows : Send(r) \/ Sent(r) \/ OpenMail(r) \/ RecordTracking(r)
  \/ MarkTemplate \/ Outage \/ (\E s \in Sends : RetryDue(s) \/ DeadlinePasses(s))
  \/ \E p \in Sweepers : Sweep(p)
  \/ Erase \/ AbortErasure

Spec == Init /\ [][Next]_vars

\* The sweep's timer, the mailer's loop, core's repeated command, the clock; a
\* lock goes to the one that waits for it longest; an outage ends.
Fairness ==
  /\ \A p \in Sweepers : SF_vars(Sweep(p))
  /\ SF_vars(\E r \in Rows : Send(r) \/ Sent(r) \/ RecordTracking(r))
  /\ SF_vars(Erase)
  /\ \A s \in Sends : WF_vars(RetryDue(s)) /\ WF_vars(DeadlinePasses(s))
  /\ WF_vars(outage /\ Outage)
FairSpec == Spec /\ Fairness

-----------------------------------------------------------------------------
Actors == Sweepers \cup {Eraser, Reader, Nobody}
RunStates == {"look", "take", "mask", "defer", "count", "empty"}

TypeOK ==
  /\ status \in [Rows -> {"pending", "processing", "done", "gone"}]
  /\ text \in [Rows -> Kept] /\ vars_of \in [Sends -> Kept]
  /\ opened \subseteq ToPerson /\ closed \subseteq ToPerson
  /\ task \in [Sends -> [due : BOOLEAN, masked : BOOLEAN, emptied : Reasons,
                         failures : Nat, unconfirmed : BOOLEAN,
                         failing : {"no", "recent", "old"}, waits : BOOLEAN]]
  /\ marked \in BOOLEAN
  /\ holder \in [Rows -> Actors] /\ keeper \in [Sends -> Actors]
  /\ sweep \in [Sweepers ->
       [at : RunStates, seen : SUBSET Sends, saw : BOOLEAN,
        send : Sends \cup {Nobody}, tried : SUBSET Sends,
        failed : SUBSET Sends, inARow : 0..BreakerFailures, useful : BOOLEAN]]
  /\ erasure \in [at : {"idle", "rows", "sends", "judge"},
                  left : SUBSET (Rows \cup Sends), knows : BOOLEAN,
                  blank : SUBSET Rows]
  /\ receipt \in BOOLEAN /\ waited \subseteq Naming
  /\ outage \in BOOLEAN
  /\ marks \in 0..MaxMarks /\ outages \in 0..MaxOutages

\* Once a send is masked or emptied, none of its rows and variables is raw,
\* whatever failed, was erased or was taken by another replica on the way
\* (MaskSensitiveContent: the raw mail is kept nowhere after).
RawIsGone ==
  \A s \in Sends : Decided(s) =>
    vars_of[s] # "raw" /\ \A r \in RowsOf(s) : text[r] # "raw"

\* From the receipt on nothing of the mail to the person is there: no row
\* still to go out, no text, no opening, no token to record one with, and no
\* variables of a send to them alone (EraseAccount).
ErasedStaysErased ==
  receipt =>
    /\ \A r \in ToPerson : status[r] = "gone" \/ (status[r] = "done" /\ text[r] = "empty")
    /\ opened = {} /\ ToPerson \subseteq closed
    /\ \A s \in Sends : RowsOf(s) # {} /\ RowsOf(s) \subseteq ToPerson => vars_of[s] = "empty"

\* The sends whose masking was decided.
Judged == {s \in Sends : task[s].masked \/ task[s].emptied = "unmaskable"}

\* A failure counts only beside a success of its own: a send's counted failures
\* never outnumber the other sends whose masking was decided, and none is
\* emptied for its failures before MaxFailures others were. So a fault in which
\* nothing is masked, however long or often, empties no send
\* (MaskSensitiveContent: the fault was the send's).
FailuresNeedSuccesses ==
  \A s \in Sends :
    /\ task[s].failures <= Cardinality(Judged \ {s})
    /\ task[s].emptied = "failures" => Cardinality(Judged \ {s}) >= MaxFailures

\* A sensitive send that is done is masked or emptied in the end, the broken
\* ones too, unless its template takes the mark back. Out: a send looked at
\* before the mark and locked after it (see the README).
SensitiveMailGoes ==
  \A s \in Sends :
    (Sensitive(s, marked) /\ Done(s) /\ task[s].due
      /\ \A p \in Sweepers : sweep[p].at = "take" => sweep[p].saw = marked)
    ~> (Decided(s) \/ ~Sensitive(s, marked))

\* The command, repeated, finishes once the mailer has (EraseAccount).
ErasureEnds == <>receipt

\* keepNamesSteps "change nothing the names are read from, so a call that
\* stops for mail in flight leaves the next one able to find what it waited
\* for" (account_erasure.go:407-409).
NamesStayFindable ==
  \A r \in waited : erasure.at # "idle" /\ text[r] # "empty" => erasure.knows
=============================================================================
