----------------------------- MODULE BounceReader -----------------------------
(***************************************************************************)
(* The reports that come back to the sender mailboxes, and the suppression *)
(* list they fill (internal/bouncereader, internal/bounce,                 *)
(* internal/mailer/suppression.go, internal/handlers/suppressions.go).     *)
(*                                                                         *)
(* Each process polls the Inbox's delta, page by page and item by item,    *)
(* and stores the new delta link only at the end. It may fail or die       *)
(* between any two steps, Graph may forget the link, a message may leave   *)
(* the Inbox, and a process may poll on after its advisory lock went with  *)
(* its connection. One mailbox is modelled: nothing relates two.           *)
(***************************************************************************)
EXTENDS Integers, Sequences, FiniteSets

CONSTANTS
  Rows,        \* e-mail rows of mail_queue
  Addresses,
  To,          \* [Rows -> Addresses]
  Readers,     \* processes that run the reader
  PageSize,    \* pageSize
  MaxPages,    \* maxPages: of one poll
  MaxReports,  \* bound: messages that come to the Inbox
  KindsSent,   \* bound: what they may say
  MaxFaults,   \* bound: failed polls, restarts, lost links and locks
  MaxRemovals, \* bound: an operator's removals from the list
  Nobody       \* no process holds the lock

\* What pick and Classify make of a report: a failure of the row's address for
\* good, another of its failures or delays, one of an address the row did not
\* go to, or none.
Kinds == {"hard", "soft", "other recipient", "none"}

ASSUME ReaderAssumption ==
  /\ To \in [Rows -> Addresses] /\ KindsSent \subseteq Kinds
  /\ {PageSize, MaxPages} \subseteq Nat \ {0}
  /\ {MaxReports, MaxFaults, MaxRemovals} \subseteq Nat
  /\ Nobody \notin Readers
  /\ Rows \intersect 1..MaxReports = {}   \* a row is no message

Modes == {"dry-run", "on"}
Ids == 1..MaxReports                \* a message's id, and its place in the Inbox
Report == [row: Rows, kind: Kinds, known: BOOLEAN]
Evidence == Ids \union Rows         \* what suppresses: a report, a relay's refusal

VARIABLES
  row,        \* mail_queue: where each row handed over is, and whether erasure cleared it
  inbox,      \* the messages of the Inbox in the order they came
  gone,       \* those that have left it: the mailbox's retention tag
  early,      \* those that came too long before their row's sent_at
  link,       \* mail_bounce_reader_state: the delta link, by mode
  reader,     \* by process: its mode and where its poll is
  lock,       \* who holds the reader's advisory lock
  bounces,    \* mail_bounces: the reports recorded
  suppressed, \* mail_suppressions
  erased,     \* addresses whose owner was erased
  judged,     \* history: messages a reader that is on gave to bounce
  acted,      \* history: what has suppressed an address
  faults, removals

vars == <<row, inbox, gone, early, link, reader, lock, bounces, suppressed,
          erased, judged, acted, faults, removals>>
mailbox == <<inbox, gone>>
list == <<bounces, suppressed, erased, judged, acted, removals>>

Idle(mode) == [at |-> "idle", mode |-> mode, next |-> 0, upto |-> 0, last |-> FALSE, pages |-> 0]

TypeOK ==
  /\ row \in [Rows -> [at: {"out", "sent", "refused", "failed"}, clear: BOOLEAN]]
  /\ inbox \in Seq(Report) /\ Len(inbox) <= MaxReports
  /\ gone \subseteq DOMAIN inbox /\ early \subseteq DOMAIN inbox
  /\ link \in [Modes -> 0..Len(inbox)]
  /\ reader \in [Readers -> [at: {"idle", "page", "items", "record"}, mode: Modes, next: 0..Len(inbox),
                             upto: 0..Len(inbox), last: BOOLEAN, pages: 0..MaxPages]]
  /\ lock \in Readers \union {Nobody}
  /\ bounces \subseteq DOMAIN inbox /\ judged \subseteq DOMAIN inbox
  /\ suppressed \subseteq Addresses /\ erased \subseteq Addresses
  /\ acted \subseteq DOMAIN inbox \union Rows
  /\ faults \in 0..MaxFaults /\ removals \in 0..MaxRemovals

Init ==
  /\ row = [r \in Rows |-> [at |-> "out", clear |-> FALSE]]
  /\ inbox = <<>> /\ gone = {} /\ early = {}
  /\ link = [m \in Modes |-> 0]
  /\ \E m \in Modes : reader = [p \in Readers |-> Idle(m)]   \* one environment
  /\ lock = Nobody
  /\ bounces = {} /\ suppressed = {} /\ erased = {}
  /\ judged = {} /\ acted = {}
  /\ faults = 0 /\ removals = 0

-----------------------------------------------------------------------------
(* The mails the reports are about. *)

\* The row is recorded sent: by the attempt whose report is in the Inbox, or by
\* a later one, after that attempt's outcome was lost. A report that came more
\* than sentAtSlack before is not matched.
RecordSent(r) ==
  /\ row[r].at = "out"
  /\ row' = [row EXCEPT ![r].at = "sent"]
  /\ \E old \in SUBSET {i \in DOMAIN inbox : inbox[i].row = r} : early' = early \union old
  /\ UNCHANGED <<mailbox, link, reader, lock, list, faults>>

\* The relay refused the recipient for good: the row is recorded failed.
RecordRefused(r) ==
  /\ row[r].at = "out"
  /\ row' = [row EXCEPT ![r].at = "refused"]
  /\ UNCHANGED <<mailbox, early, link, reader, lock, list, faults>>

\* SuppressQueueRowAddress: the address as the row has it now.
SuppressRowAddress(r, evidence) ==
  IF row[r].clear THEN UNCHANGED <<suppressed, acted>>
  ELSE suppressed' = suppressed \union {To[r]} /\ acted' = acted \union {evidence}

\* suppressRefused, after the row's outcome; the process may die before it.
SuppressRefused(r) ==
  /\ row[r].at = "refused"
  /\ row' = [row EXCEPT ![r].at = "failed"]
  /\ SuppressRowAddress(r, r)
  /\ UNCHANGED <<mailbox, early, link, reader, lock, bounces, erased, judged, removals, faults>>

RefusalLost(r) ==
  /\ row[r].at = "refused" /\ faults < MaxFaults
  /\ row' = [row EXCEPT ![r].at = "failed"]
  /\ faults' = faults + 1
  /\ UNCHANGED <<mailbox, early, link, reader, lock, list>>

\* A message comes to the Inbox: a report about a row that was handed over.
ReportComes(r) ==
  /\ row[r].at \in {"out", "sent"}
  /\ Len(inbox) < MaxReports
  /\ \E k \in KindsSent :
       inbox' = Append(inbox, [row |-> r, kind |-> k, known |-> row[r].at = "sent"])
  /\ UNCHANGED <<row, gone, early, link, reader, lock, list, faults>>

\* The retention tag takes the oldest.
MessageLeaves(i) ==
  /\ i \in DOMAIN inbox \ gone /\ 1..(i - 1) \subseteq gone
  /\ gone' = gone \union {i}
  /\ UNCHANGED <<row, inbox, early, link, reader, lock, list, faults>>

-----------------------------------------------------------------------------
(* The reader: Poll, pollMailbox, read. *)

\* Mutant: one place for both modes.
StartPoll_OnePlace(p) ==
  /\ reader[p].at = "idle" /\ lock = Nobody
  /\ lock' = p
  /\ reader' = [reader EXCEPT ![p] = [Idle(@.mode) EXCEPT !.at = "page",
                   !.next = IF link["on"] > 0 THEN link["on"] ELSE link["dry-run"]]]
  /\ UNCHANGED <<row, mailbox, early, link, list, faults>>
\* Another process holding the lock skips this poll.
StartPoll(p) ==
  /\ reader[p].at = "idle" /\ lock = Nobody
  /\ lock' = p
  /\ reader' = [reader EXCEPT ![p] = [Idle(@.mode) EXCEPT !.at = "page", !.next = link[reader[p].mode]]]
  /\ UNCHANGED <<row, mailbox, early, link, list, faults>>

\* Where a poll is once it has read up to `next` of a page that ends at `upto`.
After(next, upto, last) ==
  IF next < upto THEN "items" ELSE IF last THEN "record" ELSE "page"

\* Graph answers one page: the last one says where the next poll starts.
FetchPage(p) ==
  /\ reader[p].at = "page" /\ reader[p].pages < MaxPages
  /\ \E n \in reader[p].next..Len(inbox) :
       LET last == n = Len(inbox) IN
       /\ n <= reader[p].next + PageSize
       /\ n > reader[p].next \/ last
       /\ reader' = [reader EXCEPT ![p].at = After(reader[p].next, n, last), ![p].upto = n,
                                   ![p].last = last, ![p].pages = @ + 1]
  /\ UNCHANGED <<row, mailbox, early, link, lock, list, faults>>

\* 410: Graph no longer knows the link. The Inbox is read from the start.
LinkForgotten(p) ==
  /\ reader[p].at = "page" /\ reader[p].pages < MaxPages
  /\ reader[p].next > 0 /\ faults < MaxFaults
  /\ faults' = faults + 1
  /\ reader' = [reader EXCEPT ![p].next = 0, ![p].pages = @ + 1]
  /\ UNCHANGED <<row, mailbox, early, link, lock, list>>

\* The row a report names, and whether pick finds a failure or a delay in it.
QueueID(i) == inbox[i].row
Picked(i) == inbox[i].kind # "none"

\* bounce.record, rules 3 to 5: a row that was sent, by then, and still has
\* its address; a failure; not recorded before.
Matched(i) ==
  LET r == QueueID(i) IN row[r].at = "sent" /\ i \notin early /\ ~row[r].clear
\* Mutant: a report is recorded as often as it is read.
Recorded_Never(i) == FALSE
Recorded(i) == i \in bounces
Records(i) == Matched(i) /\ Picked(i) /\ ~Recorded(i)

\* read: an item that has gone is passed over, and in dry-run nothing is kept.
Judge(p) ==
  /\ reader[p].at = "items"
  /\ reader' = [reader EXCEPT ![p].next = @ + 1,
                              ![p].at = After(reader[p].next + 1, reader[p].upto, reader[p].last)]
  /\ LET i == reader[p].next + 1 IN
     IF i \in gone \/ reader[p].mode = "dry-run" THEN UNCHANGED list
     ELSE /\ judged' = judged \union {i}
          /\ bounces' = IF Records(i) THEN bounces \union {i} ELSE bounces
          /\ IF Records(i) /\ inbox[i].kind = "hard"
               THEN SuppressRowAddress(QueueID(i), i)
               ELSE UNCHANGED <<suppressed, acted>>
          /\ UNCHANGED <<erased, removals>>
  /\ UNCHANGED <<row, mailbox, early, link, lock, faults>>

Unlocked(p) == IF lock = p THEN Nobody ELSE lock

\* RecordBounceReaderPoll with the last page's delta link.
RecordPoll(p) ==
  /\ reader[p].at = "record"
  /\ link' = [link EXCEPT ![reader[p].mode] = reader[p].upto]
  /\ reader' = [reader EXCEPT ![p] = Idle(@.mode)]
  /\ lock' = Unlocked(p)
  /\ UNCHANGED <<row, mailbox, early, list, faults>>

\* Mutant: the lock stays with the connection.
GiveUp_KeepsLock(p) ==
  /\ reader' = [reader EXCEPT ![p] = Idle(@.mode)]
  /\ UNCHANGED <<row, mailbox, early, link, lock, list>>
\* failed: the delta link stays. Graph or the database failed, or one poll
\* read too many pages.
GiveUp(p) ==
  /\ reader' = [reader EXCEPT ![p] = Idle(@.mode)]
  /\ lock' = Unlocked(p)
  /\ UNCHANGED <<row, mailbox, early, link, list>>
PollFails(p) == reader[p].at # "idle" /\ faults < MaxFaults /\ faults' = faults + 1 /\ GiveUp(p)
TooManyPages(p) == reader[p].at = "page" /\ reader[p].pages = MaxPages /\ UNCHANGED faults /\ GiveUp(p)

\* The process stops, and is started in a mode.
Restart(p) ==
  /\ faults < MaxFaults /\ faults' = faults + 1
  /\ \E m \in Modes : reader' = [reader EXCEPT ![p] = Idle(m)]
  /\ lock' = Unlocked(p)
  /\ UNCHANGED <<row, mailbox, early, link, list>>

\* The lock's connection dies under a poll, which goes on.
LockLost ==
  /\ lock # Nobody /\ faults < MaxFaults
  /\ lock' = Nobody /\ faults' = faults + 1
  /\ UNCHANGED <<row, mailbox, early, link, reader, list>>

-----------------------------------------------------------------------------
(* What else changes the list. *)

DeleteSuppression(a) == a \in suppressed /\ suppressed' = suppressed \ {a}

\* DELETE /suppressions/{id}
Remove(a) ==
  /\ DeleteSuppression(a)
  /\ removals < MaxRemovals /\ removals' = removals + 1
  /\ UNCHANGED <<row, mailbox, early, link, reader, lock, bounces, erased, judged, acted, faults>>

\* DeleteMailBounces: a bounce is kept a year, a message a month.
BounceExpires(i) ==
  /\ i \in bounces \intersect gone
  /\ bounces' = bounces \ {i}
  /\ UNCHANGED <<row, mailbox, early, link, reader, lock, suppressed, erased, judged, acted, removals, faults>>

\* The person's erasure waits for mail going out; then its rows and the list
\* lose the address.
\* Mutant: it does not wait.
Waits_Never(a) == FALSE
Waits(a) == \E r \in Rows : To[r] = a /\ row[r].at = "out"
Erase(a) ==
  /\ a \notin erased /\ ~Waits(a)
  /\ row' = [r \in Rows |-> IF To[r] = a /\ row[r].at # "out" THEN [row[r] EXCEPT !.clear = TRUE] ELSE row[r]]
  /\ suppressed' = suppressed \ {a} /\ erased' = erased \union {a}
  /\ UNCHANGED <<mailbox, early, link, reader, lock, bounces, judged, acted, removals, faults>>

-----------------------------------------------------------------------------
Poll(p) == \/ StartPoll(p) \/ FetchPage(p) \/ Judge(p) \/ RecordPoll(p) \/ TooManyPages(p)

Next ==
  \/ \E r \in Rows : \/ RecordSent(r) \/ RecordRefused(r)
                     \/ SuppressRefused(r) \/ RefusalLost(r) \/ ReportComes(r)
  \/ \E i \in Ids : MessageLeaves(i) \/ BounceExpires(i)
  \/ \E p \in Readers : Poll(p) \/ LinkForgotten(p) \/ PollFails(p) \/ Restart(p)
  \/ LockLost
  \/ \E a \in Addresses : Remove(a) \/ Erase(a)

\* A reader polls every five minutes and goes on with what it began.
Fairness == \A p \in Readers : WF_vars(Poll(p))

Spec == Init /\ [][Next]_vars
FairSpec == Spec /\ Fairness

-----------------------------------------------------------------------------
\* The place a poll that is on stores is never past a report that was not
\* judged: whatever failed, died, was forgotten, read twice at once or switched
\* from dry-run on the way (pollMailbox: "the new delta link only when it read
\* to the end").
NothingPassedOver == 1..link["on"] \subseteq judged \union gone

\* An address an operator took off the list returns to it for a new refusal or
\* a new report only: a report read again, by whichever process, is a duplicate
\* (bounce.go, rule 5).
RemovedStaysRemoved ==
  [][\A a \in suppressed' \ suppressed :
       \E e \in acted' \ acted : a = To[IF e \in Rows THEN e ELSE inbox[e].row]]_vars

\* After a person is erased no report and no late refusal writes their address
\* back: their rows were cleared, or the erasure still waits for them.
ErasedStaysErased == suppressed \intersect erased = {}

Owed(i) == i \in DOMAIN inbox /\ inbox[i].kind = "hard" /\ inbox[i].known
Settled(i) == i \in acted \union gone \/ (i \in DOMAIN inbox /\ row[inbox[i].row].clear)
\* A permanent failure reported of a row already recorded sent suppresses the
\* address at last, once every reader stays on, unless the message left the
\* Inbox or the person was erased first.
EveryHardBounceSuppresses ==
  <>[](\A p \in Readers : reader[p].mode = "on") => \A i \in Ids : Owed(i) ~> Settled(i)
=============================================================================
