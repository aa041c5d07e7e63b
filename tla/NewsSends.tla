----------------------------- MODULE NewsSends -----------------------------
(* Mailing a published News record (internal/handlers/news_send.go,         *)
(* news_send_preview.go). Each post asks core who its audience is, then, in *)
(* one transaction under the record's lock, looks for a send of the record  *)
(* to that audience, leaves out the mailboxes a row of the record already   *)
(* went to, and queues the rest. mail_queue.source_ref says which rows hold *)
(* a mailbox: a row cancelled before it was sent gives it up. The queue is  *)
(* MailQueue's, in outline: a row is taken and sent, and may come back.     *)
(* Account erasure clears the address of a row that ended and leaves its    *)
(* source_ref; idx_mail_queue_news_once lets one row of a record have each  *)
(* address, the empty one included. One record, and one address for each    *)
(* person. The second machine is the rate limit of a person's test mails.   *)
EXTENDS Naturals, FiniteSets

CONSTANTS
  Posts,      \* calls of POST /v1/news_sends for the record
  Audience,   \* news.AudienceKey of each call
  People,     \* mailboxes
  Reach,      \* bound: the sets of people core may answer
  Leaving,    \* bound: the people who may ask to be erased
  Tests,      \* calls of POST /v1/news_sends/test by one person
  Minute,     \* a minute, in ticks
  TestLimit,  \* NewsTestsPerMinute
  MaxNow      \* bound: the clock of the tests stops here

ASSUME NewsAssumption ==
  /\ DOMAIN Audience = Posts
  /\ IsFiniteSet(Posts) /\ IsFiniteSet(People) /\ IsFiniteSet(Tests)
  /\ Reach \subseteq SUBSET People /\ Leaving \subseteq People
  /\ Minute \in Nat /\ TestLimit \in Nat \ {0} /\ MaxNow \in Nat

VARIABLES
  post,     \* each call: where it is, who core answered, who is left of them
  send,     \* the mail task each call made: none, open or cancelled
  row,      \* mail_queue: each call's row to each person
  erased,   \* each person's account: kept, asked (to be erased) or erased
  test,     \* each test call: where it is and its transaction's start
  clock     \* the database's clock, for the tests

newsVars == <<post, send, row, erased>>
testVars == <<test, clock>>

NoRow == [status |-> "none", ref |-> FALSE, again |-> FALSE, mailed |-> FALSE, lost |-> FALSE, cleared |-> FALSE]

NewsTypeOK ==
  /\ post \in [Posts -> [at: {"idle", "asking", "ready", "locked", "checked", "done"},
                         to: SUBSET People, left: SUBSET People]]
  /\ send \in [Posts -> {"none", "open", "cancelled"}]
  /\ row \in [Posts \X People ->
                [status: {"none", "pending", "sending", "sent", "failed"},
                 ref: BOOLEAN, again: BOOLEAN, mailed: BOOLEAN, lost: BOOLEAN, cleared: BOOLEAN]]
  /\ erased \in [People -> {"kept", "asked", "erased"}]

NewsInit ==
  /\ post = [n \in Posts |-> [at |-> "idle", to |-> {}, left |-> {}]]
  /\ send = [n \in Posts |-> "none"]
  /\ row = [r \in Posts \X People |-> NoRow]
  /\ erased = [p \in People |-> "kept"]

-----------------------------------------------------------------------------
(* A call of Send.                                                          *)

Live(n) == \E p \in People: row[<<n, p>>].status \in {"pending", "sending"}

\* GetNewsSendByAudience finds a send that holds this one back.
HeldBack(n) ==
  \E m \in Posts: /\ Audience[m] = Audience[n]
                  /\ \/ send[m] = "open"
                     \/ send[m] = "cancelled" /\ Live(m)

\* A row of the record with the person's address; and one with none any more.
Names(r) == r.ref /\ ~r.cleared
Cleared(r) == r.ref /\ r.cleared

\* ListNewsSourceAddresses.
Received == {p \in People: \E n \in Posts: Names(row[<<n, p>>])}

Step(n, at) == post' = [post EXCEPT ![n].at = at]
Done(n) == post' = [post EXCEPT ![n].at = "done", ![n].to = {}, ![n].left = {}]

\* The call is in its transaction and holds the record's lock.
Locked(n) == post[n].at \in {"locked", "checked"}

Load(n) ==
  /\ post[n].at = "idle"
  /\ IF HeldBack(n) THEN Done(n) ELSE Step(n, "asking")
  /\ UNCHANGED <<send, row, erased>>

\* core answers whom it likes, never an account it erased; or the call ends
\* with 503 and nothing queued.
Resolve(n) ==
  /\ post[n].at = "asking"
  /\ \/ \E to \in Reach:
          post' = [post EXCEPT ![n].at = "ready", ![n].to = {p \in to: erased[p] = "kept"}]
     \/ Done(n)
  /\ UNCHANGED <<send, row, erased>>

LockNewsSource(n) ==
  /\ post[n].at = "ready" /\ \A m \in Posts: ~Locked(m)
  /\ Step(n, "locked")
  /\ UNCHANGED <<send, row, erased>>

Refuse(n) ==
  /\ post[n].at = "locked" /\ HeldBack(n)
  /\ Done(n)
  /\ UNCHANGED <<send, row, erased>>

\* withoutReceived; nobody left is 422.
LeaveOut(n) ==
  /\ post[n].at = "locked" /\ ~HeldBack(n)
  /\ LET left == post[n].to \ Received IN
       IF left = {}
       THEN Done(n)
       ELSE post' = [post EXCEPT ![n].at = "checked", ![n].left = left]
  /\ UNCHANGED <<send, row, erased>>

InsertMailTask(n) == send' = [send EXCEPT ![n] = "open"]

\* Rows refused at queueing (suppressed, unsubscribed, not rendered) are
\* written failed without a source_ref; the index refuses a second row of the
\* record to a mailbox, and the whole call with it.
Enqueue(n) ==
  /\ post[n].at = "checked"
  /\ \E bad \in SUBSET post[n].left:
       LET fine == post[n].left \ bad IN
       IF fine \cap Received # {}
       THEN UNCHANGED <<send, row>>
       ELSE /\ InsertMailTask(n)
            /\ row' = [r \in Posts \X People |->
                 IF r[1] # n \/ r[2] \notin post[n].left THEN row[r]
                 ELSE IF r[2] \in fine THEN [NoRow EXCEPT !.status = "pending", !.ref = TRUE]
                 ELSE [NoRow EXCEPT !.status = "failed"]]
  /\ Done(n) /\ UNCHANGED erased

\* The process dies or the database fails: the transaction is undone.
Break(n) ==
  /\ post[n].at \in {"asking", "ready", "locked", "checked"}
  /\ Done(n) /\ UNCHANGED <<send, row, erased>>

-----------------------------------------------------------------------------
(* The send's rows, as the queue and the operators change them.             *)

Dropped(r) == [r EXCEPT !.status = "failed", !.ref = FALSE]
CancelRow_BeingSent(r) == IF r.status \in {"pending", "sending"} THEN [r EXCEPT !.ref = FALSE] ELSE r
CancelRow(r) == IF r.status = "pending" THEN Dropped(r) ELSE r

\* Cancel writes the pending rows failed in its transaction.
CancelSend(n) ==
  /\ send[n] = "open"
  /\ send' = [send EXCEPT ![n] = "cancelled"]
  /\ row' = [r \in Posts \X People |-> IF r[1] = n THEN CancelRow(row[r]) ELSE row[r]]
  /\ UNCHANGED <<post, erased>>

\* The reaper's turn, and the same of a row put back after the cancel.
ReapCancelled(n) ==
  /\ send[n] = "cancelled" /\ \E p \in People: row[<<n, p>>].status = "pending"
  /\ row' = [r \in Posts \X People |-> IF r[1] = n THEN CancelRow(row[r]) ELSE row[r]]
  /\ UNCHANGED <<post, send, erased>>

Become(n, p, r) == row' = [row EXCEPT ![<<n, p>>] = r] /\ UNCHANGED <<post, send, erased>>

\* A take, and its check of the send: of a cancelled one it drops the row.
Take(n, p) ==
  /\ row[<<n, p>>].status = "pending"
  /\ Become(n, p, IF send[n] = "cancelled" THEN Dropped(row[<<n, p>>])
                  ELSE [row[<<n, p>>] EXCEPT !.status = "sending"])

\* Sent, failed for good, to be tried again; or its outcome is lost with the
\* process or the reply, and its lease puts it back.
Outcome(n, p) ==
  /\ row[<<n, p>>].status = "sending"
  /\ \/ Become(n, p, [row[<<n, p>>] EXCEPT !.status = "sent", !.mailed = TRUE])
     \/ Become(n, p, [row[<<n, p>>] EXCEPT !.status = "failed"])
     \/ /\ ~row[<<n, p>>].again   \* bound: a row is tried twice
        /\ LET back == [row[<<n, p>>] EXCEPT !.status = "pending", !.again = TRUE] IN
             Become(n, p, back) \/ Become(n, p, [back EXCEPT !.mailed = TRUE, !.lost = TRUE])

-----------------------------------------------------------------------------
(* Account erasure (internal/database/account_erasure.go), as far as the    *)
(* rows of the record go.                                                   *)

AskErasure(p) ==
  /\ p \in Leaving /\ erased[p] = "kept"
  /\ erased' = [erased EXCEPT ![p] = "asked"] /\ UNCHANGED <<post, send, row>>

\* Another person's row of the record has lost its address already: clearing
\* this one's makes a second row with an empty one.
Collides(p) ==
  /\ \E n \in Posts: Names(row[<<n, p>>])
  /\ \E q \in People, n \in Posts: Cleared(row[<<n, q>>])

\* A queued row to the person is deleted; while one is taken the call stops
\* there, and it is called again.
EraseAccount(p) ==
  /\ erased[p] = "asked"
  /\ LET busy == \E n \in Posts: row[<<n, p>>].status = "sending" IN
       /\ ~busy => ~Collides(p)
       /\ erased' = IF busy THEN erased ELSE [erased EXCEPT ![p] = "erased"]
       /\ row' = [r \in Posts \X People |->
            IF r[2] # p THEN row[r]
            ELSE IF row[r].status = "pending" THEN [row[r] EXCEPT !.status = "none", !.ref = FALSE]
            ELSE [row[r] EXCEPT !.cleared = @ \/ (~busy /\ row[r].ref)]]
  /\ UNCHANGED <<post, send>>

-----------------------------------------------------------------------------

NewsNext ==
  \/ \E n \in Posts: Load(n) \/ Resolve(n) \/ LockNewsSource(n) \/ Refuse(n) \/ LeaveOut(n)
                       \/ Enqueue(n) \/ Break(n) \/ CancelSend(n) \/ ReapCancelled(n)
  \/ \E n \in Posts, p \in People: Take(n, p) \/ Outcome(n, p)
  \/ \E p \in People: AskErasure(p) \/ EraseAccount(p)

\* The reaper runs each turn, a worker ends what it took, and whoever asked
\* for an erasure calls until it is done.
NewsFairness ==
  /\ \A n \in Posts: WF_newsVars(ReapCancelled(n))
  /\ \A n \in Posts, p \in People: WF_newsVars(Outcome(n, p))
  /\ \A p \in People: WF_newsVars(EraseAccount(p))

NewsSpec == NewsInit /\ [][NewsNext]_newsVars /\ NewsFairness

(* A record's mail goes to a mailbox once: two sends of it reach one person *)
(* only when the queue could not know of the first, its outcome being lost  *)
(* (news_send.go, "A record's mail goes to a mailbox once"). A person erased*)
(* while a call already had them from core is not told from a new one.      *)
MailedOnce ==
  \A n, m \in Posts: \A p \in People:
    n # m /\ row[<<n, p>>].mailed /\ row[<<m, p>>].mailed /\ erased[p] # "erased" =>
      row[<<n, p>>].lost \/ row[<<m, p>>].lost

(* An erasure asked for is done in the end (account_erasure.go, "the next   *)
(* call finishes").                                                         *)
ErasureCompletes == \A p \in People: erased[p] = "asked" ~> erased[p] = "erased"

-----------------------------------------------------------------------------
(* Test mails: at most TestLimit in a minute.                               *)

TestInit == test = [t \in Tests |-> [at |-> "idle", start |-> 0]] /\ clock = 0

\* now() is the transaction's start, and the task's created_at.
BeginTest(t) ==
  /\ test[t].at = "idle"
  /\ test' = [test EXCEPT ![t] = [at |-> "waiting", start |-> clock]]
  /\ UNCHANGED clock

LockTests_NotTaken(t) ==
  /\ test[t].at = "waiting"
  /\ test' = [test EXCEPT ![t].at = "locked"] /\ UNCHANGED clock
LockTests(t) ==
  /\ test[t].at = "waiting" /\ \A u \in Tests: test[u].at \notin {"locked", "counted"}
  /\ test' = [test EXCEPT ![t].at = "locked"] /\ UNCHANGED clock

\* CountRecentNewsTests: created_at > now() - 1 minute.
Recent(t) == {u \in Tests: test[u].at = "sent" /\ test[u].start + Minute > test[t].start}

CountTests(t) ==
  /\ test[t].at = "locked"
  /\ test' = [test EXCEPT ![t].at = IF Cardinality(Recent(t)) >= TestLimit THEN "refused" ELSE "counted"]
  /\ UNCHANGED clock

\* Queued and committed, or undone.
QueueTest(t) ==
  /\ test[t].at = "counted"
  /\ \E at \in {"sent", "refused"}: test' = [test EXCEPT ![t].at = at]
  /\ UNCHANGED clock

ClockTicks == clock < MaxNow /\ clock' = clock + 1 /\ UNCHANGED test

TestNext == ClockTicks \/ \E t \in Tests: BeginTest(t) \/ LockTests(t) \/ CountTests(t) \/ QueueTest(t)

(* No more than TestLimit test mails of a person fall within a minute,      *)
(* however long a call waited for the lock (news_send_preview.go,           *)
(* NewsTestsPerMinute).                                                     *)
TestsAreFew ==
  \A t \in Tests:
    Cardinality({u \in Tests: test[u].at = "sent" /\ test[u].start \in test[t].start .. test[t].start + Minute - 1}) <= TestLimit
=============================================================================
