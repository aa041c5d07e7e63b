----------------------------- MODULE Tracking -----------------------------
(* Open and click tracking of one send (internal/mailer/tracking.go,        *)
(* internal/database/tracking.go, tracking_retention.go,                    *)
(* internal/handlers/tracking_public.go, tracking_withdrawal.go).           *)
(* Core is asked whom the send may track before its transaction begins; the *)
(* transaction gives each of those a token and registers the send's links.  *)
(* The mailer puts them into a mail as it goes out. A mailbox that opens    *)
(* the mail writes an event under the row's lock. A withdrawal drops the    *)
(* person's token and events; the daily retention run counts a send, drops  *)
(* what is past ninety days and closes the send, each under the locks of    *)
(* the send's tracked rows and the run under an advisory lock that goes     *)
(* with its connection. A mask sweep or an erasure (SentContent) may hold   *)
(* the send's rows past a run's lock_timeout. The clock starts with the     *)
(* send.                                                                    *)
EXTENDS Naturals, FiniteSets

CONSTANTS
  Tracked,     \* the send's recipients, one row each
  Replicas,    \* processes running the retention
  EventKinds,  \* what is recorded, of "open" and "click"
  RunModes,    \* SKYMAIL_TRACKING_RETENTION, over the deployments
  Retention,   \* EventRetentionDays, in ticks
  Year,        \* in ticks
  MinTracked,  \* TotalsMinRecipients
  Brake,       \* SKYMAIL_TRACKING_RETENTION_MAX_ROWS
  Unheld,      \* no process runs the retention
  MaxTick      \* bound: the clock stops here

ASSUME TrackingAssumption ==
  /\ {Retention, Year, MinTracked} \subseteq Nat \ {0} /\ Retention <= Year
  /\ {Brake, MaxTick} \subseteq Nat
  /\ EventKinds \subseteq {"open", "click"}
  /\ RunModes \subseteq {"dry-run", "apply", "purge"}
  /\ Unheld \notin Replicas /\ IsFiniteSet(Tracked)

VARIABLES
  flag,      \* SKYMAIL_TRACKING is on
  tick,
  reply,     \* what core said of each before the send was queued
  mailing,   \* the send: mail_tasks, its links' addresses and its content
  letter,    \* mail_queue: each recipient's row
  events,    \* mail_tracking_events
  totals,    \* mail_task_tracking_totals
  recording, \* what each row is locked for the recording of, or "nothing"
  held,      \* a mask sweep or an erasure holds the send's rows
  runLock,   \* who holds the retention run's advisory lock
  run,       \* each replica's retention run
  receipts   \* modes with a run that ended within the tick

trackVars == <<flag, tick, reply, mailing, letter, events, totals, recording, held, runLock, run, receipts>>

NoTotals == [kept |-> FALSE, tracked |-> 0, open |-> 0, click |-> 0]
NoRetention == [at |-> "idle", mode |-> "apply", now |-> 0]
NoLetter == [status |-> "none", token |-> "none", hand |-> FALSE, carries |-> FALSE, sentAt |-> 0]

TrackTypeOK ==
  /\ flag \in BOOLEAN /\ tick \in 0..MaxTick
  /\ reply \in [Tracked -> {"not asked", "allowed", "not allowed"}]
  /\ mailing \in [at: {"new", "asked", "queued"}, requested: BOOLEAN, closed: BOOLEAN, hidden: BOOLEAN,
                  link: {"none", "url", "expired", "erased"}]
  /\ letter \in [Tracked -> [status: {"none", "pending", "processing", "sent", "failed"},
                             token: {"none", "open", "closed", "dropped"},
                             hand: BOOLEAN, carries: BOOLEAN, sentAt: 0..MaxTick]]
  /\ events \subseteq Tracked \X EventKinds
  /\ totals \in [kept: BOOLEAN, tracked: Nat, open: Nat, click: Nat]
  /\ recording \in [Tracked -> EventKinds \cup {"nothing"}]
  /\ held \in BOOLEAN
  /\ runLock \in Replicas \cup {Unheld}
  /\ run \in [Replicas -> [at: {"idle", "apply", "purge", "end"}, mode: {"dry-run", "apply", "purge"},
                           now: 0..MaxTick]]
  /\ receipts \subseteq RunModes

TrackInit ==
  /\ flag = TRUE /\ tick = 0
  /\ reply = [p \in Tracked |-> "not asked"]
  /\ mailing = [at |-> "new", requested |-> TRUE, closed |-> FALSE, hidden |-> FALSE, link |-> "none"]
  /\ letter = [p \in Tracked |-> NoLetter]
  /\ events = {} /\ totals = NoTotals
  /\ recording = [p \in Tracked |-> "nothing"] /\ held = FALSE /\ runLock = Unheld
  /\ run = [r \in Replicas |-> NoRetention] /\ receipts = {}

locksAndRuns == <<recording, held, runLock, run, receipts>>

-----------------------------------------------------------------------------
(* Queueing the send.                                                       *)

\* Whom Keycloak names in time, of those known by address; the others it is
\* not asked for.
WithAccount == SUBSET Tracked
\* Core's answer, as each person wishes by then: a batch that fails is no answer
\* for anyone.
CoreSays == [Tracked -> {"allowed", "not allowed"}] \cup {[p \in Tracked |-> "not asked"]}

\* ResolveTracking and its variants: outside any transaction, within a budget.
AskCore ==
  /\ mailing.at = "new" /\ flag
  /\ mailing' = [mailing EXCEPT !.at = "asked"]
  /\ \E named \in WithAccount, said \in CoreSays:
       reply' = [p \in Tracked |-> IF p \in named THEN said[p] ELSE "not asked"]
  /\ UNCHANGED <<flag, tick, letter, events, totals, locksAndRuns>>

\* trackingOf, and the lane: a send that asked for it and is of a hidden
\* content, and a person's mail in the system lane, is not tracked at all; a
\* service's, or an operator's, is with the pixel alone when hidden.
Ways == {"requested", "system", "operator"}
Cleared(way, lane) ==
  \/ way # "system" /\ lane = "system"
  \/ way = "requested" /\ mailing.hidden

\* planTracking's tokens; registerLinks, when a row is tracked and the mails
\* have a link in common.
TokenOf(p, cleared) == IF ~cleared /\ reply[p] = "allowed" THEN "open" ELSE "none"
Linked(cleared, common) == common /\ ~mailing.hidden /\ \E p \in Tracked: TokenOf(p, cleared) = "open"

QueueMailing ==
  /\ mailing.at = "asked"
  /\ \E way \in Ways, lane \in {"bulk", "system"}, common \in BOOLEAN:
       LET cleared == Cleared(way, lane) IN
       /\ mailing' = [mailing EXCEPT !.at = "queued", !.requested = ~cleared,
                                     !.link = IF Linked(cleared, common) THEN "url" ELSE "none"]
       /\ letter' = [p \in Tracked |-> [NoLetter EXCEPT !.status = "pending", !.token = TokenOf(p, cleared)]]
  /\ reply' = [p \in Tracked |-> "not asked"]
  /\ UNCHANGED <<flag, tick, events, totals, locksAndRuns>>

-----------------------------------------------------------------------------
(* The mailer.                                                              *)

\* Only a recording's transaction is two steps here. What the others do under
\* the row locks they take first and hold to their end is one.
RowLocked(p) == held \/ recording[p] # "nothing"

\* The row as the take reads it stays in the worker's hand.
TakeLetter(p) ==
  /\ letter[p].status = "pending" /\ ~RowLocked(p)
  /\ letter' = [letter EXCEPT ![p].status = "processing", ![p].hand = letter[p].token = "open"]
  /\ UNCHANGED <<flag, tick, reply, mailing, events, totals, locksAndRuns>>

\* outgoingHTML, the relay and the outcome's write: with tracking off since, the
\* mail goes out as kept and CloseQueueTrackingFlagOff closes a token still
\* there; a mail whose links cannot be read goes out as kept. The write waits
\* for the row. Put back, the row is taken again as it is by then.
SendLetter(p) ==
  /\ letter[p].status = "processing" /\ ~RowLocked(p)
  /\ LET decorated == letter[p].hand
         token == IF decorated /\ ~flag /\ letter[p].token = "open" THEN "closed" ELSE letter[p].token IN
     \E status \in {"sent", "failed", "pending"}, carries \in {decorated /\ flag, FALSE}:
       /\ carries => status = "sent"   \* read of sent rows only
       /\ letter' = [letter EXCEPT ![p] = [status |-> status, token |-> token, hand |-> FALSE, carries |-> carries,
                                           sentAt |-> IF status = "sent" THEN tick ELSE 0]]
  /\ UNCHANGED <<flag, tick, reply, mailing, events, totals, locksAndRuns>>

-----------------------------------------------------------------------------
(* Openings and clicks: RecordTracking.                                     *)

HasToken(p) == letter[p].token \in {"open", "closed"}
Within(p, now) == letter[p].sentAt + Retention > now
\* What the row must be, read when the lock is had and again by the insert.
Recordable(p) ==
  /\ letter[p].token = "open" /\ letter[p].status = "sent" /\ ~mailing.closed

\* The link's address, while it is kept.
ResolveTrackingLink == mailing.link = "url" /\ tick < Year

\* Open and Click: of mail that carries its token; a click is redirected
\* whatever comes of this.
Asks(p, k) ==
  /\ letter[p].carries /\ flag
  /\ k = "click" => ResolveTrackingLink

\* LockTrackingRecipient: the token is looked for after any wait for the row.
LockRecipient(p, k) ==
  /\ Asks(p, k) /\ Recordable(p) /\ Within(p, tick) /\ <<p, k>> \notin events
  /\ ~RowLocked(p)
  /\ recording' = [recording EXCEPT ![p] = k]
  /\ UNCHANGED <<flag, tick, reply, mailing, letter, events, totals, held, runLock, run, receipts>>

\* InsertTrackingEvent and the commit; the insert judges by the clock of the
\* transaction's start. Or the transaction fails.
InsertEvent(p) ==
  /\ recording[p] # "nothing"
  /\ events' \in {events, events \cup {<<p, recording[p]>>}}
  /\ recording' = [recording EXCEPT ![p] = "nothing"]
  /\ UNCHANGED <<flag, tick, reply, mailing, letter, totals, held, runLock, run, receipts>>

-----------------------------------------------------------------------------
(* Withdrawal.                                                              *)

OfOthers(ps) == {e \in events: e[1] \notin ps}
Drop(ps) == [q \in Tracked |-> IF q \in ps /\ HasToken(q) THEN [letter[q] EXCEPT !.token = "dropped"] ELSE letter[q]]

\* Mutant: the person's rows are not locked first.
WaitsForRow_Never(p) == FALSE
WaitsForRow(p) == HasToken(p) /\ RowLocked(p)
\* The person turned tracking off: WithdrawTracking, over the rows that have a
\* token. A row held too long fails the call, and core calls again.
Withdraw(p) ==
  /\ HasToken(p) /\ ~WaitsForRow(p)
  /\ events' = OfOthers({p})
  /\ letter' = Drop({p})
  /\ UNCHANGED <<flag, tick, reply, mailing, totals, locksAndRuns>>

-----------------------------------------------------------------------------
(* The retention run: RunTrackingRetention.                                 *)

\* trackingRetentionSends
Due(now) ==
  \/ mailing.requested /\ ~mailing.closed /\ now >= Retention
  \/ mailing.link = "url" /\ (now >= Year \/ mailing.hidden)
  \/ totals.kept /\ totals.tracked < MinTracked /\ now >= Year

WithToken == {p \in Tracked: HasToken(p)}
PastAt(now) == {p \in Tracked: letter[p].status = "sent" /\ ~Within(p, now)}
Free(ps) == \A p \in ps: ~RowLocked(p)

\* rule 1: the people counted, and whether the counts are kept
Countable == {p \in Tracked: letter[p].token = "open" /\ letter[p].status = "sent"}
Number(k) == Cardinality({p \in Tracked: <<p, k>> \in events})
\* Mutant: what is counted went with the people's tokens first.
Counted_Afterwards == [kept |-> TRUE, tracked |-> Cardinality(Countable), open |-> 0, click |-> 0]
Counted == [kept |-> TRUE, tracked |-> Cardinality(Countable), open |-> Number("open"), click |-> Number("click")]
KeepsCounts(now) ==
  /\ ~totals.kept /\ ~mailing.closed
  /\ Cardinality(Countable) >= MinTracked \/ now < Year
  /\ \E p \in PastAt(now) \cap WithToken: TRUE

\* rules 2 and 4: whose token and events go
Forgotten(now) == PastAt(now)

\* rules 3
LinkAfter(now) ==
  CASE mailing.link = "url" /\ now >= Year -> "expired"
    [] mailing.link = "url" /\ now < Year /\ mailing.hidden -> "erased"
    [] OTHER -> mailing.link

\* rule 5
Finished(now) ==
  /\ mailing.requested /\ now >= Retention
  /\ \A p \in Tracked: letter[p].status \notin {"pending", "processing"}
                       /\ (letter[p].status = "sent" => p \in PastAt(now))

\* rules 1 and 6
TotalsAfter(now) ==
  LET t == IF KeepsCounts(now) THEN Counted ELSE totals IN
  IF t.kept /\ t.tracked < MinTracked /\ now >= Year THEN NoTotals ELSE t

\* refusedBy
PastBrake(now) ==
  \/ Cardinality(Forgotten(now) \cap WithToken) > Brake
  \/ Cardinality(events \ OfOthers(Forgotten(now))) > Brake
  \/ LinkAfter(now) # mailing.link /\ Brake = 0
  \/ totals.kept /\ ~TotalsAfter(now).kept /\ Brake = 0

GoesTo(r, at) == run' = [run EXCEPT ![r].at = at, ![r].now = IF at = "end" THEN 0 ELSE @]

\* The advisory lock, no run of the mode within the day, a receipt that says
\* "running", and the dry pass, which rolls back what it counts: a send whose
\* rows are held past lock_timeout is left out of the counts. purge needs
\* tracking off, and has neither.
StartRetention(r, mode) ==
  /\ run[r].at = "idle" /\ runLock = Unheld /\ mode \notin receipts
  /\ mailing.at = "queued" /\ (mode = "purge" => ~flag)
  /\ runLock' = r
  /\ held \/ Free(WithToken)   \* a recording is waited for
  /\ LET goes == mode = "apply" /\ Due(tick) /\ ((held /\ WithToken # {}) \/ ~PastBrake(tick)) IN
          run' = [run EXCEPT ![r] = IF mode = "purge" THEN [at |-> "purge", mode |-> mode, now |-> 0]
                                    ELSE IF goes THEN [at |-> "apply", mode |-> mode, now |-> tick]
                                    ELSE [at |-> "end", mode |-> mode, now |-> 0]]
  /\ UNCHANGED <<flag, tick, reply, mailing, letter, events, totals, recording, held, receipts>>

\* trackingRetentionRules over the send's tracked rows, in their order, in one
\* transaction; rows held past lock_timeout leave the run partial.
ApplyRules(r) ==
  /\ run[r].at = "apply" /\ Free(WithToken)
  /\ LET now == run[r].now IN
     /\ totals' = TotalsAfter(now)
     /\ letter' = Drop(Forgotten(now))
     /\ events' = OfOthers(Forgotten(now))
     /\ mailing' = [mailing EXCEPT !.link = LinkAfter(now), !.closed = @ \/ Finished(now)]
  /\ GoesTo(r, "end")
  /\ UNCHANGED <<flag, tick, reply, recording, held, runLock, receipts>>

LockTimesOut(r) ==
  /\ run[r].at = "apply" /\ held /\ WithToken # {}
  /\ GoesTo(r, "end")
  /\ UNCHANGED <<flag, tick, reply, mailing, letter, events, totals, recording, held, runLock, receipts>>

\* purgeTracking: every token and every event, in one transaction.
Purge(r) ==
  /\ run[r].at = "purge" /\ Free(WithToken)
  /\ events' = {} /\ letter' = Drop(Tracked)
  /\ GoesTo(r, "end")
  /\ UNCHANGED <<flag, tick, reply, mailing, totals, recording, held, runLock, receipts>>

RunUnlocked(r) == IF runLock = r THEN Unheld ELSE runLock

\* The receipt, and the advisory lock's release.
EndRetention(r) ==
  /\ run[r].at = "end"
  /\ receipts' = receipts \cup {run[r].mode}
  /\ runLock' = RunUnlocked(r)
  /\ run' = [run EXCEPT ![r] = NoRetention]
  /\ UNCHANGED <<flag, tick, reply, mailing, letter, events, totals, recording, held>>

\* The process stops, or the database fails it: no receipt that counts.
RetentionFails(r) ==
  /\ run[r].at # "idle"
  /\ runLock' = RunUnlocked(r)
  /\ run' = [run EXCEPT ![r] = NoRetention]
  /\ UNCHANGED <<flag, tick, reply, mailing, letter, events, totals, recording, held, receipts>>

\* The advisory lock's connection dies under a run, whose statements go on over
\* the pool's others.
RunLockLost ==
  /\ runLock # Unheld /\ runLock' = Unheld
  /\ UNCHANGED <<flag, tick, reply, mailing, letter, events, totals, recording, held, run, receipts>>

-----------------------------------------------------------------------------
(* What changes around it.                                                  *)

HoldRows ==
  /\ ~held /\ mailing.at = "queued" /\ \A p \in Tracked: ~RowLocked(p)
  /\ held' = TRUE
  /\ UNCHANGED <<flag, tick, reply, mailing, letter, events, totals, recording, runLock, run, receipts>>
ReleaseRows ==
  /\ held /\ held' = FALSE
  /\ UNCHANGED <<flag, tick, reply, mailing, letter, events, totals, recording, runLock, run, receipts>>

\* A restart with SKYMAIL_TRACKING off.
TrackingOff ==
  /\ flag /\ flag' = FALSE
  /\ UNCHANGED <<tick, reply, mailing, letter, events, totals, locksAndRuns>>

\* The content is masked, or its template made sensitive, and stays so.
HideContent ==
  /\ ~mailing.hidden
  /\ mailing' = [mailing EXCEPT !.hidden = TRUE]
  /\ UNCHANGED <<flag, tick, reply, letter, events, totals, locksAndRuns>>

\* Ninety days go by; a day's run is one of many in them.
TrackTick ==
  /\ mailing.at = "queued" /\ tick < MaxTick /\ ~held
  /\ tick' = tick + 1 /\ receipts' = {}
  /\ UNCHANGED <<flag, reply, mailing, letter, events, totals, recording, held, runLock, run>>

TrackNext ==
  \/ AskCore \/ QueueMailing \/ TrackingOff \/ HideContent \/ HoldRows \/ ReleaseRows \/ TrackTick \/ RunLockLost
  \/ \E p \in Tracked: \/ TakeLetter(p) \/ SendLetter(p)
                       \/ \E k \in EventKinds: LockRecipient(p, k)
                       \/ InsertEvent(p)
                       \/ Withdraw(p)
  \/ \E r \in Replicas: \/ \E mode \in RunModes: StartRetention(r, mode)
                        \/ LockTimesOut(r) \/ ApplyRules(r) \/ Purge(r)
                        \/ EndRetention(r) \/ RetentionFails(r)

TrackSpec == TrackInit /\ [][TrackNext]_trackVars

-----------------------------------------------------------------------------
\* Once a recipient's token is dropped, by whichever of a withdrawal, a
\* retention run or a purge, no opening or click of theirs is there or ever
\* comes, although their mail still carries the token and a request with it
\* may have begun before (tracking_retention.go: "nothing can tie it back").
DroppedLeavesNothing == \A p \in Tracked: letter[p].token = "dropped" => \A k \in EventKinds: <<p, k>> \notin events

\* The counts without people are of every opening and click the send had when
\* the first of them went to retention, and no run after it, nor a second one
\* beside it, counts again from what was left: they only go a year on, with too
\* few people behind them (rules 1 and 6).
TotalsAreWhole ==
  [][/\ totals'.kept /\ ~totals.kept => totals'.open = Number("open") /\ totals'.click = Number("click")
     /\ totals.kept /\ totals' # totals => ~totals'.kept /\ totals.tracked < MinTracked /\ tick >= Year
     /\ \A r \in Replicas: run[r].at = "apply" /\ run'[r].at = "end" /\ events' # events =>
          totals.kept \/ totals'.kept \/ (Cardinality(Countable) < MinTracked /\ tick >= Year)]_trackVars
=============================================================================
