# SkyMail in TLA+

SkyMail is a mail service: other systems and operators ask it for mails, it
queues them in Postgres and several processes (replicas, or two of them during a
start-first deploy) hand them to relays. This directory holds TLA+ models of the
parts whose correctness depends on the order in which those processes,
transactions, clocks and people act, the TLC runs that check small instances of
them, and proofs, checked by TLAPS, that every safety property the passing runs
check holds for every instance.

`PROJECT.json` lists the parts of the system, the runs, the hazards and which
source lines each definition stands for.

## The system

| Part | State it keeps | Operations | Hard because | Correct when |
|---|---|---|---|---|
| Mail queue (`mailer.go`, `lease.go`, `query.sql`) | `mail_queue` rows: status, claim (`claimed_by`, `claimed_at`), attempts, throttles, next attempt; per process: counters, channel, workers | enqueue, take (system lane, bulk lane), send, record the outcome, retry, defer a throttled row, reap expired leases, release, stop | two processes and their workers share rows; leases run out under a live send; replies and writes get lost; processes stop, crash, hang | a row is one process's at a time; it ends; it goes out twice only for a delivery nobody could learn of |
| Bulk lane and task control (`bulk_guard.go`, `mail_task_control.go`) | a send's `paused_*`, `cancelled_at`, `send_failures`, parked rows; the lane's hold | pause, resume, cancel, count a failure and pause by itself, park, unpark, sweep | READ COMMITTED snapshots, rows locked by open takes | a held send stays quiet, a cancelled row never goes out, no row is forgotten |
| Send budget (`budget.go`) | `mail_send_windows`, an advisory lock | count, estimate, take, prune | processes share windows; takes stay open over window boundaries | the lane never passes its share; system mail never waits for it |
| Mail approval (`mail_approval*.go`) | a request, its history, its sends | submit, approve, return, reject, accept, decline, resubmit, expire | decisions race each other, the deadline, the sweep, a publication, a changed audience | what goes out is what was last decided on, once |
| Templates (`template_drafts.go`, `template_versions.go`, `template_seed.go`) | the row that is sent, versions, drafts | draft, publish, discard, restore, edit in the old panel, seed, force | stale drafts; the seed and operators publish over each other | live mail is one version's; nobody's publication is reverted unseen |
| Gates (`consent_gate.go`, `preference_gate.go`, `unsubscribe.go`) | cached answers of core, waiting rows, fetches, a breaker | ask, cache, let through, hold, wait, give up | an answer is old when used, and core changes its mind meanwhile | a row goes, or is held, only as core said lately; it ends |
| Suppression and the bounce reader (`bounce*`, `suppression.go`) | suppression list, bounces, a delta link per mode, an advisory lock | poll page by page, match, record, remove, erase | a poll dies anywhere, is read twice, switches mode, outlives its lock | no report passed over, none undoes a removal or an erasure |
| Sent content (`mask_sweep.go`, `account_erasure.go`) | the texts and variables of what was sent, failures counted, a deadline | mask, put back, count, empty, erase one person | two that lock the same rows in other orders, with faults between | nothing raw is left of a masked send; erased stays erased |
| News, Forms sources, notifications | source refs, one source's row, one idempotency key | send to an audience, send, submit, decide, replay, sweep, erase | late calls, retries and races for one row | once per mailbox, per source, per key |
| Tracking (`tracking*.go`) | tokens, events, a send's totals, receipts | ask, register, open, click, withdraw, retire after 90 days | a recording races what drops the token; two runs meet | nothing ties a dropped token to a person; counts are taken once and whole |
| Microsoft tokens (`msauth.go`) | one cached token, a breaker | fetch, share, drop when refused | workers hold old tokens | no dropped token is handed out again |
| Serving (`serve.go`, `main.go`), migrations | readiness, a lock | drain, stop, migrate | deadlines | not modelled |
| Relays, rendering, access gate, lists, generated queries | none of their own | | | not modelled |

How they interact. Everyone who wants mail sent (handlers, approvals, the inbox,
news, Forms, notifications) inserts rows in a transaction of their own and wakes
the dispatcher. The dispatcher takes system rows, asks the send budget for the
bulk lane, passes bulk rows through the lane's hold, the held sends and the gates,
and leases what is left to its process. Workers talk to a relay, with a token
from Microsoft where that is the relay. Their outcomes go back to the row (fenced
by the claim), to the send's failure count, to the lane's hold and to the
suppression list, which the bounce reader fills too. A reaper per process
repairs: expired leases, rows with no claim, rows parked behind a resume, rows of
cancelled sends, old windows. Approvals share-lock the template and the list a
send uses, which publishing and archiving wait for. What was sent is later
masked, its openings retired, and an account's erasure empties one person's part
of all of it.

## Modules

| Module | Stands for | Proofs |
|---|---|---|
| `MailLedger` | what the queue promises: a mail is queued, delivered, and known sent or given up | |
| `MailQueue` | the queue in several processes; implements `MailLedger` | `MailQueueProofs` |
| `TaskControl` | pause, resume, cancel, failure guard of one send | `TaskControlProofs` |
| `SendBudget` | windows, estimate, lock | `SendBudgetProofs` |
| `MailApproval` | one request for approval | `MailApprovalProofs` |
| `SendGates` | consent, preferences and unsubscribes of one bulk row | `RecipientProofs` |
| `Tracking` | one tracked send and its retention | `RecipientProofs` |
| `BounceReader` | reports, the polls that read them, the suppression list | `BounceReaderProofs` |
| `SentContent` | masking and erasing what was sent | `SentContentProofs` |
| `NewsSends`, `FormSources`, `Notifications`, `TemplateStore`, `TokenSource` | one News record, one Forms source, one idempotency key, one template, one token scope | |
| `BesideQueue` | the five above, composed | `BesideQueueProofs` |
| `MC...` | instances for TLC | |

### MailQueue

`row` is the table; `taken` and `takenBulk` are the fields of `mailerImpl`, `chan`
the channel of jobs, `worker` what each worker goroutine does, `disp` where the
dispatcher's turn is, `phase` a process from its start through the two drains of
`Stop` to its end, `hold` is `mail_bulk_holds`. Time is kept as durations: `wait`
is what is left until `next_attempt_at`, the age of a claim how long ago
`claimed_at` was.

- `BeginTurn`, `TakeSystem`, `TakeBulk` are `startDispatcher`/`drainQueue`, a
  statement apart so that another process's take, the reaper or a stop comes
  between. `TakeRows` fails in two ways: before the commit, and after it with the
  answer lost. With `Budgeted` a bulk take may be smaller than its room: the send
  budget and the gates are the reason, and other modules' business.
- `Pick` and `PickStopped` are the worker's `select`, which may choose either
  branch when both are ready. `RelayAnswers` is the relay: accepted, accepted with
  the reply lost, transient, throttled, permanent. Outcomes are two writes where
  the code makes two (the lane's hold, then the row), and each may fail. Every one
  of them is `FencedWrite`.
- `Reap` is one turn of the reaper; a stop cuts it off between turns, so a turn in
  progress may still end after it.
- `Crash` is the process's end at any point, and a send cut off by a shutdown's
  deadline. A restarted process has a new claimant name and is another element of
  `Procs`.

Left out: `MAIL_SENDER=paused`, rendering, the suppression a refused address
leaves.

The abstract `MailLedger` knows neither processes nor leases. `LedgerSpec` maps
`pending`/`processing` to `queued`, `delivered` to `copies` and `lapsed`, the
deliveries the queue has no way to learn of, to `unknown`.

### TaskControl

Postgres runs at READ COMMITTED: a statement reads a snapshot, waits for locked
rows and then reads again only the row it updates. So what a statement reads and
what it writes are separate steps wherever another transaction fits between:
`CountReads`/`CountWrites`, `ParkReads`/`ParkWrites`, `UnparkReads`/
`UnparkWrites`, the take's `CheckHeld` and what it then does with its rows. A
control's transaction holds the send's row lock from its first statement
to `CommitControl`. Rows an open take has locked are skipped by other takes and
waited for by everybody else. A row being sent just ends or is put back; claims
and leases are `MailQueue`'s. Left out: the order in which a multi-row update
takes its row locks.

### SendBudget

`minutes` and `hours` are `mail_send_windows`; `lock` is the advisory lock;
`turn` is where each dispatcher is and the instant its transaction read. Rows are
counted, not named. The estimate's fraction is exact: everything is counted in
units of a row / `MinuteSpan`, where the code computes in floating point and adds
`1e-9` against it. An instant is what the transaction reads after it got the
lock; the transaction may then stay open for `MaxOpen` ticks, so a take is counted
at an instant already past. `Live` are the processes that go on; another may hang
at any point, the lock in its hands.

What is held of the minute is what the code computes: the sliding estimate at
every instant, and each window. `windowRoom`'s comment ("over any span",
`budget.go:160`) says more than that: the estimate spreads the earlier window's
rows evenly, so a minute that lies across two windows may hold more when they came
late in the first. The day's sum counts whole hours and has no such gap.

### MailApproval

`req` is the `mail_approvals` row, `events` its history by kind, `mails` what was
queued, `template` and `archived` what operators change meanwhile, `handler` each
request being served or sweep. An action (`act`) is: what it reads before the
lock (`BeginSending`: a Keycloak group's members; `BeginResubmit`: a
submission's checks and the version published then), the lock taken without
waiting with the deadline checked before the state (`Lock`, `Refused`), the
checks under share locks (`Queue`) and the commit (`Commit...`), which queues,
writes the state and the events together. `Fail` ends a transaction that has not
committed: a check not named here, a client gone, a process dead. `LockDue` and
`CommitExpire` are the sweep. `vetted` is a history variable: the request as the
last decision of an approver left it.

One request is enough: every lock but the share locks is per request, and share
locks do not exclude each other. Values are compared, never read, so `Contents`
is a set; an audience is a list, which is asked under the lock, or a group, which
is asked before it; people named one by one behave as a list that is never
archived and their sends are queued all or none. `left` is what is left until the
deadline. The deadline is counted from the commit, which the code does a few
statements before. Left out: who may act (checked before anything here), Forms
sources (`FormSources`), the mail that tells people (queued after the commit, best
effort, and nothing follows from it).

### SendGates

What core decides about one bulk row of one of six kinds, at one address:
neither gate relates two. Four are of a service with the preference check on:
mail about a person, promotional mail to one, a notification of the bulk lane and
a test a sender sends to themselves; a promotional row and an announcement are of
one with the check off. `core` is core's answer on each topic now, `seen` a
history variable (how long ago it would have given each answer), `cache` the two
caches, `gate` a gate's breaker, needs and fetch, `send` the question asked before
a send is queued, `out` SkyMail's own record of unsubscribes. `Take` is the
transaction of `ProcessBulkQueueItems` as one step, because it decides from the
caches alone: `SkipUnsubscribed`, then `ConsentVerdict`, then
`PreferenceVerdict`. `StartFetch`, `CoreAnswers`, `AnswerArrives`, `FetchFails`
are the fetch outside it. An answer is stored as if given when it arrived, so what
a take acts on may be older than the cache's lifetime by the time an answer
takes: `RoundTimeout` (5 s) for a fetch, `SendTimeout` (30 s) for the question
before a send. `DecidedAsAnswered` states that bound. A tick waits for what the
code does promptly: a turn starts its fetch, a request ends by its timeout, a due
row is taken within `MaxLag`.

While the check is on, `PreferenceVerdict` ends a row without a link as
`unsubscribe_missing`, with the two exceptions of `gatePreferences`
(`preference_gate.go:459-467`): a self test is left alone, and a notification
whose type is required may carry no link. The type is looked at twice: a request
for mail of an optional type must bring its link and one of a required type may
not (`notification.go:331-348`, in `QueueSend`), and the take reads the type as it
is by then. `PutType` changes it in between; `row.required` is a history variable,
whether the type was required when the mail was asked for. `NoLinkOnlyIfRequired`
states what follows: a mail asked for without a link goes only while its type is
still required, and one made required later had its link already. The header of
the same file says less than the code does: "a duyuru row without a link is never
sent" (`preference_gate.go:48-49`) leaves out the required notifications of lines
462-463 (and of `query.sql:2591-2592`); the property follows the code. An
announcement under both gates at once is not modelled, nor a row queued while the
check was still off.

`GoesOn` stops the world once the row has ended.

### BounceReader

`inbox` is the Inbox in the order the delta gives it, `link` the place each mode
stores, `reader` each process's poll: its page, its place in the page and whether
this is the last one. `judged` is a history variable: the messages an "on" poll gave to
`bounce`, which matches and records a report and passes over the rest. One step is
one item, so that everything else comes between items. What goes wrong is
`PollFails` (a page or a write), `RefusalLost`, `Restart`, `LockLost` (the
connection with its advisory lock, while the poll goes on), `LinkForgotten` (a
link Graph no longer knows) and `TooManyPages`. One mailbox: nothing relates two.

Two things the model does as the code does and no property forbids: a report read
before its row is recorded sent matches nothing and is not read again (listed as a
hazard); and a poll that finds more than `maxPages` full pages stores nothing, so
it begins again from where it was.

### SentContent

`status`, `text`, `vars_of` are rows and sends; `holder` and `keeper` the row
locks on them; `sweep` each replica's run, `erasure` the one call for the person,
`receipt` its answer. A transaction takes its locks one by one; whoever waits is
simply not enabled, and when two wait for each other one may be aborted by
PostgreSQL, its locks given back and its writes undone (`Deadlocked`: the sweep's
ends in `FailSend`, the erasure's in `AbortErasure`). Deadlines
and retry delays are events that may come (`RetryDue`, `DeadlinePasses`).
`Broken` sends cannot be masked; an outage makes every masking fail for a while.
A crash is a rollback. `opened` and `closed` are the openings and tokens of the
rows to the person.

`FailuresNeedSuccesses` says what the code keeps: a send's counted failures never
outnumber the other sends that were masked or emptied, and none is emptied for
failing before `MaxFailures` others were. That is weaker than the comment "a fault
across SkyMail empties nothing once it is over" read literally: a fault that
begins or ends inside a run which also masked another send is counted against a
sound one, and so is a deadlock with the erasure. `SensitiveMailGoes` excepts a
template that takes its mark back, and a send looked at before the mark and locked
after it (see "Only model-checked").

Left out: the masking of a text itself, the retention that empties old content,
views of sent content, a row put back to the queue while its send is swept,
approvals' people, and a mail queued to the person after their rows were deleted.

### Beside the queue

The five modules share no row. `BesideQueue` composes them, and a behaviour
follows one of six parts (`part`; `NewsSends` has two machines); the others stand
still. That is the composition's own interleaving: no step of one part reads or
writes what another has, so a property of a part holds of it whatever the others
do.

- `NewsSends`: `post` is each call, from core's answer through the record's lock
  to the commit; `row` a mail of one call to one person, `ref` whether its
  `source_ref` still holds the mailbox. The queue is `MailQueue` in outline: a row
  is tried, may come back once, may lose its outcome. `erased` is where each
  person's erasure is. `MailedOnce` excepts a row whose outcome was lost and a
  person erased between core's answer and the transaction. `test` is the limit of
  test mails in a minute. The count and the preview write nothing.
- `FormSources`: one source, its calls, its request, its deletion and the erasure
  of one person, under the source's row lock taken without waiting. Rendering and
  the template's state are a refusal that may come.
- `Notifications`: one caller's key. `asked` is each request up to its claim of the
  key; the type and its texts may be stated anew between; everyone may be skipped,
  and then nothing is queued but the answer is kept.
- `TemplateStore`: every write holds the template's row to its commit and is one
  step; what a request read before is `desk`, what an operator was shown is
  `shown`. `SeedSparesWork` excepts a forced seed and one that had found no template
  of its key to judge (`internal/database/template_seed.go:88`), whose versions are
  kept as `forced` and `blind`. One operator with several drafts stands for several operators'.
  `LiveMailIsWhole` relates the live copy, the react source, and the Required
  variables to one version.
- `TokenSource`: `cache` is behind a mutex held for one look or one write;
  between a caller's looks the token is fetched, grows old or is dropped. Each
  fetch issues a new token. What an assertion is signed with is data.

### Tracking

One send, one row per person, one event per person and kind. Core is asked whom
the send may track before the transaction; its answer may be any. A recording is
two steps under its row's lock (`recording`), everything that drops a token waits
for it. A tick is ninety days, with one run of each mode in it. `held` is a mask
sweep or an erasure (`SentContent`) holding the send's rows past a run's lock
timeout: the run leaves the send for tomorrow. A run reads its clock once, goes
through its dry pass and the brake, then applies; its connection, and with it the
advisory lock, may go while it runs. A withdrawal may come again. Left out:
classification of what opened, caps and throttles that only drop openings, the
reports. The totals are numbers where the code keeps jsonb.

## Runs

| Run | Question | Instance | Distinct states |
|---|---|---|---|
| `MailQueueHandover` | Can a row be two processes' at once, go out twice for no reason, be tried for ever, be left behind by a stop? Do the counters match? Does the queue implement the ledger, and every row end? | 2 processes, 1 row, 1 worker each, lease 1, hold 1, 2 attempts, 1 throttle, 1 lost reply or write, 2 copies | 106,267 |
| `TaskControl` | Does a held send stay quiet and a cancelled row stay cancelled? Is any row forgotten? | 2 rows, 2 processes, 2 workers, guard at 1 failure and 50 per cent, 2 put-backs | 42,581 |
| `TaskControlFailureCount` | Does the failure count leave held sends alone, as it says? | 2 rows, 1 process, 1 worker | violated |
| `SendBudgetShared` | Is the share held over the minute and the day, and does system mail go? | 2 processes, one may hang; minute 2 ticks, hour 2, day 4; 3 a minute, 5 a day; 8 instants | 130,338 |
| `MailApproval` | Does what was decided go out, once, in time, with a history that says so, and does every request end? | 2 handlers, 2 contents, a list, a group, 2 versions, 1 resubmission, deadline 1 | 250,388 |
| `SendGates` | Is a row decided as core said lately, with its way out or as an exception the code makes, and in the end? | 6 kinds of row; lifetime 4, answers 1 and 2 late, breaker 2, 1 change of mind or of a type, 2 tries, 1 restart | 742,215 |
| `BounceReader` | Is a report passed over, or a removal or an erasure undone? Does every hard bounce of a known row suppress? | 2 processes, pages of 1, 3 pages a poll, 2 reports, 1 row, 1 fault, 1 removal | 792,067 |
| `SentContent` | Is anything raw left of a masked send, or of an erased person; is a sound send emptied; do both end? | 2 sends (one cannot be masked), 3 rows, 1 sweeper, 1 failure allowed, breaker 2, 1 mark, 1 outage | 97,276 |
| `SentContentNames` | Does a call that stops for mail in flight leave the next one able to find it, as it says? | the same, no mark, no outage, the name nowhere else | violated |
| `NewsSendsErasure` | Does a repeated erasure finish, as it says? | 1 post, 2 people | violated |
| `BesideQueue` | Is a mailbox mailed once per record; are test mails few; has a source, a key, one outcome; is live mail whole, with credentials hidden, seeds harmless, nothing reverted unseen; does no dropped token return? | 3 posts to 2 audiences; 3 tests, 2 a minute; 2 calls of 2 payloads; 3 requests with 2 bodies; 1 operator, 1 seed, 2 bodies, 4 versions; 3 workers, 2 tokens | 1,287,468 |
| `Tracking` | Does a dropped token leave an event; are the counts whole? | 2 people (alike), 2 processes (alike), retention 1 tick, a year 2, brake 2 | 1,450,219 |

Why these bounds are enough to be of use.

- The queue's hazards are about one row in several hands: two processes, and each
  restart is a new name, so a third hand is a second crash; a lease of 1 with ages
  to 2 gives before, at and after it; one fault lets every write and reply fail
  once at any point. The proofs have no such bounds, and more than one worker and
  row are theirs: `CountersMatchHands` over two lanes is proved, not only checked.
- The control's races are between one take, one control and one counter, and rows
  matter only as the ones a statement saw and the ones it did not: two.
- The budget's day is two of its hours and its minute two ticks, so a take can
  fall before, on and after each boundary while another is open.
- An approval's races are of two actors; a third loses to the lock as the second
  does. `MCSpec` bounds only the inputs: a request is first filled in with one
  content (approvers edit it to the other and back), resubmitted for the group;
  the template and the list change while a request or handler is about them.
- The gates' durations keep the code's order (60 s > 5 s + 30 s), so an answer can
  be fresh, just fresh and too old, and arrive after core changed its mind; one
  change is enough to make an old answer wrong.
- Two reports on pages of one: a poll dies between pages, between items and
  before its end; two processes poll at once; each kind of report meets a row in
  each state.
- One send goes to the person and to another and names them, the other send fails
  to be masked. That is every relation the two lockers tell apart. `MaxFailures` is
  1 in the instance and 3 in the code; the proof is for any.
- Beside the queue a third call is the retry of one of two that raced. The
  template has one subject, since bodies tell contents apart, and its four
  versions hold a seed before and after an operator's.
- Two people are the least with somebody else's event to lose, and fewer than
  `MinTracked` after one leaves; one kind of event behaves as the other.

The people and the processes of `Tracking` are `SYMMETRY` sets, since it checks
safety alone and no constant tells them apart.

Where TLC cannot say that nothing new happens in larger instances, the proofs do.

Deadlock is checked in `MailQueueHandover`, `MailApproval` and `SentContent` (a
row, a deadline or a sweep always goes on) and in `SentContentNames`. The others
say `CHECK_DEADLOCK FALSE` because their systems really end: a send whose rows
have all ended, a row that is decided (`GoesOn`), an Inbox no more mail comes to
with no faults left, calls that were all answered, a clock at its bound
(`MaxNow`, `MaxTick`, `MaxHour`, `MaxDay`).

### What the three violations show

`CountTaskSendFailure` (`query.sql`) says "A cancelled or already paused send is
counted and left as it is". It decides from its snapshot and then waits for the
row; if the operator's pause commits in between, the update re-reads the row's
columns but keeps the decision, and the operator's pause becomes one by
`failure_rate`, with nobody's name, and a cancelled send gets paused.
`TaskControl` models it so; `HeldStaysQuiet` and `NoRowStranded` hold all the
same.

`account_erasure.go` says of the steps before the wait that they "change nothing
the names are read from". One of them deletes queued rows to the person, whose
name on the row is one of the sources. When it was the last one, the next call no
longer finds another's mail that names the person, and answers that it is done
(`SentContentNames`). `SentContent` keeps the name elsewhere (`NameKept`).

The same file says that after "in progress" "the next call finishes". The second
recipient of one News record to be erased gets the empty address under the same
`source_ref` as the first, and the unique index refuses it each time
(`NewsSendsErasure`).

## Fairness

- `MailQueue`: time passes; the reaper's ticker, the dispatcher, the workers and
  `Stop` of a process go on (weak fairness: goroutines that are never disabled for
  good by others). Nothing is assumed of the relay's answers, of crashes or of a
  start: `EveryRowEnds` asks for one process that stays up. A relay that throttles
  for ever is defeated by `maxRowThrottles`.
- `TaskControl`: strong fairness for what waits for a row lock, because Postgres
  queues waiters in order; weak fairness for the rest. No operator is fair.
- `SendBudget`: only the `Live` processes; the others may stop in the middle of a
  transaction.
- `MailApproval`: time passes and a handler that began goes on to some end, which
  may be `Fail`. The sweep comes every minute: it finds the row unlocked once if
  it is unlocked again and again (strong fairness of `LockDue`), and it does not
  fail for ever (`CommitExpire`). No approver is assumed to act.
- `SendGates`: time, takes, sends, the send's question and each gate's fetch go on
  (weak); a fetch may fail each time, and core need never answer.
- `BounceReader`: each process's poll goes on (weak), whatever it comes to.
- `SentContent`: a lock goes to who waits longest, so the sweep, the mailer and the
  repeated erasure get theirs (strong); retry times and deadlines come and an
  outage ends (weak).
- `NewsSends`: the erasure's command is repeated and the queue goes on (weak);
  stated for its violation, so that nothing is refuted by standing still.
- `BesideQueue` and `Tracking` check safety alone and assume nothing.

## Proofs

Each proof module states a strengthening, shows that the initial states satisfy
it and that every step keeps it, one lemma per action or group of actions, and
concludes with temporal logic. They assume the named assumption of the module
(`QueueAssumption`, `BudgetAssumption`, ...), which TLC evaluates in the runs, and
no other except where stated. They range over every value of the constants: any
number of processes, rows, workers, people and versions, any duration and limit.
The bounds named in the modules (`MaxFaults`, `MaxChanges`, `MaxTick`, ...) are
constants too, so what is proved holds however high they are.

`MailQueueProofs`
: `TypeCorrect`, and `IInv`, which adds to `ClaimsAreExclusive` that a process that
  has not started holds nothing (a new claimant name is fresh, which is what
  fences old outcomes off): `ClaimsExclusive`. `CopiesExplained`: every copy beyond
  the first follows one the queue could not learn of. `TriesInv`: a job under its
  row's claim carries the counters the row has, so writing what the process counted
  is counting on the row: `TriesBounded`. `StopInv`: a claim of a live process is in
  its hands or was lost to a failed write, and how far a stop has come says what is
  empty: `StopLeavesNoRow`. These two see a step only as what it does to hands and
  claims (`HandsStep`: nothing, one job let go, rows claimed, a process dead, time
  passed), which `EveryStepIsAHandsStep` shows of every action. `CountersInv`: the counters are the sizes of the channel
  and of the busy workers, in both lanes, and a dispatcher's room is no more than
  is free: `CountersMatch`. `QueueKeepsLedger`: under the mapping `Told` each
  step is a `MailLedger` step or a stutter. `CopiesExplained` and `QueueKeepsLedger`
  assume `MaxHold <= Lease`:
  `lease.go` refuses a lease under five minutes, well past the minute a send may
  take. From the ledger's actions, under the same assumption, `EndedForGood`: a row
  recorded sent or failed keeps that outcome, and no copy of its mail goes out
  afterwards, from whichever process still has a claim of it.

`TaskControlProofs`
: `ControlInv`: an open take holds only rows that wait, apart from every other
  take's. Then no write of a cancel, a pause or the sweep meets a row in a take's
  hands, and none moves a row that was written off (`CancelledForGood`) or starts
  one of a held send (`HeldQuiet`). `ControlTypes`.

`SendBudgetProofs`
: `BudgetTypes`; `BudgetLockExclusive`; `MinuteHeld`, the estimate and each window
  within the bulk lane's share at every instant. `MinuteInv` says that whoever
  read the windows chose a number that fits in the room *at the instant it read*
  and that nobody counted since; the lemmas are about the arithmetic of the
  window (time only lowers the estimate; a take raises it by what it takes).
  `DayIsHeld`, no 24 hours, from whatever instant, hold more bulk rows than the
  lane's share of the day. `DayInv`: from any hour's start that is not pruned yet,
  the hours counted add up to the rows taken since (`Balanced`: a row lies after an
  hour's start exactly when its own hour does); a transaction is open briefly enough
  to find all the hours it adds up (`OpenBriefly`); and a take that read has room in
  the day that ends at its instant (`DayFits`), where every row of an earlier
  instant that shares a day with it lies. This uses, in `BudgetAssumption`, that the
  windows are kept for longer than a day, an hour and the time a transaction stays
  open: `keepWindows` is 48 h, so the code, which puts no limit on that time, is
  covered up to 23 h.

  A day's count is a sum over a set, and what a fold over a set does takes an
  induction, whose library theorems the installed provers cannot use (they take an
  operator). `LeastNumber` gets it from the well-foundedness of the numbers instead,
  and `SubsetInduction` states it with a set in the predicate's place. From it come
  the lemmas about `SumFunctionOnSet`: its equation, that any element may be split
  off, what a larger set and a raised value do to it.

`MailApprovalProofs`
: `ApprovalTypes`, `ApprovedGoesOnce`, `DeadlineKept`, `HistoryKept`: every safety
  property of the module. `IInv` says for each handler what it may still rely on
  (`Sound`: past the lock the state is still one it applies to; past `Queue` the
  template and the group are still what it checked; a submission's handler is
  before the request) and that at most one is past the lock (`Alone`). It is
  needed because `GoesOnceAsDecided` says nothing of handlers in the middle.
  `Account` refines the history: submissions, refusals and ends by state.

`RecipientProofs`
: For `Tracking`: `TrackInv` (a recording goes on only with its token there, and a
  row without a token has no event), which gives `NothingTiesBack`; `WholeInv` (a
  closed send has no mail to go and no token, and a run's clock has not gone back),
  which with it gives `CountsOfAll`. For `SendGates`: `GatesInv`. `DecidedAsAnswered`
  needs to know of everything known, wherever it is, how long ago core said it: a
  fetch's answer no longer ago than the fetch is old (`FetchSeen`), a send's
  likewise (`SendSeen`), a cached one no longer ago than its age and the time an
  answer may take (`CacheSeen`); a tick ages all alike, a change of mind makes
  nothing older, an arrival turns one bound into the next. `DecidedInTime`,
  `GateTypes`. `WayOutOrRequired` needs that a notification without a link was
  asked for while its type was required (`LinkAsAsked`), which no retry, restart or
  change of the type undoes. It uses that a fetch's timeout is no longer than a
  send's (5 s and 30 s, in `GatesAssumption`).

`BounceReaderProofs`
: `ReadInv` (a poll's place is within the Inbox, and what an "on" poll has read is
  judged or has left) gives `NoReportPassedOver`; `ListInv` (an erased address is
  on no row; what once suppressed is on record or has left) gives `ErasedForGood`
  and `RemovedForGood`.

`SentContentProofs`
: `SentTypes`. `CountInv`: a run that may still count a failure has a success of its
  own to count it beside (`Weighed`), and what it goes on to empty was failing
  beside enough of them (`EmptiedLater`): `FailuresWeighed`. `ContentInv`: what each of
  the lockers holds (`SweepsHold`, `ReaderHolds`, `CallHolds`): `RawGone`,
  `ErasedForGood`. It is needed because `ErasedStaysErased` says nothing before the
  receipt, and the receipt is right only since the erasure still holds every row it
  looked at first.

`BesideQueueProofs`
: Each part on its own specification: `TokenInv`, `NoteInv`, `FormInv`, `NewsInv`,
  `TestInv`, `StoreInv`, each named in a comment there; `BesideQueueSafe` and
  `BesideQueueTemplate` carry them to the composition the run checks (`PartsInv`).
  `TestInv` counts: no window of a minute holds more than the limit, whichever
  minute, because who counted below it holds the lock. `StoreInv` keeps that the
  seed's judgement was of the version history that is still there, and that the live
  row is one version's. `NothingIsReverted` is an action property from the same
  invariant.

### Only model-checked

Liveness, which is out of the prover's reach (it takes `ENABLED`): `EveryRowEnds`,
`NoRowStranded`, `SystemMailGoes`, `EveryRequestEnds`, `EveryRowDecided`,
`EveryHardBounceSuppresses`, `SensitiveMailGoes`, `ErasureEnds`.

`SensitiveMailGoes` is of sends whose mark the sweep saw: one that a sweep looked
at before the template was marked, and locked after, is taken as not sensitive and
not looked at again until the next mark; the trigger that makes sends due waits for
the row but not for the look. `FailuresNeedSuccesses` is discussed above. In
`NewsSends` a person erased between core's answer and the transaction may be mailed
once more, since the rows that named their mailbox no longer do.

## Not modelled, and the plan

- Serving: the order and deadlines of a shutdown over `MailQueue`'s `Stop`; the
  migration runner's lock. Next, if anything: both are bounded waits around parts
  that are modelled.
- The restored queue's close: an operator's one-off statement.
- Relay protocols, rendering and sanitising (no state; unit tests reach their
  cases), request authentication and the access gate (per request), list and
  report queries (single statements), generated code.
- Of the parts called partly modelled, `PROJECT.json` says what is left out of
  each.

What is left to prove is liveness, with a prover that has `ENABLED`.

## Running

    tlc -config MailQueueHandover.cfg MCMailQueue
    tlapm MailQueueProofs.tla

A run's module and configuration are named in `PROJECT.json`; every run ends within
five minutes on two workers.
