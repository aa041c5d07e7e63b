------------------------------ MODULE SendGates ------------------------------
(***************************************************************************)
(* What core decides about one bulk mail at the moment it is sent          *)
(* (internal/mailer/consent_gate.go, preference_gate.go, unsubscribe.go).  *)
(*                                                                         *)
(* The dispatcher never waits for core: in the transaction that takes the  *)
(* row it decides from two caches alone, and puts the row back when they   *)
(* do not know. A fetch in the background asks core what the last turns    *)
(* did not know; core fails, answers late, and changes its mind meanwhile. *)
(* A send asks about its recipients before it is queued, too, and its      *)
(* answer fills the preference cache. A notification's type is read twice, *)
(* when its mail is asked for and when its row is taken, and an operator   *)
(* may change it in between. One address and one row are modelled: neither *)
(* gate relates two. Durations are ages in ticks.                          *)
(***************************************************************************)
EXTENDS Integers, FiniteSets

CONSTANTS
  Kinds,          \* the rows considered, of KindsOfRow
  TTL,            \* consentCacheTTL, preferenceCacheTTL
  RoundTimeout,   \* of one background fetch
  SendTimeout,    \* preferenceSendTimeout: of asking before a send is queued
  BreakerOpen,    \* how long core is not asked after it failed
  UndecidedAfter, \* how long a row waits while core fails
  FetchDelay,     \* how soon a row waiting for a fetch is due again
  Backoff,        \* by the row's age: how soon while the breaker is open
  MaxLag,         \* bound: a due row is taken this late at most
  MaxChanges,     \* bound: how often core, the person or an operator changes something
  MaxTries,       \* maxSendAttempts
  MaxRestarts     \* bound: restarts of the process

\* A notification is one of the bulk lane; a self test goes to its own sender.
KindsOfRow == {"promotional", "announcement", "person", "promotional to a person", "notification", "self test"}

ASSUME GatesAssumption ==
  /\ Kinds \subseteq KindsOfRow
  /\ {TTL, RoundTimeout, SendTimeout, BreakerOpen, FetchDelay, MaxTries} \subseteq Nat \ {0}
  /\ {UndecidedAfter, MaxLag, MaxChanges, MaxRestarts} \subseteq Nat
  /\ Backoff \in [0..UndecidedAfter -> Nat \ {0}]
  /\ TTL > RoundTimeout + BreakerOpen      \* 60 s, 5 s, 30 s
  /\ RoundTimeout <= SendTimeout           \* 5 s, 30 s

Topics == {"promotional", "invited", "account", "verdict"}
Answers == {"yes", "no", "none", "gone"}
\* What core may answer: an account is matched or not; a verdict is none
\* without an account, gone when the category names no team.
Possible(t) == IF t = "verdict" THEN Answers ELSE {"yes", "no"}

Gates == {"consent", "preference"}
TopicsOf(g) == IF g = "preference" THEN {"verdict"} ELSE Topics \ {"verdict"}
ConsentGated(kind) == kind \in {"promotional", "announcement", "promotional to a person"}
\* The first two kinds are rows of a service whose preference check is off.
CheckOn(kind) == kind \notin {"promotional", "announcement"}
PreferenceGated(kind) == CheckOn(kind) /\ kind # "self test"
Gated(kind, g) == IF g = "preference" THEN PreferenceGated(kind) ELSE ConsentGated(kind)
Asked(kind) ==
  CASE kind = "promotional" -> {"promotional"}
    [] kind = "announcement" -> {"invited", "account"}
    [] kind = "person" -> {"verdict"}
    [] kind = "promotional to a person" -> {"promotional", "verdict"}
    [] kind \in {"notification", "self test"} -> {}

Later(a, b) == IF a > b THEN a ELSE b
Far == TTL + Later(RoundTimeout, SendTimeout)   \* an age past which none matters

Final == {"sent", "failed", "held", "undecided", "unsubscribed", "unsubscribe_missing"}
RowState == {"none", "pending", "taken"} \union Final

VARIABLES
  core,      \* core's answer on each topic now
  seen,      \* history: how long ago core would have given each answer
  changes,   \* how often core, the person or an operator has changed something
  typeRequired, \* is the notification's type required?
  cache,     \* consentCache, preferenceCache: the answer and its age, by topic
  gate,      \* by gate: openUntil, needs, and the fetch under way
  send,      \* ResolvePreferences of the send about to be queued
  row,       \* the row in mail_queue
  out,       \* is the address in mail_unsubscribes?
  restarts

vars == <<core, seen, changes, typeRequired, cache, gate, send, row, out, restarts>>
world == <<core, seen, changes, typeRequired>>

Unknown == [answer |-> "none", age |-> TTL]
NoFetch == [on |-> FALSE, left |-> {}, asked |-> "none", answer |-> "none", age |-> 0]
NoSend == [at |-> "idle", answer |-> "none", age |-> 0]
Fresh(t) == cache[t].age < TTL
Open(g) == gate[g].open > 0
\* Bound: what happens once the row has ended is not followed.
GoesOn == row.state \notin Final

Init ==
  /\ core \in [Topics -> {"yes", "no"}]
  /\ seen = [t \in Topics |-> [a \in Answers |-> IF a = core[t] THEN 0 ELSE Far + 1]]
  /\ changes = 0
  /\ cache = [t \in Topics |-> Unknown]
  /\ gate = [g \in Gates |-> [open |-> 0, needs |-> {}, fetch |-> NoFetch]]
  /\ send = NoSend
  /\ \E kind \in Kinds :
       /\ row = [state |-> "none", kind |-> kind, link |-> FALSE, checked |-> FALSE,
                 required |-> FALSE, due |-> 0, age |-> 0, tries |-> 0]
       /\ typeRequired \in IF kind = "notification" THEN BOOLEAN ELSE {FALSE}
       /\ \A t \in Topics \ Asked(kind) : core[t] = "no"
  /\ out \in BOOLEAN /\ restarts = 0
-----------------------------------------------------------------------------
(* Core and the clock. *)

CoreChanges ==
  /\ GoesOn /\ changes < MaxChanges
  /\ \E t \in Asked(row.kind), a \in Answers :
       /\ a \in Possible(t) \ {core[t]}
       /\ core' = [core EXCEPT ![t] = a]
       /\ seen' = [seen EXCEPT ![t][a] = 0]
  /\ changes' = changes + 1
  /\ UNCHANGED <<typeRequired, cache, gate, send, row, out, restarts>>

Until(n, top) == IF n < top THEN n + 1 ELSE top

\* A tick. A request does not outlast its timeout; every turn of the dispatcher
\* ends by starting what it may fetch; a due row is taken at most MaxLag after
\* it is due, as the bulk lane has room (SendBudget).
Tick ==
  /\ GoesOn
  /\ \A g \in Gates : gate[g].fetch.on \/ gate[g].needs = {} \/ Open(g)
  /\ \A g \in Gates : gate[g].fetch.on => gate[g].fetch.age < RoundTimeout
  /\ send.at \in {"asking", "answered"} => send.age < SendTimeout
  /\ row.state = "pending" => row.due > -MaxLag
  /\ seen' = [t \in Topics |-> [a \in Answers |-> IF a = core[t] THEN 0 ELSE Until(seen[t][a], Far + 1)]]
  /\ cache' = [t \in Topics |-> IF Fresh(t) /\ cache[t].age + 1 < TTL
                                 THEN [cache[t] EXCEPT !.age = @ + 1] ELSE Unknown]
  /\ gate' = [g \in Gates |-> [gate[g] EXCEPT !.open = Later(@ - 1, 0),
                                              !.fetch.age = IF gate[g].fetch.on THEN @ + 1 ELSE 0]]
  /\ send' = IF send.at \in {"asking", "answered"} THEN [send EXCEPT !.age = @ + 1] ELSE send
  /\ row' = IF row.state = "pending" THEN [row EXCEPT !.due = @ - 1, !.age = Until(@, UndecidedAfter)]
            ELSE IF row.state = "taken" THEN [row EXCEPT !.age = Until(@, UndecidedAfter)] ELSE row
  /\ UNCHANGED <<core, changes, typeRequired, out, restarts>>

\* SkyMail's own record: the address is put in mail_unsubscribes, or the row
\* found and locked there is deleted. Both again are no change.
InsertUnsubscribe == ~out /\ out' = TRUE
DeleteUnsubscribe == out /\ out' = FALSE

\* The link's page, and an operator who reverses it.
Unsubscribe ==
  /\ GoesOn /\ changes < MaxChanges
  /\ InsertUnsubscribe
  /\ changes' = changes + 1
  /\ UNCHANGED <<core, seen, typeRequired, cache, gate, send, row, restarts>>

Resubscribe ==
  /\ GoesOn /\ changes < MaxChanges
  /\ DeleteUnsubscribe
  /\ changes' = changes + 1
  /\ UNCHANGED <<core, seen, typeRequired, cache, gate, send, row, restarts>>

\* An operator makes the notification's type required, or optional.
PutType ==
  /\ GoesOn /\ changes < MaxChanges /\ row.kind = "notification"
  /\ typeRequired' = ~typeRequired
  /\ changes' = changes + 1
  /\ UNCHANGED <<core, seen, cache, gate, send, row, out, restarts>>
-----------------------------------------------------------------------------
(* Queueing a send. *)

Remembered(answer) ==
  IF answer = "gone" THEN cache ELSE [cache EXCEPT !["verdict"] = [answer |-> answer, age |-> 0]]

AskBeforeSend ==
  /\ row.state = "none" /\ send.at = "idle" /\ "verdict" \in Asked(row.kind)
  /\ send' = [NoSend EXCEPT !.at = "asking"]
  /\ UNCHANGED <<world, cache, gate, row, out, restarts>>

CoreAnswersSend ==
  /\ send.at = "asking"
  /\ send' = [send EXCEPT !.at = "answered", !.answer = core["verdict"]]
  /\ UNCHANGED <<world, cache, gate, row, out, restarts>>

\* Every page is answered: what core said is remembered, as said now.
SendResolved ==
  /\ send.at = "answered" /\ send.answer # "gone"
  /\ send' = [send EXCEPT !.at = "resolved", !.age = 0]
  /\ cache' = Remembered(send.answer)
  /\ UNCHANGED <<world, gate, row, out, restarts>>

\* ErrPreferenceUnavailable, ErrPreferenceCategoryUnknown: nothing is queued.
SendRefused ==
  /\ send.at = "asking" \/ (send.at = "answered" /\ send.answer = "gone")
  /\ send' = NoSend
  /\ UNCHANGED <<world, cache, gate, row, out, restarts>>

RequiredNotification == row.kind = "notification" /\ typeRequired

\* required is history: was its type required when the mail was asked for?
Queued(link, checked) ==
  row' = [row EXCEPT !.state = "pending", !.link = link, !.checked = checked, !.required = RequiredNotification]

\* A row written failed at once: nothing is tried.
QueuedFailed(why) == row' = [row EXCEPT !.state = why]

QueueUnsubscribed == out /\ QueuedFailed("unsubscribed")

\* renderAndQueue, after what ResolvePreferences said. A recipient that brings
\* its link was not asked about, nor one of an internal list that changed since
\* it was read, and that has no link. checked is that core is asked again: it
\* gave a verdict, or the row knows its person. A notification of an optional
\* type is refused without its link, one of a required type with one; a change
\* of the type between that look and the row is as one after the row.
QueueSend ==
  /\ row.state = "none"
  /\ IF "verdict" \in Asked(row.kind)
     THEN /\ send.at = "resolved"
          /\ \/ QueueUnsubscribed
             \/ ~out /\ send.answer = "no" /\ QueuedFailed("held")
             \/ ~out /\ send.answer \in {"yes", "none"} /\ Queued(TRUE, send.answer = "yes")
             \/ ~out /\ \E brings, known \in BOOLEAN : Queued(brings, known)
     ELSE QueueUnsubscribed \/ (~out /\ Queued(row.kind = "notification" /\ ~typeRequired, FALSE))
  /\ send' = NoSend
  /\ UNCHANGED <<world, cache, gate, out, restarts>>
-----------------------------------------------------------------------------
(* The take: skipUnsubscribed, gateConsents and gatePreferences in the      *)
(* transaction of ProcessBulkQueueItems. A verdict of a gate is go, held,   *)
(* unsubscribe_missing or wait; only a row that may go on meets the next.   *)

Says(t, answer) == Fresh(t) /\ cache[t].answer = answer

AnnouncementVerdict ==
  IF Says("account", "yes") \/ Says("invited", "yes") THEN "go"
  ELSE IF Says("account", "no") /\ Says("invited", "no") THEN "held" ELSE "wait"

PromotionalVerdict ==
  IF Says("promotional", "yes") THEN "go" ELSE IF Says("promotional", "no") THEN "held" ELSE "wait"

ConsentVerdict ==
  IF ~Gated(row.kind, "consent") THEN "go"
  ELSE IF row.kind = "announcement" THEN AnnouncementVerdict ELSE PromotionalVerdict

\* A promotional row that consent lets go has its withdraw link from then on.
HasLink ==
  row.link \/ (Gated(row.kind, "consent") /\ row.kind # "announcement" /\ ConsentVerdict = "go")

CoreVerdict ==
  IF ~row.checked \/ \E a \in {"yes", "none"} : Says("verdict", a) THEN "go"
  ELSE IF Fresh("verdict") THEN "held" ELSE "wait"

PreferenceVerdict_AnyNotification ==
  IF ~Gated(row.kind, "preference") THEN "go"
  ELSE IF ~HasLink /\ row.kind # "notification" THEN "unsubscribe_missing" ELSE CoreVerdict
PreferenceVerdict_AsQueued ==
  IF ~Gated(row.kind, "preference") THEN "go"
  ELSE IF ~HasLink /\ ~RequiredNotification THEN "unsubscribe_missing" ELSE "go"
\* A self test is left alone; a notification whose type is required by now may
\* carry no link at all.
PreferenceVerdict ==
  IF ~Gated(row.kind, "preference") THEN "go"
  ELSE IF ~HasLink /\ ~RequiredNotification THEN "unsubscribe_missing" ELSE CoreVerdict

\* What a waiting row needs core to say.
Needed(g) ==
  IF g = "preference" THEN {"verdict"}
  ELSE IF row.kind = "announcement" THEN {t \in {"invited", "account"} : ~Fresh(t)} ELSE {"promotional"}

\* deferWaiting.
Deferred_NoGivingUp(g) ==
  [row EXCEPT !.link = HasLink, !.due = IF Open(g) THEN Backoff[row.age] ELSE FetchDelay]
Deferred(g) ==
  LET r == [row EXCEPT !.link = HasLink] IN
  IF ~Open(g) THEN [r EXCEPT !.due = FetchDelay]
  ELSE IF row.age >= UndecidedAfter THEN [r EXCEPT !.state = "undecided"]
  ELSE [r EXCEPT !.due = Backoff[row.age]]

Waits(g) ==
  /\ row' = Deferred(g)
  /\ gate' = [gate EXCEPT ![g].needs = @ \union Needed(g)]

Ends(state) == row' = [row EXCEPT !.state = state] /\ UNCHANGED gate
UnsubscribedClaimed == out
SkipClaimed == Ends("unsubscribed")
SkipUnsubscribed == UnsubscribedClaimed /\ SkipClaimed
WritePreferenceHeld == PreferenceVerdict \in {"held", "unsubscribe_missing"} /\ Ends(PreferenceVerdict)
Goes == row' = [row EXCEPT !.state = "taken", !.link = HasLink] /\ UNCHANGED gate

Take ==
  /\ row.state = "pending" /\ row.due <= 0
  /\ \/ SkipUnsubscribed
     \/ ~out /\ ConsentVerdict = "held" /\ Ends("held")
     \/ ~out /\ ConsentVerdict = "wait" /\ Waits("consent")
     \/ ~out /\ ConsentVerdict = "go" /\ PreferenceVerdict = "wait" /\ Waits("preference")
     \/ ~out /\ ConsentVerdict = "go" /\ WritePreferenceHeld
     \/ ~out /\ ConsentVerdict = "go" /\ PreferenceVerdict = "go" /\ Goes
  /\ UNCHANGED <<world, cache, send, out, restarts>>

GivesUp == row.tries + 1 >= MaxTries

\* What MailQueue and TaskControl say of a taken row: it is sent, or put back.
SendRow ==
  /\ row.state = "taken"
  /\ \/ row' = [row EXCEPT !.state = "sent"]
     \/ GivesUp /\ row' = [row EXCEPT !.state = "failed"]
     \/ ~GivesUp /\ row' = [row EXCEPT !.state = "pending", !.tries = @ + 1, !.due = 1]
  /\ UNCHANGED <<world, cache, gate, send, out, restarts>>
-----------------------------------------------------------------------------
(* The fetch after a turn, outside its transaction. *)

StartFetch(g) ==
  /\ GoesOn /\ ~gate[g].fetch.on /\ gate[g].needs # {} /\ ~Open(g)
  /\ gate' = [gate EXCEPT ![g].needs = {}, ![g].fetch = [NoFetch EXCEPT !.on = TRUE, !.left = gate[g].needs]]
  /\ UNCHANGED <<world, cache, send, row, out, restarts>>

\* Core is asked one topic after the other: promotional, invited, account.
NextTopic(left) ==
  CHOOSE t \in left : \/ t \in {"promotional", "verdict"}
                      \/ t = "invited" /\ "promotional" \notin left
                      \/ left = {"account"}

CoreAnswers(g) ==
  LET f == gate[g].fetch IN
  /\ GoesOn /\ f.on /\ f.asked = "none" /\ f.left # {}
  /\ LET t == NextTopic(f.left) IN
     gate' = [gate EXCEPT ![g].fetch = [f EXCEPT !.asked = t, !.left = @ \ {t}, !.answer = core[t]]]
  /\ UNCHANGED <<world, cache, send, row, out, restarts>>

\* An answer is as old as its arrival says it is.
Keep(t, answer) == [cache EXCEPT ![t] = [answer |-> answer, age |-> 0]]

AnswerArrives(g) ==
  LET f == gate[g].fetch IN
  /\ GoesOn /\ f.on /\ f.asked # "none"
  /\ cache' = Keep(f.asked, f.answer)
  /\ gate' = [gate EXCEPT ![g].fetch = IF f.left = {} THEN NoFetch
                                       ELSE [@ EXCEPT !.asked = "none", !.answer = "none"]]
  /\ UNCHANGED <<world, send, row, out, restarts>>

\* Core does not answer in time, or not as its contract says: what was asked
\* before is kept, the rest is not, and core is left alone for a while.
FetchFails_AsNobody(g) ==
  LET f == gate[g].fetch IN
  /\ GoesOn /\ f.on
  /\ cache' = [t \in Topics |-> IF t \in f.left \/ t = f.asked THEN [answer |-> "no", age |-> 0] ELSE cache[t]]
  /\ gate' = [gate EXCEPT ![g].fetch = NoFetch, ![g].open = BreakerOpen]
  /\ UNCHANGED <<world, send, row, out, restarts>>

FetchFails(g) ==
  /\ GoesOn /\ gate[g].fetch.on
  /\ gate' = [gate EXCEPT ![g].fetch = NoFetch, ![g].open = BreakerOpen]
  /\ UNCHANGED <<world, cache, send, row, out, restarts>>

\* The process goes and comes back: its caches are empty, its send is lost, and
\* a row it held is put back (MailQueue).
Restart ==
  /\ GoesOn /\ restarts < MaxRestarts
  /\ restarts' = restarts + 1
  /\ cache' = [t \in Topics |-> Unknown]
  /\ gate' = [g \in Gates |-> [open |-> 0, needs |-> {}, fetch |-> NoFetch]]
  /\ send' = NoSend
  /\ row' = IF row.state = "taken" THEN [row EXCEPT !.state = "pending", !.due = 1] ELSE row
  /\ UNCHANGED <<world, out>>

Fetch(g) == CoreAnswers(g) \/ AnswerArrives(g) \/ FetchFails(g)
Sending == AskBeforeSend \/ CoreAnswersSend \/ SendResolved \/ SendRefused \/ QueueSend

Next ==
  \/ CoreChanges \/ Tick \/ Unsubscribe \/ Resubscribe \/ PutType
  \/ AskBeforeSend \/ CoreAnswersSend \/ SendResolved \/ SendRefused \/ QueueSend
  \/ Take \/ SendRow \/ Restart
  \/ \E g \in Gates : StartFetch(g) \/ CoreAnswers(g) \/ AnswerArrives(g) \/ FetchFails(g)

Fairness ==
  /\ WF_vars(Tick) /\ WF_vars(Take) /\ WF_vars(SendRow)
  /\ WF_vars(AskBeforeSend \/ CoreAnswersSend \/ SendResolved \/ SendRefused)
  /\ \A g \in Gates : WF_vars(StartFetch(g)) /\ WF_vars(Fetch(g))

Spec == Init /\ [][Next]_vars /\ Fairness
-----------------------------------------------------------------------------
TypeOK ==
  /\ core \in [Topics -> Answers] /\ changes \in 0..MaxChanges /\ restarts \in 0..MaxRestarts
  /\ typeRequired \in BOOLEAN
  /\ seen \in [Topics -> [Answers -> 0..Far + 1]]
  /\ cache \in [Topics -> [answer : Answers, age : 0..TTL]]
  /\ gate \in [Gates -> [open : 0..BreakerOpen, needs : SUBSET Topics,
                         fetch : [on : BOOLEAN, left : SUBSET Topics, asked : Topics \union {"none"},
                                  answer : Answers, age : 0..RoundTimeout]]]
  /\ send \in [at : {"idle", "asking", "answered", "resolved"}, answer : Answers, age : 0..SendTimeout]
  /\ row \in [state : RowState, kind : Kinds, link : BOOLEAN, checked : BOOLEAN, required : BOOLEAN,
              due : Int, age : 0..UndecidedAfter, tries : 0..MaxTries - 1]
  /\ out \in BOOLEAN

\* How old what core said may be when a row is decided: the cache's TTL, and
\* however long the answer took to come.
Said(t, answers, timeout) == \E a \in answers : seen[t][a] <= TTL - 1 + timeout

Consented ==
  CASE row.kind \in {"promotional", "promotional to a person"} -> Said("promotional", {"yes"}, RoundTimeout)
    [] row.kind = "announcement" -> Said("account", {"yes"}, RoundTimeout) \/ Said("invited", {"yes"}, RoundTimeout)
    [] OTHER -> TRUE

Refused ==
  \/ Gated(row.kind, "consent") /\ row.kind # "announcement" /\ Said("promotional", {"no"}, RoundTimeout)
  \/ row.kind = "announcement" /\ Said("account", {"no"}, RoundTimeout) /\ Said("invited", {"no"}, RoundTimeout)
  \/ Gated(row.kind, "preference") /\ Said("verdict", {"no", "gone"}, SendTimeout)

\* Nobody is sent a bulk mail they have left, and nobody misses one core never
\* held back. When a row is taken, at its first try or a later one, core let it
\* go that recently at most, and SkyMail's own record does not have the
\* address; a row held at its take was refused that recently, and silence is
\* never read as a no.
DecidedAsAnswered ==
  [][row.state = "pending" =>
       /\ row'.state = "taken" =>
            /\ ~out /\ Consented
            /\ row.checked => Said("verdict", {"yes", "none"}, SendTimeout)
       /\ row'.state = "held" => Refused]_vars

\* While the preference check is on, a bulk mail goes without its way out only to
\* its own sender, as a test, or as a notification whose type was required both
\* when its mail was asked for and when its row was taken: making the type
\* required or optional in between lets none through. Nor is one of these ended
\* for want of a link, or one that has its link, or gets it with its consent.
NoLinkOnlyIfRequired ==
  [][row.state = "pending" /\ CheckOn(row.kind) =>
       /\ row'.state = "taken" /\ ~row'.link => row.kind = "self test" \/ (row.required /\ typeRequired)
       /\ row'.state = "unsubscribe_missing" =>
            /\ ~row.link /\ row.kind \notin {"self test", "promotional to a person"}
            /\ ~(row.required /\ typeRequired)]_vars

\* Every queued row ends, whatever core does, answers nothing at all included.
EveryRowDecided == (row.state = "pending") ~> (row.state \in Final)
=============================================================================
