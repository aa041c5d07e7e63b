--------------------------- MODULE Notifications ---------------------------
(* Notifications and the inbox (internal/handlers/notification.go,          *)
(* inbox.go). core posts a notification with an idempotency key and posts   *)
(* it again when it got no answer; each request looks for the key, then for *)
(* the type, its texts and the people, and then queues the mail, writes the *)
(* inbox items and the answer in one transaction that first claims the key: *)
(* the claim waits for another one's transaction and finds the key taken if *)
(* that commits. Every retry is answered with the first answer. A person    *)
(* marks their items, and a sweep deletes those past their time. One caller *)
(* and one key.                                                             *)
EXTENDS Naturals

CONSTANTS
  Requests,   \* requests with the key
  Bodies,     \* requestSHA256 of what they ask for
  Readers,    \* the people told
  NoRequest,  \* the key is not used
  Kept,       \* the ninety days, in ticks
  MaxDay      \* bound: the clock stops here

ASSUME NoteAssumption ==
  /\ NoRequest \notin Requests /\ Bodies # {}
  /\ Kept \in Nat \ {0} /\ MaxDay \in Nat

VARIABLES
  kind,     \* notification_types.default_channels, the inbox text with it
  asked,    \* each request: where it is and what it found so far
  key,      \* the request whose transaction wrote the key's row
  mails,    \* requests whose mail task is committed
  inbox,    \* inbox_items, by person
  day

noteVars == <<kind, asked, key, mails, inbox, day>>

Channels == {"email", "inbox"}
AnyBody == CHOOSE b \in Bodies: TRUE   \* until the request comes
NoItem == [there |-> FALSE, seen |-> FALSE, read |-> FALSE, archived |-> FALSE, expires |-> 0]

NoteTypeOK ==
  /\ kind \in (SUBSET Channels) \ {{}}
  /\ asked \in [Requests -> [at: {"idle", "received", "looking", "reading", "ready", "claimed", "done"},
                             body: Bodies, channels: SUBSET Channels,
                             status: {0, 201, 409, 422, 503}, answer: Requests \cup {NoRequest}]]
  /\ key \in Requests \cup {NoRequest}
  /\ mails \in SUBSET Requests
  /\ inbox \in [Readers -> [there: BOOLEAN, seen: BOOLEAN, read: BOOLEAN, archived: BOOLEAN, expires: Nat]]
  /\ day \in Nat

NoteInit ==
  /\ kind = Channels
  /\ asked = [n \in Requests |-> [at |-> "idle", body |-> AnyBody, channels |-> {}, status |-> 0,
                                  answer |-> NoRequest]]
  /\ key = NoRequest /\ mails = {} /\ inbox = [r \in Readers |-> NoItem]
  /\ day = 0

-----------------------------------------------------------------------------
(* A request.                                                               *)

To(n, at) == asked' = [asked EXCEPT ![n].at = at]
Answer(n, status, first) ==
  asked' = [asked EXCEPT ![n].at = "done", ![n].channels = {}, ![n].status = status, ![n].answer = first]

ReceiveRequest(n) ==
  /\ asked[n].at = "idle"
  /\ \E b \in Bodies: asked' = [asked EXCEPT ![n].at = "received", ![n].body = b]
  /\ UNCHANGED <<kind, key, mails, inbox, day>>

\* replay: the first answer again, or 422 for another request.
Replay(n) == IF asked[n].body = asked[key].body THEN Answer(n, 201, key) ELSE Answer(n, 422, NoRequest)

\* The key is looked for before anything else.
LookUpKey(n) ==
  /\ asked[n].at = "received"
  /\ IF key # NoRequest THEN Replay(n) ELSE To(n, "looking")
  /\ UNCHANGED <<kind, key, mails, inbox, day>>

\* GetNotificationType, then each channel's text: the type may be stated anew
\* in between, and a text that is gone is 409.
ReadType(n) ==
  /\ asked[n].at = "looking"
  /\ asked' = [asked EXCEPT ![n].at = "reading", ![n].channels = kind]
  /\ UNCHANGED <<kind, key, mails, inbox, day>>

ReadTexts(n) ==
  /\ asked[n].at = "reading"
  /\ IF "inbox" \in asked[n].channels \ kind THEN Answer(n, 409, NoRequest) ELSE To(n, "ready")
  /\ UNCHANGED <<kind, key, mails, inbox, day>>

\* Keycloak does not answer for a person without an address: nothing is
\* queued. Also where the process dies.
GiveUp(n) ==
  /\ asked[n].at \in {"looking", "reading", "ready", "claimed"}
  /\ Answer(n, 503, NoRequest)
  /\ UNCHANGED <<kind, key, mails, inbox, day>>

\* InsertNotification: another's open transaction is waited for.
Claimable_Twice == TRUE
Claimable == key = NoRequest /\ \A m \in Requests: asked[m].at # "claimed"

Claim(n) ==
  /\ asked[n].at = "ready" /\ Claimable
  /\ To(n, "claimed")
  /\ UNCHANGED <<kind, key, mails, inbox, day>>

\* The key was committed meanwhile: the transaction is undone and answered
\* as a retry is.
ClaimTaken(n) ==
  /\ asked[n].at = "ready" /\ key # NoRequest
  /\ Replay(n)
  /\ UNCHANGED <<kind, key, mails, inbox, day>>

InboxWith(told, expires) ==
  [r \in Readers |-> IF r \notin told \/ inbox[r].there THEN inbox[r]
                     ELSE [NoItem EXCEPT !.there = TRUE, !.expires = expires]]

\* The whole transaction: the mail, the items, the answer. In each channel those
\* not allowed or without an address are skipped, everyone perhaps.
Commit(n) ==
  /\ asked[n].at = "claimed"
  /\ key' = n
  /\ \E used \in SUBSET asked[n].channels, told \in SUBSET Readers:
       /\ mails' = IF "email" \in used THEN mails \cup {n} ELSE mails
       /\ \E sooner \in 0 .. Kept:   \* expires_at, where the notification gives one
            inbox' = IF "inbox" \in used THEN InboxWith(told, day + sooner) ELSE inbox
  /\ Answer(n, 201, n)
  /\ UNCHANGED <<kind, day>>

\* PutType, by the Template seed: the type is written over, and its inbox text
\* with it, or deleted.
UpsertNotificationType(channels) == kind' = channels
PutType ==
  /\ \E channels \in (SUBSET Channels) \ {{}}: UpsertNotificationType(channels)
  /\ UNCHANGED <<asked, key, mails, inbox, day>>

-----------------------------------------------------------------------------
(* The inbox.                                                               *)

Shown(i) == i.there /\ i.expires > day

Marked(i, mark) ==
  CASE mark = "seen"     -> [i EXCEPT !.seen = TRUE]
    [] mark = "read"     -> [i EXCEPT !.seen = TRUE, !.read = TRUE]
    [] mark = "unread"   -> [i EXCEPT !.read = FALSE]
    [] mark = "archived" -> [i EXCEPT !.archived = TRUE]

Marks == {"seen", "read", "unread", "archived"}
MarkInboxItem(r) ==
  /\ Shown(inbox[r])
  /\ \E mark \in Marks: inbox' = [inbox EXCEPT ![r] = Marked(@, mark)]
  /\ UNCHANGED <<kind, asked, key, mails, day>>

MarksOfAll == {"seen", "read"}
Unarchived(r) == Shown(inbox[r]) /\ ~inbox[r].archived
MarkAllInboxItems(r) ==
  /\ Unarchived(r)
  /\ \E mark \in MarksOfAll: inbox' = [inbox EXCEPT ![r] = Marked(@, mark)]
  /\ UNCHANGED <<kind, asked, key, mails, day>>

\* The sweep, hour after hour: a run ends with a short batch and
\* leaves the rows a mark has locked to the next.
DeleteExpiredInbox ==
  /\ \E gone \in (SUBSET {r \in Readers: inbox[r].there /\ inbox[r].expires <= day}) \ {{}}:
       inbox' = [r \in Readers |-> IF r \in gone THEN NoItem ELSE inbox[r]]
  /\ UNCHANGED <<kind, asked, key, mails, day>>

DayPasses == day < MaxDay /\ day' = day + 1 /\ UNCHANGED <<kind, asked, key, mails, inbox>>

NoteNext ==
  \/ \E n \in Requests: ReceiveRequest(n) \/ LookUpKey(n) \/ ReadType(n) \/ ReadTexts(n) \/ GiveUp(n)
                          \/ Claim(n) \/ ClaimTaken(n) \/ Commit(n)
  \/ \E r \in Readers: MarkInboxItem(r) \/ MarkAllInboxItems(r)
  \/ PutType \/ DeleteExpiredInbox \/ DayPasses

NoteSpec == NoteInit /\ [][NoteNext]_noteVars

(* However often core asks and however its requests meet, one mail task at  *)
(* most is queued and every request answered 201 has the first one's answer *)
(* to its own body (notification.go, "answers the first answer again ...    *)
(* and queues nothing; a different request with it is 422").                *)
OneAnswerPerKey ==
  /\ mails \subseteq {key}
  /\ \A n \in Requests:
       asked[n].status = 201 => asked[n].answer = key /\ key \in Requests /\ asked[n].body = asked[key].body
=============================================================================
