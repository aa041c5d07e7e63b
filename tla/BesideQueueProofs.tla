-------------------------- MODULE BesideQueueProofs ---------------------------
(***************************************************************************)
(* What stands beside the queue, proved for every number of calls, people, *)
(* requests, workers, tokens, operators and seeds: no dropped token comes  *)
(* back, a notification's key has one answer, a Forms source has one whole *)
(* target, a News record's mail goes to a mailbox once, test mails are few *)
(* and a template's live mail is whole, with credentials hidden and        *)
(* nobody's work passed over or reverted unseen. Each part is proved on    *)
(* its own specification; the last section is the composition the runs     *)
(* check.                                                                  *)
(***************************************************************************)
EXTENDS BesideQueue, FiniteSetTheorems, SequenceTheorems, TLAPS

-----------------------------------------------------------------------------
(* Microsoft tokens.                                                        *)

TokenPlaces == {"idle", "asked", "waiting", "holding", "requesting", "failed", "has", "refused"}

\* A token is dropped out of the cache for good, and a caller holds one that
\* was in the cache since it asked.
TokenInv ==
  /\ TokenTypeOK
  /\ cache.token \notin dropped
  /\ \A c \in Senders :
       /\ asking[c].known \subseteq dropped
       /\ asking[c].at \in {"has", "failed", "refused"} => asking[c].token \in 1..issued
       /\ asking[c].at \in {"has", "failed"} => asking[c].token \notin asking[c].known

LEMMA TokenStart == TokenInit => TokenInv
BY TokenAssumption DEF TokenInit, TokenInv, TokenTypeOK, Empty, AtRest, NoToken, Tokens

\* What is served was fetched and has not been dropped.
LEMMA CachedIsIssued ==
  ASSUME TokenInv, NEW left \in Nat, Cached(left)
  PROVE  cache.token \in 1..issued /\ cache.token \notin dropped
BY DEF TokenInv, TokenTypeOK, Cached, NoToken

LEMMA ServedIsIssued ==
  ASSUME TokenInv, Serves
  PROVE  cache.token \in 1..issued /\ cache.token \notin dropped
BY CachedIsIssued, TokenAssumption DEF Serves

LEMMA TokenStep == TokenInv /\ [TokenNext]_tokenVars => TokenInv'
<1> SUFFICES ASSUME TokenInv, [TokenNext]_tokenVars PROVE TokenInv'  OBVIOUS
<1> USE TokenAssumption
<1> USE DEF TokenInv, TokenTypeOK, TokenPlaces
<1>1. ASSUME NEW c \in Senders, Ask(c) PROVE TokenInv'
  <2>1. CASE Serves
    <3>1. cache.token \in 1..issued /\ cache.token \notin dropped  BY <2>1, ServedIsIssued
    <3> QED BY <1>1, <2>1, <3>1 DEF Ask, world, Tokens
  <2>2. CASE ~Serves
    BY <1>1, <2>2 DEF Ask, world, Tokens, NoToken
  <2> QED BY <2>1, <2>2
<1>2. ASSUME NEW c \in Senders, TryFetching(c) PROVE TokenInv'
  <2>1. CASE fetching = Nobody
    BY <1>2, <2>1 DEF TryFetching, Moves, world
  <2>2. CASE fetching # Nobody /\ Cached(MinLeft)
    <3>1. cache.token \in 1..issued /\ cache.token \notin dropped  BY <2>2, CachedIsIssued
    <3> QED BY <1>2, <2>2, <3>1 DEF TryFetching, Gets, world
  <2>3. CASE fetching # Nobody /\ ~Cached(MinLeft)
    BY <1>2, <2>3 DEF TryFetching, Moves, world
  <2> QED BY <2>1, <2>2, <2>3
<1>3. ASSUME NEW c \in Senders, Acquire(c) PROVE TokenInv'
  BY <1>3 DEF Acquire, Moves, world
<1>4. ASSUME NEW c \in Senders, StopWaiting(c) PROVE TokenInv'
  BY <1>4 DEF StopWaiting, Ends, AtRest, NoToken, world
<1>5. ASSUME NEW c \in Senders, LookAgain(c) PROVE TokenInv'
  <2>1. CASE Serves
    <3>1. cache.token \in 1..issued /\ cache.token \notin dropped  BY <2>1, ServedIsIssued
    <3> QED BY <1>5, <2>1, <3>1 DEF LookAgain, Gets, Releases, world
  <2>2. CASE ~Serves
    BY <1>5, <2>2 DEF LookAgain, Moves, world
  <2> QED BY <2>1, <2>2
<1>6. ASSUME NEW c \in Senders, Fetched(c) PROVE TokenInv'
  <2>1. issued + 1 \notin dropped /\ issued' = issued + 1 /\ issued' \in 0..MaxTokens  BY <1>6 DEF Fetched
  <2>2. cache' \in [token: 0..issued', left: Nat] /\ cache'.token \notin dropped'  BY <1>6, <2>1 DEF Fetched
  <2> QED BY <1>6, <2>1, <2>2 DEF Fetched, Gets, Releases
<1>7. ASSUME NEW c \in Senders, FetchFailed(c) PROVE TokenInv'
  <2>1. CASE Cached(MinLeft)
    <3>1. cache.token \in 1..issued /\ cache.token \notin dropped  BY <2>1, CachedIsIssued
    <3> QED BY <1>7, <2>1, <3>1 DEF FetchFailed, world
  <2>2. CASE ~Cached(MinLeft)
    BY <1>7, <2>2 DEF FetchFailed, Ends, Releases, AtRest, NoToken, world
  <2> QED BY <2>1, <2>2
<1>8. ASSUME NEW c \in Senders, BackOff(c) PROVE TokenInv'
  <2>1. /\ asking' \in [Senders -> [at: TokenPlaces, token: 0..issued, known: SUBSET Tokens]]
        /\ \A d \in Senders \ {c} : asking'[d] = asking[d]
        /\ asking'[c].at = "has" /\ asking'[c].token = asking[c].token /\ asking'[c].known = asking[c].known
    BY <1>8 DEF BackOff, Gets
  <2>2. fetching = c /\ fetching' = Nobody /\ retry' = Backoff /\ UNCHANGED <<scope, cache, issued, refused, dropped>>
    BY <1>8 DEF BackOff, Releases, world
  <2> QED BY <1>8, <2>1, <2>2 DEF BackOff
<1>9. ASSUME NEW c \in Senders, SendGraph(c) PROVE TokenInv'
  BY <1>9 DEF SendGraph, Moves, Ends, AtRest, NoToken, world
<1>10. ASSUME NEW c \in Senders, SendXOAUTH2(c) PROVE TokenInv'
  BY <1>10 DEF SendXOAUTH2, Moves, Ends, AtRest, NoToken, world
<1>11. ASSUME NEW c \in Senders, Invalidate(c) PROVE TokenInv'
  <2>1. asking[c].token \in 1..issued  BY <1>11 DEF Invalidate
  <2>2. cache' \in [token: 0..issued, left: Nat] /\ cache'.token \notin dropped'
    BY <1>11, <2>1 DEF Invalidate, Drops, Empty, NoToken, world
  <2>3. /\ asking' \in [Senders -> [at: TokenPlaces, token: 0..issued, known: SUBSET Tokens]]
        /\ \A d \in Senders \ {c} : asking'[d] = asking[d]
        /\ asking'[c] = AtRest
    BY <1>11 DEF Invalidate, Ends, AtRest, NoToken
  <2>4. /\ dropped' \subseteq 1..issued /\ dropped \subseteq dropped'
        /\ fetching # c /\ UNCHANGED <<scope, retry, fetching, issued, refused>>
    BY <1>11, <2>1 DEF Invalidate, world
  <2>5. TokenTypeOK'  BY <2>2, <2>3, <2>4 DEF AtRest
  <2>6. asking'[c].known \subseteq dropped' /\ asking'[c].at = "idle"  BY <2>3 DEF AtRest
  <2>7. \A d \in Senders \ {c} : asking'[d].known \subseteq dropped'  BY <2>3, <2>4
  <2> QED BY <2>2, <2>3, <2>4, <2>5, <2>6, <2>7
<1>12. CASE Revoke
  BY <1>12 DEF Revoke
<1>13. CASE TokenTick
  BY <1>13 DEF TokenTick, Down, world
<1>14. CASE UNCHANGED tokenVars
  BY <1>14 DEF tokenVars
<1> QED BY <1>1, <1>2, <1>3, <1>4, <1>5, <1>6, <1>7, <1>8, <1>9, <1>10, <1>11, <1>12, <1>13, <1>14 DEF TokenNext

LEMMA TokenInvariant == TokenSpec => []TokenInv
<1>1. TokenInit => TokenInv  BY TokenStart
<1>2. TokenInv /\ [TokenNext]_tokenVars => TokenInv'  BY TokenStep
<1> QED BY <1>1, <1>2, PTL DEF TokenSpec

\* Every step keeps the source, its callers and its history in their types, and
\* one caller at most fetches.
THEOREM TokenTypes == TokenSpec => []TokenTypeOK
<1>1. TokenInv => TokenTypeOK  BY DEF TokenInv
<1> QED BY <1>1, TokenInvariant, PTL

\* A worker that asks after a token was dropped is never given it.
THEOREM NoDroppedTokenReturns == TokenSpec => []RefusedNotHandedOut
<1>1. TokenInv => RefusedNotHandedOut  BY DEF TokenInv, RefusedNotHandedOut
<1> QED BY <1>1, TokenInvariant, PTL

-----------------------------------------------------------------------------
(* Notifications.                                                            *)

NotePlaces == {"idle", "received", "looking", "reading", "ready", "claimed", "done"}
NoteStatuses == {0, 201, 409, 422, 503}
FirstAnswers == Requests \cup {NoRequest}
Asking == [at: NotePlaces, body: Bodies, channels: SUBSET Channels, status: NoteStatuses, answer: FirstAnswers]
Item == [there: BOOLEAN, seen: BOOLEAN, read: BOOLEAN, archived: BOOLEAN, expires: Nat]

LEMMA NoteNames ==
  /\ {"received", "looking", "reading", "ready", "claimed", "done"} \subseteq NotePlaces
  /\ {201, 409, 422, 503} \subseteq NoteStatuses
  /\ NoRequest \in FirstAnswers /\ Requests \subseteq FirstAnswers
BY DEF NotePlaces, NoteStatuses, FirstAnswers

\* What a request becomes in a step is a request again.
LEMMA StaysAt ==
  ASSUME NEW f \in [Requests -> Asking], NEW n \in Requests, NEW at \in NotePlaces
  PROVE  [f EXCEPT ![n].at = at] \in [Requests -> Asking]
BY DEF Asking

LEMMA StaysAsking ==
  ASSUME NEW f \in [Requests -> Asking], NEW n \in Requests, NEW at \in NotePlaces, NEW b \in Bodies
  PROVE  [f EXCEPT ![n].at = at, ![n].body = b] \in [Requests -> Asking]
<1>1. [f[n] EXCEPT !.at = at, !.body = b] \in Asking  BY DEF Asking
<1>2. [f EXCEPT ![n].at = at, ![n].body = b] = [f EXCEPT ![n] = [f[n] EXCEPT !.at = at, !.body = b]]  OBVIOUS
<1> QED BY <1>1, <1>2

LEMMA StaysReading ==
  ASSUME NEW f \in [Requests -> Asking], NEW n \in Requests, NEW at \in NotePlaces, NEW cs \in SUBSET Channels
  PROVE  [f EXCEPT ![n].at = at, ![n].channels = cs] \in [Requests -> Asking]
<1>1. [f[n] EXCEPT !.at = at, !.channels = cs] \in Asking  BY DEF Asking
<1>2. [f EXCEPT ![n].at = at, ![n].channels = cs] = [f EXCEPT ![n] = [f[n] EXCEPT !.at = at, !.channels = cs]]  OBVIOUS
<1> QED BY <1>1, <1>2

LEMMA AnswerGiven ==
  ASSUME asked \in [Requests -> Asking], NEW n \in Requests, NEW st \in NoteStatuses, NEW first \in FirstAnswers,
         Answer(n, st, first)
  PROVE  /\ asked' \in [Requests -> Asking]
         /\ asked'[n].at = "done" /\ asked'[n].status = st /\ asked'[n].answer = first
         /\ asked'[n].body = asked[n].body
         /\ \A m \in Requests \ {n} : asked'[m] = asked[m]
<1>1. "done" \in NotePlaces /\ {} \in SUBSET Channels  BY DEF NotePlaces
<1> DEFINE a == [asked[n] EXCEPT !.at = "done", !.channels = {}, !.status = st, !.answer = first]
<1>2. a \in Asking  BY <1>1 DEF Asking
<1>3. asked' = [asked EXCEPT ![n] = a]  BY DEF Answer
<1>4. a.at = "done" /\ a.status = st /\ a.answer = first /\ a.body = asked[n].body  BY DEF Asking
<1> HIDE DEF a
<1> QED BY <1>2, <1>3, <1>4

\* The key's row is written by the one transaction that claimed it, and who
\* wrote it is done: its body is the one every later request is compared with.
NoteInv ==
  /\ NoteTypeOK
  /\ mails \subseteq {key}
  /\ key \in Requests => asked[key].at = "done"
  /\ \A n \in Requests :
       /\ asked[n].status # 0 => asked[n].at = "done"
       /\ asked[n].at = "claimed" => key = NoRequest /\ \A m \in Requests : asked[m].at = "claimed" => m = n
       /\ asked[n].status = 201 => asked[n].answer = key /\ key \in Requests /\ asked[n].body = asked[key].body

LEMMA NoteStart == NoteInit => NoteInv
<1> SUFFICES ASSUME NoteInit PROVE NoteInv  OBVIOUS
<1>1. AnyBody \in Bodies  BY NoteAssumption DEF AnyBody
<1>2. asked \in [Requests -> Asking] /\ \A n \in Requests : asked[n].at = "idle" /\ asked[n].status = 0
  BY <1>1 DEF NoteInit, Asking, NotePlaces, NoteStatuses, FirstAnswers, Channels
<1>3. inbox \in [Readers -> Item]  BY DEF NoteInit, NoItem, Item
<1>4. kind \in (SUBSET Channels) \ {{}}  BY DEF NoteInit, Channels
<1>5. NoteTypeOK  BY <1>2, <1>3, <1>4 DEF NoteInit, NoteTypeOK, Asking, NotePlaces, NoteStatuses, FirstAnswers, Item
<1> QED BY <1>2, <1>5, NoteAssumption DEF NoteInit, NoteInv

\* A step that moves one request and touches nothing else of the key: to a
\* place that claims nothing, with an answer that is none of the key's or is it.
LEMMA OneRequestMoves ==
  ASSUME NoteInv, NEW n \in Requests, key # n,
         UNCHANGED <<kind, key, mails, inbox, day>>,
         asked' \in [Requests -> Asking],
         \A m \in Requests \ {n} : asked'[m] = asked[m],
         asked'[n].at # "claimed",
         asked'[n].status # 0 => asked'[n].at = "done",
         asked'[n].status = 201 =>
           asked'[n].answer = key /\ key \in Requests /\ asked'[n].body = asked[key].body
  PROVE  NoteInv'
BY NoteAssumption DEF NoteInv, NoteTypeOK, Asking, NotePlaces, NoteStatuses, FirstAnswers

\* A mark on one person's item.
LEMMA SomeMarked ==
  ASSUME NoteInv, NEW r \in Readers, NEW mark \in Marks, inbox' = [inbox EXCEPT ![r] = Marked(@, mark)],
         UNCHANGED <<kind, asked, key, mails, day>>
  PROVE  NoteInv'
<1>1. inbox[r] \in Item  BY DEF NoteInv, NoteTypeOK, Item
<1>2. Marked(inbox[r], mark) \in Item  BY <1>1 DEF Marked, Marks, Item
<1>3. inbox' \in [Readers -> Item]  BY <1>2 DEF NoteInv, NoteTypeOK, Item
<1> QED BY <1>3 DEF Item, NoteInv, NoteTypeOK

LEMMA NoteStep == NoteInv /\ [NoteNext]_noteVars => NoteInv'
<1> SUFFICES ASSUME NoteInv, [NoteNext]_noteVars PROVE NoteInv'  OBVIOUS
<1> USE NoteAssumption
<1>0. asked \in [Requests -> Asking]  BY DEF NoteInv, NoteTypeOK, Asking, NotePlaces, NoteStatuses, FirstAnswers
<1>1. ASSUME NEW n \in Requests, ReceiveRequest(n) PROVE NoteInv'
  <2>1. key # n  BY <1>1 DEF ReceiveRequest, NoteInv
  <2>2. PICK b \in Bodies : asked' = [asked EXCEPT ![n].at = "received", ![n].body = b]  BY <1>1 DEF ReceiveRequest
  <2>3. asked[n].status = 0  BY <1>1 DEF ReceiveRequest, NoteInv
  <2>4. asked' \in [Requests -> Asking]  BY <1>0, <2>2, NoteNames, StaysAsking
  <2>5. asked'[n].at = "received" /\ asked'[n].status = 0 /\ \A m \in Requests \ {n} : asked'[m] = asked[m]
    BY <1>0, <2>2, <2>3 DEF Asking
  <2>6. UNCHANGED <<kind, key, mails, inbox, day>>  BY <1>1 DEF ReceiveRequest
  <2> QED BY <2>1, <2>4, <2>5, <2>6, OneRequestMoves
<1>2. ASSUME NEW n \in Requests, key # NoRequest, key # n, Replay(n), UNCHANGED <<kind, key, mails, inbox, day>>
      PROVE NoteInv'
  <2>1. key \in Requests  BY <1>2 DEF NoteInv, NoteTypeOK
  <2>2. CASE asked[n].body = asked[key].body
    <3>1. 201 \in NoteStatuses /\ key \in FirstAnswers  BY <2>1, NoteNames
    <3>2. Answer(n, 201, key)  BY <1>2, <2>2 DEF Replay
    <3> QED BY <1>0, <1>2, <2>1, <2>2, <3>1, <3>2, AnswerGiven, OneRequestMoves
  <2>3. CASE asked[n].body # asked[key].body
    <3>1. 422 \in NoteStatuses /\ NoRequest \in FirstAnswers  BY NoteNames
    <3>2. Answer(n, 422, NoRequest)  BY <1>2, <2>3 DEF Replay
    <3> QED BY <1>0, <1>2, <3>1, <3>2, AnswerGiven, OneRequestMoves
  <2> QED BY <2>2, <2>3
<1>3. ASSUME NEW n \in Requests, asked[n].at # "done", NEW at \in {"looking", "reading", "ready"},
             NEW channels \in SUBSET Channels,
             asked' = [asked EXCEPT ![n].at = at, ![n].channels = channels], UNCHANGED <<kind, key, mails, inbox, day>>
      PROVE NoteInv'
  <2>1. key # n /\ asked[n].status = 0  BY <1>3 DEF NoteInv
  <2>2. asked' \in [Requests -> Asking]  BY <1>0, <1>3, NoteNames, StaysReading, ZenonT(30)
  <2>3. asked'[n].at = at /\ asked'[n].status = 0 /\ \A m \in Requests \ {n} : asked'[m] = asked[m]
    BY <1>0, <1>3, <2>1 DEF Asking
  <2> QED BY <1>3, <2>1, <2>2, <2>3, OneRequestMoves
<1>4. ASSUME NEW n \in Requests, asked[n].at # "done", NEW status \in {409, 503}, Answer(n, status, NoRequest),
             UNCHANGED <<kind, key, mails, inbox, day>>
      PROVE NoteInv'
  <2>1. key # n  BY <1>4 DEF NoteInv
  <2>2. status \in NoteStatuses /\ NoRequest \in FirstAnswers  BY NoteNames
  <2> QED BY <1>0, <1>4, <2>1, <2>2, AnswerGiven, OneRequestMoves
<1>5. ASSUME NEW n \in Requests, To(n, "looking") \/ To(n, "ready"), asked[n].at # "done",
             UNCHANGED <<kind, key, mails, inbox, day>>
      PROVE NoteInv'
  <2>1. key # n /\ asked[n].status = 0  BY <1>5 DEF NoteInv
  <2>2. PICK at \in {"looking", "ready"} : asked' = [asked EXCEPT ![n].at = at]  BY <1>5 DEF To
  <2>3. asked' \in [Requests -> Asking]  BY <1>0, <2>2, NoteNames, StaysAt
  <2>4. asked'[n].at = at /\ asked'[n].status = 0 /\ \A m \in Requests \ {n} : asked'[m] = asked[m]
    BY <1>0, <2>1, <2>2 DEF Asking
  <2> QED BY <1>5, <2>1, <2>3, <2>4, OneRequestMoves
<1>6. ASSUME NEW n \in Requests, LookUpKey(n) PROVE NoteInv'
  <2>1. key # n  BY <1>6 DEF LookUpKey, NoteInv
  <2> QED BY <1>2, <1>5, <1>6, <2>1 DEF LookUpKey
<1>7. ASSUME NEW n \in Requests, ReadType(n) PROVE NoteInv'
  <2>1. kind \in SUBSET Channels  BY DEF NoteInv, NoteTypeOK
  <2> QED BY <1>3, <1>7, <2>1 DEF ReadType
<1>8. ASSUME NEW n \in Requests, ReadTexts(n) PROVE NoteInv'
  BY <1>4, <1>5, <1>8 DEF ReadTexts
<1>9. ASSUME NEW n \in Requests, GiveUp(n) PROVE NoteInv'
  BY <1>4, <1>9 DEF GiveUp
<1>10. ASSUME NEW n \in Requests, Claim(n) PROVE NoteInv'
  <2>1. asked[n].status = 0  BY <1>10 DEF Claim, NoteInv
  <2>2. asked' = [asked EXCEPT ![n].at = "claimed"] /\ key = NoRequest /\ \A m \in Requests : asked[m].at # "claimed"
    BY <1>10 DEF Claim, Claimable, To
  <2>3. asked' \in [Requests -> Asking]  BY <1>0, <2>2, NoteNames, StaysAt
  <2>4. asked'[n].status = 0 /\ \A m \in Requests \ {n} : asked'[m] = asked[m]
    BY <1>0, <2>1, <2>2 DEF Asking
  <2>5. UNCHANGED <<kind, key, mails, inbox, day>>  BY <1>10 DEF Claim
  <2>6. NoteTypeOK'  BY <2>3, <2>5 DEF NoteInv, NoteTypeOK, Asking, NotePlaces, NoteStatuses, FirstAnswers
  <2> QED BY <2>2, <2>4, <2>5, <2>6 DEF NoteInv
<1>11. ASSUME NEW n \in Requests, ClaimTaken(n) PROVE NoteInv'
  <2>1. key # n  BY <1>11 DEF ClaimTaken, NoteInv
  <2> QED BY <1>2, <1>11, <2>1 DEF ClaimTaken
<1>12. ASSUME NEW n \in Requests, Commit(n) PROVE NoteInv'
  <2>1. key = NoRequest /\ mails = {} /\ \A m \in Requests : asked[m].at = "claimed" => m = n
    BY <1>12 DEF Commit, NoteInv, NoteTypeOK
  <2>2. \A m \in Requests : asked[m].status # 201  BY <2>1 DEF NoteInv
  <2>3. mails' \in {{}, {n}} /\ inbox' \in [Readers -> [there: BOOLEAN, seen: BOOLEAN, read: BOOLEAN, archived: BOOLEAN, expires: Nat]]
    <3>1. PICK used \in SUBSET asked[n].channels, told \in SUBSET Readers :
            /\ mails' = IF "email" \in used THEN mails \cup {n} ELSE mails
            /\ \E sooner \in 0 .. Kept : inbox' = IF "inbox" \in used THEN InboxWith(told, day + sooner) ELSE inbox
      BY <1>12 DEF Commit
    <3>2. PICK sooner \in 0 .. Kept : inbox' = IF "inbox" \in used THEN InboxWith(told, day + sooner) ELSE inbox
      BY <3>1
    <3>3. day + sooner \in Nat  BY DEF NoteInv, NoteTypeOK
    <3>4. [NoItem EXCEPT !.there = TRUE, !.expires = day + sooner] \in Item  BY <3>3 DEF NoItem, Item
    <3>5. InboxWith(told, day + sooner) \in [Readers -> Item]  BY <3>4 DEF InboxWith, NoteInv, NoteTypeOK, Item
    <3>6. mails' \in {{}, {n}}  BY <2>1, <3>1
    <3> QED BY <3>2, <3>5, <3>6 DEF Item, NoteInv, NoteTypeOK
  <2>4. key' = n /\ UNCHANGED <<kind, day>>  BY <1>12 DEF Commit
  <2>5. 201 \in NoteStatuses /\ n \in FirstAnswers /\ Answer(n, 201, n)  BY <1>12, NoteNames DEF Commit
  <2>6. /\ asked' \in [Requests -> Asking]
        /\ asked'[n].at = "done" /\ asked'[n].answer = n
        /\ \A m \in Requests \ {n} : asked'[m] = asked[m]
    BY <1>0, <2>5, AnswerGiven
  <2>7. NoteTypeOK'  BY <2>3, <2>4, <2>6 DEF NoteInv, NoteTypeOK, Asking, NotePlaces, NoteStatuses, FirstAnswers
  <2> QED BY <2>1, <2>2, <2>3, <2>4, <2>6, <2>7 DEF NoteInv, NoteTypeOK
<1>13. CASE PutType
  BY <1>13 DEF PutType, UpsertNotificationType, NoteInv, NoteTypeOK
<1>14. ASSUME NEW r \in Readers, MarkInboxItem(r) PROVE NoteInv'
  BY <1>14, SomeMarked DEF MarkInboxItem
<1>15. ASSUME NEW r \in Readers, MarkAllInboxItems(r) PROVE NoteInv'
  BY <1>15, SomeMarked DEF MarkAllInboxItems, MarksOfAll, Marks
<1>16. CASE DeleteExpiredInbox
  <2>1. inbox' \in [Readers -> Item]  BY <1>16 DEF DeleteExpiredInbox, NoItem, Item, NoteInv, NoteTypeOK
  <2> QED BY <1>16, <2>1 DEF DeleteExpiredInbox, Item, NoteInv, NoteTypeOK
<1>17. CASE DayPasses
  BY <1>17 DEF DayPasses, NoteInv, NoteTypeOK
<1>18. CASE UNCHANGED noteVars
  BY <1>18 DEF noteVars, NoteInv, NoteTypeOK
<1> QED BY <1>1, <1>6, <1>7, <1>8, <1>9, <1>10, <1>11, <1>12, <1>13, <1>14, <1>15, <1>16, <1>17, <1>18 DEF NoteNext

LEMMA NoteInvariant == NoteSpec => []NoteInv
<1>1. NoteInit => NoteInv  BY NoteStart
<1>2. NoteInv /\ [NoteNext]_noteVars => NoteInv'  BY NoteStep
<1> QED BY <1>1, <1>2, PTL DEF NoteSpec

\* Every step keeps the requests, the key's row, the mails and the inboxes in
\* their types.
THEOREM NoteTypes == NoteSpec => []NoteTypeOK
<1>1. NoteInv => NoteTypeOK  BY DEF NoteInv
<1> QED BY <1>1, NoteInvariant, PTL

\* However a notification's requests meet, one mail task at most is queued, and
\* each request answered 201 has the first one's answer to its own body.
THEOREM AnsweredOnce == NoteSpec => []OneAnswerPerKey
<1>1. NoteInv => OneAnswerPerKey  BY DEF NoteInv, OneAnswerPerKey
<1> QED BY <1>1, NoteInvariant, PTL

-----------------------------------------------------------------------------
(* Forms sources.                                                            *)

SourceRows == [state: {"none", "prepared", "deleted"}, owned: BOOLEAN,
            prepared: SUBSET Respondents, people: SUBSET Respondents, expires: Nat,
            invalid: BOOLEAN, by: Calls \cup {NoOne}]
CallPlaces == {"idle", "received", "locked", "done"}
CallStates == [at: CallPlaces, kind: Kinds, payload: Payloads, answer: Answers, target: Calls \cup {NoOne}]
RequestStates == {"none", "pending", "deciding", "approved", "rejected", "expired"}
Leavers == [who: Respondents \cup {Owner}, at: {"kept", "asked", "erased"}]

\* The call that consumed the source is done, so what it asked for stands; who
\* is answered with a target is answered with that call's; and only whole
\* audiences were queued.
FormInv ==
  /\ FormTypeOK
  /\ source.state = "none" => request = "none" /\ \A c \in Calls : call[c].at = "idle" /\ queued[c] = {}
  /\ Consumed => call[source.by].at = "done"
  /\ \A c \in Calls :
       /\ queued[c] \in {{}, source.prepared}
       /\ call[c].answer # "none" => call[c].at = "done"
       /\ call[c].answer = "ok" =>
            /\ Consumed /\ call[c].target = source.by
            /\ call[c].kind = call[source.by].kind /\ call[c].payload = call[source.by].payload

LEMMA FormTypes_Named ==
  FormTypeOK <=> /\ source \in SourceRows /\ call \in [Calls -> CallStates]
                 /\ queued \in [Calls -> SUBSET Respondents] /\ request \in RequestStates
                 /\ leaver \in Leavers /\ hour \in Nat
BY DEF FormTypeOK, SourceRows, CallStates, CallPlaces, RequestStates, Leavers

LEMMA FormStart == FormInit => FormInv
<1> SUFFICES ASSUME FormInit PROVE FormInv  OBVIOUS
<1>1. AnyPayload \in Payloads  BY FormAssumption DEF AnyPayload
<1>2. source \in SourceRows  BY DEF FormInit, SourceRows
<1>3. /\ call \in [Calls -> CallStates]
      /\ \A c \in Calls : call[c].at = "idle" /\ call[c].answer = "none"
  BY <1>1 DEF FormInit, CallStates, CallPlaces, Kinds, Answers
<1>4. queued \in [Calls -> SUBSET Respondents] /\ \A c \in Calls : queued[c] = {}  BY DEF FormInit
<1>5. leaver \in Leavers /\ hour \in Nat /\ request \in RequestStates  BY DEF FormInit, Leavers, RequestStates
<1>6. ~Consumed  BY DEF FormInit, Consumed
<1>7. FormTypeOK  BY <1>2, <1>3, <1>4, <1>5, FormTypes_Named
<1>8. request = "none"  BY DEF FormInit
<1> QED BY <1>3, <1>4, <1>6, <1>7, <1>8 DEF FormInv

\* One call ends with an answer that is no target, or the one the source has.
LEMMA CallAnswered ==
  ASSUME FormInv, NEW c \in Calls, call[c].at \in {"received", "locked"},
         NEW answer \in Answers \ {"none"}, NEW target \in Calls \cup {NoOne}, Answered(c, answer, target),
         answer = "ok" => /\ Consumed /\ target = source.by
                          /\ call[c].kind = call[source.by].kind /\ call[c].payload = call[source.by].payload,
         UNCHANGED <<source, queued, request, leaver, hour>>
  PROVE  FormInv'
<1> DEFINE a == [call[c] EXCEPT !.at = "done", !.answer = answer, !.target = target]
<1>1. call \in [Calls -> CallStates]  BY FormTypes_Named DEF FormInv
<1>2. a \in CallStates  BY <1>1 DEF CallStates, CallPlaces
<1>3. call' = [call EXCEPT ![c] = a]  BY DEF Answered
<1>4. a.at = "done" /\ a.answer = answer /\ a.target = target /\ a.kind = call[c].kind /\ a.payload = call[c].payload
  BY <1>1 DEF CallStates
<1> HIDE DEF a
<1>5. call' \in [Calls -> CallStates] /\ call'[c] = a /\ \A d \in Calls \ {c} : call'[d] = call[d]
  BY <1>1, <1>2, <1>3
<1>6. FormTypeOK'  BY <1>5, FormTypes_Named DEF FormInv, FormTypeOK, SourceRows, CallStates, CallPlaces, RequestStates, Leavers
<1>7. source.state # "none" /\ (Consumed => source.by # c)  BY DEF FormInv
<1>8. Consumed => source.by \in Calls  BY DEF FormInv, FormTypeOK, Consumed
<1> QED BY <1>4, <1>5, <1>6, <1>7, <1>8 DEF FormInv, Consumed

\* A call that moves without an answer.
LEMMA CallMoves ==
  ASSUME FormInv, NEW c \in Calls, call[c].at # "done", NEW a \in CallStates, a.answer = "none",
         call' = [call EXCEPT ![c] = a], source.state # "none",
         UNCHANGED <<source, queued, request, leaver, hour>>
  PROVE  FormInv'
<1>1. call \in [Calls -> CallStates]  BY FormTypes_Named DEF FormInv
<1>2. call' \in [Calls -> CallStates] /\ call'[c] = a /\ \A d \in Calls \ {c} : call'[d] = call[d]
  BY <1>1
<1>3. FormTypeOK'  BY <1>2 DEF FormInv, FormTypeOK, SourceRows, CallStates, CallPlaces, RequestStates, Leavers
<1>4. (Consumed => source.by # c /\ source.by \in Calls)  BY DEF FormInv, FormTypeOK, Consumed
<1> QED BY <1>2, <1>3, <1>4 DEF FormInv, Consumed

\* What is left alone: a step that changes neither the calls, what is queued,
\* nor what the source was prepared with and consumed by.
LEMMA SourceStands ==
  ASSUME FormInv, FormTypeOK', UNCHANGED <<call, queued>>,
         source'.prepared = source.prepared, source'.by = source.by,
         source'.state = "none" => source.state = "none" /\ request' = request
  PROVE  FormInv'
BY DEF FormInv, Consumed

LEMMA FormStep == FormInv /\ [FormNext]_formVars => FormInv'
<1> SUFFICES ASSUME FormInv, [FormNext]_formVars PROVE FormInv'  OBVIOUS
<1> USE FormAssumption
<1>0. /\ source \in SourceRows /\ call \in [Calls -> CallStates] /\ queued \in [Calls -> SUBSET Respondents]
      /\ request \in RequestStates /\ leaver \in Leavers /\ hour \in Nat
  BY FormTypes_Named DEF FormInv
<1>1. CASE PrepareSource
  <2>1. PICK to \in SUBSET Respondents : CreateMailFormSource(to)  BY <1>1 DEF PrepareSource
  <2>2. hour + Lifetime \in Nat  BY <1>0
  <2>3. source' \in SourceRows /\ source'.by = source.by  BY <1>0, <2>1, <2>2 DEF CreateMailFormSource, SourceRows
  <2>4. UNCHANGED <<call, queued, request, leaver, hour>> /\ source.state = "none"  BY <1>1 DEF PrepareSource
  <2>5. FormTypeOK'  BY <1>0, <2>3, <2>4 DEF FormTypeOK, SourceRows, CallStates, CallPlaces, RequestStates, Leavers
  <2>6. \A c \in Calls : call[c].at = "idle" /\ queued[c] = {}  BY <2>4 DEF FormInv
  <2> QED BY <2>3, <2>4, <2>5, <2>6 DEF FormInv, Consumed
<1>2. ASSUME NEW c \in Calls, ReceiveCall(c) PROVE FormInv'
  <2>1. PICK k \in Kinds, payload \in Payloads :
          call' = [call EXCEPT ![c].at = "received", ![c].kind = k, ![c].payload = payload]
    BY <1>2 DEF ReceiveCall
  <2> DEFINE a == [call[c] EXCEPT !.at = "received", !.kind = k, !.payload = payload]
  <2>2. a \in CallStates /\ a.answer = call[c].answer  BY <1>0 DEF CallStates, CallPlaces
  <2>3. call' = [call EXCEPT ![c] = a]  BY <2>1
  <2>4. call[c].at = "idle" /\ call[c].answer = "none"  BY <1>2 DEF ReceiveCall, FormInv
  <2> HIDE DEF a
  <2> QED BY <1>2, <2>2, <2>3, <2>4, CallMoves DEF ReceiveCall
<1>3. ASSUME NEW c \in Calls, LockSource(c) PROVE FormInv'
  <2>1. CASE call' = [call EXCEPT ![c].at = "locked"]
    <3> DEFINE a == [call[c] EXCEPT !.at = "locked"]
    <3>1. a \in CallStates /\ a.answer = call[c].answer  BY <1>0 DEF CallStates, CallPlaces
    <3>2. call' = [call EXCEPT ![c] = a]  BY <2>1
    <3>3. call[c].at = "received" /\ call[c].answer = "none" /\ source.state # "none"  BY <1>3 DEF LockSource, FormInv
    <3> HIDE DEF a
    <3> QED BY <1>3, <3>1, <3>2, <3>3, CallMoves DEF LockSource
  <2>2. CASE Answered(c, "not_found", NoOne) \/ Answered(c, "busy", NoOne)
    <3>1. {"not_found", "busy"} \subseteq Answers \ {"none"}  BY DEF Answers
    <3> QED BY <1>3, <2>2, <3>1, CallAnswered DEF LockSource
  <2> QED BY <1>3, <2>1, <2>2 DEF LockSource
<1>4. ASSUME NEW c \in Calls, Retry(c) PROVE FormInv'
  <2>1. {"ok", "changed", "consumed", "expired"} \subseteq Answers \ {"none"}  BY DEF Answers
  <2>2. CASE ~source.invalid /\ Consumed /\ SameAs(c, source.by)
    <3>1. source.by \in Calls \cup {NoOne} /\ Answered(c, "ok", source.by)  BY <1>0, <1>4, <2>2 DEF Retry, SourceRows
    <3> QED BY <1>4, <2>1, <2>2, <3>1, CallAnswered DEF Retry, SameAs
  <2>3. CASE ~(~source.invalid /\ Consumed /\ SameAs(c, source.by))
    <3>1. PICK answer \in {"changed", "consumed", "expired"} : Answered(c, answer, NoOne)  BY <1>4, <2>3 DEF Retry
    <3>2. answer # "ok" /\ answer \in Answers \ {"none"}  BY <2>1, <3>1
    <3> QED BY <1>4, <3>1, <3>2, CallAnswered DEF Retry
  <2> QED BY <2>2, <2>3
<1>5. ASSUME NEW c \in Calls, Consume(c) PROVE FormInv'
  <2>1. {"refused", "changed"} \subseteq Answers \ {"none"} /\ "ok" \in Answers  BY DEF Answers
  <2>2. CASE UNCHANGED <<source, queued, request>>
            /\ (Answered(c, "refused", NoOne) \/ Answered(c, "changed", NoOne))
    BY <1>5, <2>1, <2>2, CallAnswered DEF Consume
  <2>3. CASE /\ Whole /\ source' = [source EXCEPT !.by = c] /\ Answered(c, "ok", c)
             /\ \/ queued' = [queued EXCEPT ![c] = source.people] /\ UNCHANGED request
                \/ request' = "pending" /\ UNCHANGED queued
    <3> DEFINE a == [call[c] EXCEPT !.at = "done", !.answer = "ok", !.target = c]
    <3>1. a \in CallStates  BY <1>0, <2>1 DEF CallStates, CallPlaces
    <3>2. call' = [call EXCEPT ![c] = a]  BY <2>3 DEF Answered
    <3>3. a.at = "done" /\ a.answer = "ok" /\ a.target = c  BY <1>0 DEF CallStates
    <3> HIDE DEF a
    <3>4. call' \in [Calls -> CallStates] /\ call'[c] = a /\ \A d \in Calls \ {c} : call'[d] = call[d]
      BY <1>0, <3>1, <3>2
    <3>5. source' \in SourceRows /\ source'.by = c /\ source'.prepared = source.prepared /\ source'.state = source.state
      BY <1>0, <2>3 DEF SourceRows
    <3>6. queued' \in [Calls -> SUBSET Respondents] /\ \A d \in Calls : queued'[d] \in {queued[d], source.prepared}
      BY <1>0, <2>3 DEF Whole, SourceRows
    <3>7. request' \in RequestStates /\ UNCHANGED <<leaver, hour>>  BY <1>0, <1>5, <2>3 DEF Consume, RequestStates
    <3>8. FormTypeOK'  BY <1>0, <3>4, <3>5, <3>6, <3>7 DEF FormTypeOK, SourceRows, CallStates, CallPlaces, RequestStates, Leavers
    <3>9. call[c].at = "locked" /\ ~Consumed /\ source.state # "none"  BY <1>5 DEF Consume, FormInv
    <3>10. \A d \in Calls : call[d].answer # "ok"  BY <3>9 DEF FormInv
    <3> QED BY <3>3, <3>4, <3>5, <3>6, <3>8, <3>9, <3>10 DEF FormInv, Consumed
  <2> QED BY <1>5, <2>2, <2>3 DEF Consume
<1>6. ASSUME NEW c \in Calls, Abort(c) PROVE FormInv'
  <2>1. "error" \in Answers \ {"none"}  BY DEF Answers
  <2> QED BY <1>6, <2>1, CallAnswered DEF Abort
<1>7. ASSUME UNCHANGED <<source, call, queued, leaver, hour>>, request' \in RequestStates, request # "none" PROVE FormInv'
  <2>1. FormTypeOK'  BY <1>0, <1>7 DEF FormTypeOK, SourceRows, CallStates, CallPlaces, RequestStates, Leavers
  <2>2. source.state # "none"  BY <1>7 DEF FormInv
  <2> QED BY <1>7, <2>1, <2>2, SourceStands
<1>8. CASE BeginDecision \/ Reject \/ Resubmit \/ ExpireRequest
  BY <1>7, <1>8 DEF BeginDecision, Reject, Resubmit, ExpireRequest, RequestStates
<1>9. CASE Approve
  <2>1. CASE UNCHANGED queued
    BY <1>7, <1>9, <2>1 DEF Approve, RequestStates
  <2>2. CASE Whole /\ request' = "approved" /\ queued' = [queued EXCEPT ![source.by] = source.people]
    <3>1. queued' \in [Calls -> SUBSET Respondents] /\ \A d \in Calls : queued'[d] \in {queued[d], source.prepared}
      BY <1>0, <2>2 DEF Whole, SourceRows
    <3>2. request' \in RequestStates /\ UNCHANGED <<source, call, leaver, hour>>  BY <1>9, <2>2 DEF Approve, RequestStates
    <3>3. FormTypeOK'  BY <1>0, <3>1, <3>2 DEF FormTypeOK, SourceRows, CallStates, CallPlaces, RequestStates, Leavers
    <3>4. source.state # "none"  BY <1>9 DEF Approve, FormInv
    <3> QED BY <3>1, <3>2, <3>3, <3>4 DEF FormInv, Consumed
  <2> QED BY <1>9, <2>1, <2>2 DEF Approve
<1>10. CASE DeleteExpiredSources
  <2>1. /\ source' \in SourceRows /\ source'.prepared = source.prepared /\ source'.by = source.by
        /\ source'.state = "deleted"
    BY <1>0, <1>10 DEF DeleteExpiredSources, SourceRows
  <2>2. FormTypeOK'  BY <1>0, <1>10, <2>1 DEF DeleteExpiredSources, FormTypeOK, SourceRows, CallStates, CallPlaces, RequestStates, Leavers
  <2> QED BY <1>10, <2>1, <2>2, SourceStands DEF DeleteExpiredSources
<1>11. CASE AskToLeave
  <2>1. leaver' \in Leavers  BY <1>11 DEF AskToLeave, Leavers
  <2>2. FormTypeOK'  BY <1>0, <1>11, <2>1 DEF AskToLeave, FormTypeOK, SourceRows, CallStates, CallPlaces, RequestStates, Leavers
  <2> QED BY <1>11, <2>2, SourceStands DEF AskToLeave
<1>12. CASE EraseLeaver
  <2>1. leaver' \in Leavers  BY <1>0, <1>12 DEF EraseLeaver, Leavers
  <2>2. /\ source' \in SourceRows /\ source'.prepared = source.prepared /\ source'.by = source.by
        /\ source'.state = source.state
    <3>1. PICK busy \in BOOLEAN :
            source' = IF ~(Exists /\ Concerns) THEN source
                      ELSE IF busy THEN [source EXCEPT !.invalid = TRUE]
                      ELSE [source EXCEPT !.invalid = TRUE, !.people = @ \ {leaver.who},
                                          !.owned = @ /\ leaver.who # Owner]
      BY <1>12 DEF EraseLeaver
    <3>2. CASE ~(Exists /\ Concerns)
      BY <1>0, <3>1, <3>2
    <3>3. CASE Exists /\ Concerns /\ busy
      BY <1>0, <3>1, <3>3 DEF SourceRows
    <3>4. CASE Exists /\ Concerns /\ ~busy
      <4>1. source' = [source EXCEPT !.invalid = TRUE, !.people = @ \ {leaver.who}, !.owned = @ /\ leaver.who # Owner]
        BY <3>1, <3>4
      <4>2. (source.owned /\ leaver.who # Owner) \in BOOLEAN /\ (source.people \ {leaver.who}) \in SUBSET Respondents
        BY <1>0 DEF SourceRows
      <4> QED BY <1>0, <4>1, <4>2 DEF SourceRows
    <3> QED BY <3>2, <3>3, <3>4
  <2>3. FormTypeOK'  BY <1>0, <1>12, <2>1, <2>2 DEF EraseLeaver, FormTypeOK, SourceRows, CallStates, CallPlaces, RequestStates, Leavers
  <2>4. UNCHANGED <<call, queued, request>>  BY <1>12 DEF EraseLeaver
  <2> QED BY <2>2, <2>3, <2>4, SourceStands
<1>13. CASE HourPasses
  <2>1. FormTypeOK'  BY <1>0, <1>13 DEF HourPasses, FormTypeOK, SourceRows, CallStates, CallPlaces, RequestStates, Leavers
  <2> QED BY <1>13, <2>1, SourceStands DEF HourPasses
<1>14. CASE UNCHANGED formVars
  <2>1. FormTypeOK'  BY <1>0, <1>14 DEF formVars, FormTypeOK, SourceRows, CallStates, CallPlaces, RequestStates, Leavers
  <2> QED BY <1>14, <2>1, SourceStands DEF formVars
<1> QED BY <1>1, <1>2, <1>3, <1>4, <1>5, <1>6, <1>8, <1>9, <1>10, <1>11, <1>12, <1>13, <1>14 DEF FormNext

LEMMA FormInvariant == FormSpec => []FormInv
<1>1. FormInit => FormInv  BY FormStart
<1>2. FormInv /\ [FormNext]_formVars => FormInv'  BY FormStep
<1> QED BY <1>1, <1>2, PTL DEF FormSpec

\* Every step keeps the source, its calls and its request in their types.
THEOREM FormTypes == FormSpec => []FormTypeOK
<1>1. FormInv => FormTypeOK  BY DEF FormInv
<1> QED BY <1>1, FormInvariant, PTL

\* A source has one send or request, whoever raced for it, and what is queued
\* is the audience as Forms prepared it.
THEOREM OneTarget == FormSpec => []OneWholeTarget
<1>1. FormInv => OneWholeTarget  BY DEF FormInv, OneWholeTarget
<1> QED BY <1>1, FormInvariant, PTL

-----------------------------------------------------------------------------
(* News sends: one row of a record holds a mailbox.                         *)

RowStatuses == {"none", "pending", "sending", "sent", "failed"}
MailRow == [status: RowStatuses, ref: BOOLEAN, again: BOOLEAN, mailed: BOOLEAN, lost: BOOLEAN, cleared: BOOLEAN]
PostPlaces == {"idle", "asking", "ready", "locked", "checked", "done"}
PostStates == [at: PostPlaces, to: SUBSET People, left: SUBSET People]
Sends == {"none", "open", "cancelled"}
Accounts == {"kept", "asked", "erased"}

\* A row that waits, is taken or went out holds its mailbox; one that went out
\* and the queue knows of it stands as sent; and only an erasure clears one.
HoldsMailbox(r) ==
  /\ r.status \in {"pending", "sending", "sent"} => r.ref
  /\ r.mailed /\ ~r.lost => r.status = "sent"

NewsInv ==
  /\ NewsTypeOK
  /\ \A n \in Posts : post[n].at # "done" => \A p \in People : row[<<n, p>>] = NoRow
  /\ \A n \in Posts, p \in People :
       /\ HoldsMailbox(row[<<n, p>>])
       /\ row[<<n, p>>].cleared => erased[p] = "erased"
  /\ \A n, m \in Posts, p \in People : Names(row[<<n, p>>]) /\ Names(row[<<m, p>>]) => n = m

LEMMA NewsTypes_Named ==
  NewsTypeOK <=> /\ post \in [Posts -> PostStates] /\ send \in [Posts -> Sends]
                 /\ row \in [Posts \X People -> MailRow] /\ erased \in [People -> Accounts]
BY DEF NewsTypeOK, PostStates, PostPlaces, Sends, MailRow, RowStatuses, Accounts

LEMMA NewsTypes_NamedAfter ==
  NewsTypeOK' <=> /\ post' \in [Posts -> PostStates] /\ send' \in [Posts -> Sends]
                  /\ row' \in [Posts \X People -> MailRow] /\ erased' \in [People -> Accounts]
BY DEF NewsTypeOK, PostStates, PostPlaces, Sends, MailRow, RowStatuses, Accounts

LEMMA NoRow_IsARow == NoRow \in MailRow /\ HoldsMailbox(NoRow) /\ ~Names(NoRow) /\ ~NoRow.cleared
BY DEF NoRow, MailRow, RowStatuses, HoldsMailbox, Names

LEMMA NewsStart == NewsInit => NewsInv
<1> SUFFICES ASSUME NewsInit PROVE NewsInv  OBVIOUS
<1>1. post \in [Posts -> PostStates] /\ send \in [Posts -> Sends] /\ erased \in [People -> Accounts]
  BY DEF NewsInit, PostStates, PostPlaces, Sends, Accounts
<1>2. row = [r \in Posts \X People |-> NoRow]  BY DEF NewsInit
<1>3. row \in [Posts \X People -> MailRow] /\ \A n \in Posts, p \in People : row[<<n, p>>] = NoRow
  BY <1>2, NoRow_IsARow
<1> QED BY <1>1, <1>3, NewsTypes_Named, NoRow_IsARow DEF NewsInv

\* A call moves, and nothing is written.
LEMMA PostMoves ==
  ASSUME NewsInv, NEW n \in Posts, NEW a \in PostStates, post[n].at # "done",
         post' = [post EXCEPT ![n] = a], UNCHANGED <<send, row, erased>>
  PROVE  NewsInv'
<1>1. post \in [Posts -> PostStates] /\ post' \in [Posts -> PostStates]  BY NewsTypes_Named DEF NewsInv
<1>2. NewsTypeOK'  BY <1>1, NewsTypes_Named, NewsTypes_NamedAfter DEF NewsInv
<1>3. \A m \in Posts : post'[m].at # "done" => post[m].at # "done"  BY <1>1
<1> QED BY <1>2, <1>3 DEF NewsInv, HoldsMailbox, Names

LEMMA PostEnds ==
  ASSUME NewsInv, NEW n \in Posts, post[n].at # "done", Done(n), UNCHANGED <<send, row, erased>>
  PROVE  NewsInv'
<1> DEFINE a == [post[n] EXCEPT !.at = "done", !.to = {}, !.left = {}]
<1>1. post \in [Posts -> PostStates]  BY NewsTypes_Named DEF NewsInv
<1>2. a \in PostStates  BY <1>1 DEF PostStates, PostPlaces
<1>3. post' = [post EXCEPT ![n] = a]  BY DEF Done
<1> HIDE DEF a
<1> QED BY <1>2, <1>3, PostMoves

LEMMA PostSteps ==
  ASSUME NewsInv, NEW n \in Posts, post[n].at # "done", NEW at \in PostPlaces, Step(n, at), UNCHANGED <<send, row, erased>>
  PROVE  NewsInv'
<1> DEFINE a == [post[n] EXCEPT !.at = at]
<1>1. post \in [Posts -> PostStates]  BY NewsTypes_Named DEF NewsInv
<1>2. a \in PostStates  BY <1>1 DEF PostStates
<1>3. post' = [post EXCEPT ![n] = a]  BY DEF Step
<1> HIDE DEF a
<1> QED BY <1>2, <1>3, PostMoves

\* The rows change, and no row comes to hold a mailbox that did not hold it.
LEMMA RowsChange ==
  ASSUME NewsInv, UNCHANGED post, send' \in [Posts -> Sends],
         row' \in [Posts \X People -> MailRow], erased' \in [People -> Accounts],
         \A p \in People : erased[p] = "erased" => erased'[p] = "erased",
         \A n \in Posts, p \in People :
           \/ row'[<<n, p>>] = row[<<n, p>>]
           \/ /\ row[<<n, p>>] # NoRow /\ HoldsMailbox(row'[<<n, p>>])
              /\ Names(row'[<<n, p>>]) => Names(row[<<n, p>>])
              /\ row'[<<n, p>>].cleared => erased'[p] = "erased"
  PROVE  NewsInv'
<1>1. NewsTypeOK'  BY NewsTypes_Named, NewsTypes_NamedAfter DEF NewsInv
<1>2. \A n \in Posts : post'[n].at # "done" => \A p \in People : row'[<<n, p>>] = NoRow
  <2> SUFFICES ASSUME NEW n \in Posts, post[n].at # "done", NEW p \in People PROVE row'[<<n, p>>] = NoRow
    OBVIOUS
  <2>1. row[<<n, p>>] = NoRow  BY DEF NewsInv
  <2> QED BY <2>1
<1>3. \A n \in Posts, p \in People : HoldsMailbox(row'[<<n, p>>]) /\ (row'[<<n, p>>].cleared => erased'[p] = "erased")
  BY DEF NewsInv
<1>4. \A n, m \in Posts, p \in People : Names(row'[<<n, p>>]) /\ Names(row'[<<m, p>>]) => n = m  BY DEF NewsInv
<1> QED BY <1>1, <1>2, <1>3, <1>4 DEF NewsInv, HoldsMailbox, Names

\* The row a call writes to a person: one to be sent, or one refused at once.
RowMade(fine, p) ==
  IF p \in fine THEN [NoRow EXCEPT !.status = "pending", !.ref = TRUE] ELSE [NoRow EXCEPT !.status = "failed"]

LEMMA RowMadeType ==
  ASSUME NEW fine, NEW p
  PROVE  /\ RowMade(fine, p) \in MailRow /\ HoldsMailbox(RowMade(fine, p)) /\ ~RowMade(fine, p).cleared
         /\ Names(RowMade(fine, p)) => p \in fine
BY DEF RowMade, NoRow, MailRow, RowStatuses, HoldsMailbox, Names

LEMMA RowsQueued ==
  ASSUME NewsInv, NEW n \in Posts, NEW left \in SUBSET People, NEW fine,
         row' = [r \in Posts \X People |-> IF r[1] # n \/ r[2] \notin left THEN row[r] ELSE RowMade(fine, r[2])]
  PROVE  /\ row' \in [Posts \X People -> MailRow]
         /\ \A m \in Posts, p \in People :
              row'[<<m, p>>] = IF m # n \/ p \notin left THEN row[<<m, p>>] ELSE RowMade(fine, p)
<1>1. row \in [Posts \X People -> MailRow]  BY NewsTypes_Named DEF NewsInv
<1>2. \A r \in Posts \X People : row[r] \in MailRow /\ RowMade(fine, r[2]) \in MailRow  BY <1>1, RowMadeType
<1> QED BY <1>2

\* A call's rows are queued: only to people no row of the record holds.
LEMMA Queued ==
  ASSUME NewsInv, NEW n \in Posts, post[n].at = "checked", NEW left \in SUBSET People, NEW fine \in SUBSET left,
         fine \cap Received = {}, NewsTypeOK', erased' = erased,
         post'[n].at = "done", \A m \in Posts \ {n} : post'[m] = post[m],
         \A m \in Posts, p \in People :
           row'[<<m, p>>] = IF m # n \/ p \notin left THEN row[<<m, p>>] ELSE RowMade(fine, p)
  PROVE  NewsInv'
<1>1. ASSUME NEW m \in Posts, post'[m].at # "done", NEW p \in People PROVE row'[<<m, p>>] = NoRow
  <2>1. m # n /\ post[m].at # "done"  BY <1>1
  <2>2. row[<<m, p>>] = NoRow  BY <2>1 DEF NewsInv
  <2> QED BY <2>1, <2>2
<1>2. ASSUME NEW m \in Posts, NEW p \in People
      PROVE  HoldsMailbox(row'[<<m, p>>]) /\ (row'[<<m, p>>].cleared => erased'[p] = "erased")
  <2>1. HoldsMailbox(row[<<m, p>>]) /\ (row[<<m, p>>].cleared => erased[p] = "erased")  BY DEF NewsInv
  <2>2. row'[<<m, p>>] = row[<<m, p>>] \/ row'[<<m, p>>] = RowMade(fine, p)  OBVIOUS
  <2> QED BY <2>1, <2>2, RowMadeType
<1>3. ASSUME NEW m \in Posts, NEW k \in Posts, NEW p \in People, Names(row'[<<m, p>>]), Names(row'[<<k, p>>])
      PROVE  m = k
  <2>1. Names(row[<<m, p>>]) /\ Names(row[<<k, p>>]) => m = k  BY DEF NewsInv
  <2>2. row[<<n, p>>] = NoRow  BY DEF NewsInv
  <2>3. ~Names(row[<<n, p>>])  BY <2>2, NoRow_IsARow
  <2>4. CASE p \in fine
    <3>1. ~Names(row[<<m, p>>]) /\ ~Names(row[<<k, p>>])  BY <2>4 DEF Received
    <3>2. m = n \/ row'[<<m, p>>] = row[<<m, p>>]  OBVIOUS
    <3>3. k = n \/ row'[<<k, p>>] = row[<<k, p>>]  OBVIOUS
    <3> QED BY <1>3, <3>1, <3>2, <3>3
  <2>5. CASE p \notin fine
    <3>1. ~Names(RowMade(fine, p))  BY <2>5, RowMadeType
    <3>2. row'[<<m, p>>] = row[<<m, p>>] /\ row'[<<k, p>>] = row[<<k, p>>]  BY <1>3, <3>1
    <3> QED BY <1>3, <2>1, <3>2
  <2> QED BY <2>4, <2>5
<1> QED BY <1>1, <1>2, <1>3 DEF NewsInv, HoldsMailbox, Names

\* What a row becomes when its send is cancelled.
LEMMA CancelledRow ==
  ASSUME NEW r \in MailRow, HoldsMailbox(r)
  PROVE  /\ CancelRow(r) \in MailRow /\ Dropped(r) \in MailRow
         /\ r.status = "pending" => HoldsMailbox(Dropped(r))
         /\ r.status # "pending" => CancelRow(r) = r
         /\ r.status = "pending" => CancelRow(r) = Dropped(r)
         /\ ~Names(Dropped(r)) /\ Dropped(r).cleared = r.cleared
BY DEF CancelRow, Dropped, MailRow, RowStatuses, HoldsMailbox, Names

LEMMA RowsCancelled ==
  ASSUME NewsInv, NEW n \in Posts, send' \in [Posts -> Sends], UNCHANGED <<post, erased>>,
         row' = [r \in Posts \X People |-> IF r[1] = n THEN CancelRow(row[r]) ELSE row[r]]
  PROVE  NewsInv'
<1>1. row \in [Posts \X People -> MailRow] /\ erased \in [People -> Accounts]  BY NewsTypes_Named DEF NewsInv
<1>2. \A r \in Posts \X People : r = <<r[1], r[2]>> /\ row[r] \in MailRow /\ HoldsMailbox(row[r])
  BY <1>1 DEF NewsInv
<1>3. row' \in [Posts \X People -> MailRow]  BY <1>1, <1>2, CancelledRow
<1>4. \A m \in Posts, p \in People : row'[<<m, p>>] = IF m = n THEN CancelRow(row[<<m, p>>]) ELSE row[<<m, p>>]  OBVIOUS
<1>5. \A m \in Posts, p \in People :
        \/ row'[<<m, p>>] = row[<<m, p>>]
        \/ /\ row[<<m, p>>] # NoRow /\ HoldsMailbox(row'[<<m, p>>])
           /\ Names(row'[<<m, p>>]) => Names(row[<<m, p>>])
           /\ row'[<<m, p>>].cleared => erased'[p] = "erased"
  <2> SUFFICES ASSUME NEW m \in Posts, NEW p \in People, row'[<<m, p>>] # row[<<m, p>>]
               PROVE  /\ row[<<m, p>>] # NoRow /\ HoldsMailbox(row'[<<m, p>>])
                      /\ Names(row'[<<m, p>>]) => Names(row[<<m, p>>])
                      /\ row'[<<m, p>>].cleared => erased'[p] = "erased"
    OBVIOUS
  <2>1. row[<<m, p>>] \in MailRow /\ HoldsMailbox(row[<<m, p>>]) /\ (row[<<m, p>>].cleared => erased[p] = "erased")
    BY <1>1 DEF NewsInv
  <2>2. row[<<m, p>>].status = "pending" /\ row'[<<m, p>>] = Dropped(row[<<m, p>>])  BY <1>4, <2>1, CancelledRow
  <2>3. row[<<m, p>>] # NoRow  BY <2>2 DEF NoRow
  <2> QED BY <2>1, <2>2, <2>3, CancelledRow
<1> QED BY <1>1, <1>3, <1>5, RowsChange

\* One row becomes another.
LEMMA RowBecomes ==
  ASSUME NewsInv, NEW n \in Posts, NEW p \in People, NEW r \in MailRow, Become(n, p, r),
         row[<<n, p>>].status # "none", HoldsMailbox(r), Names(r) => Names(row[<<n, p>>]), r.cleared = row[<<n, p>>].cleared
  PROVE  NewsInv'
<1>1. /\ row \in [Posts \X People -> MailRow] /\ erased \in [People -> Accounts] /\ send \in [Posts -> Sends]
  BY NewsTypes_Named DEF NewsInv
<1>2. row' = [row EXCEPT ![<<n, p>>] = r] /\ post' = post /\ send' = send /\ erased' = erased  BY DEF Become
<1>3. row' \in [Posts \X People -> MailRow] /\ row'[<<n, p>>] = r
      /\ \A m \in Posts, q \in People : <<m, q>> # <<n, p>> => row'[<<m, q>>] = row[<<m, q>>]
  BY <1>1, <1>2
<1>4. row[<<n, p>>] # NoRow  BY DEF NoRow
<1>5. r.cleared => erased'[p] = "erased"  BY <1>2 DEF NewsInv
<1>6. \A m \in Posts, q \in People :
        \/ row'[<<m, q>>] = row[<<m, q>>]
        \/ /\ row[<<m, q>>] # NoRow /\ HoldsMailbox(row'[<<m, q>>])
           /\ Names(row'[<<m, q>>]) => Names(row[<<m, q>>])
           /\ row'[<<m, q>>].cleared => erased'[q] = "erased"
  <2> SUFFICES ASSUME NEW m \in Posts, NEW q \in People, row'[<<m, q>>] # row[<<m, q>>]
               PROVE  /\ row[<<m, q>>] # NoRow /\ HoldsMailbox(row'[<<m, q>>])
                      /\ Names(row'[<<m, q>>]) => Names(row[<<m, q>>])
                      /\ row'[<<m, q>>].cleared => erased'[q] = "erased"
    OBVIOUS
  <2>1. <<m, q>> = <<n, p>>  BY <1>3
  <2>2. m = n /\ q = p  BY <2>1
  <2> QED BY <1>3, <1>4, <1>5, <2>2
<1> QED BY <1>1, <1>2, <1>3, <1>6, RowsChange

\* What an erasure makes of the person's rows.
LEMMA ErasedRow ==
  ASSUME NEW r \in MailRow, HoldsMailbox(r), NEW busy \in BOOLEAN
  PROVE  LET gone == [r EXCEPT !.status = "none", !.ref = FALSE]
             clear == [r EXCEPT !.cleared = @ \/ (~busy /\ r.ref)] IN
         /\ gone \in MailRow /\ clear \in MailRow
         /\ r.status = "pending" => HoldsMailbox(gone)
         /\ ~Names(gone) /\ gone.cleared = r.cleared
         /\ HoldsMailbox(clear) /\ (Names(clear) => Names(r))
         /\ clear.cleared => r.cleared \/ ~busy
         /\ ~r.ref => clear = r
<1>1. (r.cleared \/ (~busy /\ r.ref)) \in BOOLEAN  BY DEF MailRow
<1> QED BY <1>1 DEF MailRow, RowStatuses, HoldsMailbox, Names

LEMMA NewsStep == NewsInv /\ [NewsNext]_newsVars => NewsInv'
<1> SUFFICES ASSUME NewsInv, [NewsNext]_newsVars PROVE NewsInv'  OBVIOUS
<1>0. /\ post \in [Posts -> PostStates] /\ send \in [Posts -> Sends]
      /\ row \in [Posts \X People -> MailRow] /\ erased \in [People -> Accounts]
  BY NewsTypes_Named DEF NewsInv
<1>a. {"asking", "ready", "locked", "checked"} \subseteq PostPlaces  BY DEF PostPlaces
<1>1. ASSUME NEW n \in Posts, Load(n) PROVE NewsInv'
  BY <1>1, <1>a, PostEnds, PostSteps DEF Load
<1>2. ASSUME NEW n \in Posts, Resolve(n) PROVE NewsInv'
  <2>1. ASSUME NEW to \in Reach,
               post' = [post EXCEPT ![n].at = "ready", ![n].to = {p \in to: erased[p] = "kept"}]
        PROVE NewsInv'
    <3> DEFINE a == [post[n] EXCEPT !.at = "ready", !.to = {p \in to: erased[p] = "kept"}]
    <3>1. {p \in to: erased[p] = "kept"} \in SUBSET People  BY NewsAssumption
    <3>2. a \in PostStates  BY <1>0, <3>1 DEF PostStates, PostPlaces
    <3>3. post' = [post EXCEPT ![n] = a]  BY <2>1
    <3> HIDE DEF a
    <3> QED BY <1>2, <3>2, <3>3, PostMoves DEF Resolve
  <2> QED BY <1>2, <2>1, PostEnds DEF Resolve
<1>3. ASSUME NEW n \in Posts, LockNewsSource(n) PROVE NewsInv'
  BY <1>3, <1>a, PostSteps DEF LockNewsSource
<1>4. ASSUME NEW n \in Posts, Refuse(n) PROVE NewsInv'
  BY <1>4, PostEnds DEF Refuse
<1>5. ASSUME NEW n \in Posts, LeaveOut(n) PROVE NewsInv'
  <2> DEFINE left == post[n].to \ Received
             a == [post[n] EXCEPT !.at = "checked", !.left = left]
  <2>1. left \in SUBSET People  BY <1>0 DEF PostStates
  <2>2. a \in PostStates  BY <1>0, <2>1 DEF PostStates, PostPlaces
  <2>3. Done(n) \/ post' = [post EXCEPT ![n] = a]  BY <1>5 DEF LeaveOut
  <2> HIDE DEF a
  <2> QED BY <1>5, <2>2, <2>3, PostMoves, PostEnds DEF LeaveOut
<1>6. ASSUME NEW n \in Posts, Enqueue(n) PROVE NewsInv'
  <2>1. PICK bad \in SUBSET post[n].left :
          IF (post[n].left \ bad) \cap Received # {}
          THEN UNCHANGED <<send, row>>
          ELSE /\ InsertMailTask(n)
               /\ row' = [r \in Posts \X People |->
                     IF r[1] # n \/ r[2] \notin post[n].left THEN row[r]
                     ELSE RowMade(post[n].left \ bad, r[2])]
    BY <1>6 DEF Enqueue, RowMade
  <2>2. CASE (post[n].left \ bad) \cap Received # {}
    BY <1>6, <2>1, <2>2, PostEnds DEF Enqueue
  <2>3. CASE (post[n].left \ bad) \cap Received = {}
    <3> DEFINE left == post[n].left
               fine == left \ bad
    <3>1. left \in SUBSET People /\ post[n].at = "checked"  BY <1>0, <1>6 DEF PostStates, Enqueue
    <3>2. row' = [r \in Posts \X People |-> IF r[1] # n \/ r[2] \notin left THEN row[r] ELSE RowMade(fine, r[2])]
      BY <2>1, <2>3
    <3>3. erased' = erased /\ post' \in [Posts -> PostStates]
          /\ post'[n].at = "done" /\ \A m \in Posts \ {n} : post'[m] = post[m]
      <4> DEFINE a == [post[n] EXCEPT !.at = "done", !.to = {}, !.left = {}]
      <4>1. a \in PostStates /\ a.at = "done"  BY <1>0 DEF PostStates, PostPlaces
      <4>2. post' = [post EXCEPT ![n] = a] /\ erased' = erased  BY <1>6 DEF Enqueue, Done
      <4> HIDE DEF a
      <4> QED BY <1>0, <4>1, <4>2
    <3>4. send' \in [Posts -> Sends]  BY <1>0, <2>1, <2>3 DEF InsertMailTask, Sends
    <3>5. fine \in SUBSET left /\ fine \cap Received = {}  BY <2>3
    <3> HIDE DEF left, fine
    <3>6. /\ row' \in [Posts \X People -> MailRow]
          /\ \A m \in Posts, p \in People :
               row'[<<m, p>>] = IF m # n \/ p \notin left THEN row[<<m, p>>] ELSE RowMade(fine, p)
      BY <3>1, <3>2, RowsQueued
    <3>7. NewsTypeOK'  BY <1>0, <3>3, <3>4, <3>6, NewsTypes_NamedAfter
    <3> QED BY <3>1, <3>3, <3>5, <3>6, <3>7, Queued, ZenonT(60)
  <2> QED BY <2>2, <2>3
<1>7. ASSUME NEW n \in Posts, Break(n) PROVE NewsInv'
  BY <1>7, PostEnds DEF Break
<1>8. ASSUME NEW n \in Posts, CancelSend(n) PROVE NewsInv'
  <2>1. send' \in [Posts -> Sends]  BY <1>0, <1>8 DEF CancelSend, Sends
  <2> QED BY <1>8, <2>1, RowsCancelled DEF CancelSend
<1>9. ASSUME NEW n \in Posts, ReapCancelled(n) PROVE NewsInv'
  BY <1>0, <1>9, RowsCancelled DEF ReapCancelled
<1>10. ASSUME NEW n \in Posts, NEW p \in People, Take(n, p) PROVE NewsInv'
  <2>1. row[<<n, p>>] \in MailRow /\ HoldsMailbox(row[<<n, p>>]) /\ row[<<n, p>>].status = "pending"  BY <1>0, <1>10 DEF Take, NewsInv
  <2>2. CASE Become(n, p, Dropped(row[<<n, p>>]))
    BY <2>1, <2>2, CancelledRow, RowBecomes
  <2>3. CASE Become(n, p, [row[<<n, p>>] EXCEPT !.status = "sending"])
    <3> DEFINE r == [row[<<n, p>>] EXCEPT !.status = "sending"]
    <3>1. r \in MailRow /\ HoldsMailbox(r) /\ (Names(r) => Names(row[<<n, p>>])) /\ r.cleared = row[<<n, p>>].cleared
      BY <2>1 DEF MailRow, RowStatuses, HoldsMailbox, Names
    <3> HIDE DEF r
    <3>2. Become(n, p, r)  BY <2>3 DEF r
    <3> QED BY <2>1, <3>1, <3>2, RowBecomes
  <2> QED BY <1>10, <2>2, <2>3 DEF Take
<1>11. ASSUME NEW n \in Posts, NEW p \in People, Outcome(n, p) PROVE NewsInv'
  <2>1. row[<<n, p>>] \in MailRow /\ HoldsMailbox(row[<<n, p>>]) /\ row[<<n, p>>].status = "sending"
    BY <1>0, <1>11 DEF Outcome, NewsInv
  <2>2. ASSUME NEW r \in MailRow, Become(n, p, r),
               \/ r = [row[<<n, p>>] EXCEPT !.status = "sent", !.mailed = TRUE]
               \/ r = [row[<<n, p>>] EXCEPT !.status = "failed"]
               \/ r = [row[<<n, p>>] EXCEPT !.status = "pending", !.again = TRUE]
               \/ r = [row[<<n, p>>] EXCEPT !.status = "pending", !.again = TRUE, !.mailed = TRUE, !.lost = TRUE]
        PROVE NewsInv'
    <3>1. HoldsMailbox(r) /\ (Names(r) => Names(row[<<n, p>>])) /\ r.cleared = row[<<n, p>>].cleared
      BY <2>1, <2>2 DEF MailRow, HoldsMailbox, Names
    <3> QED BY <2>1, <2>2, <3>1, RowBecomes
  <2>3. /\ [row[<<n, p>>] EXCEPT !.status = "sent", !.mailed = TRUE] \in MailRow
        /\ [row[<<n, p>>] EXCEPT !.status = "failed"] \in MailRow
        /\ [row[<<n, p>>] EXCEPT !.status = "pending", !.again = TRUE] \in MailRow
        /\ [row[<<n, p>>] EXCEPT !.status = "pending", !.again = TRUE, !.mailed = TRUE, !.lost = TRUE] \in MailRow
    BY <2>1 DEF MailRow, RowStatuses
  <2> QED BY <1>11, <2>2, <2>3 DEF Outcome
<1>12. ASSUME NEW p \in People, AskErasure(p) PROVE NewsInv'
  <2>1. erased' \in [People -> Accounts] /\ \A q \in People : erased[q] = "erased" => erased'[q] = "erased"
    BY <1>0, <1>12 DEF AskErasure, Accounts
  <2> QED BY <1>0, <1>12, <2>1, RowsChange DEF AskErasure
<1>13. ASSUME NEW p \in People, EraseAccount(p) PROVE NewsInv'
  <2> DEFINE busy == \E n \in Posts : row[<<n, p>>].status = "sending"
             gone(r) == [r EXCEPT !.status = "none", !.ref = FALSE]
             clear(r) == [r EXCEPT !.cleared = @ \/ (~busy /\ r.ref)]
  <2>1. row' = [r \in Posts \X People |->
                  IF r[2] # p THEN row[r] ELSE IF row[r].status = "pending" THEN gone(row[r]) ELSE clear(row[r])]
    BY <1>13 DEF EraseAccount
  <2>2. erased' = IF busy THEN erased ELSE [erased EXCEPT ![p] = "erased"]  BY <1>13 DEF EraseAccount
  <2>3. \A r \in MailRow : HoldsMailbox(r) =>
          /\ gone(r) \in MailRow /\ clear(r) \in MailRow
          /\ r.status = "pending" => HoldsMailbox(gone(r))
          /\ ~Names(gone(r)) /\ gone(r).cleared = r.cleared
          /\ HoldsMailbox(clear(r)) /\ (Names(clear(r)) => Names(r))
          /\ clear(r).cleared => r.cleared \/ ~busy
          /\ ~r.ref => clear(r) = r
    BY ErasedRow
  <2> HIDE DEF busy, gone, clear
  <2>4. \A r \in Posts \X People : r = <<r[1], r[2]>> /\ row[r] \in MailRow /\ HoldsMailbox(row[r])
    BY <1>0 DEF NewsInv
  <2>5. row' \in [Posts \X People -> MailRow]  BY <2>1, <2>3, <2>4
  <2>6. /\ erased' \in [People -> Accounts]
        /\ \A q \in People : erased[q] = "erased" => erased'[q] = "erased"
        /\ ~busy => erased'[p] = "erased"
    BY <1>0, <2>2 DEF Accounts
  <2>7. ASSUME NEW m \in Posts, NEW q \in People, row'[<<m, q>>] # row[<<m, q>>]
        PROVE  /\ row[<<m, q>>] # NoRow /\ HoldsMailbox(row'[<<m, q>>])
               /\ Names(row'[<<m, q>>]) => Names(row[<<m, q>>])
               /\ row'[<<m, q>>].cleared => erased'[q] = "erased"
    <3>1. row[<<m, q>>] \in MailRow /\ HoldsMailbox(row[<<m, q>>]) /\ (row[<<m, q>>].cleared => erased[q] = "erased")
      BY <1>0 DEF NewsInv
    <3>2. q = p /\ row'[<<m, q>>] = IF row[<<m, q>>].status = "pending" THEN gone(row[<<m, q>>]) ELSE clear(row[<<m, q>>])
      BY <2>1, <2>7
    <3>3. row[<<m, q>>].status = "pending" \/ row[<<m, q>>].ref  BY <2>3, <2>7, <3>1, <3>2
    <3>4. row[<<m, q>>] # NoRow  BY <3>3 DEF NoRow
    <3>5. row'[<<m, q>>].cleared => erased'[q] = "erased"  BY <2>3, <2>6, <3>1, <3>2
    <3> QED BY <2>3, <3>1, <3>2, <3>4, <3>5
  <2>8. send' \in [Posts -> Sends] /\ UNCHANGED post  BY <1>0, <1>13 DEF EraseAccount
  <2> QED BY <2>5, <2>6, <2>7, <2>8, RowsChange
<1>14. CASE UNCHANGED newsVars
  BY <1>0, <1>14, RowsChange DEF newsVars
<1> QED BY <1>1, <1>2, <1>3, <1>4, <1>5, <1>6, <1>7, <1>8, <1>9, <1>10, <1>11, <1>12, <1>13, <1>14 DEF NewsNext

LEMMA NewsInvariant == NewsSpec => []NewsInv
<1>1. NewsInit => NewsInv  BY NewsStart
<1>2. NewsInv /\ [NewsNext]_newsVars => NewsInv'  BY NewsStep
<1> QED BY <1>1, <1>2, PTL DEF NewsSpec

LEMMA NewsSafe == NewsInv => NewsTypeOK /\ MailedOnce
<1> SUFFICES ASSUME NewsInv PROVE MailedOnce  BY DEF NewsInv
<1> SUFFICES ASSUME NEW n \in Posts, NEW m \in Posts, NEW p \in People, n # m, row[<<n, p>>].mailed, row[<<m, p>>].mailed,
                    erased[p] # "erased", ~row[<<n, p>>].lost, ~row[<<m, p>>].lost
             PROVE  FALSE
  BY DEF MailedOnce
<1>1. row[<<n, p>>] \in MailRow /\ row[<<m, p>>] \in MailRow  BY NewsTypes_Named DEF NewsInv
<1>2. row[<<n, p>>].ref /\ row[<<m, p>>].ref  BY DEF NewsInv, HoldsMailbox
<1>3. ~row[<<n, p>>].cleared /\ ~row[<<m, p>>].cleared  BY <1>1 DEF NewsInv, MailRow
<1> QED BY <1>2, <1>3 DEF NewsInv, Names

\* No two sends of a record mail one person, unless the queue could not know of
\* the first: whoever cancels, is erased or breaks off meanwhile.
THEOREM NewsMailedOnce == NewsSpec => [](NewsTypeOK /\ MailedOnce)
BY NewsInvariant, NewsSafe, PTL

-----------------------------------------------------------------------------
(* Test mails: the lock, and the count made under it.                       *)

TestPlaces == {"idle", "waiting", "locked", "counted", "refused", "sent"}
TestStates == [at: TestPlaces, start: Nat]
Holding(t) == test[t].at \in {"locked", "counted"}

\* The test mails of s and the minute after it.
Within(s) == {u \in Tests : test[u].at = "sent" /\ test[u].start \in s .. s + Minute - 1}

TestInv ==
  /\ test \in [Tests -> TestStates] /\ clock \in Nat
  /\ \A t, u \in Tests : Holding(t) /\ Holding(u) => t = u
  /\ \A t \in Tests : test[t].at = "counted" => Cardinality(Recent(t)) < TestLimit
  /\ \A s \in Nat : Cardinality(Within(s)) <= TestLimit

LEMMA TestSets ==
  ASSUME NEW s \in Nat
  PROVE  /\ IsFiniteSet(Within(s)) /\ Cardinality(Within(s)) \in Nat
         /\ \A t \in Tests : IsFiniteSet(Recent(t)) /\ Cardinality(Recent(t)) \in Nat
<1>1. Within(s) \subseteq Tests /\ \A t \in Tests : Recent(t) \subseteq Tests  BY DEF Within, Recent
<1> QED BY <1>1, FS_Subset, FS_CardinalityType, NewsAssumption

LEMMA TestStart == TestInit => TestInv
<1> SUFFICES ASSUME TestInit PROVE TestInv  OBVIOUS
<1>1. test \in [Tests -> TestStates] /\ \A t \in Tests : test[t].at = "idle"
  BY DEF TestInit, TestStates, TestPlaces
<1>2. \A s \in Nat : Within(s) = {}  BY <1>1 DEF Within
<1>3. \A s \in Nat : Cardinality(Within(s)) <= TestLimit
  <2> SUFFICES ASSUME NEW s \in Nat PROVE Cardinality(Within(s)) <= TestLimit  OBVIOUS
  <2>1. Cardinality(Within(s)) = 0  BY <1>2, FS_EmptySet
  <2> QED BY <2>1, NewsAssumption
<1>4. \A t \in Tests : ~Holding(t) /\ test[t].at # "counted"  BY <1>1 DEF Holding
<1> QED BY <1>1, <1>3, <1>4 DEF TestInit, TestInv

\* A call that neither was sent nor becomes so: nobody's count changes but its own.
LEMMA TestMoves ==
  ASSUME TestInv, NEW t \in Tests, NEW a \in TestStates, test' = [test EXCEPT ![t] = a], UNCHANGED clock,
         test[t].at # "sent", a.at # "sent",
         a.at \in {"locked", "counted"} => \A u \in Tests : Holding(u) => u = t,
         a.at = "counted" => a.start = test[t].start /\ Cardinality(Recent(t)) < TestLimit
  PROVE  TestInv'
<1>1. /\ test \in [Tests -> TestStates] /\ test' \in [Tests -> TestStates]
      /\ test'[t] = a /\ \A u \in Tests \ {t} : test'[u] = test[u]
  BY DEF TestInv
<1>2. \A s \in Nat : Within(s)' = Within(s)  BY <1>1 DEF Within
<1>3. \A u \in Tests : test'[u].start = test[u].start => Recent(u)' = Recent(u)  BY <1>1 DEF Recent
<1>4. \A u \in Tests : test'[u].at = "counted" => Cardinality(Recent(u)') < TestLimit  BY <1>1, <1>3 DEF TestInv
<1>5. \A u, v \in Tests : Holding(u)' /\ Holding(v)' => u = v  BY <1>1 DEF TestInv, Holding
<1> QED BY <1>1, <1>2, <1>4, <1>5 DEF TestInv

LEMMA TestStep == TestInv /\ [TestNext]_testVars => TestInv'
<1> SUFFICES ASSUME TestInv, [TestNext]_testVars PROVE TestInv'  OBVIOUS
<1>0. test \in [Tests -> TestStates] /\ clock \in Nat  BY DEF TestInv
<1>1. ASSUME NEW t \in Tests, BeginTest(t) PROVE TestInv'
  <2> DEFINE a == [at |-> "waiting", start |-> clock]
  <2>1. a \in TestStates /\ a.at = "waiting"  BY <1>0 DEF TestStates, TestPlaces
  <2>2. test' = [test EXCEPT ![t] = a]  BY <1>1 DEF BeginTest
  <2> HIDE DEF a
  <2> QED BY <1>1, <2>1, <2>2, TestMoves DEF BeginTest
<1>2. ASSUME NEW t \in Tests, LockTests(t) PROVE TestInv'
  <2> DEFINE a == [test[t] EXCEPT !.at = "locked"]
  <2>1. a \in TestStates /\ a.at = "locked"  BY <1>0 DEF TestStates, TestPlaces
  <2>2. test' = [test EXCEPT ![t] = a]  BY <1>2 DEF LockTests
  <2>3. \A u \in Tests : ~Holding(u)  BY <1>2 DEF LockTests, Holding
  <2> HIDE DEF a
  <2> QED BY <1>2, <2>1, <2>2, <2>3, TestMoves DEF LockTests
<1>3. ASSUME NEW t \in Tests, CountTests(t) PROVE TestInv'
  <2> DEFINE at == IF Cardinality(Recent(t)) >= TestLimit THEN "refused" ELSE "counted"
             a == [test[t] EXCEPT !.at = at]
  <2>1. a \in TestStates /\ a.at = at /\ a.start = test[t].start  BY <1>0 DEF TestStates, TestPlaces
  <2>2. test' = [test EXCEPT ![t] = a]  BY <1>3 DEF CountTests
  <2>3. Cardinality(Recent(t)) \in Nat  BY TestSets
  <2>4. at = "counted" => Cardinality(Recent(t)) < TestLimit  BY <2>3, NewsAssumption
  <2>5. at \in {"refused", "counted"}  OBVIOUS
  <2>6. test[t].at = "locked" /\ \A u \in Tests : Holding(u) => u = t  BY <1>3 DEF CountTests, TestInv, Holding
  <2> HIDE DEF a, at
  <2> QED BY <1>3, <2>1, <2>2, <2>4, <2>5, <2>6, TestMoves DEF CountTests
<1>4. ASSUME NEW t \in Tests, QueueTest(t) PROVE TestInv'
  <2>1. PICK at \in {"sent", "refused"} : test' = [test EXCEPT ![t].at = at]  BY <1>4 DEF QueueTest
  <2> DEFINE a == [test[t] EXCEPT !.at = at]
  <2>2. a \in TestStates /\ a.at = at /\ a.start = test[t].start  BY <1>0, <2>1 DEF TestStates, TestPlaces
  <2>3. test' = [test EXCEPT ![t] = a] /\ UNCHANGED clock /\ test[t].at = "counted"  BY <1>4, <2>1 DEF QueueTest
  <2> HIDE DEF a
  <2>4. CASE at = "refused"
    BY <2>2, <2>3, <2>4, TestMoves
  <2>5. CASE at = "sent"
    <3>1. /\ test' \in [Tests -> TestStates] /\ test'[t] = a /\ \A u \in Tests \ {t} : test'[u] = test[u]
      BY <1>0, <2>2, <2>3
    <3>2. \A u \in Tests : ~Holding(u)'  BY <2>2, <2>3, <2>5, <3>1 DEF TestInv, Holding
    <3>3. ASSUME NEW s \in Nat PROVE Cardinality(Within(s)') <= TestLimit
      <4>1. test[t].start \in Nat  BY <1>0 DEF TestStates
      <4>2. CASE test[t].start \in s .. s + Minute - 1
        <5>1. Within(s)' = Within(s) \cup {t}  BY <2>2, <2>5, <3>1, <4>2 DEF Within
        <5>2. Within(s) \subseteq Recent(t)
          <6> SUFFICES ASSUME NEW u \in Within(s) PROVE u \in Recent(t)  OBVIOUS
          <6>1. u \in Tests /\ test[u].at = "sent" /\ test[u].start \in s .. s + Minute - 1  BY DEF Within
          <6>2. test[u].start + Minute > test[t].start  BY <4>1, <4>2, <6>1, NewsAssumption
          <6> QED BY <6>1, <6>2 DEF Recent
        <5>3. IsFiniteSet(Recent(t)) /\ IsFiniteSet(Within(s)) /\ Cardinality(Recent(t)) \in Nat /\ Cardinality(Within(s)) \in Nat
          BY TestSets
        <5>4. Cardinality(Within(s)) <= Cardinality(Recent(t))  BY <5>2, <5>3, FS_Subset
        <5>5. Cardinality(Recent(t)) < TestLimit  BY <2>3 DEF TestInv
        <5>6. t \notin Within(s)  BY <2>3 DEF Within
        <5>7. Cardinality(Within(s) \cup {t}) = Cardinality(Within(s)) + 1  BY <5>3, <5>6, FS_AddElement
        <5> QED BY <5>1, <5>3, <5>4, <5>5, <5>7, NewsAssumption
      <4>3. CASE test[t].start \notin s .. s + Minute - 1
        <5>1. Within(s)' = Within(s)  BY <2>2, <2>3, <3>1, <4>3 DEF Within
        <5> QED BY <5>1 DEF TestInv
      <4> QED BY <4>2, <4>3
    <3> QED BY <1>0, <2>3, <3>1, <3>2, <3>3 DEF TestInv, Holding
  <2> QED BY <2>1, <2>4, <2>5
<1>5. CASE ClockTicks
  BY <1>0, <1>5 DEF ClockTicks, TestInv, Holding, Recent, Within
<1>6. CASE UNCHANGED testVars
  BY <1>6 DEF testVars, TestInv, Holding, Recent, Within
<1> QED BY <1>1, <1>2, <1>3, <1>4, <1>5, <1>6 DEF TestNext

LEMMA TestsSafe == TestInv => TestsAreFew
BY DEF TestInv, TestStates, TestsAreFew, Within

\* No minute holds more than TestLimit test mails of one person, whichever call
\* waits for the lock while the others go on.
THEOREM FewTestsInAMinute == TestInit /\ [][TestNext]_testVars => []TestsAreFew
<1>1. TestInit => TestInv  BY TestStart
<1>2. TestInv /\ [TestNext]_testVars => TestInv'  BY TestStep
<1> QED BY <1>1, <1>2, TestsSafe, PTL

-----------------------------------------------------------------------------
(* The template: its invariant.                                             *)

\* What a version renders to is what its Main source says.
VersionsWhole == \A v \in Seqs : versions[v].sources[versions[v].main] = versions[v].body

\* v is the last version of a seed, 0 for none.
IsLastSeed(v) == /\ v \in Seqs \union {0}
                 /\ v = 0 \/ versions[v].author = "seed"
                 /\ \A w \in Seqs : versions[w].author = "seed" => w <= v

\* A version starts from one that is there.
BasesHere == \A v \in Seqs : versions[v].base \in Seqs \union {0}

HistoryOK == /\ versions \in Seq(Version) /\ Len(versions) <= MaxVersions
             /\ VersionsWhole /\ BasesHere
             /\ \E v \in Seqs \union {0} : IsLastSeed(v)

RowOK(r) == r \in Row /\ r.contract \intersect r.operator = {}
HiddenOK(r) == r.exists /\ r.keyed /\ LockedKey => r.sensitive = "hidden"

\* The row, and what of it live mail is.
LiveOK == /\ RowOK(template) /\ HiddenOK(template)
          /\ ~template.exists => template.published = 0
          /\ LiveMailIsWhole

SparedOK == forced \subseteq Seqs /\ blind \subseteq Seqs /\ SeedSparesWork

RestOK == /\ desk \in [Operators \union Seeds -> Desk]
          /\ shown \in [Operators -> Ids]

StoreInv == HistoryOK /\ LiveOK /\ SparedOK /\ RestOK

LEMMA SeqsAreSeqs ==
  ASSUME versions \in Seq(Version)
  PROVE  /\ Len(versions) \in Nat /\ Seqs = 1..Len(versions)
         /\ \A v \in Seqs : v \in Nat /\ versions[v] \in Version
BY LenProperties, ElementOfSeq DEF Seqs

LEMMA LastSeedHere ==
  ASSUME HistoryOK
  PROVE  /\ LastSeed \in Seqs \union {0}
         /\ LastSeed = 0 \/ versions[LastSeed].author = "seed"
         /\ \A w \in Seqs : versions[w].author = "seed" => w <= LastSeed
<1>1. PICK v \in Seqs \union {0} : IsLastSeed(v)  BY DEF HistoryOK
<1>2. /\ v = 0 \/ versions[v].author = "seed"
      /\ \A w \in Seqs : versions[w].author = "seed" => w <= v
  BY <1>1 DEF IsLastSeed
<1> QED BY <1>2 DEF LastSeed

-----------------------------------------------------------------------------
(* What a write does to the history.                                       *)

\* A new version at its end.
LEMMA VersionAdded ==
  ASSUME TemplateAssumption, HistoryOK, Room, NEW e \in Version, e.sources[e.main] = e.body,
         e.base \in Seqs \union {0},
         versions' = Append(versions, e)
  PROVE  /\ versions' \in Seq(Version) /\ Len(versions') = Len(versions) + 1
         /\ Len(versions') <= MaxVersions
         /\ \A v \in Seqs : v \in Seqs' /\ versions'[v] = versions[v]
         /\ Seqs' = Seqs \union {Len(versions) + 1}
         /\ Len(versions) + 1 \notin Seqs
         /\ versions'[Len(versions) + 1] = e
         /\ HistoryOK'
<1>0. versions \in Seq(Version) /\ Len(versions) \in Nat /\ MaxVersions \in Nat
  BY SeqsAreSeqs DEF HistoryOK, TemplateAssumption
<1>1. /\ versions' \in Seq(Version) /\ Len(versions') = Len(versions) + 1
      /\ \A v \in 1..Len(versions) : versions'[v] = versions[v]
      /\ versions'[Len(versions) + 1] = e
  BY <1>0, AppendProperties
<1>2. Len(versions') <= MaxVersions  BY <1>0, <1>1 DEF Room
<1>3. /\ Seqs = 1..Len(versions) /\ Seqs' = 1..(Len(versions) + 1)
  BY <1>1 DEF Seqs
<1>4. /\ \A v \in Seqs : v \in Seqs' /\ versions'[v] = versions[v]
      /\ Seqs' = Seqs \union {Len(versions) + 1}
      /\ Len(versions) + 1 \notin Seqs
  BY <1>0, <1>1, <1>3
<1>5. VersionsWhole'
  BY <1>1, <1>4 DEF HistoryOK, VersionsWhole
<1>7. BasesHere'
  BY <1>1, <1>4 DEF HistoryOK, BasesHere
<1>6. \E v \in Seqs' \union {0} : IsLastSeed(v)'
  <2>1. PICK v \in Seqs \union {0} : IsLastSeed(v)  BY DEF HistoryOK
  <2>2. CASE e.author = "seed"
    <3>1. PICK n \in Nat : n = Len(versions) + 1  BY <1>0
    <3>2. n \in Seqs' /\ versions'[n].author = "seed" /\ \A w \in Seqs' : w <= n
      BY <1>0, <1>1, <1>3, <1>4, <2>2, <3>1
    <3>3. IsLastSeed(n)'
      BY <3>2 DEF IsLastSeed
    <3> QED BY <3>2, <3>3
  <2>3. CASE e.author # "seed"
    <3>1. IsLastSeed(v)'
      BY <1>1, <1>4, <2>1, <2>3 DEF IsLastSeed
    <3> QED BY <1>4, <2>1, <3>1
  <2> QED BY <2>2, <2>3
<1>8. HistoryOK'  BY <1>1, <1>2, <1>5, <1>6, <1>7 DEF HistoryOK
<1> QED BY <1>1, <1>2, <1>4, <1>8

\* An end of a draft: published or discarded.
LEMMA DraftEnded ==
  ASSUME HistoryOK, NEW v \in Seqs, NEW s \in {"published", "discarded"},
         versions' = [versions EXCEPT ![v].state = s]
  PROVE  /\ versions' \in Seq(Version) /\ Len(versions') = Len(versions) /\ Seqs' = Seqs
         /\ \A u \in Seqs : versions'[u] = IF u = v THEN [versions[v] EXCEPT !.state = s] ELSE versions[u]
         /\ HistoryOK'
<1>0. versions \in Seq(Version) /\ Len(versions) \in Nat /\ versions[v] \in Version
  BY SeqsAreSeqs DEF HistoryOK
<1> DEFINE e == [versions[v] EXCEPT !.state = s]
<1>1. e \in Version /\ e.author = versions[v].author /\ e.sources = versions[v].sources
      /\ e.main = versions[v].main /\ e.body = versions[v].body /\ e.base = versions[v].base
  BY <1>0 DEF Version
<1>2. versions' = [versions EXCEPT ![v] = e]
  OBVIOUS
<1>3. v \in 1..Len(versions)  BY DEF Seqs
<1> HIDE DEF e
<1>4. /\ versions' \in Seq(Version) /\ Len(versions') = Len(versions)
      /\ \A u \in 1..Len(versions) : versions'[u] = IF u = v THEN e ELSE versions[u]
  BY <1>0, <1>1, <1>2, <1>3, ExceptSeq
<1>5. Seqs' = Seqs /\ \A u \in Seqs : versions'[u] = IF u = v THEN e ELSE versions[u]
  BY <1>4 DEF Seqs
<1>6. VersionsWhole'
  BY <1>1, <1>5 DEF HistoryOK, VersionsWhole
<1>7. \E u \in Seqs' \union {0} : IsLastSeed(u)'
  <2>1. PICK u \in Seqs \union {0} : IsLastSeed(u)  BY DEF HistoryOK
  <2>2. IsLastSeed(u)'  BY <1>1, <1>5, <2>1 DEF IsLastSeed
  <2> QED BY <1>5, <2>1, <2>2
<1>8. BasesHere'  BY <1>1, <1>5 DEF HistoryOK, BasesHere
<1>9. HistoryOK'  BY <1>4, <1>6, <1>7, <1>8 DEF HistoryOK
<1> QED BY <1>4, <1>5, <1>9 DEF e

-----------------------------------------------------------------------------
(* A seed that nobody forced spares work, over the writes of the history.   *)

\* Spares says of the versions up to v what a longer history says too.
LEMMA SparesKept ==
  ASSUME HistoryOK, NEW v \in Seqs, Spares(v), Seqs \subseteq Seqs',
         \A u \in Seqs : /\ versions'[u].author = versions[u].author
                         /\ versions'[u].base = versions[u].base
                         /\ versions[u].state = "discarded" => versions'[u].state = "discarded"
  PROVE  Spares(v)'
<1>0. Len(versions) \in Nat /\ Seqs = 1..Len(versions)  BY SeqsAreSeqs DEF HistoryOK
<1>1. versions[v].base \in Seqs \union {0}  BY DEF HistoryOK, BasesHere
<1>2. Between(v)' = Between(v)
  <2>1. \A u \in 1..v - 1 : \A w \in u..v - 1 : w \in Seqs  BY <1>0
  <2> QED BY <2>1 DEF Between
<1>3. \A u \in Between(v) : u \in Seqs  BY <1>0 DEF Between
<1>4. \A u \in Between(v) : versions'[u].state = "discarded"
  BY <1>3 DEF Spares
<1>5. versions'[v].base # 0 => versions'[versions'[v].base].author = "seed"
  BY <1>1 DEF Spares
<1> QED BY <1>2, <1>4, <1>5 DEF Spares

LEMMA SparedAdded ==
  ASSUME TemplateAssumption, HistoryOK, SparedOK, Room,
         NEW e \in Version, e.sources[e.main] = e.body, e.base \in Seqs \union {0},
         versions' = Append(versions, e),
         forced \subseteq forced', forced' \subseteq forced \union {Len(versions) + 1},
         blind \subseteq blind', blind' \subseteq blind \union {Len(versions) + 1},
         e.author = "seed" =>
           \/ Len(versions) + 1 \in forced' \union blind'
           \/ OperatorWork = {} /\ e.base = LastSeed
  PROVE  SparedOK'
<1>0. Len(versions) \in Nat /\ Seqs = 1..Len(versions)
      /\ \A v \in Seqs : versions[v] \in Version  BY SeqsAreSeqs DEF HistoryOK
<1>1. /\ \A v \in Seqs : v \in Seqs' /\ versions'[v] = versions[v]
      /\ Seqs' = Seqs \union {Len(versions) + 1}
      /\ versions'[Len(versions) + 1] = e
  BY VersionAdded
<1>2. forced' \subseteq Seqs' /\ blind' \subseteq Seqs'
  BY <1>1 DEF SparedOK
<1>3. ASSUME NEW v \in Seqs', v \notin forced' \union blind', versions'[v].author = "seed"
      PROVE  Spares(v)'
  <2>1. CASE v \in Seqs
    <3>1. Spares(v)  BY <1>1, <1>3, <2>1 DEF SparedOK, SeedSparesWork
    <3> QED BY <1>1, <2>1, <3>1, SparesKept
  <2>2. CASE v = Len(versions) + 1
    <3>1. OperatorWork = {} /\ e.base = LastSeed  BY <1>1, <1>3, <2>2
    <3>2. /\ LastSeed \in Seqs \union {0}
          /\ LastSeed = 0 \/ versions[LastSeed].author = "seed"
      BY LastSeedHere
    <3>3. PICK l \in Seqs \union {0} : l = LastSeed  BY <3>2
    <3>4. l = 0 \/ versions[l].author = "seed"  BY <3>2, <3>3
    <3>5. versions'[v].base # 0 => versions'[versions'[v].base].author = "seed"
      BY <1>1, <2>2, <3>1, <3>3, <3>4
    <3>6. ASSUME NEW u \in Between(v)' PROVE versions'[u].state = "discarded"
      <4>1. u \in Seqs /\ \A w \in u..Len(versions) : versions[w].author # "seed"
        BY <1>0, <1>1, <2>2, <3>6 DEF Between
      <4>2. u > l /\ versions[u].author # "seed"
        BY <1>0, <3>3, <3>4, <4>1
      <4>3. versions[u].state = "discarded"
        BY <3>1, <3>3, <4>1, <4>2 DEF OperatorWork
      <4> QED BY <1>1, <4>1, <4>3
    <3> QED BY <3>5, <3>6 DEF Spares
  <2> QED BY <1>1, <2>1, <2>2
<1>4. SeedSparesWork'  BY <1>3 DEF SeedSparesWork
<1> QED BY <1>2, <1>4 DEF SparedOK

LEMMA SparedEnded ==
  ASSUME HistoryOK, SparedOK, NEW v \in Seqs, NEW s \in {"published", "discarded"},
         versions[v].state = "draft", versions' = [versions EXCEPT ![v].state = s],
         UNCHANGED editHistory
  PROVE  SparedOK'
<1>0. \A u \in Seqs : versions[u] \in Version  BY SeqsAreSeqs DEF HistoryOK
<1>1. /\ Seqs' = Seqs
      /\ \A u \in Seqs : versions'[u] = IF u = v THEN [versions[v] EXCEPT !.state = s] ELSE versions[u]
  BY DraftEnded
<1>2. \A u \in Seqs : /\ versions'[u].author = versions[u].author
                      /\ versions'[u].base = versions[u].base
                      /\ versions[u].state = "discarded" => versions'[u].state = "discarded"
  BY <1>0, <1>1 DEF Version
<1>3. ASSUME NEW u \in Seqs', u \notin forced' \union blind', versions'[u].author = "seed"
      PROVE  Spares(u)'
  <2>1. u \in Seqs /\ Spares(u)
    BY <1>1, <1>2, <1>3 DEF SparedOK, SeedSparesWork, editHistory
  <2> QED BY <1>1, <1>2, <2>1, SparesKept
<1>4. SeedSparesWork'  BY <1>3 DEF SeedSparesWork
<1> QED BY <1>1, <1>4 DEF SparedOK, editHistory

LEMMA SparedSame ==
  ASSUME SparedOK, UNCHANGED <<versions, editHistory>>
  PROVE  SparedOK'
BY DEF SparedOK, SeedSparesWork, Spares, Between, Seqs, editHistory

LEMMA HistorySame ==
  ASSUME HistoryOK, UNCHANGED versions
  PROVE  HistoryOK'
<1>1. PICK v \in Seqs \union {0} : IsLastSeed(v)  BY DEF HistoryOK
<1>2. v \in Seqs' \union {0} /\ IsLastSeed(v)'  BY <1>1 DEF IsLastSeed, Seqs
<1> QED BY <1>2 DEF HistoryOK, VersionsWhole, BasesHere, Seqs

-----------------------------------------------------------------------------
(* A write of the row.                                                     *)

\* A row a write may leave: hidden when it must be, with every Required
\* variable, and with no other source than what it renders to.
Writable(w) ==
  /\ RowOK(w) /\ HiddenOK(w) /\ w.exists
  /\ w.published = template.published
  /\ w.subject \in Subjects /\ w.body \in MailBodies
  /\ w.react \in {None, w.body}
  /\ CheckedWrite(w)

\* The sources a row of subject, body and react is recorded with.
LEMMA CandidateWhole ==
  ASSUME TemplateAssumption, HistoryOK, LiveOK, NEW w, Writable(w),
         NEW author \in Operators \union {"seed"}, NEW requested \in Subjects \union {None}
  PROVE  LET c == Candidate(w, author, requested) IN
         /\ c \in Version /\ c.sources[c.main] = c.body
         /\ c.base \in Seqs \union {0} /\ c.base = template.published
         /\ c.subject = w.subject /\ c.body = w.body /\ c.state = "published"
         /\ c.author = author
<1> DEFINE c == Candidate(w, author, requested)
<1>0. /\ w \in Row /\ w.published = template.published /\ w.react \in {None, w.body}
      /\ w.subject \in Subjects /\ w.body \in MailBodies
      /\ None \notin MailBodies
  BY DEF Writable, RowOK, TemplateAssumption
<1>1. template.published \in Seqs \union {0} /\ template.published \in Ids
  BY DEF LiveOK, LiveMailIsWhole, RowOK, Row
<1>2. \A v \in Seqs : /\ versions[v] \in Version
                      /\ versions[v].sources[versions[v].main] = versions[v].body
  BY SeqsAreSeqs DEF HistoryOK, VersionsWhole
<1> DEFINE p == versions[w.published]
           old == w.published # 0
           kept == old /\ w.body = p.body /\ w.react = p.sources["jsx"]
           jsx == IF w.react # None THEN w.react ELSE IF old THEN p.sources["jsx"] ELSE None
           visual == IF old THEN p.sources["visual"] ELSE None
           html == IF kept \/ w.react # None THEN IF old THEN p.sources["html"] ELSE None ELSE w.body
           srcs == [m \in Modes |-> CASE m = "jsx" -> jsx [] m = "visual" -> visual [] m = "html" -> html]
           main == IF kept THEN p.main ELSE IF w.react # None THEN "jsx" ELSE "html"
<1>3. c = [author |-> author, base |-> w.published, subject |-> w.subject, body |-> w.body,
           sources |-> srcs, main |-> main, state |-> "published", requested |-> requested]
  BY DEF Candidate
<1>4. old => p \in Version /\ p.sources[p.main] = p.body
  BY <1>0, <1>1, <1>2
<1>5. old => /\ p.main \in Modes /\ \A m \in Modes : p.sources[m] \in MailBodies \union {None}
  BY <1>4 DEF Version, Sources
<1>6. srcs["jsx"] = jsx /\ srcs["visual"] = visual /\ srcs["html"] = html
  BY DEF Modes
<1>7. srcs \in Sources
  <2>1. jsx \in MailBodies \union {None}  BY <1>0, <1>5 DEF Modes
  <2>2. visual \in MailBodies \union {None}  BY <1>0, <1>5 DEF Modes
  <2>3. html \in MailBodies \union {None}  BY <1>0, <1>5 DEF Modes
  <2> HIDE DEF jsx, visual, html
  <2> QED BY <2>1, <2>2, <2>3 DEF Sources, Modes
<1>8. main \in Modes  BY <1>5 DEF Modes
<1>9. srcs[main] = w.body
  <2>1. CASE kept
    <3>1. jsx = p.sources["jsx"] /\ visual = p.sources["visual"] /\ html = p.sources["html"]
      BY <2>1
    <3>2. srcs[p.main] = p.sources[p.main]
      BY <1>5, <1>6, <2>1, <3>1 DEF Modes
    <3> QED BY <1>4, <2>1, <3>2
  <2>2. CASE ~kept /\ w.react # None
    <3>1. main = "jsx" /\ jsx = w.body  BY <1>0, <2>2
    <3> QED BY <1>6, <3>1
  <2>3. CASE ~kept /\ w.react = None
    <3>1. main = "html" /\ html = w.body  BY <2>3
    <3> QED BY <1>6, <3>1
  <2> QED BY <2>1, <2>2, <2>3
<1> HIDE DEF srcs, main, c
<1>10. c \in Version
  BY <1>0, <1>1, <1>3, <1>7, <1>8 DEF Version
<1> QED BY <1>0, <1>1, <1>3, <1>9, <1>10 DEF c

\* What a write leaves is whole, and what it leaves in the history.
LEMMA WriteLeaves ==
  ASSUME TemplateAssumption, HistoryOK, LiveOK, NEW w, Writable(w),
         NEW author \in Operators \union {"seed"}, NEW requested \in Subjects \union {None},
         RecordWrite(w, author, requested)
  PROVE  HistoryOK' /\ LiveOK'
<1> DEFINE c == Candidate(w, author, requested)
<1>0. /\ w \in Row /\ RowOK(w) /\ HiddenOK(w) /\ w.published = template.published /\ w.react \in {None, w.body}
      /\ w.exists /\ w.contract \union w.operator \subseteq Refs[w.body]
  BY DEF Writable, RowOK, CheckedWrite, CheckBody
<1>1. /\ c \in Version /\ c.sources[c.main] = c.body
      /\ c.base \in Seqs \union {0} /\ c.base = template.published
      /\ c.subject = w.subject /\ c.body = w.body /\ c.state = "published"
      /\ c.author = author
  BY CandidateWhole
<1>2. CASE Recorded(w, author)
  <2>1. Room /\ versions' = Append(versions, c) /\ template' = [w EXCEPT !.published = Len(versions) + 1]
    BY <1>2 DEF RecordWrite
  <2> HIDE DEF c
  <2>2. /\ Len(versions') = Len(versions) + 1 /\ Len(versions') <= MaxVersions
        /\ Seqs' = Seqs \union {Len(versions) + 1}
        /\ versions'[Len(versions) + 1] = c
        /\ HistoryOK'
    BY <1>1, <2>1, VersionAdded
  <2>3. Len(versions) \in Nat /\ MaxVersions \in Nat
    BY SeqsAreSeqs DEF HistoryOK, TemplateAssumption
  <2>4. PICK n \in Ids : n = Len(versions) + 1  BY <2>2, <2>3 DEF Ids
  <2>5. template' = [w EXCEPT !.published = n]  BY <2>1, <2>4
  <2>6. /\ template' \in Row /\ template'.published = n
        /\ template'.exists = w.exists /\ template'.keyed = w.keyed
        /\ template'.sensitive = w.sensitive /\ template'.subject = w.subject
        /\ template'.body = w.body /\ template'.react = w.react
        /\ template'.contract = w.contract /\ template'.operator = w.operator
    BY <1>0, <2>5 DEF Row
  <2>7. RowOK(template)' /\ HiddenOK(template)'
    BY <1>0, <2>6 DEF RowOK, HiddenOK
  <2>8. n \in Seqs' /\ versions'[n] = c  BY <2>2, <2>4
  <2>9. LiveMailIsWhole'
    BY <1>0, <1>1, <2>6, <2>8 DEF LiveMailIsWhole, Required
  <2> QED BY <1>0, <2>2, <2>6, <2>7, <2>9 DEF LiveOK
<1>3. CASE ~Recorded(w, author)
  <2>1. template' = w /\ versions' = versions  BY <1>3 DEF RecordWrite
  <2>2. /\ w.published # 0 /\ versions[w.published].subject = w.subject
        /\ versions[w.published].body = w.body
    BY <1>3 DEF Recorded, SameContent, Candidate
  <2>3. template.exists /\ template.published \in Seqs
        /\ versions[template.published].state = "published"
    BY <1>0, <2>2 DEF LiveOK, LiveMailIsWhole
  <2>4. LiveMailIsWhole'
    BY <1>0, <2>1, <2>2, <2>3 DEF LiveMailIsWhole, Required, Seqs
  <2>5. RowOK(template)' /\ HiddenOK(template)'
    BY <1>0, <2>1 DEF RowOK, HiddenOK
  <2>6. HistoryOK'  BY <2>1, HistorySame
  <2> QED BY <1>0, <2>1, <2>4, <2>5, <2>6 DEF LiveOK
<1> QED BY <1>2, <1>3

LEMMA LiveAdded ==
  ASSUME TemplateAssumption, HistoryOK, LiveOK, UNCHANGED template, Room,
         NEW e \in Version, e.sources[e.main] = e.body, e.base \in Seqs \union {0},
         versions' = Append(versions, e)
  PROVE  LiveOK'
<1>1. \A v \in Seqs : v \in Seqs' /\ versions'[v] = versions[v]
  BY VersionAdded
<1>2. LiveMailIsWhole'
  BY <1>1 DEF LiveOK, LiveMailIsWhole, Required
<1> QED BY <1>2 DEF LiveOK, RowOK, HiddenOK

\* An edit's row, over one that is there or over none.
LEMMA EditWritable ==
  ASSUME TemplateAssumption, NEW r, RowOK(r), r.published = template.published, r.exists,
         NEW e \in Edits, CheckedWrite(Edited(r, e))
  PROVE  Writable(Edited(r, e))
<1> DEFINE s == [r EXCEPT !.subject = e.subject, !.body = e.body, !.keyed = e.keyed,
                          !.react = IF e.jsx THEN e.body ELSE None]
<1>1. e.subject \in Subjects /\ e.body \in MailBodies /\ e.keyed \in BOOLEAN /\ e.jsx \in BOOLEAN
  BY DEF TemplateAssumption
<1>2. r \in Row /\ r.contract \intersect r.operator = {}  BY DEF RowOK
<1>3. /\ s \in Row /\ s.subject = e.subject /\ s.body = e.body /\ s.react \in {None, e.body}
      /\ s.published = r.published /\ s.exists = r.exists /\ s.keyed = e.keyed
      /\ s.contract = r.contract /\ s.operator = r.operator
  BY <1>1, <1>2 DEF Row
<1>4. Edited(r, e) = LockSensitive(s)  BY DEF Edited
<1> HIDE DEF s
<1> DEFINE w == LockSensitive(s)
<1>5. /\ w \in Row /\ w.subject = s.subject /\ w.body = s.body /\ w.react = s.react
      /\ w.published = s.published /\ w.exists = s.exists /\ w.keyed = s.keyed
      /\ w.contract = s.contract /\ w.operator = s.operator
      /\ s.keyed /\ LockedKey => w.sensitive = "hidden"
  BY <1>3, ZenonT(30) DEF LockSensitive, ContentSensitiveLocked, Row, Sensitive
<1> HIDE DEF w
<1>6. CheckedWrite(w)  BY <1>4 DEF w
<1>7. Writable(w)
  BY <1>1, <1>2, <1>3, <1>5, <1>6 DEF Writable, RowOK, HiddenOK
<1> QED BY <1>4, <1>7 DEF w

\* A seed's row.
LEMMA SeedWritable ==
  ASSUME TemplateAssumption, LiveOK, NEW p \in SeedPayloads, CheckedWrite(Upserted(template, p))
  PROVE  Writable(Upserted(template, p))
<1> DEFINE w == Upserted(template, p)
           x == ContractSet(template, p)
           op == template.operator \ x
           react == IF p.jsx THEN p.body ELSE None
           hid == IF ContentSensitiveLocked(TRUE) THEN "hidden"
                  ELSE IF p.sensitive = "unset" THEN template.sensitive ELSE p.sensitive
<1>1. /\ p.subject \in Subjects /\ p.body \in MailBodies /\ p.jsx \in BOOLEAN /\ p.system \in BOOLEAN
      /\ p.contract \in SUBSET Vars /\ p.sent \in BOOLEAN /\ p.sensitive \in Sensitive
  BY DEF TemplateAssumption
<1>2. template \in Row  BY DEF LiveOK, RowOK
<1>3. x \in SUBSET Vars  BY <1>1, <1>2 DEF ContractSet, Row
<1>4. hid \in Sensitive /\ (LockedKey => hid = "hidden")
  BY <1>1, <1>2 DEF ContentSensitiveLocked, Row, Sensitive
<1>5. w = [template EXCEPT !.exists = TRUE, !.keyed = TRUE, !.archived = FALSE, !.refused = FALSE,
            !.subject = p.subject, !.body = p.body, !.react = react,
            !.system = p.system, !.contract = x, !.operator = op, !.sensitive = hid]
  BY DEF Upserted
<1>9. op \in SUBSET Vars /\ x \intersect op = {}  BY <1>2 DEF Row
<1>10. react \in {None, p.body} /\ react \in MailBodies \union {None}  BY <1>1
<1> HIDE DEF x, hid, op, react
<1>6. /\ w \in Row /\ w.subject = p.subject /\ w.body = p.body /\ w.react = react
      /\ w.published = template.published /\ w.exists /\ w.keyed
      /\ w.contract = x /\ w.operator = op /\ w.sensitive = hid
  BY <1>1, <1>2, <1>3, <1>4, <1>5, <1>9, <1>10, ZenonT(30) DEF Row
<1> HIDE DEF w
<1>7. CheckedWrite(w)  BY DEF w
<1>8. Writable(w)
  BY <1>1, <1>4, <1>6, <1>7, <1>9, <1>10 DEF Writable, RowOK, HiddenOK
<1> QED BY <1>8 DEF w

\* A write of the row, and the work of operators.
LEMMA WriteSpares ==
  ASSUME TemplateAssumption, HistoryOK, LiveOK, SparedOK, NEW w, Writable(w),
         NEW author \in Operators \union {"seed"}, NEW requested \in Subjects \union {None},
         RecordWrite(w, author, requested),
         Recorded(w, author) =>
           /\ forced \subseteq forced' /\ forced' \subseteq forced \union {Len(versions) + 1}
           /\ blind \subseteq blind' /\ blind' \subseteq blind \union {Len(versions) + 1}
           /\ author = "seed" =>
                \/ Len(versions) + 1 \in forced' \union blind'
                \/ OperatorWork = {} /\ template.published = LastSeed,
         ~Recorded(w, author) => UNCHANGED editHistory
  PROVE  SparedOK' /\ \A v \in Seqs : versions'[v] = versions[v]
<1> DEFINE c == Candidate(w, author, requested)
<1>1. /\ c \in Version /\ c.sources[c.main] = c.body /\ c.base \in Seqs \union {0}
      /\ c.base = template.published /\ c.author = author
  BY CandidateWhole
<1>2. CASE Recorded(w, author)
  <2>1. Room /\ versions' = Append(versions, c)  BY <1>2 DEF RecordWrite
  <2> HIDE DEF c
  <2>2. \A v \in Seqs : versions'[v] = versions[v]
    BY <1>1, <2>1, VersionAdded
  <2>3. SparedOK'
    BY <1>1, <1>2, <2>1, SparedAdded
  <2> QED BY <2>2, <2>3
<1>3. CASE ~Recorded(w, author)
  <2>1. UNCHANGED <<versions, editHistory>>  BY <1>3 DEF RecordWrite
  <2> QED BY <2>1, SparedSame
<1> QED BY <1>2, <1>3

-----------------------------------------------------------------------------
(* The steps.                                                               *)

\* What NoSilentRevert says of a step.
NothingReverted ==
  \A v \in Seqs :
    versions[v].state = "draft" /\ versions'[v].state = "published" =>
      \/ versions[v].base = template.published
      \/ \E o \in Operators : shown[o] = template.published

HistoryKept == \A v \in Seqs : versions'[v] = versions[v]

LEMMA KeptRevertsNothing ==
  ASSUME HistoryKept
  PROVE  NothingReverted
BY DEF HistoryKept, NothingReverted

\* A draft, whatever it holds.
LEMMA DraftKeeps ==
  ASSUME TemplateAssumption, StoreInv, NEW o \in Operators, NEW base \in Ids, NEW continued,
         NEW s \in Subjects, NEW srcs \in Sources, NEW m \in Modes, NEW b \in MailBodies,
         srcs[m] = b, WriteDraft(o, base, continued, s, srcs, m, b)
  PROVE  StoreInv' /\ HistoryKept
<1>0. HistoryOK /\ LiveOK /\ SparedOK /\ RestOK  BY DEF StoreInv
<1>1. UNCHANGED <<template, desk, shown, editHistory>>  BY DEF WriteDraft
<1>2. base \in Seqs \union {0}  BY DEF WriteDraft, PublishedBase
<1>3. RestOK'  BY <1>0, <1>1 DEF RestOK
<1>4. CASE UNCHANGED versions
  <2>1. LiveOK'  BY <1>0, <1>1, <1>4 DEF LiveOK, RowOK, HiddenOK, LiveMailIsWhole, Required, Seqs
  <2>2. HistoryOK'  BY <1>0, <1>4, HistorySame
  <2>3. SparedOK'  BY <1>0, <1>1, <1>4, SparedSame
  <2> QED BY <1>3, <1>4, <2>1, <2>2, <2>3 DEF StoreInv, HistoryKept
<1>5. CASE ~UNCHANGED versions
  <2> DEFINE e == [author |-> o, base |-> base, subject |-> s, sources |-> srcs, main |-> m, body |-> b,
                   state |-> "draft", requested |-> None]
  <2>1. Room /\ versions' = Append(versions, e)  BY <1>5 DEF WriteDraft
  <2>2. /\ e \in Version /\ e.sources[e.main] = e.body /\ e.base \in Seqs \union {0}
        /\ e.author # "seed"
    BY <1>2 DEF Version, TemplateAssumption
  <2> HIDE DEF e
  <2>3. HistoryOK' /\ \A v \in Seqs : versions'[v] = versions[v]
    BY <1>0, <2>1, <2>2, VersionAdded
  <2>4. LiveOK'  BY <1>0, <1>1, <2>1, <2>2, LiveAdded
  <2>5. SparedOK'  BY <1>0, <1>1, <2>1, <2>2, SparedAdded DEF editHistory
  <2> QED BY <1>3, <2>3, <2>4, <2>5 DEF StoreInv, HistoryKept
<1> QED BY <1>4, <1>5

LEMMA SaveKeeps ==
  ASSUME TemplateAssumption, StoreInv, NEW o \in Operators, SaveDraft(o)
  PROVE  StoreInv' /\ HistoryKept
<1>1. PICK base \in Ids, c \in Contents : SaveTemplateDraft(o, base, c)  BY DEF SaveDraft
<1>2. PICK from : from = Continued(o, base)  OBVIOUS
<1>3. WriteDraft(o, base, from, c.subject, Keeping(from, c), c.main, c.body)
  BY <1>1, <1>2 DEF SaveTemplateDraft
<1>4. c.subject \in Subjects /\ c.main \in Modes /\ c.body \in MailBodies
  BY DEF TemplateAssumption
<1>5. base \in Seqs \union {0}  BY <1>3 DEF WriteDraft, PublishedBase
<1>6. from \in Seqs \union {0}
  <2> DEFINE mine == {v \in InProgress(o) : versions[v].base = base}
  <2>1. mine \subseteq Seqs  BY DEF InProgress
  <2>2. from = IF mine # {} THEN CHOOSE v \in mine : TRUE ELSE base  BY <1>2 DEF Continued
  <2> HIDE DEF mine
  <2> QED BY <1>5, <2>1, <2>2
<1>7. \A v \in Seqs : versions[v] \in Version  BY SeqsAreSeqs DEF StoreInv, HistoryOK
<1>8. Keeping(from, c) \in Sources /\ Keeping(from, c)[c.main] = c.body
  BY <1>4, <1>6, <1>7 DEF Keeping, Sources, Version
<1> QED BY <1>3, <1>4, <1>8, DraftKeeps

LEMMA RestoreKeeps ==
  ASSUME TemplateAssumption, StoreInv, NEW o \in Operators, RestoreVersion(o)
  PROVE  StoreInv' /\ HistoryKept
<1>1. PICK v \in Seqs : RestoreTemplateVersion(o, versions[v])  BY DEF RestoreVersion
<1>2. PICK c : c = versions[v]  OBVIOUS
<1>3. PICK base : base = template.published  OBVIOUS
<1>4. PICK from : from = Continued(o, base)  OBVIOUS
<1>5. WriteDraft(o, base, from, c.subject, c.sources, c.main, c.body)
  BY <1>1, <1>2, <1>3, <1>4 DEF RestoreTemplateVersion
<1>6. c \in Version /\ c.sources[c.main] = c.body
  BY <1>2, SeqsAreSeqs DEF StoreInv, HistoryOK, VersionsWhole
<1>7. base \in Ids  BY <1>3 DEF StoreInv, LiveOK, RowOK, Row
<1>8. c.subject \in Subjects /\ c.sources \in Sources /\ c.main \in Modes /\ c.body \in MailBodies
  BY <1>6 DEF Version
<1> QED BY <1>5, <1>6, <1>7, <1>8, DraftKeeps

LEMMA PublishKeeps ==
  ASSUME TemplateAssumption, StoreInv, NEW o \in Operators, PublishDraft(o)
  PROVE  StoreInv' /\ NothingReverted
<1>0. HistoryOK /\ LiveOK /\ SparedOK /\ RestOK /\ UNCHANGED <<desk, shown, editHistory>>
  BY DEF StoreInv, PublishDraft
<1>1. PICK v \in Seqs, over \in {0, shown[o]} : PublishTemplateDraft(v, over)  BY DEF PublishDraft
<1>2. /\ template.exists /\ versions[v].state = "draft"
      /\ versions' = [versions EXCEPT ![v].state = "published"]
      /\ Required \subseteq Refs[versions[v].body]
      /\ template' = Copied(v)
  BY <1>1 DEF PublishTemplateDraft, InUse, StillComplete, CheckBody, Required
<1>3. /\ Len(versions') = Len(versions) /\ Seqs' = Seqs /\ HistoryOK'
      /\ \A u \in Seqs : versions'[u] = IF u = v THEN [versions[v] EXCEPT !.state = "published"] ELSE versions[u]
  BY <1>0, <1>2, DraftEnded
<1>4. SparedOK'  BY <1>0, <1>2, SparedEnded
<1>5. PICK e : e = versions[v]  OBVIOUS
<1>6. e \in Version /\ e.sources[e.main] = e.body  BY <1>0, <1>5, SeqsAreSeqs DEF HistoryOK, VersionsWhole
<1>7. /\ versions'[v].state = "published" /\ versions'[v].subject = e.subject
      /\ versions'[v].body = e.body
  BY <1>3, <1>5, <1>6 DEF Version
<1>8. PICK react : react = ReactOf(e)  OBVIOUS
<1>9. react \in {None, e.body} /\ react \in MailBodies \union {None}
  BY <1>6, <1>8 DEF ReactOf, Version, Sources, Modes
<1>10. v \in Ids  BY <1>0, SeqsAreSeqs DEF HistoryOK, Ids, TemplateAssumption
<1>11. template' = [template EXCEPT !.subject = e.subject, !.body = e.body, !.react = react, !.published = v]
  BY <1>2, <1>5, <1>8 DEF Copied
<1>12. /\ template' \in Row /\ template'.published = v /\ template'.subject = e.subject
       /\ template'.body = e.body /\ template'.react = react
       /\ template'.exists = template.exists /\ template'.keyed = template.keyed
       /\ template'.sensitive = template.sensitive
       /\ template'.contract = template.contract /\ template'.operator = template.operator
  BY <1>0, <1>6, <1>9, <1>10, <1>11 DEF LiveOK, RowOK, Row, Version
<1>13. RowOK(template)' /\ HiddenOK(template)'
  BY <1>0, <1>12 DEF LiveOK, RowOK, HiddenOK
<1>14. LiveMailIsWhole'
  BY <1>2, <1>3, <1>5, <1>7, <1>9, <1>12 DEF LiveMailIsWhole, Required
<1>15. LiveOK'  BY <1>2, <1>12, <1>13, <1>14 DEF LiveOK
<1>16. RestOK'  BY <1>0 DEF RestOK
<1>17. NothingReverted
  <2>1. \A u \in Seqs : u # v => versions'[u] = versions[u]  BY <1>3
  <2>2. \/ versions[v].base = template.published
        \/ over # 0 /\ over = template.published
    BY <1>1 DEF PublishTemplateDraft, Fresh
  <2>3. \/ versions[v].base = template.published
        \/ \E q \in Operators : shown[q] = template.published
    BY <1>1, <2>2
  <2> QED BY <2>1, <2>3 DEF NothingReverted
<1> QED BY <1>3, <1>4, <1>15, <1>16, <1>17 DEF StoreInv

LEMMA DiscardKeeps ==
  ASSUME TemplateAssumption, StoreInv, NEW o \in Operators, DiscardDraft(o)
  PROVE  StoreInv' /\ NothingReverted
<1>0. HistoryOK /\ LiveOK /\ SparedOK /\ RestOK /\ UNCHANGED <<template, desk, shown, editHistory>>
  BY DEF StoreInv, DiscardDraft
<1>1. PICK v \in Seqs : /\ versions[v].state = "draft"
                        /\ versions' = [versions EXCEPT ![v].state = "discarded"]
  BY DEF DiscardDraft, DiscardTemplateDraft
<1>2. /\ Seqs' = Seqs /\ HistoryOK'
      /\ \A u \in Seqs : versions'[u] = IF u = v THEN [versions[v] EXCEPT !.state = "discarded"] ELSE versions[u]
  BY <1>0, <1>1, DraftEnded
<1>3. SparedOK'  BY <1>0, <1>1, SparedEnded
<1>4. versions[v] \in Version  BY <1>0, SeqsAreSeqs DEF HistoryOK
<1>5. \A u \in Seqs : u # v => versions'[u] = versions[u]  BY <1>2
<1>6. LiveMailIsWhole'
  BY <1>0, <1>1, <1>2, <1>5 DEF LiveOK, LiveMailIsWhole, Required
<1>7. LiveOK'  BY <1>0, <1>6 DEF LiveOK, RowOK, HiddenOK
<1>8. RestOK'  BY <1>0 DEF RestOK
<1>9. versions'[v].state = "discarded"  BY <1>2, <1>4 DEF Version
<1>10. NothingReverted  BY <1>5, <1>9 DEF NothingReverted
<1> QED BY <1>2, <1>3, <1>7, <1>8, <1>10 DEF StoreInv

\* A row written over with the same mail.
LEMMA RowSet ==
  ASSUME TemplateAssumption, LiveOK, NEW r, RowOK(r), HiddenOK(r), r.exists = template.exists,
         r.published = template.published, r.subject = template.subject,
         r.body = template.body, r.react = template.react,
         template.exists => r.contract \union r.operator \subseteq Refs[r.body],
         template' = r, UNCHANGED versions
  PROVE  LiveOK'
<1>1. LiveMailIsWhole'
  BY DEF LiveOK, LiveMailIsWhole, Required, Seqs
<1> QED BY <1>1 DEF LiveOK, RowOK, HiddenOK

LEMMA SetRowKeeps ==
  ASSUME TemplateAssumption, StoreInv, NEW r, RowOK(r), HiddenOK(r), r.exists = template.exists,
         r.published = template.published, r.subject = template.subject,
         r.body = template.body, r.react = template.react,
         template.exists => r.contract \union r.operator \subseteq Refs[r.body],
         SetRow(r)
  PROVE  StoreInv' /\ HistoryKept
<1>0. HistoryOK /\ LiveOK /\ SparedOK /\ RestOK  BY DEF StoreInv
<1>1. template' = r /\ UNCHANGED <<versions, desk, shown, editHistory>>  BY DEF SetRow
<1>2. LiveOK'  BY <1>0, <1>1, RowSet
<1>3. HistoryOK' /\ SparedOK'  BY <1>0, <1>1, HistorySame, SparedSame
<1>4. RestOK'  BY <1>0, <1>1 DEF RestOK
<1> QED BY <1>1, <1>2, <1>3, <1>4 DEF StoreInv, HistoryKept

LEMMA SettingsKeep ==
  ASSUME TemplateAssumption, StoreInv,
         \/ ArchiveTemplate \/ RestoreTemplate
         \/ \E x \in Vars : AddRequiredVariable(x) \/ RemoveRequiredVariable(x)
         \/ \E hide \in BOOLEAN : SetContentSensitive(hide)
  PROVE  StoreInv' /\ HistoryKept
<1>0. /\ template \in Row /\ template.contract \intersect template.operator = {}
      /\ HiddenOK(template)
      /\ template.exists => template.contract \union template.operator \subseteq Refs[template.body]
  BY DEF StoreInv, LiveOK, RowOK, LiveMailIsWhole, Required
<1>1. CASE ArchiveTemplate \/ RestoreTemplate
  <2>1. PICK a \in BOOLEAN : SetRow([template EXCEPT !.archived = a])
    BY <1>1 DEF ArchiveTemplate, RestoreTemplate, Archived, Restored
  <2>2. PICK r : r = [template EXCEPT !.archived = a]  OBVIOUS
  <2>3. /\ r \in Row /\ r.exists = template.exists /\ r.keyed = template.keyed
        /\ r.sensitive = template.sensitive /\ r.published = template.published
        /\ r.subject = template.subject /\ r.body = template.body /\ r.react = template.react
        /\ r.contract = template.contract /\ r.operator = template.operator
    BY <1>0, <2>2 DEF Row
  <2>4. RowOK(r) /\ HiddenOK(r)  BY <1>0, <2>3 DEF RowOK, HiddenOK
  <2> QED BY <1>0, <2>1, <2>2, <2>3, <2>4, SetRowKeeps
<1>2. CASE \E x \in Vars : AddRequiredVariable(x) \/ RemoveRequiredVariable(x)
  <2>1. PICK x \in Vars : AddRequiredVariable(x) \/ RemoveRequiredVariable(x)  BY <1>2
  <2>2. \E op \in SUBSET Vars :
          /\ SetRow([template EXCEPT !.operator = op]) /\ template.contract \intersect op = {}
          /\ template.exists => template.contract \union op \subseteq Refs[template.body]
    <3>1. CASE AddRequiredVariable(x) /\ x \in template.contract
      <4>1. SetRow(template)  BY <3>1 DEF AddRequiredVariable, Requiring
      <4>2. [template EXCEPT !.operator = template.operator] = template  BY <1>0 DEF Row
      <4>3. template.operator \in SUBSET Vars  BY <1>0 DEF Row
      <4> QED BY <1>0, <4>1, <4>2, <4>3
    <3>2. CASE AddRequiredVariable(x) /\ x \notin template.contract
      <4>1. PICK op : op = template.operator \union {x}  OBVIOUS
      <4>2. PICK r : r = [template EXCEPT !.operator = op]  OBVIOUS
      <4>3. SetRow(r) /\ CheckBody(r, template.body)
        BY <3>2, <4>1, <4>2 DEF AddRequiredVariable, Requiring
      <4>4. r.contract = template.contract /\ r.operator = op  BY <1>0, <4>2 DEF Row
      <4>5. op \in SUBSET Vars /\ template.contract \intersect op = {}
        BY <1>0, <3>2, <4>1 DEF Row
      <4> QED BY <4>2, <4>3, <4>4, <4>5 DEF CheckBody
    <3>3. CASE RemoveRequiredVariable(x)
      <4>1. PICK op : op = template.operator \ {x}  OBVIOUS
      <4>2. SetRow([template EXCEPT !.operator = op])
        BY <3>3, <4>1 DEF RemoveRequiredVariable, Released
      <4>3. op \in SUBSET Vars /\ op \subseteq template.operator  BY <1>0, <4>1 DEF Row
      <4> QED BY <1>0, <4>2, <4>3
    <3> QED BY <2>1, <3>1, <3>2, <3>3
  <2>3. PICK op \in SUBSET Vars :
          /\ SetRow([template EXCEPT !.operator = op]) /\ template.contract \intersect op = {}
          /\ template.exists => template.contract \union op \subseteq Refs[template.body]
    BY <2>2
  <2>4. PICK r : r = [template EXCEPT !.operator = op]  OBVIOUS
  <2>5. /\ r \in Row /\ r.exists = template.exists /\ r.keyed = template.keyed
        /\ r.sensitive = template.sensitive /\ r.published = template.published
        /\ r.subject = template.subject /\ r.body = template.body /\ r.react = template.react
        /\ r.contract = template.contract /\ r.operator = op
    BY <1>0, <2>4 DEF Row
  <2>6. RowOK(r) /\ HiddenOK(r)  BY <1>0, <2>3, <2>5 DEF RowOK, HiddenOK
  <2> QED BY <2>3, <2>4, <2>5, <2>6, SetRowKeeps
<1>3. CASE \E hide \in BOOLEAN : SetContentSensitive(hide)
  <2>1. PICK hide \in BOOLEAN : SetContentSensitive(hide)  BY <1>3
  <2>2. PICK h \in Sensitive : h = IF hide THEN "hidden" ELSE "shown"  BY DEF Sensitive
  <2>3. PICK r : r = [template EXCEPT !.sensitive = h]  OBVIOUS
  <2>4. SetRow(r) /\ (LockedKey /\ template.keyed => h = "hidden")
    BY <2>1, <2>2, <2>3 DEF SetContentSensitive, Hidden, ContentSensitiveLocked
  <2>5. /\ r \in Row /\ r.exists = template.exists /\ r.keyed = template.keyed
        /\ r.sensitive = h /\ r.published = template.published
        /\ r.subject = template.subject /\ r.body = template.body /\ r.react = template.react
        /\ r.contract = template.contract /\ r.operator = template.operator
    BY <1>0, <2>3 DEF Row
  <2>6. RowOK(r) /\ HiddenOK(r)  BY <1>0, <2>4, <2>5 DEF RowOK, HiddenOK
  <2> QED BY <1>0, <2>4, <2>5, <2>6, SetRowKeeps
<1> QED BY <1>1, <1>2, <1>3

LEMMA AbsentIsRow ==
  ASSUME TemplateAssumption
  PROVE  /\ Absent \in Row /\ Absent.published = 0 /\ Absent.exists = FALSE
         /\ Absent.contract = {} /\ Absent.operator = {}
<1>1. 0 \in Ids  BY DEF Ids, TemplateAssumption
<1>2. "unset" \in Sensitive  BY DEF Sensitive
<1> QED BY <1>1, <1>2 DEF Row, Absent

LEMMA CreateKeeps ==
  ASSUME TemplateAssumption, StoreInv, NEW o \in Operators, CreateTemplate(o)
  PROVE  StoreInv' /\ HistoryKept
<1>0. HistoryOK /\ LiveOK /\ SparedOK /\ RestOK /\ UNCHANGED <<desk, shown, editHistory>>
  BY DEF StoreInv, CreateTemplate
<1>1. PICK r : r = [Absent EXCEPT !.exists = TRUE]  OBVIOUS
<1>2. PICK e \in Edits : ~template.exists /\ RecordWrite(Edited(r, e), o, None)
  BY <1>1 DEF CreateTemplate
<1>3. /\ r \in Row /\ r.exists /\ r.published = 0 /\ r.contract = {} /\ r.operator = {}
  BY <1>1, AbsentIsRow DEF Row
<1>4. RowOK(r) /\ r.published = template.published
  BY <1>0, <1>2, <1>3 DEF RowOK, LiveOK
<1>5. PICK w : w = Edited(r, e)  OBVIOUS
<1>6. w.contract = {} /\ w.operator = {}
  <2>1. PICK s : s = [r EXCEPT !.subject = e.subject, !.body = e.body, !.keyed = e.keyed,
                               !.react = IF e.jsx THEN e.body ELSE None]  OBVIOUS
  <2>2. s.contract = {} /\ s.operator = {} /\ s = [s EXCEPT !.keyed = s.keyed]
        /\ \A h : [s EXCEPT !.sensitive = h].contract = {} /\ [s EXCEPT !.sensitive = h].operator = {}
    BY <1>3, <2>1 DEF Row
  <2>3. w = LockSensitive(s)  BY <1>5, <2>1 DEF Edited
  <2> QED BY <2>2, <2>3 DEF LockSensitive
<1>7. CheckedWrite(w)  BY <1>6 DEF CheckedWrite, CheckBody
<1>8. Writable(w)  BY <1>3, <1>4, <1>5, <1>7, EditWritable
<1>9. o # "seed" /\ RecordWrite(w, o, None)  BY <1>2, <1>5 DEF TemplateAssumption
<1>10. HistoryOK' /\ LiveOK'  BY <1>0, <1>8, <1>9, WriteLeaves
<1>11. SparedOK' /\ HistoryKept
  BY <1>0, <1>8, <1>9, WriteSpares DEF HistoryKept, editHistory
<1>12. RestOK'  BY <1>0 DEF RestOK
<1> QED BY <1>10, <1>11, <1>12 DEF StoreInv

LEMMA CommitKeeps ==
  ASSUME TemplateAssumption, StoreInv, NEW o \in Operators, CommitEdit(o)
  PROVE  StoreInv' /\ HistoryKept
<1>0. HistoryOK /\ LiveOK /\ SparedOK /\ RestOK /\ UNCHANGED <<shown, editHistory>>
  BY DEF StoreInv, CommitEdit
<1>1. PICK e \in Edits : /\ InUse /\ CheckedWrite(Edited(template, e))
                         /\ RecordWrite(Edited(template, e), o, None)
                         /\ desk' = [desk EXCEPT ![o] = Idle]
  BY DEF CommitEdit
<1>2. PICK w : w = Edited(template, e)  OBVIOUS
<1>3. Writable(w)
  BY <1>0, <1>1, <1>2, EditWritable DEF LiveOK, InUse
<1>4. o # "seed" /\ RecordWrite(w, o, None)  BY <1>1, <1>2 DEF TemplateAssumption
<1>5. HistoryOK' /\ LiveOK'  BY <1>0, <1>3, <1>4, WriteLeaves
<1>6. SparedOK' /\ HistoryKept
  BY <1>0, <1>3, <1>4, WriteSpares DEF HistoryKept, editHistory
<1>7. RestOK'  BY <1>0, <1>1 DEF RestOK, Idle, Desk
<1> QED BY <1>5, <1>6, <1>7 DEF StoreInv

\* A seed's write: refused, forced, blind, or in nobody's way.
LEMMA SeedWriteKeeps ==
  ASSUME TemplateAssumption, StoreInv, NEW s \in Seeds, NEW p \in SeedPayloads, NEW mark,
         NEW conflict, SeedWrites(s, p, mark, conflict),
         desk[s] # Idle \/ (conflict = SeedConflict(p.subject) /\ template.exists)
  PROVE  StoreInv' /\ HistoryKept
<1>0. HistoryOK /\ LiveOK /\ SparedOK /\ RestOK /\ desk' = [desk EXCEPT ![s] = Idle] /\ UNCHANGED shown
  BY DEF StoreInv, SeedWrites
<1>1. PICK w : w = Upserted(template, p)  OBVIOUS
<1>2. /\ CheckedWrite(w)
      /\ IF SeedRefused(w, p, conflict) THEN RecordSeedRefusal
         ELSE /\ RecordWrite(w, "seed", p.subject)
              /\ forced' = IF Recorded(w, "seed") /\ p.force THEN forced \union {Len(versions) + 1} ELSE forced
              /\ blind' = IF Recorded(w, "seed") /\ desk[s] # Idle THEN blind \union {Len(versions) + 1} ELSE blind
  BY <1>1 DEF SeedWrites
<1>3. RestOK'  BY <1>0 DEF RestOK, Idle, Desk
<1>4. CASE SeedRefused(w, p, conflict)
  <2>1. PICK r : r = [template EXCEPT !.refused = TRUE]  OBVIOUS
  <2>2. template' = r /\ UNCHANGED <<versions, editHistory>>
    BY <1>2, <1>4, <2>1 DEF RecordSeedRefusal
  <2>3. template \in Row  BY <1>0 DEF LiveOK, RowOK
  <2>4. /\ r \in Row /\ r.exists = template.exists /\ r.keyed = template.keyed
        /\ r.sensitive = template.sensitive /\ r.published = template.published
        /\ r.subject = template.subject /\ r.body = template.body /\ r.react = template.react
        /\ r.contract = template.contract /\ r.operator = template.operator
    BY <2>1, <2>3 DEF Row
  <2>5. RowOK(r) /\ HiddenOK(r)
    BY <1>0, <2>4 DEF LiveOK, RowOK, HiddenOK
  <2>6. template.exists => r.contract \union r.operator \subseteq Refs[r.body]
    BY <1>0, <2>4 DEF LiveOK, LiveMailIsWhole, Required
  <2>7. LiveOK'  BY <1>0, <2>2, <2>4, <2>5, <2>6, RowSet
  <2>8. HistoryOK' /\ SparedOK'  BY <1>0, <2>2, HistorySame, SparedSame
  <2> QED BY <1>3, <2>2, <2>7, <2>8 DEF StoreInv, HistoryKept
<1>5. CASE ~SeedRefused(w, p, conflict)
  <2>1. Writable(w)  BY <1>0, <1>1, <1>2, SeedWritable
  <2>2. p.subject \in Subjects  BY DEF TemplateAssumption
  <2>3. HistoryOK' /\ LiveOK'  BY <1>0, <1>2, <1>5, <2>1, <2>2, WriteLeaves
  <2>4. ~Recorded(w, "seed") => UNCHANGED editHistory
    BY <1>2, <1>5 DEF editHistory
  <2>5. Recorded(w, "seed") =>
          /\ forced \subseteq forced' /\ forced' \subseteq forced \union {Len(versions) + 1}
          /\ blind \subseteq blind' /\ blind' \subseteq blind \union {Len(versions) + 1}
    BY <1>2, <1>5
  <2>6. Recorded(w, "seed") =>
          \/ Len(versions) + 1 \in forced' \union blind'
          \/ OperatorWork = {} /\ template.published = LastSeed
    BY <1>2, <1>5 DEF SeedRefused, SeedConflict
  <2>7. SparedOK' /\ HistoryKept
    BY <1>0, <1>2, <1>5, <2>1, <2>2, <2>4, <2>5, <2>6, WriteSpares DEF HistoryKept
  <2> QED BY <1>3, <2>3, <2>7 DEF StoreInv
<1> QED BY <1>4, <1>5

LEMMA SeedKeeps ==
  ASSUME TemplateAssumption, StoreInv, NEW s \in Seeds, SeedKnown(s) \/ SeedUpserts(s)
  PROVE  StoreInv' /\ HistoryKept
<1>1. CASE SeedKnown(s)
  <2>1. PICK p \in SeedPayloads : SeedWrites(s, p, template.system, SeedConflict(p.subject))
    BY <1>1 DEF SeedKnown
  <2>2. PICK mark : mark = template.system  OBVIOUS
  <2>3. PICK conflict : conflict = SeedConflict(p.subject)  OBVIOUS
  <2>4. SeedWrites(s, p, mark, conflict)  BY <2>1, <2>2, <2>3
  <2>5. template.exists  BY <1>1 DEF SeedKnown
  <2> QED BY <2>3, <2>4, <2>5, SeedWriteKeeps
<1>2. CASE SeedUpserts(s)
  <2>0. desk[s].at \in {"seeding", "inserting"}  BY <1>2 DEF SeedUpserts
  <2>9. Idle.at = "idle"  BY DEF Idle
  <2>1. desk[s] # Idle  BY <2>0, <2>9
  <2>2. PICK mark \in {template.system, FALSE} :
          \E p \in SeedPayloads : SeedWrites(s, p, mark, FALSE)
    BY <1>2 DEF SeedUpserts
  <2> QED BY <2>1, <2>2, SeedWriteKeeps
<1> QED BY <1>1, <1>2

\* Requests that only read, or are gone.
LEMMA DeskKeeps ==
  ASSUME TemplateAssumption, StoreInv,
         \/ \E o \in Operators : PublishRefused(o) \/ BeginEdit(o)
         \/ \E s \in Seeds : SeedFindsNone(s) \/ SeedFindsNoneAgain(s)
         \/ \E w \in Operators \union Seeds : Abandon(w)
  PROVE  StoreInv' /\ HistoryKept
<1>0. HistoryOK /\ LiveOK /\ SparedOK /\ RestOK  BY DEF StoreInv
<1>1. UNCHANGED <<template, versions, editHistory>>
  BY DEF PublishRefused, BeginEdit, SeedFindsNone, SeedFindsNoneAgain, Abandon
<1>2. template.published \in Ids /\ template.system \in BOOLEAN /\ template.keyed \in BOOLEAN
  BY <1>0 DEF LiveOK, RowOK, Row
<1>3. RestOK'
  <2>1. CASE \E o \in Operators : PublishRefused(o)
    BY <1>0, <1>2, <2>1 DEF RestOK, PublishRefused
  <2>2. CASE \E o \in Operators : BeginEdit(o)
    <3>1. PICK o \in Operators : BeginEdit(o)  BY <2>2
    <3>2. PICK d \in Desk : d = [at |-> "editing", system |-> template.system, keyed |-> template.keyed]
      BY <1>2 DEF Desk
    <3>3. desk' = [desk EXCEPT ![o] = d] /\ UNCHANGED shown  BY <3>1, <3>2 DEF BeginEdit
    <3> QED BY <1>0, <3>2, <3>3 DEF RestOK
  <2>3. CASE \E s \in Seeds : SeedFindsNone(s) \/ SeedFindsNoneAgain(s)
    <3>1. PICK s \in Seeds : SeedFindsNone(s) \/ SeedFindsNoneAgain(s)  BY <2>3
    <3>2. PICK at \in {"seeding", "inserting"} : desk' = [desk EXCEPT ![s].at = at]
      BY <3>1 DEF SeedFindsNone, SeedFindsNoneAgain
    <3>3. desk[s] \in Desk  BY <1>0 DEF RestOK
    <3>4. PICK d \in Desk : d = [desk[s] EXCEPT !.at = at]  BY <3>3 DEF Desk
    <3>5. desk' = [desk EXCEPT ![s] = d]  BY <3>2, <3>4
    <3>6. UNCHANGED shown  BY <3>1 DEF SeedFindsNone, SeedFindsNoneAgain
    <3> HIDE <3>2
    <3> QED BY <1>0, <3>4, <3>5, <3>6 DEF RestOK
  <2>4. CASE \E w \in Operators \union Seeds : Abandon(w)
    <3>1. Idle \in Desk  BY DEF Idle, Desk
    <3> QED BY <1>0, <2>4, <3>1 DEF RestOK, Abandon
  <2> QED BY <2>1, <2>2, <2>3, <2>4
<1>4. LiveOK'  BY <1>0, <1>1 DEF LiveOK, RowOK, HiddenOK, LiveMailIsWhole, Required, Seqs
<1>5. HistoryOK' /\ SparedOK'  BY <1>0, <1>1, HistorySame, SparedSame
<1> QED BY <1>1, <1>3, <1>4, <1>5 DEF StoreInv, HistoryKept

-----------------------------------------------------------------------------
(* Its start, its steps, and what every behaviour keeps.                    *)

LEMMA AbsentStart == TemplateAssumption /\ TemplateAbsent => StoreInv
<1> SUFFICES ASSUME TemplateAssumption, TemplateAbsent PROVE StoreInv  OBVIOUS
<1>1. /\ template = Absent /\ versions = <<>> /\ forced = {} /\ blind = {}
      /\ desk = [w \in Operators \union Seeds |-> Idle] /\ shown = [o \in Operators |-> 0]
  BY DEF TemplateAbsent
<1>2. versions \in Seq(Version) /\ Len(versions) = 0 /\ Seqs = {}
  BY <1>1 DEF Seqs
<1>3. IsLastSeed(0)  BY <1>2 DEF IsLastSeed
<1>4. HistoryOK
  BY <1>2, <1>3 DEF HistoryOK, VersionsWhole, BasesHere, TemplateAssumption
<1>5. LiveOK
  BY <1>1, AbsentIsRow DEF LiveOK, RowOK, HiddenOK, LiveMailIsWhole
<1>6. SparedOK  BY <1>1, <1>2 DEF SparedOK, SeedSparesWork
<1>7. RestOK  BY <1>1 DEF RestOK, Idle, Desk, Ids, TemplateAssumption
<1> QED BY <1>4, <1>5, <1>6, <1>7 DEF StoreInv

LEMMA MigratedStart ==
  ASSUME TemplateAssumption, NEW s \in Subjects, NEW b \in MailBodies, Migrated(s, b),
         desk = [w \in Operators \union Seeds |-> Idle], shown = [o \in Operators |-> 0],
         forced = {}, blind = {}, Required \subseteq Refs[b]
  PROVE  StoreInv
<1> DEFINE srcs == [m \in Modes |-> IF m = "html" THEN b ELSE None]
           e == [author |-> "seed", base |-> 0, subject |-> s, main |-> "html", body |-> b,
                 sources |-> srcs, state |-> "published", requested |-> None]
           sensitive == IF LockedKey THEN "hidden" ELSE "unset"
<1>1. versions = <<e>>
      /\ template = [Absent EXCEPT !.exists = TRUE, !.keyed = TRUE, !.subject = s, !.body = b,
                                   !.sensitive = sensitive, !.published = 1]
  BY DEF Migrated
<1>2. srcs \in Sources /\ srcs["html"] = b  BY DEF Sources, Modes
<1>3. 0 \in Ids /\ 1 \in Ids /\ MaxVersions \in Nat /\ 1 <= MaxVersions  BY DEF Ids, TemplateAssumption
<1>4. sensitive \in Sensitive /\ (LockedKey => sensitive = "hidden")  BY DEF Sensitive
<1> HIDE DEF srcs, sensitive
<1>5. e \in Version /\ e.sources[e.main] = e.body
  BY <1>2, <1>3 DEF Version, Modes
<1>6. e.author = "seed" /\ e.base = 0 /\ e.subject = s /\ e.body = b /\ e.state = "published"
  OBVIOUS
<1> HIDE DEF e
<1>7. versions \in Seq(Version) /\ Len(versions) = 1 /\ Seqs = {1} /\ versions[1] = e
  BY <1>1, <1>5 DEF Seqs
<1>8. IsLastSeed(1)  BY <1>6, <1>7 DEF IsLastSeed
<1>9. HistoryOK
  BY <1>3, <1>5, <1>6, <1>7, <1>8 DEF HistoryOK, VersionsWhole, BasesHere
<1>10. /\ template \in Row /\ template.exists /\ template.published = 1
       /\ template.subject = s /\ template.body = b /\ template.react = None
       /\ template.contract = {} /\ template.operator = {} /\ template.sensitive = sensitive
  BY <1>1, <1>3, <1>4, AbsentIsRow DEF Row, Absent
<1>11. LiveOK
  BY <1>4, <1>6, <1>7, <1>10 DEF LiveOK, RowOK, HiddenOK, LiveMailIsWhole, Required
<1>12. SparedOK
  <2>1. Between(1) = {}  BY DEF Between
  <2>2. Spares(1)  BY <1>6, <1>7, <2>1 DEF Spares
  <2> QED BY <1>7, <2>2 DEF SparedOK, SeedSparesWork
<1>13. RestOK  BY <1>3 DEF RestOK, Idle, Desk
<1> QED BY <1>9, <1>11, <1>12, <1>13 DEF StoreInv

LEMMA StoreStart == TemplateAssumption /\ TemplateInit => StoreInv
<1> SUFFICES ASSUME TemplateAssumption, TemplateInit PROVE StoreInv  OBVIOUS
<1>1. CASE TemplateAbsent  BY <1>1, AbsentStart
<1>2. CASE /\ \E s \in Subjects, b \in MailBodies : Migrated(s, b)
           /\ desk = [w \in Operators \union Seeds |-> Idle]
           /\ shown = [o \in Operators |-> 0]
           /\ forced = {} /\ blind = {}
  <2>1. PICK s \in Subjects, b \in MailBodies : Migrated(s, b)  BY <1>2
  <2>2. Required = {}  BY <2>1, AbsentIsRow DEF Migrated, Required, Row
  <2> QED BY <1>2, <2>1, <2>2, MigratedStart
<1> QED BY <1>1, <1>2 DEF TemplateInit

LEMMA StoreStep ==
  TemplateAssumption /\ StoreInv /\ [TemplateNext]_templateVars
    => StoreInv' /\ [NothingReverted]_templateVars
<1> SUFFICES ASSUME TemplateAssumption, StoreInv, [TemplateNext]_templateVars
             PROVE  StoreInv' /\ [NothingReverted]_templateVars
  OBVIOUS
<1>1. CASE UNCHANGED templateVars
  <2>1. /\ UNCHANGED <<template, versions, desk, shown>> /\ UNCHANGED <<versions, editHistory>>
        /\ UNCHANGED versions
    BY <1>1 DEF templateVars, editHistory
  <2>2. HistoryOK' /\ SparedOK'  BY <2>1, HistorySame, SparedSame DEF StoreInv
  <2>3. LiveOK' /\ RestOK'
    BY <2>1 DEF StoreInv, LiveOK, RestOK, RowOK, HiddenOK, LiveMailIsWhole, Required, Seqs
  <2> QED BY <1>1, <2>2, <2>3 DEF StoreInv
<1>2. ASSUME NEW o \in Operators, SaveDraft(o) \/ RestoreVersion(o)
      PROVE  StoreInv' /\ NothingReverted
  BY <1>2, SaveKeeps, RestoreKeeps, KeptRevertsNothing
<1>3. ASSUME NEW o \in Operators, PublishDraft(o) \/ DiscardDraft(o)
      PROVE  StoreInv' /\ NothingReverted
  BY <1>3, PublishKeeps, DiscardKeeps
<1>4. ASSUME NEW o \in Operators, CreateTemplate(o) \/ CommitEdit(o)
      PROVE  StoreInv' /\ NothingReverted
  BY <1>4, CreateKeeps, CommitKeeps, KeptRevertsNothing
<1>5. ASSUME NEW s \in Seeds, SeedKnown(s) \/ SeedUpserts(s)
      PROVE  StoreInv' /\ NothingReverted
  BY <1>5, SeedKeeps, KeptRevertsNothing
<1>6. ASSUME \/ \E o \in Operators : PublishRefused(o) \/ BeginEdit(o)
             \/ \E s \in Seeds : SeedFindsNone(s) \/ SeedFindsNoneAgain(s)
             \/ \E w \in Operators \union Seeds : Abandon(w)
      PROVE  StoreInv' /\ NothingReverted
  BY <1>6, DeskKeeps, KeptRevertsNothing
<1>7. ASSUME \/ ArchiveTemplate \/ RestoreTemplate
             \/ \E x \in Vars : AddRequiredVariable(x) \/ RemoveRequiredVariable(x)
             \/ \E hide \in BOOLEAN : SetContentSensitive(hide)
      PROVE  StoreInv' /\ NothingReverted
  BY <1>7, SettingsKeep, KeptRevertsNothing
<1> QED BY <1>1, <1>2, <1>3, <1>4, <1>5, <1>6, <1>7 DEF TemplateNext

LEMMA StoreInvariant == TemplateSpec => []StoreInv
<1>1. TemplateInit => StoreInv  BY StoreStart, TemplateAssumption
<1>2. StoreInv /\ [TemplateNext]_templateVars => StoreInv'  BY StoreStep, TemplateAssumption
<1> QED BY <1>1, <1>2, PTL DEF TemplateSpec

\* What the invariant says of the parts the runs name.
LEMMA StoreSafe ==
  StoreInv => TemplateTypeOK /\ LiveMailIsWhole /\ CredentialsStayHidden /\ SeedSparesWork
BY DEF StoreInv, HistoryOK, LiveOK, SparedOK, RestOK, RowOK, HiddenOK, TemplateTypeOK,
       CredentialsStayHidden

\* Every write of the row, its versions and the requests about it keeps its type.
THEOREM TemplateTypes == TemplateSpec => []TemplateTypeOK
BY StoreInvariant, StoreSafe, PTL

\* What is sent is the published version, with no source in the row that the
\* old panel could render to another mail, and with every Required variable,
\* however drafts, edits, seeds and settings interleave.
THEOREM LiveMailWhole == TemplateSpec => []LiveMailIsWhole
BY StoreInvariant, StoreSafe, PTL

\* A credential mail is hidden however its template came by the key.
THEOREM CredentialsHidden == TemplateSpec => []CredentialsStayHidden
BY StoreInvariant, StoreSafe, PTL

\* A seed that nobody forced, of a template it found, passes over no
\* operator's work.
THEOREM SeedsSpareWork == TemplateSpec => []SeedSparesWork
BY StoreInvariant, StoreSafe, PTL

\* A draft goes over what it started from, or over what an operator was shown.
THEOREM NothingIsReverted == TemplateSpec => NoSilentRevert
<1>1. StoreInv /\ [TemplateNext]_templateVars => [NothingReverted]_templateVars
  BY StoreStep, TemplateAssumption
<1>2. TemplateSpec => [][NothingReverted]_templateVars
  BY <1>1, StoreInvariant, PTL DEF TemplateSpec
<1> QED BY <1>2 DEF NoSilentRevert, NothingReverted

-----------------------------------------------------------------------------
(* The composition: every part keeps to its own specification.              *)

partVars == <<part, newsVars, testVars, formVars, noteVars, templateVars, tokenVars>>

LEMMA PartsStart ==
  Init => NewsInit /\ TestInit /\ FormInit /\ NoteInit /\ TokenInit /\ TemplateInit
BY DEF Init, TemplateInit

LEMMA PartsStep ==
  [Next]_partVars => /\ [NewsNext]_newsVars /\ [TestNext]_testVars /\ [FormNext]_formVars
                     /\ [NoteNext]_noteVars /\ [TokenNext]_tokenVars /\ [TemplateNext]_templateVars
BY DEF Next, partVars

PartsInv == NewsInv /\ TestInv /\ FormInv /\ NoteInv /\ TokenInv /\ StoreInv

LEMMA PartsInvariant == Spec => []PartsInv
<1>1. Init => PartsInv
  BY PartsStart, NewsStart, TestStart, FormStart, NoteStart, TokenStart, StoreStart, TemplateAssumption
     DEF PartsInv
<1>2. PartsInv /\ [Next]_partVars => PartsInv'
  BY PartsStep, NewsStep, TestStep, FormStep, NoteStep, TokenStep, StoreStep, TemplateAssumption
     DEF PartsInv
<1> QED BY <1>1, <1>2, PTL DEF Spec, partVars

\* In every run of the composition no dropped token comes back, a key has one
\* answer, a source one whole target, a record's mail goes to a mailbox once,
\* and test mails are few.
THEOREM BesideQueueSafe ==
  Spec => [](RefusedNotHandedOut /\ OneAnswerPerKey /\ OneWholeTarget /\ MailedOnce /\ TestsAreFew)
<1>1. PartsInv => RefusedNotHandedOut /\ OneAnswerPerKey /\ OneWholeTarget /\ MailedOnce /\ TestsAreFew
  BY NewsSafe, TestsSafe
     DEF PartsInv, TokenInv, RefusedNotHandedOut, NoteInv, OneAnswerPerKey, FormInv, OneWholeTarget
<1> QED BY <1>1, PartsInvariant, PTL

\* And its template is as safe as it is alone: live mail whole, credentials
\* hidden, operators' work spared and nothing reverted unseen.
THEOREM BesideQueueTemplate ==
  Spec => [](LiveMailIsWhole /\ CredentialsStayHidden /\ SeedSparesWork) /\ NoSilentRevert
<1>1. PartsInv => LiveMailIsWhole /\ CredentialsStayHidden /\ SeedSparesWork
  BY StoreSafe DEF PartsInv
<1>2. PartsInv /\ [Next]_partVars => [NothingReverted]_templateVars
  BY PartsStep, StoreStep, TemplateAssumption DEF PartsInv
<1>3. Spec => [][NothingReverted]_templateVars
  BY <1>2, PartsInvariant, PTL DEF Spec, partVars
<1> QED BY <1>1, <1>3, PartsInvariant, PTL DEF NoSilentRevert, NothingReverted
===============================================================================
