--------------------------- MODULE RecipientProofs ---------------------------
(***************************************************************************)
(* What SkyMail may do to its recipients, proved for every value of the    *)
(* constants: what a dropped tracking token leaves (Tracking), and whom a  *)
(* bulk mail goes to and with what (SendGates). The two share nothing.     *)
(***************************************************************************)
EXTENDS Tracking, SendGates, FiniteSetTheorems, TLAPS

-----------------------------------------------------------------------------
(* Tracking: what a dropped token leaves.                                   *)

RowStates == {"none", "pending", "processing", "sent", "failed"}
TokenStates == {"none", "open", "closed", "dropped"}
Letters == [status: RowStates, token: TokenStates, hand: BOOLEAN, carries: BOOLEAN, sentAt: 0..MaxTick]
Mailings == [at: {"new", "asked", "queued"}, requested: BOOLEAN, closed: BOOLEAN, hidden: BOOLEAN,
             link: {"none", "url", "expired", "erased"}]
Totals == [kept: BOOLEAN, tracked: Nat, open: Nat, click: Nat]
RunPlaces == {"idle", "apply", "purge", "end"}
AllModes == {"dry-run", "apply", "purge"}
Runs == [at: RunPlaces, mode: AllModes, now: 0..MaxTick]
Replies == {"not asked", "allowed", "not allowed"}

LEMMA TrackTypes_Named ==
  TrackTypeOK <=>
    /\ flag \in BOOLEAN /\ tick \in 0..MaxTick
    /\ reply \in [Tracked -> Replies] /\ mailing \in Mailings
    /\ letter \in [Tracked -> Letters] /\ events \subseteq Tracked \X EventKinds
    /\ totals \in Totals /\ recording \in [Tracked -> EventKinds \cup {"nothing"}]
    /\ held \in BOOLEAN /\ runLock \in Replicas \cup {Unheld}
    /\ run \in [Replicas -> Runs] /\ receipts \subseteq RunModes
BY DEF TrackTypeOK, RowStates, TokenStates, Letters, Mailings, Totals, RunPlaces, AllModes, Runs, Replies

\* A recording goes on only under its row's lock, and whoever drops a token
\* waits for that: so a row being recorded still has its token, in a mail that
\* was sent, and a row without one has no event.
TrackInv ==
  /\ TrackTypeOK
  /\ \A p \in Tracked :
       /\ recording[p] # "nothing" => letter[p].token = "open" /\ letter[p].status = "sent"
       /\ letter[p].token \in {"none", "dropped"} => \A k \in EventKinds : <<p, k>> \notin events
       /\ mailing.at # "queued" => letter[p].status = "none" /\ letter[p].token = "none"
  /\ \A r \in Replicas : run[r].at # "idle" => run[r].mode \in RunModes

-----------------------------------------------------------------------------
(* What the steps are made of. *)

\* The people of an instance can be counted.
LEMMA CountsAreNumbers ==
  /\ \A k : Number(k) \in Nat
  /\ Cardinality(Countable) \in Nat
<1>1. ASSUME NEW S \in SUBSET Tracked PROVE Cardinality(S) \in Nat
  BY <1>1, TrackingAssumption, FS_Subset, FS_CardinalityType
<1>2. \A k : {p \in Tracked : <<p, k>> \in events} \in SUBSET Tracked  OBVIOUS
<1>3. Countable \in SUBSET Tracked  BY DEF Countable
<1> QED BY <1>1, <1>2, <1>3 DEF Number

\* Dropping takes the token of those who had one and touches nothing else.
LEMMA DropIsTyped ==
  ASSUME letter \in [Tracked -> Letters], NEW ps
  PROVE  /\ Drop(ps) \in [Tracked -> Letters]
         /\ \A q \in Tracked :
              /\ Drop(ps)[q].status = letter[q].status
              /\ q \in ps /\ HasToken(q) => Drop(ps)[q].token = "dropped"
              /\ ~(q \in ps /\ HasToken(q)) => Drop(ps)[q] = letter[q]
<1>1. \A q \in Tracked :
        /\ [letter[q] EXCEPT !.token = "dropped"] \in Letters
        /\ [letter[q] EXCEPT !.token = "dropped"].status = letter[q].status
        /\ [letter[q] EXCEPT !.token = "dropped"].token = "dropped"
  <2>1. "dropped" \in TokenStates  BY DEF TokenStates
  <2> QED BY <2>1 DEF Letters
<1>2. \A q \in Tracked : Drop(ps)[q] = IF q \in ps /\ HasToken(q) THEN [letter[q] EXCEPT !.token = "dropped"] ELSE letter[q]
  BY DEF Drop
<1>3. Drop(ps) \in [Tracked -> Letters]  BY <1>1 DEF Drop
<1> QED BY <1>1, <1>2, <1>3

\* Whoever drops tokens deletes those people's events, and has waited for the
\* recordings under way.
LEMMA DroppedTogether ==
  ASSUME TrackInv, NEW ps,
         letter' = Drop(ps), events' \subseteq OfOthers(ps),
         \A p \in Tracked : p \in ps /\ HasToken(p) => recording[p] = "nothing",
         mailing' \in Mailings, mailing'.at = mailing.at, totals' \in Totals,
         run' \in [Replicas -> Runs], \A r \in Replicas : run'[r].at # "idle" => run'[r].mode \in RunModes,
         UNCHANGED <<flag, tick, reply, recording, held, runLock, receipts>>
  PROVE  TrackInv'
<1>1. letter \in [Tracked -> Letters] /\ events \subseteq Tracked \X EventKinds  BY TrackTypes_Named DEF TrackInv
<1>2. /\ letter' \in [Tracked -> Letters]
      /\ \A q \in Tracked :
           /\ letter'[q].status = letter[q].status
           /\ q \in ps /\ HasToken(q) => letter'[q].token = "dropped"
           /\ ~(q \in ps /\ HasToken(q)) => letter'[q] = letter[q]
  BY <1>1, DropIsTyped
<1>3. events' \subseteq events /\ \A p \in ps, k \in EventKinds : <<p, k>> \notin events'  BY DEF OfOthers
<1>4. TrackTypeOK'
  BY <1>1, <1>2, <1>3 DEF TrackInv, TrackTypeOK, RowStates, TokenStates, Letters, Mailings, Totals, RunPlaces, AllModes, Runs, Replies
<1>5. ASSUME NEW p \in Tracked
      PROVE  /\ recording'[p] # "nothing" => letter'[p].token = "open" /\ letter'[p].status = "sent"
             /\ letter'[p].token \in {"none", "dropped"} => \A k \in EventKinds : <<p, k>> \notin events'
             /\ mailing'.at # "queued" => letter'[p].status = "none" /\ letter'[p].token = "none"
  <2>1. CASE p \in ps /\ HasToken(p)
    <3>1. letter'[p].token = "dropped" /\ recording'[p] = "nothing" /\ letter[p].token # "none"
      BY <1>2, <2>1 DEF HasToken
    <3>2. mailing.at = "queued"  BY <3>1 DEF TrackInv
    <3> QED BY <1>3, <2>1, <3>1, <3>2
  <2>2. CASE ~(p \in ps /\ HasToken(p))
    <3>1. letter'[p] = letter[p]  BY <1>2, <2>2
    <3> QED BY <1>3, <3>1 DEF TrackInv
  <2> QED BY <2>1, <2>2
<1> QED BY <1>4, <1>5 DEF TrackInv

\* A step of the retention's administration, or of the switches around it,
\* that touches no row, no event and no recording.
LEMMA RowsStand ==
  ASSUME TrackInv, TrackTypeOK', UNCHANGED <<letter, events, recording>>,
         mailing'.at # "queued" => mailing.at # "queued",
         \A r \in Replicas : run'[r].at # "idle" => run'[r].mode \in RunModes
  PROVE  TrackInv'
BY DEF TrackInv

\* One row moves that is not being recorded, and keeps a token if it had one
\* that counts.
LEMMA LetterMoves ==
  ASSUME TrackInv, NEW p \in Tracked, recording[p] = "nothing", mailing.at = "queued",
         NEW l \in Letters, letter' = [letter EXCEPT ![p] = l],
         l.token \in {"none", "dropped"} => letter[p].token \in {"none", "dropped"},
         UNCHANGED <<flag, tick, reply, mailing, events, totals, locksAndRuns>>
  PROVE  TrackInv'
<1>1. letter \in [Tracked -> Letters]  BY TrackTypes_Named DEF TrackInv
<1>2. letter' \in [Tracked -> Letters] /\ letter'[p] = l /\ \A q \in Tracked \ {p} : letter'[q] = letter[q]
  BY <1>1
<1>3. TrackTypeOK'
  BY <1>2 DEF TrackInv, TrackTypeOK, RowStates, TokenStates, Letters, Mailings, Totals, RunPlaces, AllModes, Runs, Replies, locksAndRuns
<1> QED BY <1>2, <1>3 DEF TrackInv, locksAndRuns

-----------------------------------------------------------------------------
LEMMA NoLetterTyped == NoLetter \in Letters /\ NoLetter.status = "none" /\ NoLetter.token = "none"
<1>1. 0 \in 0..MaxTick  BY TrackingAssumption
<1> QED BY <1>1 DEF NoLetter, Letters, RowStates, TokenStates

LEMMA TrackStart == TrackInit => TrackInv
<1> SUFFICES ASSUME TrackInit PROVE TrackInv  OBVIOUS
<1> USE TrackingAssumption
<1>1. 0 \in 0..MaxTick  OBVIOUS
<1>3. letter \in [Tracked -> Letters] /\ \A p \in Tracked : letter[p].status = "none" /\ letter[p].token = "none"
  BY NoLetterTyped DEF TrackInit
<1>4. NoRetention \in Runs /\ NoRetention.at = "idle"  BY <1>1 DEF NoRetention, Runs, RunPlaces, AllModes
<1>5. run \in [Replicas -> Runs] /\ \A r \in Replicas : run[r].at = "idle"  BY <1>4 DEF TrackInit
<1>6. mailing \in Mailings /\ mailing.at = "new"  BY DEF TrackInit, Mailings
<1>7. totals \in Totals  BY DEF TrackInit, NoTotals, Totals
<1>8. reply \in [Tracked -> Replies]  BY DEF TrackInit, Replies
<1>9. /\ recording \in [Tracked -> EventKinds \cup {"nothing"}] /\ events = {} /\ flag \in BOOLEAN /\ tick \in 0..MaxTick
      /\ held \in BOOLEAN /\ runLock \in Replicas \cup {Unheld} /\ receipts \subseteq RunModes
      /\ \A p \in Tracked : recording[p] = "nothing"
  BY <1>1 DEF TrackInit
<1>10. TrackTypeOK  BY <1>3, <1>5, <1>6, <1>7, <1>8, <1>9, TrackTypes_Named
<1> QED BY <1>3, <1>5, <1>9, <1>10 DEF TrackInv

LEMMA TrackStep == TrackInv /\ [TrackNext]_trackVars => TrackInv'
<1> SUFFICES ASSUME TrackInv, [TrackNext]_trackVars PROVE TrackInv'  OBVIOUS
<1> USE TrackingAssumption
<1>0. /\ flag \in BOOLEAN /\ tick \in 0..MaxTick
      /\ reply \in [Tracked -> Replies] /\ mailing \in Mailings
      /\ letter \in [Tracked -> Letters] /\ events \subseteq Tracked \X EventKinds
      /\ totals \in Totals /\ recording \in [Tracked -> EventKinds \cup {"nothing"}]
      /\ held \in BOOLEAN /\ runLock \in Replicas \cup {Unheld}
      /\ run \in [Replicas -> Runs] /\ receipts \subseteq RunModes
      /\ \A r \in Replicas : run[r].at # "idle" => run[r].mode \in RunModes
  BY TrackTypes_Named DEF TrackInv
<1>1. CASE AskCore
  <2>1. mailing' \in Mailings /\ mailing.at = "new"  BY <1>0, <1>1 DEF AskCore, Mailings
  <2>2. reply' \in [Tracked -> Replies]
    <3>1. PICK named \in WithAccount, said \in CoreSays :
            reply' = [p \in Tracked |-> IF p \in named THEN said[p] ELSE "not asked"]
      BY <1>1 DEF AskCore
    <3>2. \A p \in Tracked : said[p] \in Replies  BY DEF CoreSays, Replies
    <3> QED BY <3>1, <3>2 DEF Replies
  <2>3. UNCHANGED <<flag, tick, letter, events, totals, locksAndRuns>>  BY <1>1 DEF AskCore
  <2>4. TrackTypeOK'
    BY <1>0, <2>1, <2>2, <2>3 DEF TrackTypeOK, RowStates, TokenStates, Letters, Mailings, Totals, RunPlaces, AllModes, Runs, Replies, locksAndRuns
  <2> QED BY <1>0, <2>1, <2>3, <2>4, RowsStand DEF locksAndRuns
<1>2. CASE QueueMailing
  <2>1. PICK way \in Ways, lane \in {"bulk", "system"}, common \in BOOLEAN :
          /\ mailing' = [mailing EXCEPT !.at = "queued", !.requested = ~Cleared(way, lane),
                                        !.link = IF Linked(Cleared(way, lane), common) THEN "url" ELSE "none"]
          /\ letter' = [p \in Tracked |-> [NoLetter EXCEPT !.status = "pending", !.token = TokenOf(p, Cleared(way, lane))]]
    BY <1>2 DEF QueueMailing
  <2>2. Cleared(way, lane) \in BOOLEAN  BY DEF Cleared
  <2>3. mailing' \in Mailings /\ mailing'.at = "queued"  BY <1>0, <2>1, <2>2 DEF Mailings
  <2>4. /\ letter' \in [Tracked -> Letters]
        /\ \A p \in Tracked : letter'[p].token \in {"open", "none"}
    <3>1. \A p \in Tracked : TokenOf(p, Cleared(way, lane)) \in {"open", "none"}  BY DEF TokenOf
    <3>2. \A t \in {"open", "none"} :
            /\ [NoLetter EXCEPT !.status = "pending", !.token = t] \in Letters
            /\ [NoLetter EXCEPT !.status = "pending", !.token = t].token = t
      <4>1. "pending" \in RowStates /\ {"open", "none"} \subseteq TokenStates  BY DEF RowStates, TokenStates
      <4> QED BY <4>1, NoLetterTyped DEF Letters
    <3> QED BY <2>1, <3>1, <3>2
  <2>5. reply' \in [Tracked -> Replies]  BY <1>2 DEF QueueMailing, Replies
  <2>6. UNCHANGED <<flag, tick, events, totals, locksAndRuns>> /\ mailing.at # "queued"  BY <1>2 DEF QueueMailing
  <2>7. TrackTypeOK'
    BY <1>0, <2>3, <2>4, <2>5, <2>6 DEF TrackTypeOK, RowStates, TokenStates, Letters, Mailings, Totals, RunPlaces, AllModes, Runs, Replies, locksAndRuns
  <2>8. \A p \in Tracked : /\ recording[p] = "nothing"
                           /\ \A k \in EventKinds : <<p, k>> \notin events
    BY <2>6 DEF TrackInv
  <2> QED BY <1>0, <2>3, <2>4, <2>6, <2>7, <2>8 DEF TrackInv, locksAndRuns
<1>3. ASSUME NEW p \in Tracked, TakeLetter(p) PROVE TrackInv'
  <2> DEFINE l == [letter[p] EXCEPT !.status = "processing", !.hand = letter[p].token = "open"]
  <2>1. l \in Letters /\ l.token = letter[p].token
    <3>1. (letter[p].token = "open") \in BOOLEAN /\ "processing" \in RowStates  BY DEF RowStates
    <3> QED BY <1>0, <3>1, ZenonT(30) DEF Letters
  <2>2. letter' = [letter EXCEPT ![p] = l]  BY <1>3 DEF TakeLetter
  <2>3. recording[p] = "nothing" /\ mailing.at = "queued"  BY <1>3 DEF TakeLetter, RowLocked, TrackInv
  <2>4. UNCHANGED <<flag, tick, reply, mailing, events, totals, locksAndRuns>>  BY <1>3 DEF TakeLetter
  <2> HIDE DEF l
  <2> QED BY <2>1, <2>2, <2>3, <2>4, LetterMoves
<1>4. ASSUME NEW p \in Tracked, SendLetter(p) PROVE TrackInv'
  <2> DEFINE token == IF letter[p].hand /\ ~flag /\ letter[p].token = "open" THEN "closed" ELSE letter[p].token
  <2>1. token \in TokenStates /\ (token \in {"none", "dropped"} => letter[p].token \in {"none", "dropped"})
    BY <1>0 DEF Letters, TokenStates
  <2>2. PICK status \in {"sent", "failed", "pending"}, carries \in {letter[p].hand /\ flag, FALSE} :
          letter' = [letter EXCEPT ![p] = [status |-> status, token |-> token, hand |-> FALSE, carries |-> carries,
                                           sentAt |-> IF status = "sent" THEN tick ELSE 0]]
    BY <1>4 DEF SendLetter
  <2> DEFINE l == [status |-> status, token |-> token, hand |-> FALSE, carries |-> carries,
                   sentAt |-> IF status = "sent" THEN tick ELSE 0]
  <2>3. l \in Letters /\ l.token = token
    <3>1. status \in RowStates  BY DEF RowStates
    <3>2. carries \in BOOLEAN  BY <1>0 DEF Letters
    <3>3. (IF status = "sent" THEN tick ELSE 0) \in 0..MaxTick  BY <1>0
    <3> HIDE DEF token
    <3> QED BY <2>1, <3>1, <3>2, <3>3 DEF Letters
  <2>4. letter' = [letter EXCEPT ![p] = l]  BY <2>2
  <2>5. recording[p] = "nothing" /\ mailing.at = "queued"  BY <1>4 DEF SendLetter, RowLocked, TrackInv
  <2>6. UNCHANGED <<flag, tick, reply, mailing, events, totals, locksAndRuns>>  BY <1>4 DEF SendLetter
  <2> HIDE DEF l, token
  <2> QED BY <2>1, <2>3, <2>4, <2>5, <2>6, LetterMoves
<1>5. ASSUME NEW p \in Tracked, NEW k \in EventKinds, LockRecipient(p, k) PROVE TrackInv'
  <2>1. recording' \in [Tracked -> EventKinds \cup {"nothing"}] /\ \A q \in Tracked \ {p} : recording'[q] = recording[q]
    BY <1>0, <1>5 DEF LockRecipient
  <2>2. letter[p].token = "open" /\ letter[p].status = "sent"  BY <1>5 DEF LockRecipient, Recordable
  <2>3. UNCHANGED <<flag, tick, reply, mailing, letter, events, totals, held, runLock, run, receipts>>
    BY <1>5 DEF LockRecipient
  <2>4. TrackTypeOK'
    BY <1>0, <2>1, <2>3, ZenonT(30) DEF TrackTypeOK, RowStates, TokenStates, Letters, Mailings, Totals, RunPlaces, AllModes, Runs, Replies
  <2> QED BY <2>1, <2>2, <2>3, <2>4 DEF TrackInv
<1>6. ASSUME NEW p \in Tracked, InsertEvent(p) PROVE TrackInv'
  <2>1. /\ recording' \in [Tracked -> EventKinds \cup {"nothing"}]
        /\ recording'[p] = "nothing" /\ \A q \in Tracked \ {p} : recording'[q] = recording[q]
    BY <1>0, <1>6 DEF InsertEvent
  <2>2. recording[p] \in EventKinds /\ letter[p].token = "open"  BY <1>0, <1>6 DEF InsertEvent, TrackInv
  <2>3. events' \subseteq Tracked \X EventKinds /\ events' \subseteq events \cup {<<p, recording[p]>>}
    BY <1>0, <1>6, <2>2 DEF InsertEvent
  <2>4. UNCHANGED <<flag, tick, reply, mailing, letter, totals, held, runLock, run, receipts>>  BY <1>6 DEF InsertEvent
  <2>5. TrackTypeOK'
    BY <1>0, <2>1, <2>3, <2>4, ZenonT(30) DEF TrackTypeOK, RowStates, TokenStates, Letters, Mailings, Totals, RunPlaces, AllModes, Runs, Replies
  <2>6. \A q \in Tracked : letter[q].token \in {"none", "dropped"} => \A k \in EventKinds : <<q, k>> \notin events'
    BY <2>2, <2>3 DEF TrackInv
  <2> QED BY <2>1, <2>4, <2>5, <2>6 DEF TrackInv
<1>7. ASSUME NEW p \in Tracked, Withdraw(p) PROVE TrackInv'
  <2>1. letter' = Drop({p}) /\ events' \subseteq OfOthers({p}) /\ recording[p] = "nothing"
    BY <1>7 DEF Withdraw, WaitsForRow, RowLocked
  <2>2. UNCHANGED <<flag, tick, reply, mailing, totals, recording, held, runLock, run, receipts>>
    BY <1>7 DEF Withdraw, locksAndRuns
  <2>3. \A q \in Tracked : q \in {p} /\ HasToken(q) => recording[q] = "nothing"  BY <2>1
  <2>4. run' \in [Replicas -> Runs] /\ mailing' \in Mailings /\ totals' \in Totals  BY <1>0, <2>2
  <2>5. \A r \in Replicas : run'[r].at # "idle" => run'[r].mode \in RunModes  BY <1>0, <2>2
  <2> QED BY <2>1, <2>2, <2>3, <2>4, <2>5, DroppedTogether
<1>8. ASSUME NEW r \in Replicas, run' \in [Replicas -> Runs], \A s \in Replicas : run'[s].at # "idle" => run'[s].mode \in RunModes,
             runLock' \in Replicas \cup {Unheld}, receipts' \subseteq RunModes,
             UNCHANGED <<flag, tick, reply, mailing, letter, events, totals, recording, held>>
      PROVE  TrackInv'
  <2>1. TrackTypeOK'
    BY <1>0, <1>8 DEF TrackTypeOK, RowStates, TokenStates, Letters, Mailings, Totals, RunPlaces, AllModes, Runs, Replies
  <2> QED BY <1>8, <2>1, RowsStand
<1>9. ASSUME NEW r \in Replicas, GoesTo(r, "end") PROVE
        /\ run' \in [Replicas -> Runs]
        /\ \A s \in Replicas : run'[s].at # "idle" => run[s].at # "idle" \/ s = r
        /\ \A s \in Replicas : run'[s].mode = run[s].mode
  <2> DEFINE a == [run[r] EXCEPT !.at = "end", !.now = 0]
  <2>0. 0 \in 0..MaxTick /\ "end" \in RunPlaces  BY DEF RunPlaces
  <2>1. a \in Runs /\ a.mode = run[r].mode  BY <1>0, <2>0 DEF Runs
  <2>2. run' = [run EXCEPT ![r] = a]  BY <1>9 DEF GoesTo
  <2> HIDE DEF a
  <2> QED BY <1>0, <2>1, <2>2
<1>10. ASSUME NEW r \in Replicas, run' = [run EXCEPT ![r] = NoRetention] PROVE
        /\ run' \in [Replicas -> Runs]
        /\ \A s \in Replicas : run'[s].at # "idle" => run[s].at # "idle" /\ run'[s] = run[s]
  <2>1. NoRetention \in Runs /\ NoRetention.at = "idle"  BY DEF NoRetention, Runs, RunPlaces, AllModes
  <2> QED BY <1>0, <1>10, <2>1
<1>11. ASSUME NEW r \in Replicas, NEW mode \in RunModes, StartRetention(r, mode) PROVE TrackInv'
  <2>1. mode \in AllModes  BY DEF AllModes
  <2>2. PICK at \in {"purge", "apply", "end"}, now \in {0, tick} :
          run' = [run EXCEPT ![r] = [at |-> at, mode |-> mode, now |-> now]]
    BY <1>11 DEF StartRetention
  <2> DEFINE a == [at |-> at, mode |-> mode, now |-> now]
  <2>3. a \in Runs /\ a.mode = mode  BY <1>0, <2>1 DEF Runs, RunPlaces
  <2>4. run' = [run EXCEPT ![r] = a]  BY <2>2
  <2> HIDE DEF a
  <2>5. run' \in [Replicas -> Runs] /\ \A s \in Replicas : run'[s].at # "idle" => run'[s].mode \in RunModes
    BY <1>0, <2>3, <2>4
  <2> QED BY <1>0, <1>8, <1>11, <2>5 DEF StartRetention
<1>12. ASSUME NEW r \in Replicas, ApplyRules(r) PROVE TrackInv'
  <2> DEFINE now == run[r].now
  <2>1. letter' = Drop(Forgotten(now)) /\ events' \subseteq OfOthers(Forgotten(now))  BY <1>12 DEF ApplyRules
  <2>2. \A p \in Tracked : HasToken(p) => recording[p] = "nothing"
    BY <1>12 DEF ApplyRules, Free, WithToken, RowLocked
  <2>3. mailing' \in Mailings /\ mailing'.at = mailing.at
    <3>1. LinkAfter(now) \in {"none", "url", "expired", "erased"}  BY <1>0 DEF LinkAfter, Mailings
    <3>2. (mailing.closed \/ Finished(now)) \in BOOLEAN  OBVIOUS
    <3>3. mailing' = [mailing EXCEPT !.link = LinkAfter(now), !.closed = mailing.closed \/ Finished(now)]
      BY <1>12 DEF ApplyRules
    <3> QED BY <1>0, <3>1, <3>2, <3>3 DEF Mailings
  <2>4. totals' \in Totals
    <3>1. NoTotals \in Totals /\ Counted \in Totals  BY CountsAreNumbers DEF NoTotals, Counted, Totals
    <3> QED BY <1>0, <1>12, <3>1 DEF ApplyRules, TotalsAfter
  <2>5. GoesTo(r, "end") /\ run[r].at # "idle" /\ UNCHANGED <<flag, tick, reply, recording, held, runLock, receipts>>
    BY <1>12 DEF ApplyRules
  <2>6. run' \in [Replicas -> Runs] /\ \A s \in Replicas : run'[s].at # "idle" => run'[s].mode \in RunModes
    BY <1>0, <1>9, <2>5
  <2> QED BY <2>1, <2>2, <2>3, <2>4, <2>5, <2>6, DroppedTogether
<1>13. ASSUME NEW r \in Replicas, LockTimesOut(r) PROVE TrackInv'
  <2>1. run' \in [Replicas -> Runs] /\ \A s \in Replicas : run'[s].at # "idle" => run'[s].mode \in RunModes
    BY <1>0, <1>9, <1>13 DEF LockTimesOut
  <2> QED BY <1>0, <1>8, <1>13, <2>1 DEF LockTimesOut
<1>14. ASSUME NEW r \in Replicas, Purge(r) PROVE TrackInv'
  <2>1. letter' = Drop(Tracked) /\ events' \subseteq OfOthers(Tracked)  BY <1>14 DEF Purge
  <2>2. \A p \in Tracked : HasToken(p) => recording[p] = "nothing"  BY <1>14 DEF Purge, Free, WithToken, RowLocked
  <2>3. GoesTo(r, "end") /\ run[r].at # "idle" /\ UNCHANGED <<flag, tick, reply, mailing, totals, recording, held, runLock, receipts>>
    BY <1>14 DEF Purge
  <2>4. run' \in [Replicas -> Runs] /\ \A s \in Replicas : run'[s].at # "idle" => run'[s].mode \in RunModes
    BY <1>0, <1>9, <2>3
  <2> QED BY <1>0, <2>1, <2>2, <2>3, <2>4, DroppedTogether
<1>15. ASSUME NEW r \in Replicas, EndRetention(r) \/ RetentionFails(r) PROVE TrackInv'
  <2>1. run[r].mode \in RunModes /\ RunUnlocked(r) \in Replicas \cup {Unheld}
    BY <1>0, <1>15 DEF EndRetention, RetentionFails, RunUnlocked
  <2>2. run' = [run EXCEPT ![r] = NoRetention]  BY <1>15 DEF EndRetention, RetentionFails
  <2>3. run' \in [Replicas -> Runs] /\ \A s \in Replicas : run'[s].at # "idle" => run'[s].mode \in RunModes
    BY <1>0, <1>10, <2>2
  <2> QED BY <1>0, <1>8, <1>15, <2>1, <2>3 DEF EndRetention, RetentionFails
<1>16. ASSUME flag' \in BOOLEAN, held' \in BOOLEAN, runLock' \in Replicas \cup {Unheld},
              UNCHANGED <<tick, reply, mailing, letter, events, totals, recording, run, receipts>>
       PROVE  TrackInv'
  <2>1. TrackTypeOK'  BY <1>0, <1>16 DEF TrackTypeOK, RowStates, TokenStates, Letters, Mailings, Totals, RunPlaces, AllModes, Runs, Replies
  <2> QED BY <1>0, <1>16, <2>1, RowsStand
<1>20. CASE RunLockLost
  BY <1>0, <1>16, <1>20 DEF RunLockLost
<1>21. CASE TrackingOff
  BY <1>0, <1>16, <1>21 DEF TrackingOff, locksAndRuns
<1>22. CASE HoldRows
  BY <1>0, <1>16, <1>22 DEF HoldRows
<1>23. CASE ReleaseRows
  BY <1>0, <1>16, <1>23 DEF ReleaseRows
<1>17. CASE HideContent
  <2>1. mailing' \in Mailings /\ mailing'.at = mailing.at  BY <1>0, <1>17 DEF HideContent, Mailings
  <2>2. UNCHANGED <<flag, tick, reply, letter, events, totals, locksAndRuns>>  BY <1>17 DEF HideContent
  <2>3. TrackTypeOK'
    BY <1>0, <2>1, <2>2 DEF locksAndRuns, TrackTypeOK, RowStates, TokenStates, Letters, Mailings, Totals, RunPlaces, AllModes, Runs, Replies
  <2> QED BY <1>0, <2>1, <2>2, <2>3, RowsStand DEF locksAndRuns
<1>18. CASE TrackTick
  <2>1. tick' \in 0..MaxTick /\ receipts' \subseteq RunModes  BY <1>0, <1>18 DEF TrackTick
  <2>2. UNCHANGED <<flag, reply, mailing, letter, events, totals, recording, held, runLock, run>>  BY <1>18 DEF TrackTick
  <2>3. TrackTypeOK'
    BY <1>0, <2>1, <2>2, ZenonT(30) DEF TrackTypeOK, RowStates, TokenStates, Letters, Mailings, Totals, RunPlaces, AllModes, Runs, Replies
  <2> QED BY <1>0, <2>2, <2>3, RowsStand
<1>19. CASE UNCHANGED trackVars
  <2>1. TrackTypeOK'
    BY <1>0, <1>19, ZenonT(30) DEF trackVars, TrackTypeOK, RowStates, TokenStates, Letters, Mailings, Totals, RunPlaces, AllModes, Runs, Replies
  <2> QED BY <1>0, <1>19, <2>1, RowsStand DEF trackVars
<1> QED BY <1>1, <1>2, <1>3, <1>4, <1>5, <1>6, <1>7, <1>11, <1>12, <1>13, <1>14, <1>15, <1>17, <1>18, <1>19, <1>20, <1>21, <1>22, <1>23 DEF TrackNext

LEMMA TrackInvariant == TrackSpec => []TrackInv
<1>1. TrackInit => TrackInv  BY TrackStart
<1>2. TrackInv /\ [TrackNext]_trackVars => TrackInv'  BY TrackStep
<1> QED BY <1>1, <1>2, PTL DEF TrackSpec

\* Every step keeps the send, its rows, events and totals and the retention
\* runs in their types.
THEOREM TrackTypes == TrackSpec => []TrackTypeOK
<1>1. TrackInv => TrackTypeOK  BY DEF TrackInv
<1> QED BY <1>1, TrackInvariant, PTL

\* Once a recipient's token is dropped, by a withdrawal, a retention run or a
\* purge, no opening or click of theirs is there or ever comes.
THEOREM NothingTiesBack == TrackSpec => []DroppedLeavesNothing
<1>1. TrackInv => DroppedLeavesNothing  BY DEF TrackInv, DroppedLeavesNothing
<1> QED BY <1>1, TrackInvariant, PTL
-----------------------------------------------------------------------------
(* The counts kept without people.                                          *)

\* An event is of a mail that went out; a send is closed to recording once none
\* of its mails is to go and none that went has a token; and a retention run is
\* of a queued send, by a clock that has not gone back.
WholeInv ==
  /\ \A p \in Tracked, k \in EventKinds : <<p, k>> \in events => letter[p].status = "sent"
  /\ mailing.closed =>
       /\ mailing.at = "queued"
       /\ \A p \in Tracked : /\ letter[p].status \notin {"pending", "processing"}
                             /\ letter[p].status = "sent" => ~HasToken(p)
  /\ \A r \in Replicas : run[r].at # "idle" => mailing.at = "queued"
  /\ \A r \in Replicas : run[r].now <= tick

LEMMA WholeStart == TrackInit => WholeInv
<1> SUFFICES ASSUME TrackInit PROVE WholeInv  OBVIOUS
<1>1. \A r \in Replicas : run[r].at = "idle" /\ run[r].now = 0  BY DEF TrackInit, NoRetention
<1>2. tick = 0 /\ events = {} /\ ~mailing.closed  BY DEF TrackInit
<1>3. \A r \in Replicas : run[r].now <= tick  BY <1>1, <1>2
<1> QED BY <1>1, <1>2, <1>3 DEF WholeInv

\* A step that moves none of the rows, the events and what the send is.
LEMMA WholeStands ==
  ASSUME WholeInv, UNCHANGED <<letter, events>>, mailing'.closed = mailing.closed,
         mailing.at = "queued" => mailing'.at = "queued",
         tick \in Nat, tick' \in Nat, tick <= tick',
         \A r \in Replicas : run[r].now \in Nat /\ run'[r].now \in Nat,
         \A r \in Replicas : run'[r].at # "idle" => run[r].at # "idle" \/ mailing.at = "queued",
         \A r \in Replicas : run'[r].now \in {run[r].now, 0, tick}
  PROVE  WholeInv'
<1>1. \A r \in Replicas : run'[r].now <= tick'  BY DEF WholeInv
<1> QED BY <1>1 DEF WholeInv, HasToken

\* A run that goes to its end, is cut off, or starts.
LEMMA RunMoves ==
  ASSUME NEW r \in Replicas, run \in [Replicas -> Runs], NEW a \in Runs, a.now \in {0, tick}, run' = [run EXCEPT ![r] = a],
         tick \in 0..MaxTick
  PROVE  /\ \A s \in Replicas : run[s].now \in Nat /\ run'[s].now \in Nat
         /\ \A s \in Replicas : run'[s].now \in {run[s].now, 0, tick}
         /\ \A s \in Replicas : run'[s].at # "idle" => run[s].at # "idle" \/ s = r
<1>1. \A s \in Replicas : run'[s] = IF s = r THEN a ELSE run[s]  OBVIOUS
<1>2. \A x \in Runs : x.now \in Nat  BY TrackingAssumption DEF Runs
<1> QED BY <1>1, <1>2

LEMMA EndOfRun ==
  ASSUME NEW r \in Replicas, run \in [Replicas -> Runs], GoesTo(r, "end")
  PROVE  \E a \in Runs : a.now = 0 /\ a.at = "end" /\ run' = [run EXCEPT ![r] = a]
<1> DEFINE a == [run[r] EXCEPT !.at = "end", !.now = 0]
<1>1. 0 \in 0..MaxTick /\ "end" \in RunPlaces  BY TrackingAssumption DEF RunPlaces
<1>2. a \in Runs /\ a.now = 0 /\ a.at = "end"  BY <1>1 DEF Runs
<1>3. run' = [run EXCEPT ![r] = a]  BY DEF GoesTo
<1> QED BY <1>2, <1>3

LEMMA NoRetentionTyped == NoRetention \in Runs /\ NoRetention.at = "idle" /\ NoRetention.now = 0
<1>1. 0 \in 0..MaxTick  BY TrackingAssumption
<1> QED BY <1>1 DEF NoRetention, Runs, RunPlaces, AllModes

LEMMA WholeStep == TrackInv /\ WholeInv /\ [TrackNext]_trackVars => WholeInv'
<1> SUFFICES ASSUME TrackInv, WholeInv, [TrackNext]_trackVars PROVE WholeInv'  OBVIOUS
<1> USE TrackingAssumption
<1>0. /\ tick \in 0..MaxTick /\ mailing \in Mailings /\ letter \in [Tracked -> Letters]
      /\ events \subseteq Tracked \X EventKinds /\ recording \in [Tracked -> EventKinds \cup {"nothing"}]
      /\ run \in [Replicas -> Runs]
  BY TrackTypes_Named DEF TrackInv
<1>a. \A r \in Replicas : run[r].now \in Nat  BY <1>0 DEF Runs
<1>b. tick \in Nat /\ MaxTick \in Nat  BY <1>0
<1>1. CASE AskCore
  <2>1. mailing.at = "new" /\ mailing'.closed = mailing.closed  BY <1>0, <1>1 DEF AskCore, Mailings
  <2>2. UNCHANGED <<letter, events, tick, run>>  BY <1>1 DEF AskCore, locksAndRuns
  <2>3. \A r \in Replicas : run'[r].now \in Nat  BY <1>a, <2>2
  <2> QED BY <1>a, <1>b, <2>1, <2>2, <2>3, WholeStands
<1>2. CASE QueueMailing
  <2>1. mailing.at = "asked" /\ UNCHANGED <<events, tick, run>>  BY <1>2 DEF QueueMailing, locksAndRuns
  <2>2. PICK m \in BOOLEAN, l \in {"url", "none"} : mailing' = [mailing EXCEPT !.at = "queued", !.requested = ~m, !.link = l]
    BY <1>2 DEF QueueMailing, Cleared
  <2>3. mailing'.closed = mailing.closed /\ mailing'.at = "queued" /\ ~mailing.closed
    BY <1>0, <2>1, <2>2 DEF WholeInv, Mailings
  <2>4. \A p \in Tracked, k \in EventKinds : <<p, k>> \notin events  BY <2>1 DEF TrackInv
  <2> QED BY <2>1, <2>3, <2>4 DEF WholeInv
<1>3. ASSUME NEW p \in Tracked, NEW l \in Letters, letter[p].status \in {"pending", "processing"},
             letter' = [letter EXCEPT ![p] = l], UNCHANGED <<mailing, events, tick, run>>
      PROVE  WholeInv'
  <2>1. letter'[p] = l /\ \A q \in Tracked \ {p} : letter'[q] = letter[q]  BY <1>0, <1>3
  <2>2. ~mailing.closed  BY <1>3 DEF WholeInv
  <2>3. \A k \in EventKinds : <<p, k>> \notin events  BY <1>3 DEF WholeInv
  <2> QED BY <1>3, <2>1, <2>2, <2>3 DEF WholeInv
<1>4. ASSUME NEW p \in Tracked, TakeLetter(p) PROVE WholeInv'
  <2> DEFINE l == [letter[p] EXCEPT !.status = "processing", !.hand = letter[p].token = "open"]
  <2>1. l \in Letters
    <3>1. (letter[p].token = "open") \in BOOLEAN /\ "processing" \in RowStates  BY DEF RowStates
    <3> QED BY <1>0, <3>1 DEF Letters
  <2>2. letter' = [letter EXCEPT ![p] = l]  BY <1>4 DEF TakeLetter
  <2> HIDE DEF l
  <2> QED BY <1>3, <1>4, <2>1, <2>2 DEF TakeLetter, locksAndRuns
<1>5. ASSUME NEW p \in Tracked, SendLetter(p) PROVE WholeInv'
  <2> DEFINE token == IF letter[p].hand /\ ~flag /\ letter[p].token = "open" THEN "closed" ELSE letter[p].token
  <2>1. token \in TokenStates  BY <1>0 DEF Letters, TokenStates
  <2>2. PICK status \in {"sent", "failed", "pending"}, carries \in {letter[p].hand /\ flag, FALSE} :
          letter' = [letter EXCEPT ![p] = [status |-> status, token |-> token, hand |-> FALSE, carries |-> carries,
                                           sentAt |-> IF status = "sent" THEN tick ELSE 0]]
    BY <1>5 DEF SendLetter
  <2> DEFINE l == [status |-> status, token |-> token, hand |-> FALSE, carries |-> carries,
                   sentAt |-> IF status = "sent" THEN tick ELSE 0]
  <2>3. l \in Letters
    <3>1. status \in RowStates  BY DEF RowStates
    <3>2. carries \in BOOLEAN  BY <1>0, TrackTypes_Named DEF Letters, TrackInv
    <3>3. (IF status = "sent" THEN tick ELSE 0) \in 0..MaxTick  BY <1>0
    <3> HIDE DEF token
    <3> QED BY <2>1, <3>1, <3>2, <3>3 DEF Letters
  <2>4. letter' = [letter EXCEPT ![p] = l]  BY <2>2
  <2> HIDE DEF l, token
  <2> QED BY <1>3, <1>5, <2>3, <2>4 DEF SendLetter, locksAndRuns
<1>6. ASSUME NEW p \in Tracked, NEW k \in EventKinds, LockRecipient(p, k) PROVE WholeInv'
  <2>1. UNCHANGED <<letter, events, mailing, tick, run>>  BY <1>6 DEF LockRecipient
  <2> QED BY <1>a, <1>b, <2>1, WholeStands
<1>7. ASSUME NEW p \in Tracked, InsertEvent(p) PROVE WholeInv'
  <2>1. letter[p].status = "sent" /\ recording[p] \in EventKinds  BY <1>0, <1>7 DEF InsertEvent, TrackInv
  <2>2. events' \subseteq events \cup {<<p, recording[p]>>} /\ UNCHANGED <<letter, mailing, tick, run>>
    BY <1>7 DEF InsertEvent
  <2>3. \A q \in Tracked, k \in EventKinds : <<q, k>> \in events' => letter[q].status = "sent"
    BY <2>1, <2>2 DEF WholeInv
  <2> QED BY <2>2, <2>3 DEF WholeInv, HasToken
<1>8. ASSUME NEW ps, letter' = Drop(ps), events' \subseteq events, mailing'.at = mailing.at,
             mailing'.closed => mailing.closed \/
               /\ mailing.at = "queued"
               /\ \A p \in Tracked : /\ letter[p].status \notin {"pending", "processing"}
                                     /\ letter[p].status = "sent" => p \in ps,
             UNCHANGED tick,
             \A r \in Replicas : run'[r].now \in {run[r].now, 0, tick},
             \A r \in Replicas : run'[r].at # "idle" => run[r].at # "idle"
      PROVE  WholeInv'
  <2>1. \A q \in Tracked :
          /\ letter'[q].status = letter[q].status
          /\ q \in ps /\ HasToken(q) => letter'[q].token = "dropped"
          /\ ~(q \in ps /\ HasToken(q)) => letter'[q] = letter[q]
    BY <1>0, <1>8, DropIsTyped
  <2>2. \A r \in Replicas : run'[r].now <= tick'  BY <1>8, <1>a, <1>b DEF WholeInv
  <2>3. \A q \in Tracked : HasToken(q)' => HasToken(q) /\ ~(q \in ps)  BY <2>1 DEF HasToken
  <2>4. \A p \in Tracked, k \in EventKinds : <<p, k>> \in events' => letter'[p].status = "sent"
    BY <1>8, <2>1 DEF WholeInv
  <2>5. mailing'.closed => /\ mailing'.at = "queued"
                           /\ \A p \in Tracked : /\ letter'[p].status \notin {"pending", "processing"}
                                                 /\ letter'[p].status = "sent" => ~HasToken(p)'
    BY <1>8, <2>1, <2>3 DEF WholeInv
  <2>6. \A r \in Replicas : run'[r].at # "idle" => mailing'.at = "queued"  BY <1>8 DEF WholeInv
  <2> QED BY <2>2, <2>4, <2>5, <2>6 DEF WholeInv
<1>9. ASSUME NEW p \in Tracked, Withdraw(p) PROVE WholeInv'
  <2>1. letter' = Drop({p}) /\ events' \subseteq events /\ UNCHANGED <<mailing, tick, run>>
    BY <1>9 DEF Withdraw, OfOthers, locksAndRuns
  <2> QED BY <1>8, <2>1
<1>10. ASSUME NEW r \in Replicas, NEW mode \in RunModes, StartRetention(r, mode) PROVE WholeInv'
  <2>1. mode \in AllModes  BY DEF AllModes
  <2>2. PICK at \in {"purge", "apply", "end"}, now \in {0, tick} :
          run' = [run EXCEPT ![r] = [at |-> at, mode |-> mode, now |-> now]]
    BY <1>10 DEF StartRetention
  <2> DEFINE a == [at |-> at, mode |-> mode, now |-> now]
  <2>3. a \in Runs /\ a.now \in {0, tick}  BY <1>0, <2>1 DEF Runs, RunPlaces
  <2>4. run' = [run EXCEPT ![r] = a]  BY <2>2
  <2> HIDE DEF a
  <2>5. mailing.at = "queued" /\ UNCHANGED <<letter, events, mailing, tick>>  BY <1>10 DEF StartRetention
  <2>6. /\ \A s \in Replicas : run[s].now \in Nat /\ run'[s].now \in Nat
        /\ \A s \in Replicas : run'[s].now \in {run[s].now, 0, tick}
    BY <1>0, <2>3, <2>4, RunMoves
  <2> QED BY <1>b, <2>5, <2>6, WholeStands
<1>11. ASSUME NEW r \in Replicas, ApplyRules(r) PROVE WholeInv'
  <2> DEFINE now == run[r].now
  <2>1. letter' = Drop(Forgotten(now)) /\ events' \subseteq events /\ UNCHANGED tick
    BY <1>11 DEF ApplyRules, OfOthers
  <2>2. /\ mailing'.at = mailing.at
        /\ mailing'.closed = (mailing.closed \/ Finished(now))
    BY <1>0, <1>11 DEF ApplyRules, Mailings
  <2>3. run[r].at = "apply" /\ GoesTo(r, "end")  BY <1>11 DEF ApplyRules
  <2>4. mailing.at = "queued"  BY <2>3 DEF WholeInv
  <2>5. PICK a \in Runs : a.now = 0 /\ a.at = "end" /\ run' = [run EXCEPT ![r] = a]  BY <1>0, <2>3, EndOfRun
  <2>6. /\ \A s \in Replicas : run'[s].now \in {run[s].now, 0, tick}
        /\ \A s \in Replicas : run'[s].at # "idle" => run[s].at # "idle"
    BY <1>0, <2>3, <2>5, RunMoves
  <2>7. Finished(now) => \A p \in Tracked : /\ letter[p].status \notin {"pending", "processing"}
                                            /\ letter[p].status = "sent" => p \in Forgotten(now)
    BY DEF Finished, Forgotten
  <2> QED BY <1>8, <2>1, <2>2, <2>4, <2>6, <2>7
<1>12. ASSUME NEW r \in Replicas, LockTimesOut(r) PROVE WholeInv'
  <2>1. run[r].at = "apply" /\ GoesTo(r, "end") /\ UNCHANGED <<letter, events, mailing, tick>>  BY <1>12 DEF LockTimesOut
  <2>2. PICK a \in Runs : a.now = 0 /\ a.at = "end" /\ run' = [run EXCEPT ![r] = a]  BY <1>0, <2>1, EndOfRun
  <2>3. /\ \A s \in Replicas : run[s].now \in Nat /\ run'[s].now \in Nat
        /\ \A s \in Replicas : run'[s].now \in {run[s].now, 0, tick}
        /\ \A s \in Replicas : run'[s].at # "idle" => run[s].at # "idle"
    BY <1>0, <2>1, <2>2, RunMoves
  <2> QED BY <1>b, <2>1, <2>3, WholeStands
<1>13. ASSUME NEW r \in Replicas, Purge(r) PROVE WholeInv'
  <2>1. run[r].at = "purge" /\ GoesTo(r, "end") /\ UNCHANGED <<mailing, tick>>  BY <1>13 DEF Purge
  <2>2. letter' = Drop(Tracked) /\ events' \subseteq events  BY <1>13 DEF Purge
  <2>3. PICK a \in Runs : a.now = 0 /\ a.at = "end" /\ run' = [run EXCEPT ![r] = a]  BY <1>0, <2>1, EndOfRun
  <2>4. /\ \A s \in Replicas : run'[s].now \in {run[s].now, 0, tick}
        /\ \A s \in Replicas : run'[s].at # "idle" => run[s].at # "idle"
    BY <1>0, <2>1, <2>3, RunMoves
  <2> QED BY <1>8, <2>1, <2>2, <2>4
<1>14. ASSUME NEW r \in Replicas, EndRetention(r) \/ RetentionFails(r) PROVE WholeInv'
  <2>1. run' = [run EXCEPT ![r] = NoRetention] /\ run[r].at # "idle" /\ UNCHANGED <<letter, events, mailing, tick>>
    BY <1>14 DEF EndRetention, RetentionFails
  <2>2. /\ \A s \in Replicas : run[s].now \in Nat /\ run'[s].now \in Nat
        /\ \A s \in Replicas : run'[s].now \in {run[s].now, 0, tick}
        /\ \A s \in Replicas : run'[s].at # "idle" => run[s].at # "idle"
    BY <1>0, <2>1, NoRetentionTyped, RunMoves
  <2> QED BY <1>b, <2>1, <2>2, WholeStands
<1>15. CASE RunLockLost \/ TrackingOff \/ HoldRows \/ ReleaseRows \/ UNCHANGED trackVars
  <2>1. UNCHANGED <<letter, events, mailing, tick, run>>
    BY <1>15 DEF RunLockLost, TrackingOff, HoldRows, ReleaseRows, locksAndRuns, trackVars
  <2> QED BY <1>a, <1>b, <2>1, WholeStands
<1>16. CASE HideContent
  <2>1. mailing'.at = mailing.at /\ mailing'.closed = mailing.closed  BY <1>0, <1>16 DEF HideContent, Mailings
  <2>2. UNCHANGED <<letter, events, tick, run>>  BY <1>16 DEF HideContent, locksAndRuns
  <2> QED BY <1>a, <1>b, <2>1, <2>2, WholeStands
<1>17. CASE TrackTick
  <2>1. UNCHANGED <<letter, events, mailing, run>> /\ tick' = tick + 1  BY <1>17 DEF TrackTick
  <2>2. tick' \in Nat /\ tick <= tick'  BY <1>b, <2>1
  <2> QED BY <1>a, <1>b, <2>1, <2>2, WholeStands
<1> QED BY <1>1, <1>2, <1>4, <1>5, <1>6, <1>7, <1>9, <1>10, <1>11, <1>12, <1>13, <1>14, <1>15, <1>16, <1>17 DEF TrackNext

\* Every step but the rules' leaves the counts as they are, and ends no "apply".
LEMMA OnlyTheRulesCount ==
  ASSUME TrackInv, [TrackNext]_trackVars
  PROVE  \/ \E r \in Replicas : ApplyRules(r)
         \/ /\ UNCHANGED totals
            /\ \A r \in Replicas : run[r].at = "apply" /\ run'[r].at = "end" => UNCHANGED events
<1> USE TrackingAssumption
<1>0. run \in [Replicas -> Runs]  BY TrackTypes_Named DEF TrackInv
<1>1. ASSUME NEW r \in Replicas, NEW mode \in RunModes, StartRetention(r, mode) PROVE UNCHANGED <<totals, events>>
  BY <1>1 DEF StartRetention
<1>2. ASSUME NEW r \in Replicas, LockTimesOut(r) \/ EndRetention(r) \/ RetentionFails(r) PROVE UNCHANGED <<totals, events>>
  BY <1>2 DEF LockTimesOut, EndRetention, RetentionFails
<1>3. ASSUME NEW r \in Replicas, Purge(r)
      PROVE  UNCHANGED totals /\ \A s \in Replicas : run[s].at = "apply" => run'[s].at = "apply"
  BY <1>0, <1>3 DEF Purge, GoesTo
<1>4. ASSUME NEW p \in Tracked, InsertEvent(p) \/ Withdraw(p) PROVE UNCHANGED <<totals, run>>
  BY <1>4 DEF InsertEvent, Withdraw, locksAndRuns
<1>5. ASSUME NEW p \in Tracked, NEW k \in EventKinds, LockRecipient(p, k) PROVE UNCHANGED <<totals, events>>
  BY <1>5 DEF LockRecipient
<1>6. ASSUME NEW p \in Tracked, TakeLetter(p) \/ SendLetter(p) PROVE UNCHANGED <<totals, events>>
  BY <1>6 DEF TakeLetter, SendLetter
<1>7. CASE AskCore \/ QueueMailing \/ TrackingOff \/ HideContent
  BY <1>7 DEF AskCore, QueueMailing, TrackingOff, HideContent
<1>8. CASE HoldRows \/ ReleaseRows \/ TrackTick \/ RunLockLost \/ UNCHANGED trackVars
  BY <1>8 DEF HoldRows, ReleaseRows, TrackTick, RunLockLost, trackVars
<1> QED BY <1>1, <1>2, <1>3, <1>4, <1>5, <1>6, <1>7, <1>8 DEF TrackNext

\* What the rules do to the counts.
LEMMA RulesKeepWhole ==
  ASSUME TrackInv, WholeInv, NEW r \in Replicas, ApplyRules(r)
  PROVE  /\ totals'.kept /\ ~totals.kept => totals'.open = Number("open") /\ totals'.click = Number("click")
         /\ totals.kept /\ totals' # totals => ~totals'.kept /\ totals.tracked < MinTracked /\ tick >= Year
         /\ events' # events => totals.kept \/ totals'.kept \/ (Cardinality(Countable) < MinTracked /\ tick >= Year)
<1> USE TrackingAssumption
<1> DEFINE now == run[r].now
<1>0. /\ run \in [Replicas -> Runs] /\ tick \in 0..MaxTick /\ letter \in [Tracked -> Letters]
      /\ events \subseteq Tracked \X EventKinds /\ totals \in Totals
  BY TrackTypes_Named DEF TrackInv
<1>1. now \in Nat /\ tick \in Nat /\ Year \in Nat /\ MinTracked \in Nat /\ now <= tick  BY <1>0 DEF Runs, WholeInv
<1>2. totals' = TotalsAfter(now) /\ events' = OfOthers(Forgotten(now))  BY <1>0 DEF ApplyRules
<1>3. Counted.kept /\ Counted.open = Number("open") /\ Counted.click = Number("click")
      /\ Counted.tracked = Cardinality(Countable) /\ ~NoTotals.kept
  BY DEF Counted, NoTotals
<1>4. Cardinality(Countable) \in Nat  BY CountsAreNumbers
<1> HIDE DEF now
<1>5. now >= Year => tick >= Year  BY <1>1
<1>6. CASE KeepsCounts(now)
  <2>1. ~totals.kept  BY <1>6 DEF KeepsCounts
  <2>2. totals' = IF Counted.tracked < MinTracked /\ now >= Year THEN NoTotals ELSE Counted
    BY <1>2, <1>3, <1>6 DEF TotalsAfter
  <2> QED BY <1>3, <1>5, <2>1, <2>2
<1>7. CASE ~KeepsCounts(now)
  <2>1. totals' = IF totals.kept /\ totals.tracked < MinTracked /\ now >= Year THEN NoTotals ELSE totals
    BY <1>2, <1>7 DEF TotalsAfter
  <2>2. ASSUME events' # events, ~totals.kept PROVE Cardinality(Countable) < MinTracked /\ now >= Year
    <3>1. PICK e \in events : e[1] \in Forgotten(now)  BY <1>2, <2>2 DEF OfOthers
    <3>2. PICK p \in Tracked, k \in EventKinds : e = <<p, k>>
      <4>1. e \in Tracked \X EventKinds  BY <1>0, <3>1
      <4>2. e = <<e[1], e[2]>> /\ e[1] \in Tracked /\ e[2] \in EventKinds  BY <4>1
      <4> QED BY <4>2
    <3>3. p \in PastAt(now) /\ <<p, k>> \in events  BY <3>1, <3>2 DEF Forgotten
    <3>4. letter[p].token \in TokenStates /\ letter[p].token \notin {"none", "dropped"}
      BY <1>0, <3>3 DEF TrackInv, Letters
    <3>5. HasToken(p)  BY <3>4 DEF HasToken, TokenStates
    <3>6. p \in PastAt(now) \cap WithToken  BY <3>3, <3>5 DEF WithToken
    <3>7. ~mailing.closed  BY <3>3, <3>5 DEF WholeInv
    <3>8. ~(Cardinality(Countable) >= MinTracked \/ now < Year)  BY <1>7, <2>2, <3>6, <3>7 DEF KeepsCounts
    <3> QED BY <1>1, <1>4, <3>8
  <2> QED BY <1>3, <1>5, <2>1, <2>2
<1> QED BY <1>6, <1>7

LEMMA WholeInvariant == TrackSpec => [](TrackInv /\ WholeInv)
<1>1. TrackInit => TrackInv /\ WholeInv  BY TrackStart, WholeStart
<1>2. (TrackInv /\ WholeInv) /\ [TrackNext]_trackVars => (TrackInv /\ WholeInv)'  BY TrackStep, WholeStep
<1> QED BY <1>1, <1>2, PTL DEF TrackSpec

\* The step that TotalsAreWhole boxes.
CountsWhole ==
  /\ totals'.kept /\ ~totals.kept => totals'.open = Number("open") /\ totals'.click = Number("click")
  /\ totals.kept /\ totals' # totals => ~totals'.kept /\ totals.tracked < MinTracked /\ tick >= Year
  /\ \A r \in Replicas: run[r].at = "apply" /\ run'[r].at = "end" /\ events' # events =>
       totals.kept \/ totals'.kept \/ (Cardinality(Countable) < MinTracked /\ tick >= Year)

LEMMA CountsStayWhole == TrackInv /\ WholeInv /\ [TrackNext]_trackVars => [CountsWhole]_trackVars
<1> SUFFICES ASSUME TrackInv, WholeInv, [TrackNext]_trackVars PROVE CountsWhole  OBVIOUS
<1>1. CASE \E r \in Replicas : ApplyRules(r)
  BY <1>1, RulesKeepWhole DEF CountsWhole
<1>2. CASE /\ UNCHANGED totals
           /\ \A r \in Replicas : run[r].at = "apply" /\ run'[r].at = "end" => UNCHANGED events
  BY <1>2 DEF CountsWhole
<1> QED BY <1>1, <1>2, OnlyTheRulesCount

\* The counts kept without people are of all the openings and clicks there were
\* when the first went, and are counted once: no later run, nor one beside it,
\* counts from what is left.
THEOREM CountsOfAll == TrackSpec => TotalsAreWhole
<1>1. TrackSpec => [](TrackInv /\ WholeInv) /\ [][TrackNext]_trackVars  BY WholeInvariant, PTL DEF TrackSpec
<1>2. TrackSpec => [][CountsWhole]_trackVars  BY <1>1, CountsStayWhole, PTL
<1> QED BY <1>2 DEF TotalsAreWhole, CountsWhole

-----------------------------------------------------------------------------
(* The gates: types.                                                        *)

Fetches == [on : BOOLEAN, left : SUBSET Topics, asked : Topics \cup {"none"},
            answer : Answers, age : 0..RoundTimeout]
GateStates == [open : 0..BreakerOpen, needs : SUBSET Topics, fetch : Fetches]
Verdicts == [answer : Answers, age : 0..TTL]
Sendings == [at : {"idle", "asking", "answered", "resolved"}, answer : Answers, age : 0..SendTimeout]
GateRows == [state : RowState, kind : Kinds, link : BOOLEAN, checked : BOOLEAN, required : BOOLEAN,
             due : Int, age : 0..UndecidedAfter, tries : 0..MaxTries - 1]

WorldTyped == /\ core \in [Topics -> Answers] /\ changes \in 0..MaxChanges
              /\ seen \in [Topics -> [Answers -> 0..Far + 1]]
GatesTyped == cache \in [Topics -> Verdicts] /\ gate \in [Gates -> GateStates] /\ send \in Sendings
RowTyped == row \in GateRows /\ out \in BOOLEAN /\ restarts \in 0..MaxRestarts /\ typeRequired \in BOOLEAN

LEMMA GateTypesNamed == TypeOK <=> WorldTyped /\ GatesTyped /\ RowTyped
BY DEF TypeOK, WorldTyped, GatesTyped, RowTyped, Fetches, GateStates, Verdicts, Sendings, GateRows

LEMMA GateNumbers ==
  ASSUME GatesAssumption
  PROVE  /\ TTL \in Nat /\ TTL > 0 /\ RoundTimeout \in Nat /\ RoundTimeout > 0
         /\ SendTimeout \in Nat /\ RoundTimeout <= SendTimeout /\ BreakerOpen \in Nat
         /\ FetchDelay \in Nat /\ MaxTries \in Nat /\ MaxTries > 0
         /\ UndecidedAfter \in Nat /\ MaxLag \in Nat /\ MaxChanges \in Nat /\ MaxRestarts \in Nat
         /\ Far \in Nat
BY DEF GatesAssumption, Far, Later

LEMMA GateNews ==
  ASSUME GatesAssumption
  PROVE  /\ Unknown \in Verdicts /\ Unknown.age = TTL
         /\ NoFetch \in Fetches /\ NoFetch.on = FALSE /\ NoFetch.asked = "none" /\ NoFetch.age = 0
         /\ NoSend \in Sendings /\ NoSend.at = "idle"
BY GateNumbers DEF Unknown, Verdicts, NoFetch, Fetches, NoSend, Sendings, Answers

\* What each step makes of the record it changes.
LEMMA FetchesBecome ==
  ASSUME GatesAssumption, NEW f \in Fetches
  PROVE  /\ \A t \in Topics, a \in Answers :
              LET x == [f EXCEPT !.asked = t, !.left = @ \ {t}, !.answer = a] IN
              x \in Fetches /\ x.on = f.on /\ x.asked = t /\ x.answer = a /\ x.age = f.age
         /\ LET x == [f EXCEPT !.asked = "none", !.answer = "none"] IN
              x \in Fetches /\ x.on = f.on /\ x.asked = "none" /\ x.age = f.age
         /\ \A n \in 0..RoundTimeout : LET x == [f EXCEPT !.age = n] IN
              x \in Fetches /\ x.on = f.on /\ x.asked = f.asked /\ x.answer = f.answer /\ x.age = n
         /\ \A ts \in SUBSET Topics : LET x == [NoFetch EXCEPT !.on = TRUE, !.left = ts] IN
              x \in Fetches /\ x.on = TRUE /\ x.asked = "none" /\ x.age = 0
<1>1. ASSUME NEW t \in Topics, NEW a \in Answers
      PROVE  LET x == [f EXCEPT !.asked = t, !.left = @ \ {t}, !.answer = a] IN
              x \in Fetches /\ x.on = f.on /\ x.asked = t /\ x.answer = a /\ x.age = f.age
  <2>1. PICK l \in SUBSET Topics : l = f.left \ {t}  BY DEF Fetches
  <2>2. PICK x : x = [f EXCEPT !.asked = t, !.left = l, !.answer = a]  OBVIOUS
  <2>3. x \in Fetches /\ x.on = f.on /\ x.asked = t /\ x.answer = a /\ x.age = f.age
    BY <2>2 DEF Fetches
  <2> QED BY <2>1, <2>2, <2>3
<1>2. LET x == [f EXCEPT !.asked = "none", !.answer = "none"] IN
        x \in Fetches /\ x.on = f.on /\ x.asked = "none" /\ x.age = f.age
  BY DEF Fetches, Answers
<1>3. ASSUME NEW n \in 0..RoundTimeout
      PROVE  LET x == [f EXCEPT !.age = n] IN
              x \in Fetches /\ x.on = f.on /\ x.asked = f.asked /\ x.answer = f.answer /\ x.age = n
  BY DEF Fetches
<1>4. ASSUME NEW ts \in SUBSET Topics
      PROVE  LET x == [NoFetch EXCEPT !.on = TRUE, !.left = ts] IN
              x \in Fetches /\ x.on = TRUE /\ x.asked = "none" /\ x.age = 0
  BY GateNews DEF Fetches
<1> QED BY <1>1, <1>2, <1>3, <1>4

LEMMA GatesBecome ==
  ASSUME GatesAssumption, NEW y \in GateStates
  PROVE  /\ \A f \in Fetches : LET x == [y EXCEPT !.fetch = f] IN x \in GateStates /\ x.fetch = f
         /\ \A f \in Fetches, n \in SUBSET Topics : LET x == [y EXCEPT !.needs = n, !.fetch = f] IN
              x \in GateStates /\ x.fetch = f
         /\ \A f \in Fetches, o \in 0..BreakerOpen : LET x == [y EXCEPT !.fetch = f, !.open = o] IN
              x \in GateStates /\ x.fetch = f
         /\ \A n \in SUBSET Topics : LET x == [y EXCEPT !.needs = n] IN
              x \in GateStates /\ x.fetch = y.fetch
BY DEF GateStates

\* Core is asked about a topic that is left.
LEMMA NextIsLeft ==
  ASSUME NEW left \in SUBSET Topics, left # {}
  PROVE  NextTopic(left) \in left
<1>1. \E t \in left : \/ t \in {"promotional", "verdict"}
                      \/ t = "invited" /\ "promotional" \notin left
                      \/ left = {"account"}
  BY DEF Topics
<1> QED BY <1>1 DEF NextTopic

LEMMA HasLinkIs == TypeOK => HasLink \in BOOLEAN
BY GateTypesNamed DEF RowTyped, GateRows, HasLink

LEMMA NeedsOfGate ==
  ASSUME TypeOK, NEW g \in Gates, NEW x \in SUBSET Topics
  PROVE  x \cup Needed(g) \in SUBSET Topics
BY DEF Needed, Topics

\* A wait: of the row, its link and its due time change, or it ends undecided.
LEMMA WaitMoves ==
  ASSUME GatesAssumption, TypeOK, NEW g \in Gates, row.state = "pending", Waits(g)
  PROVE  /\ row' \in GateRows /\ row'.kind = row.kind /\ row'.checked = row.checked
         /\ row'.state \in {"pending", "undecided"} /\ row'.required = row.required /\ row'.link = HasLink
         /\ gate' \in [Gates -> GateStates] /\ \A h \in Gates : gate'[h].fetch = gate[h].fetch
<1>0. row \in GateRows /\ gate \in [Gates -> GateStates] /\ HasLink \in BOOLEAN
  BY GateTypesNamed, HasLinkIs DEF RowTyped, GatesTyped
<1>1. PICK l \in BOOLEAN : l = HasLink  BY <1>0
<1>2. PICK r : r = [row EXCEPT !.link = l]  OBVIOUS
<1>3. row.age \in 0..UndecidedAfter /\ row.due \in Int  BY <1>0 DEF GateRows
<1>4. FetchDelay \in Int /\ Backoff[row.age] \in Int
  BY <1>3, GateNumbers DEF GatesAssumption
<1>5. row' = Deferred(g)  BY DEF Waits
<1>6. \/ row' = [row EXCEPT !.link = l, !.due = FetchDelay]
      \/ row' = [row EXCEPT !.link = l, !.state = "undecided"]
      \/ row' = [row EXCEPT !.link = l, !.due = Backoff[row.age]]
  <2>1. \/ row' = [r EXCEPT !.due = FetchDelay]
        \/ row' = [r EXCEPT !.state = "undecided"]
        \/ row' = [r EXCEPT !.due = Backoff[row.age]]
    BY <1>1, <1>2, <1>5 DEF Deferred
  <2> QED BY <1>0, <1>2, <2>1 DEF GateRows
<1>7. "undecided" \in RowState  BY DEF RowState, Final
<1>8. PICK d \in Int : row' = [row EXCEPT !.link = l, !.due = d] \/ row' = [row EXCEPT !.link = l, !.state = "undecided"]
  BY <1>4, <1>6
<1>9. /\ row' \in GateRows /\ row'.kind = row.kind /\ row'.checked = row.checked
      /\ row'.state \in {"pending", "undecided"} /\ row'.required = row.required /\ row'.link = l
  BY <1>0, <1>7, <1>8 DEF GateRows
<1>10. PICK n \in SUBSET Topics : n = gate[g].needs \cup Needed(g)
  BY <1>0, NeedsOfGate DEF GateStates
<1>11. PICK x \in GateStates : x = [gate[g] EXCEPT !.needs = n] /\ x.fetch = gate[g].fetch
  BY <1>0, GatesBecome
<1>12. gate' = [gate EXCEPT ![g] = x]
  BY <1>10, <1>11 DEF Waits
<1>13. gate' \in [Gates -> GateStates] /\ \A h \in Gates : gate'[h].fetch = gate[h].fetch
  BY <1>0, <1>11, <1>12
<1> QED BY <1>1, <1>9, <1>13

LEMMA EndMoves ==
  ASSUME GatesAssumption, TypeOK, NEW s \in RowState, Ends(s)
  PROVE  /\ row' \in GateRows /\ row'.kind = row.kind /\ row'.checked = row.checked /\ row'.state = s
         /\ row'.required = row.required /\ row'.link = row.link /\ gate' = gate
<1>1. row \in GateRows  BY GateTypesNamed DEF RowTyped
<1>2. row' = [row EXCEPT !.state = s] /\ gate' = gate  BY DEF Ends
<1> QED BY <1>1, <1>2 DEF GateRows

\* What a take makes of its row, and of what the verdicts were.
LEMMA TakeMoves ==
  ASSUME GatesAssumption, TypeOK, Take
  PROVE  /\ row' \in GateRows /\ row'.kind = row.kind /\ row'.checked = row.checked
         /\ gate' \in [Gates -> GateStates] /\ \A g \in Gates : gate'[g].fetch = gate[g].fetch
         /\ row'.state = "taken" =>
              ~out /\ ConsentVerdict = "go" /\ PreferenceVerdict = "go" /\ row'.link = HasLink
         /\ row'.state = "held" => ConsentVerdict = "held" \/ PreferenceVerdict = "held"
         /\ row'.state = "unsubscribe_missing" =>
              ConsentVerdict = "go" /\ PreferenceVerdict = "unsubscribe_missing"
         /\ row'.state # "sent" /\ row'.required = row.required /\ row'.link \in {row.link, HasLink}
<1>0. row \in GateRows /\ gate \in [Gates -> GateStates] /\ HasLink \in BOOLEAN /\ row.state = "pending"
  BY GateTypesNamed, HasLinkIs DEF RowTyped, GatesTyped, Take
<1>1. /\ "unsubscribed" \in RowState /\ "held" \in RowState /\ "taken" \in RowState
      /\ "unsubscribe_missing" \in RowState
  BY DEF RowState, Final
<1>2. CASE SkipUnsubscribed
  <2>1. Ends("unsubscribed")  BY <1>2 DEF SkipUnsubscribed, SkipClaimed
  <2> QED BY <1>0, <1>1, <2>1, EndMoves
<1>3. CASE ConsentVerdict = "held" /\ Ends("held")
  BY <1>0, <1>1, <1>3, EndMoves
<1>4. CASE Waits("consent") \/ Waits("preference")
  <2>1. PICK g \in Gates : Waits(g)  BY <1>4 DEF Gates
  <2> QED BY <1>0, <2>1, WaitMoves
<1>5. CASE ConsentVerdict = "go" /\ WritePreferenceHeld
  <2>1. PICK s \in {"held", "unsubscribe_missing"} : s = PreferenceVerdict /\ Ends(s)
    BY <1>5 DEF WritePreferenceHeld
  <2>2. /\ row' \in GateRows /\ row'.kind = row.kind /\ row'.checked = row.checked /\ row'.state = s
        /\ row'.required = row.required /\ row'.link = row.link /\ gate' = gate
    BY <1>1, <2>1, EndMoves
  <2> QED BY <1>0, <1>5, <2>1, <2>2
<1>6. CASE ~out /\ ConsentVerdict = "go" /\ PreferenceVerdict = "go" /\ Goes
  <2>1. PICK l \in BOOLEAN : l = HasLink  BY <1>0
  <2>2. row' = [row EXCEPT !.state = "taken", !.link = l] /\ gate' = gate  BY <1>6, <2>1 DEF Goes
  <2>3. /\ row' \in GateRows /\ row'.kind = row.kind /\ row'.checked = row.checked
        /\ row'.state = "taken" /\ row'.link = l /\ row'.required = row.required
    BY <1>0, <1>1, <2>2 DEF GateRows
  <2> QED BY <1>0, <1>6, <2>1, <2>2, <2>3
<1> QED BY <1>2, <1>3, <1>4, <1>5, <1>6 DEF Take

\* Every other step that writes the row.
LEMMA RowMoves ==
  ASSUME GatesAssumption, TypeOK, QueueSend \/ SendRow \/ Restart \/ Tick
  PROVE  /\ row' \in GateRows /\ row'.kind = row.kind
         /\ row'.checked => row.checked \/ Gated(row.kind, "preference")
         /\ row.state = "pending" => row'.state = "pending"
         /\ row.state = "none" \/ (row'.link = row.link /\ row'.required = row.required)
         /\ row'.required => row.required \/ row.kind = "notification"
         /\ row'.state \in {"pending", "taken"} =>
              \/ row.state \in {"pending", "taken"}
              \/ row.kind = "notification" /\ ~row'.link => row'.required
<1>0. row \in GateRows  BY GateTypesNamed DEF RowTyped
<1>1. \A s \in {"pending", "taken", "sent", "failed", "held", "unsubscribed"} : s \in RowState
  BY DEF RowState, Final
<1>2. CASE QueueSend
  <2>1. row.state = "none"  BY <1>2 DEF QueueSend
  <2>2. ASSUME NEW s \in {"failed", "held", "unsubscribed"}, QueuedFailed(s)
        PROVE  /\ row' \in GateRows /\ row'.kind = row.kind /\ row'.checked = row.checked /\ row'.state = s
               /\ row'.required = row.required
    <3>1. row' = [row EXCEPT !.state = s] /\ s \in RowState  BY <1>1, <2>2 DEF QueuedFailed
    <3> QED BY <1>0, <3>1 DEF GateRows
  <2>3. ASSUME NEW l \in BOOLEAN, NEW c \in BOOLEAN, Queued(l, c)
        PROVE  /\ row' \in GateRows /\ row'.kind = row.kind /\ row'.checked = c /\ row'.state = "pending"
               /\ row'.link = l /\ row'.required = RequiredNotification
    <3>1. PICK q \in BOOLEAN : q = RequiredNotification
      BY GateTypesNamed DEF RequiredNotification, RowTyped
    <3>2. row' = [row EXCEPT !.state = "pending", !.link = l, !.checked = c, !.required = q] /\ "pending" \in RowState
      BY <1>1, <2>3, <3>1 DEF Queued
    <3>3. /\ row' \in GateRows /\ row'.kind = row.kind /\ row'.checked = c /\ row'.state = "pending"
          /\ row'.link = l /\ row'.required = q
      BY <1>0, <3>2 DEF GateRows
    <3> QED BY <3>1, <3>3
  <2>4. CASE "verdict" \notin Asked(row.kind)
    <3>1. PICK l \in BOOLEAN : l = (row.kind = "notification" /\ ~typeRequired)  OBVIOUS
    <3>2. QueuedFailed("unsubscribed") \/ Queued(l, FALSE)
      BY <1>2, <2>4, <3>1 DEF QueueSend, QueueUnsubscribed
    <3>3. /\ row.kind = "notification" /\ ~l => RequiredNotification
          /\ RequiredNotification => row.kind = "notification"
      BY <3>1 DEF RequiredNotification
    <3> QED BY <2>1, <2>2, <2>3, <3>2, <3>3
  <2>5. CASE "verdict" \in Asked(row.kind)
    <3>1. \/ \E s \in {"failed", "held", "unsubscribed"} : QueuedFailed(s)
          \/ \E l, c \in BOOLEAN : Queued(l, c)
      <4>1. (send.answer = "yes") \in BOOLEAN  OBVIOUS
      <4> QED BY <1>2, <2>5, <4>1 DEF QueueSend, QueueUnsubscribed
    <3>2. row.kind \in {"person", "promotional to a person"}
      <4>1. row.kind \in KindsOfRow  BY <1>0 DEF GateRows, GatesAssumption
      <4> QED BY <2>5, <4>1 DEF Asked, KindsOfRow
    <3>3. Gated(row.kind, "preference") /\ row.kind # "notification" /\ ~RequiredNotification
      BY <3>2 DEF Gated, PreferenceGated, CheckOn, RequiredNotification
    <3> QED BY <2>1, <2>2, <2>3, <3>1, <3>3
  <2> QED BY <2>4, <2>5
<1>3. CASE SendRow
  <2>1. row.state = "taken"  BY <1>3 DEF SendRow
  <2>2. ~GivesUp => row.tries + 1 \in 0..MaxTries - 1
    <3>1. row.tries \in 0..MaxTries - 1 /\ MaxTries \in Nat  BY <1>0, GateNumbers DEF GateRows
    <3> QED BY <3>1, SMTT(20) DEF GivesUp
  <2>3. CASE row' = [row EXCEPT !.state = "sent"]  BY <1>0, <1>1, <2>1, <2>3 DEF GateRows
  <2>4. CASE row' = [row EXCEPT !.state = "failed"]  BY <1>0, <1>1, <2>1, <2>4 DEF GateRows
  <2>5. CASE ~GivesUp /\ row' = [row EXCEPT !.state = "pending", !.tries = @ + 1, !.due = 1]
    <3>1. PICK n \in 0..MaxTries - 1, d \in Int : n = row.tries + 1 /\ d = 1  BY <2>2, <2>5
    <3>2. row' = [row EXCEPT !.state = "pending", !.tries = n, !.due = d] /\ "pending" \in RowState
      BY <1>1, <2>5, <3>1
    <3>3. row' \in GateRows  BY <1>0, <3>2 DEF GateRows
    <3>4. row'.kind = row.kind /\ row'.checked = row.checked /\ row'.link = row.link /\ row'.state = "pending"
          /\ row'.required = row.required
      BY <1>0, <3>2 DEF GateRows
    <3> QED BY <2>1, <3>3, <3>4
  <2> QED BY <1>3, <2>3, <2>4, <2>5 DEF SendRow
<1>4. CASE Restart
  <2>1. CASE row.state = "taken"
    <3>1. PICK d \in Int : d = 1  OBVIOUS
    <3>2. row' = [row EXCEPT !.state = "pending", !.due = d] /\ "pending" \in RowState
      BY <1>1, <1>4, <2>1, <3>1 DEF Restart
    <3>3. row' \in GateRows  BY <1>0, <3>2 DEF GateRows
    <3>4. row'.kind = row.kind /\ row'.checked = row.checked /\ row'.link = row.link /\ row'.state = "pending"
          /\ row'.required = row.required
      BY <1>0, <3>2 DEF GateRows
    <3> QED BY <2>1, <3>3, <3>4
  <2>2. CASE row' = row  BY <1>0, <2>2
  <2> QED BY <1>4, <2>1, <2>2 DEF Restart
<1>5. CASE Tick
  <2>1. PICK a \in 0..UndecidedAfter : a = Until(row.age, UndecidedAfter)
    <3>1. row.age \in 0..UndecidedAfter /\ UndecidedAfter \in Nat  BY <1>0, GateNumbers DEF GateRows
    <3> QED BY <3>1 DEF Until
  <2>2. PICK d \in Int : d = row.due - 1  BY <1>0 DEF GateRows
  <2>3. \/ row' = [row EXCEPT !.due = d, !.age = a]
        \/ row' = [row EXCEPT !.age = a]
        \/ row' = row
    BY <1>5, <2>1, <2>2 DEF Tick
  <2> QED BY <1>0, <2>3 DEF GateRows
<1> QED BY <1>2, <1>3, <1>4, <1>5

-----------------------------------------------------------------------------
(* Whatever is known of core's answer was core's answer that recently: core *)
(* gives it now, gave it since a fetch or a send began, or gave it that     *)
(* long before what a cache still keeps.                                    *)

Allowed(t) == IF t = "verdict" THEN SendTimeout ELSE RoundTimeout
CoreSeen == \A t \in Topics : seen[t][core[t]] = 0
FetchSeen == \A g \in Gates : gate[g].fetch.asked # "none" =>
  gate[g].fetch.on /\ seen[gate[g].fetch.asked][gate[g].fetch.answer] <= gate[g].fetch.age
SendSeen == send.at = "answered" => seen["verdict"][send.answer] <= send.age
CacheSeen == \A t \in Topics : Fresh(t) => seen[t][cache[t].answer] <= cache[t].age + Allowed(t)

AnswersInv == WorldTyped /\ GatesTyped /\ CoreSeen /\ FetchSeen /\ SendSeen /\ CacheSeen

LEMMA UnknownIsOld == GatesAssumption => ~(Unknown.age < TTL)
<1> SUFFICES ASSUME GatesAssumption PROVE ~(Unknown.age < TTL)  OBVIOUS
<1>1. Unknown.age = TTL  BY DEF Unknown
<1>2. ~(TTL < TTL)  BY GateNumbers
<1> QED BY <1>1, <1>2

LEMMA AllowedIsANumber == GatesAssumption => \A t : Allowed(t) \in Nat
BY GateNumbers DEF Allowed

LEMMA AnswersStart == GatesAssumption /\ Init => AnswersInv
<1> SUFFICES ASSUME GatesAssumption, Init PROVE AnswersInv  OBVIOUS
<1>0. core \in [Topics -> {"yes", "no"}] /\ 0 \in 0..MaxChanges /\ 0 \in 0..Far + 1 /\ Far + 1 \in 0..Far + 1
  BY GateNumbers DEF Init
<1>1. WorldTyped /\ CoreSeen
  <2>1. core \in [Topics -> Answers]  BY <1>0 DEF Answers
  <2>2. \A t \in Topics, a \in Answers : seen[t][a] = IF a = core[t] THEN 0 ELSE Far + 1  BY DEF Init
  <2>3. seen \in [Topics -> [Answers -> 0..Far + 1]]  BY <1>0 DEF Init
  <2> QED BY <1>0, <2>1, <2>2, <2>3 DEF WorldTyped, CoreSeen, Init
<1>2. cache \in [Topics -> Verdicts] /\ CacheSeen
  <2>1. cache = [t \in Topics |-> Unknown]  BY DEF Init
  <2>2. \A t \in Topics : ~Fresh(t)  BY <2>1, UnknownIsOld DEF Fresh
  <2>3. cache \in [Topics -> Verdicts]  BY <2>1, GateNews
  <2> QED BY <2>2, <2>3 DEF CacheSeen
<1>3. gate \in [Gates -> GateStates] /\ FetchSeen
  <2>1. [open |-> 0, needs |-> {}, fetch |-> NoFetch] \in GateStates
    <3>1. 0 \in 0..BreakerOpen  BY GateNumbers
    <3>2. NoFetch \in Fetches  BY GateNews
    <3> QED BY <3>1, <3>2 DEF GateStates
  <2> QED BY <2>1, GateNews DEF Init, FetchSeen
<1>4. send \in Sendings /\ SendSeen  BY GateNews DEF Init, SendSeen
<1> QED BY <1>1, <1>2, <1>3, <1>4 DEF AnswersInv, GatesTyped

\* A step of neither the clock nor core.
LEMMA AnswersFramed ==
  ASSUME AnswersInv, UNCHANGED <<cache, gate, send>>, UNCHANGED world
  PROVE  AnswersInv'
BY DEF AnswersInv, world, WorldTyped, GatesTyped, CoreSeen, FetchSeen, SendSeen, CacheSeen, Fresh

\* What core says may change; what it said then was said no longer ago.
LEMMA ChangeKeepsAnswers ==
  ASSUME GatesAssumption, AnswersInv, RowTyped, CoreChanges
  PROVE  AnswersInv'
<1>0. /\ core \in [Topics -> Answers] /\ seen \in [Topics -> [Answers -> 0..Far + 1]] /\ changes \in 0..MaxChanges
      /\ cache \in [Topics -> Verdicts] /\ gate \in [Gates -> GateStates] /\ send \in Sendings
      /\ MaxChanges \in Nat /\ Far \in Nat
  BY GateNumbers DEF AnswersInv, WorldTyped, GatesTyped
<1>1. PICK t \in Topics, a \in Answers : /\ core' = [core EXCEPT ![t] = a]
                                         /\ seen' = [seen EXCEPT ![t][a] = 0]
  <2>1. PICK u \in Asked(row.kind), b \in Answers :
           /\ b \in Possible(u) \ {core[u]}
           /\ core' = [core EXCEPT ![u] = b] /\ seen' = [seen EXCEPT ![u][b] = 0]
    BY DEF CoreChanges
  <2>2. row.kind \in KindsOfRow  BY DEF RowTyped, GateRows, GatesAssumption
  <2>3. u \in Topics  BY <2>1, <2>2 DEF Asked, Topics, KindsOfRow
  <2> QED BY <2>1, <2>3
<1>2. UNCHANGED <<cache, gate, send>> /\ changes' = changes + 1 /\ changes < MaxChanges  BY DEF CoreChanges
<1>3. \A u \in Topics, b \in Answers : seen'[u][b] = IF u = t /\ b = a THEN 0 ELSE seen[u][b]
  BY <1>0, <1>1
<1>4. WorldTyped'
  <2>1. seen' \in [Topics -> [Answers -> 0..Far + 1]]
    <3>1. 0 \in 0..Far + 1  BY <1>0
    <3> QED BY <1>0, <1>1, <3>1
  <2>2. changes' \in 0..MaxChanges  BY <1>0, <1>2
  <2> QED BY <1>0, <1>1, <2>1, <2>2 DEF WorldTyped
<1>5. CoreSeen'
  BY <1>0, <1>1, <1>3 DEF AnswersInv, CoreSeen
<1>6. \A u \in Topics, b \in Answers : seen'[u][b] \in Nat /\ seen[u][b] \in Nat /\ seen'[u][b] <= seen[u][b]
  <2> SUFFICES ASSUME NEW u \in Topics, NEW b \in Answers
               PROVE  seen'[u][b] \in Nat /\ seen[u][b] \in Nat /\ seen'[u][b] <= seen[u][b]
    OBVIOUS
  <2>1. PICK n \in 0..Far + 1 : n = seen[u][b]  BY <1>0
  <2>2. PICK k : k = seen'[u][b]  OBVIOUS
  <2>3. k = n \/ k = 0  BY <1>3, <2>1, <2>2
  <2>4. n \in Nat  BY <1>0, <2>1
  <2>5. k \in Nat /\ k <= n  BY <2>3, <2>4
  <2> QED BY <2>1, <2>2, <2>4, <2>5
<1>7. FetchSeen'
  <2> SUFFICES ASSUME NEW g \in Gates, gate[g].fetch.asked # "none"
               PROVE  gate[g].fetch.on /\ seen'[gate[g].fetch.asked][gate[g].fetch.answer] <= gate[g].fetch.age
    BY <1>2 DEF FetchSeen
  <2>1. PICK f \in Fetches : f = gate[g].fetch  BY <1>0 DEF GateStates
  <2>2. f.asked \in Topics /\ f.answer \in Answers /\ f.age \in Nat  BY <2>1, GateNumbers DEF Fetches
  <2>3. f.on /\ seen[f.asked][f.answer] <= f.age  BY <2>1 DEF AnswersInv, FetchSeen
  <2>4. PICK t1 \in Topics, a1 \in Answers, k \in Nat : t1 = f.asked /\ a1 = f.answer /\ k = f.age  BY <2>2
  <2>5. seen[t1][a1] <= k  BY <2>3, <2>4
  <2>6. PICK n \in Nat, m \in Nat : n = seen'[t1][a1] /\ m = seen[t1][a1] /\ n <= m  BY <1>6
  <2>7. n <= m  BY <2>6
  <2>8. m <= k  BY <2>5, <2>6
  <2>9. n <= k  BY <2>7, <2>8
  <2> QED BY <2>1, <2>3, <2>4, <2>6, <2>9
<1>8. SendSeen'
  <2> SUFFICES ASSUME send.at = "answered" PROVE seen'["verdict"][send.answer] <= send.age
    BY <1>2 DEF SendSeen
  <2>1. send.answer \in Answers /\ send.age \in Nat /\ "verdict" \in Topics
    BY <1>0, GateNumbers DEF Sendings, Topics
  <2>2. seen["verdict"][send.answer] <= send.age  BY DEF AnswersInv, SendSeen
  <2>3. PICK n \in Nat, m \in Nat : n = seen'["verdict"][send.answer] /\ m = seen["verdict"][send.answer] /\ n <= m
    BY <1>6, <2>1
  <2>4. PICK k \in Nat : k = send.age  BY <2>1
  <2>5. m <= k  BY <2>2, <2>3, <2>4
  <2>6. n <= m  BY <2>3
  <2>7. n <= k  BY <2>5, <2>6
  <2> QED BY <2>3, <2>4, <2>7
<1>9. CacheSeen'
  <2> SUFFICES ASSUME NEW u \in Topics, cache'[u].age < TTL
               PROVE  seen'[u][cache'[u].answer] <= cache'[u].age + Allowed(u)
    BY DEF CacheSeen, Fresh, Allowed
  <2>0. cache' = cache /\ Fresh(u)
    <3>1. cache' = cache  BY <1>2
    <3>2. cache[u].age < TTL  BY <3>1, Zenon
    <3> QED BY <3>1, <3>2, Zenon DEF Fresh
  <2>1. cache[u].answer \in Answers /\ cache[u].age \in Nat
    <3>1. cache[u].answer \in Answers /\ cache[u].age \in 0..TTL  BY <1>0 DEF Verdicts
    <3> QED BY <3>1, GateNumbers
  <2>2. seen[u][cache[u].answer] <= cache[u].age + Allowed(u)  BY <2>0 DEF AnswersInv, CacheSeen
  <2>3. PICK n \in Nat, m \in Nat : /\ n = seen'[u][cache[u].answer] /\ m = seen[u][cache[u].answer]
                                    /\ n <= m
    BY <1>6, <2>1
  <2>4. PICK k \in Nat : k = cache[u].age  BY <2>1
  <2>5. PICK w \in Nat : w = Allowed(u)  BY AllowedIsANumber
  <2>6. m <= k + w  BY <2>2, <2>3, <2>4, <2>5, Zenon
  <2>7. n <= m  BY <2>3
  <2>8. n <= k + w  BY <2>6, <2>7
  <2> QED BY <2>0, <2>3, <2>4, <2>5, <2>8, Zenon
<1>10. GatesTyped'  BY <1>0, <1>2 DEF GatesTyped
<1> QED BY <1>4, <1>5, <1>7, <1>8, <1>9, <1>10 DEF AnswersInv

\* A tick ages what is known, and what was said, alike.
LEMMA TickKeepsAnswers ==
  ASSUME GatesAssumption, AnswersInv, Tick
  PROVE  AnswersInv'
<1>0. /\ core \in [Topics -> Answers] /\ seen \in [Topics -> [Answers -> 0..Far + 1]] /\ changes \in 0..MaxChanges
      /\ cache \in [Topics -> Verdicts] /\ gate \in [Gates -> GateStates] /\ send \in Sendings
      /\ TTL \in Nat /\ TTL > 0 /\ RoundTimeout \in Nat /\ SendTimeout \in Nat /\ BreakerOpen \in Nat /\ Far \in Nat
  BY GateNumbers DEF AnswersInv, WorldTyped, GatesTyped
<1>1. UNCHANGED <<core, changes>>  BY DEF Tick
<1>2. seen' = [t \in Topics |-> [a \in Answers |-> IF a = core[t] THEN 0 ELSE Until(seen[t][a], Far + 1)]]
  BY DEF Tick
<1>3. ASSUME NEW t \in Topics, NEW a \in Answers
      PROVE  /\ seen'[t][a] \in 0..Far + 1 /\ seen'[t][a] <= seen[t][a] + 1
             /\ seen[t][a] \in Nat /\ seen'[t][a] \in Nat /\ (a = core[t] => seen'[t][a] = 0)
  <2>1. seen[t][a] \in 0..Far + 1  BY <1>0
  <2>2. seen'[t][a] = IF a = core[t] THEN 0 ELSE Until(seen[t][a], Far + 1)  BY <1>2
  <2> QED BY <1>0, <2>1, <2>2 DEF Until
<1>4. WorldTyped' /\ CoreSeen'
  <2>1. seen' \in [Topics -> [Answers -> 0..Far + 1]]
    <3>1. \A t \in Topics : seen'[t] = [a \in Answers |-> seen'[t][a]]  BY <1>2
    <3>2. \A t \in Topics : seen'[t] \in [Answers -> 0..Far + 1]  BY <1>3, <3>1
    <3> QED BY <1>2, <3>2
  <2>2. \A t \in Topics : core[t] \in Answers /\ core'[t] = core[t]  BY <1>0, <1>1
  <2> QED BY <1>0, <1>1, <1>3, <2>1, <2>2 DEF WorldTyped, CoreSeen
<1>5. ASSUME NEW g \in Gates
      PROVE  /\ gate'[g] \in GateStates
             /\ gate'[g].fetch.on = gate[g].fetch.on /\ gate'[g].fetch.asked = gate[g].fetch.asked
             /\ gate'[g].fetch.answer = gate[g].fetch.answer
             /\ gate[g].fetch.on => gate'[g].fetch.age = gate[g].fetch.age + 1
  <2>1. gate[g] \in GateStates /\ gate[g].fetch \in Fetches  BY <1>0 DEF GateStates
  <2>2. gate[g].open \in 0..BreakerOpen /\ gate[g].fetch.age \in 0..RoundTimeout  BY <2>1 DEF GateStates, Fetches
  <2>3. PICK o \in 0..BreakerOpen : o = Later(gate[g].open - 1, 0)  BY <1>0, <2>2 DEF Later
  <2>4. gate[g].fetch.on => gate[g].fetch.age < RoundTimeout  BY DEF Tick
  <2>5. PICK n \in 0..RoundTimeout : n = IF gate[g].fetch.on THEN gate[g].fetch.age + 1 ELSE 0
    <3>1. CASE gate[g].fetch.on  BY <1>0, <2>2, <2>4, <3>1, SMTT(20)
    <3>2. CASE ~gate[g].fetch.on  BY <1>0, <3>2
    <3> QED BY <3>1, <3>2
  <2>6. gate'[g] = [gate[g] EXCEPT !.open = Later(@ - 1, 0), !.fetch.age = IF gate[g].fetch.on THEN @ + 1 ELSE 0]
    BY DEF Tick
  <2>7. PICK y \in GateStates : y = gate[g]  BY <2>1
  <2>8. PICK x : x = gate'[g]  OBVIOUS
  <2>10. x = [y EXCEPT !.open = o, !.fetch.age = n]  BY <2>3, <2>5, <2>6, <2>7, <2>8
  <2>9. /\ x \in GateStates /\ x.fetch.on = y.fetch.on /\ x.fetch.asked = y.fetch.asked
        /\ x.fetch.answer = y.fetch.answer /\ x.fetch.age = n
    <3>1. y.fetch \in Fetches  BY DEF GateStates
    <3>2. PICK f : f = [y.fetch EXCEPT !.age = n]  OBVIOUS
    <3>3. f \in Fetches /\ f.on = y.fetch.on /\ f.asked = y.fetch.asked /\ f.answer = y.fetch.answer /\ f.age = n
      BY <3>1, <3>2 DEF Fetches
    <3>4. x = [y EXCEPT !.open = o, !.fetch = f]  BY <2>10, <3>2
    <3> QED BY <3>3, <3>4 DEF GateStates
  <2> QED BY <2>5, <2>7, <2>8, <2>9
<1>6. gate' \in [Gates -> GateStates]
  <2>1. gate' = [g \in Gates |-> gate'[g]]  BY DEF Tick
  <2> QED BY <1>5, <2>1
<1>7. FetchSeen'
  <2> SUFFICES ASSUME NEW g \in Gates, gate'[g].fetch.asked # "none"
               PROVE  gate'[g].fetch.on /\ seen'[gate'[g].fetch.asked][gate'[g].fetch.answer] <= gate'[g].fetch.age
    BY DEF FetchSeen
  <2>1. PICK f \in Fetches, h \in Fetches : f = gate[g].fetch /\ h = gate'[g].fetch
    BY <1>0, <1>5 DEF GateStates
  <2>2. f.asked # "none" /\ h.on = f.on /\ h.asked = f.asked /\ h.answer = f.answer /\ (f.on => h.age = f.age + 1)
    BY <1>5, <2>1
  <2>3. f.on /\ seen[f.asked][f.answer] <= f.age  BY <2>1, <2>2 DEF AnswersInv, FetchSeen
  <2>4. f.asked \in Topics /\ f.answer \in Answers /\ f.age \in Nat  BY <1>0, <2>2 DEF Fetches
  <2>5. PICK t1 \in Topics, a1 \in Answers, k \in Nat : t1 = f.asked /\ a1 = f.answer /\ k = f.age  BY <2>4
  <2>6. seen[t1][a1] <= k /\ h.age = k + 1  BY <2>2, <2>3, <2>5
  <2>7. /\ seen[t1][a1] \in Nat /\ seen'[t1][a1] \in Nat /\ seen'[t1][a1] <= seen[t1][a1] + 1
    BY <1>3
  <2>71. PICK n \in Nat, m \in Nat : n = seen'[t1][a1] /\ m = seen[t1][a1]  BY <2>7
  <2>72. n <= m + 1  BY <2>7, <2>71, Zenon
  <2>73. m <= k  BY <2>6, <2>71, Zenon
  <2>8. n <= k + 1  BY <2>72, <2>73
  <2>9. seen'[t1][a1] <= h.age  BY <2>6, <2>71, <2>8, Zenon
  <2> QED BY <2>1, <2>2, <2>3, <2>5, <2>9
<1>8. send' \in Sendings /\ SendSeen'
  <2>1. CASE send.at \in {"asking", "answered"}
    <3>1. send.age < SendTimeout /\ send' = [send EXCEPT !.age = @ + 1]  BY <2>1 DEF Tick
    <3>2. send.age \in 0..SendTimeout /\ send.answer \in Answers  BY <1>0 DEF Sendings
    <3>3. PICK n \in 0..SendTimeout : n = send.age + 1  BY <1>0, <3>1, <3>2, SMTT(20)
    <3>4. send' = [send EXCEPT !.age = n]  BY <3>1, <3>3
    <3>5. send' \in Sendings /\ send'.at = send.at /\ send'.answer = send.answer /\ send'.age = n
      BY <1>0, <3>4 DEF Sendings
    <3>6. send.at = "answered" => seen'["verdict"][send.answer] <= n
      <4>1. send.at = "answered" => seen["verdict"][send.answer] <= send.age
        BY DEF AnswersInv, SendSeen
      <4>2. "verdict" \in Topics  BY DEF Topics
      <4>3. /\ seen["verdict"][send.answer] \in Nat /\ seen'["verdict"][send.answer] \in Nat
            /\ seen'["verdict"][send.answer] <= seen["verdict"][send.answer] + 1
        BY <1>3, <3>2, <4>2
      <4>4. PICK p \in Nat, m \in Nat : p = seen'["verdict"][send.answer] /\ m = seen["verdict"][send.answer]
        BY <4>3
      <4>5. PICK k \in Nat : k = send.age  BY <1>0, <3>2
      <4>6. p <= m + 1  BY <4>3, <4>4, Zenon
      <4>7. m <= k => p <= k + 1  BY <4>6
      <4>8. n = k + 1  BY <3>3, <4>5, Zenon
      <4>9. send.at = "answered" => m <= k  BY <4>1, <4>4, <4>5, Zenon
      <4> QED BY <4>4, <4>7, <4>8, <4>9, Zenon
    <3> QED BY <3>5, <3>6 DEF SendSeen
  <2>2. CASE send.at \notin {"asking", "answered"}
    <3>1. send' = send  BY <2>2 DEF Tick
    <3> QED BY <1>0, <2>2, <3>1 DEF SendSeen
  <2> QED BY <2>1, <2>2
<1>9. ASSUME NEW t \in Topics
      PROVE  /\ cache'[t] \in Verdicts
             /\ cache'[t].age < TTL => /\ Fresh(t) /\ cache'[t].answer = cache[t].answer
                                       /\ cache'[t].age = cache[t].age + 1
  <2>1. cache[t] \in Verdicts  BY <1>0
  <2>2. cache'[t] = IF Fresh(t) /\ cache[t].age + 1 < TTL THEN [cache[t] EXCEPT !.age = @ + 1] ELSE Unknown
    BY DEF Tick
  <2>3. CASE Fresh(t) /\ cache[t].age + 1 < TTL
    <3>1. PICK n \in 0..TTL : n = cache[t].age + 1  BY <1>0, <2>1, <2>3 DEF Verdicts
    <3>2. cache'[t] = [cache[t] EXCEPT !.age = n]  BY <2>2, <2>3, <3>1
    <3> QED BY <2>1, <2>3, <3>1, <3>2 DEF Verdicts
  <2>4. CASE ~(Fresh(t) /\ cache[t].age + 1 < TTL)
    <3>1. cache'[t] = Unknown  BY <2>2, <2>4
    <3> QED BY <3>1, UnknownIsOld, GateNews, Zenon
  <2> QED BY <2>3, <2>4
<1>10. cache' \in [Topics -> Verdicts]
  <2>1. cache' = [t \in Topics |-> cache'[t]]  BY DEF Tick
  <2> QED BY <1>9, <2>1
<1>11. CacheSeen'
  <2> SUFFICES ASSUME NEW t \in Topics, cache'[t].age < TTL
               PROVE  seen'[t][cache'[t].answer] <= cache'[t].age + Allowed(t)
    BY DEF CacheSeen, Fresh, Allowed
  <2>1. Fresh(t) /\ cache'[t].answer = cache[t].answer /\ cache'[t].age = cache[t].age + 1  BY <1>9
  <2>2. cache[t].answer \in Answers /\ cache[t].age \in Nat  BY <1>0 DEF Verdicts
  <2>3. seen[t][cache[t].answer] <= cache[t].age + Allowed(t)  BY <2>1 DEF AnswersInv, CacheSeen
  <2>4. /\ seen[t][cache[t].answer] \in Nat /\ seen'[t][cache[t].answer] \in Nat
        /\ seen'[t][cache[t].answer] <= seen[t][cache[t].answer] + 1
    BY <1>3, <2>2
  <2>5. PICK n \in Nat, m \in Nat : n = seen'[t][cache[t].answer] /\ m = seen[t][cache[t].answer]
    BY <2>4
  <2>6. PICK k \in Nat : k = cache[t].age  BY <2>2
  <2>7. PICK w \in Nat : w = Allowed(t)  BY AllowedIsANumber
  <2>8. n <= m + 1  BY <2>4, <2>5, Zenon
  <2>9. m <= k + w  BY <2>3, <2>5, <2>6, <2>7, Zenon
  <2>10. n <= k + 1 + w  BY <2>8, <2>9
  <2>11. cache'[t].age = k + 1 /\ seen'[t][cache'[t].answer] = n  BY <2>1, <2>5, <2>6, Zenon
  <2> QED BY <2>7, <2>10, <2>11, Zenon
<1> QED BY <1>4, <1>6, <1>7, <1>8, <1>10, <1>11 DEF AnswersInv, GatesTyped

\* A topic's cache holds what core said of it, as said now.
LEMMA CacheLearns ==
  ASSUME GatesAssumption, AnswersInv, NEW t \in Topics, NEW a \in Answers,
         NEW n \in Nat, n = seen[t][a], n <= Allowed(t),
         cache' = [cache EXCEPT ![t] = [answer |-> a, age |-> 0]], UNCHANGED seen
  PROVE  cache' \in [Topics -> Verdicts] /\ CacheSeen'
<1>0. cache \in [Topics -> Verdicts]  BY DEF AnswersInv, GatesTyped
<1>1. PICK v : v = [answer |-> a, age |-> 0]  OBVIOUS
<1>2. v \in Verdicts
  <2>1. 0 \in 0..TTL  BY GateNumbers
  <2> QED BY <1>1, <2>1 DEF Verdicts
<1>3. cache' = [cache EXCEPT ![t] = v]  BY <1>1
<1>4. SUFFICES ASSUME NEW u \in Topics, cache'[u].age < TTL
               PROVE  seen[u][cache'[u].answer] <= cache'[u].age + Allowed(u)
  BY <1>0, <1>2, <1>3 DEF CacheSeen, Fresh, Allowed
<1>5. CASE u = t
  <2>1. cache'[u] = v  BY <1>0, <1>3, <1>5
  <2>2. cache'[u].answer = a /\ cache'[u].age = 0  BY <1>1, <2>1
  <2>3. PICK w \in Nat : w = Allowed(t)  BY AllowedIsANumber
  <2>4. n <= w  BY <2>3, Zenon
  <2>5. n <= 0 + w  BY <2>4
  <2> QED BY <1>5, <2>2, <2>3, <2>5, Zenon
<1>6. CASE u # t
  <2>1. cache'[u] = cache[u]
    <3>1. PICK c \in [Topics -> Verdicts] : c = cache  BY <1>0
    <3>2. PICK d : d = cache'  OBVIOUS
    <3>3. d = [c EXCEPT ![t] = v]  BY <1>3, <3>1, <3>2, Zenon
    <3>4. d[u] = c[u]  BY <1>6, <3>3
    <3> QED BY <3>1, <3>2, <3>4, Zenon
  <2>2. Fresh(u)  BY <1>4, <2>1 DEF Fresh
  <2>3. seen[u][cache[u].answer] <= cache[u].age + Allowed(u)  BY <2>2 DEF AnswersInv, CacheSeen
  <2> QED BY <2>1, <2>3, Zenon
<1> QED BY <1>5, <1>6

LEMMA SendKeepsAnswers ==
  ASSUME GatesAssumption, AnswersInv, AskBeforeSend \/ CoreAnswersSend \/ SendResolved \/ SendRefused
  PROVE  AnswersInv'
<1>0. /\ core \in [Topics -> Answers] /\ seen \in [Topics -> [Answers -> 0..Far + 1]]
      /\ cache \in [Topics -> Verdicts] /\ send \in Sendings /\ "verdict" \in Topics
  BY DEF AnswersInv, WorldTyped, GatesTyped, Topics
<1>1. UNCHANGED <<core, seen, changes, gate>>
  BY DEF AskBeforeSend, CoreAnswersSend, SendResolved, SendRefused, world
<1>2. WorldTyped' /\ CoreSeen' /\ FetchSeen'
  BY <1>1 DEF AnswersInv, WorldTyped, CoreSeen, FetchSeen
<1>3. send' \in Sendings /\ SendSeen'
  <2>1. CASE AskBeforeSend
    <3>1. send' = [NoSend EXCEPT !.at = "asking"] /\ NoSend \in Sendings  BY <2>1, GateNews DEF AskBeforeSend
    <3>2. send' \in Sendings /\ send'.at = "asking"  BY <3>1 DEF Sendings
    <3> QED BY <3>2 DEF SendSeen
  <2>2. CASE CoreAnswersSend
    <3>1. PICK a \in Answers : a = core["verdict"]  BY <1>0
    <3>2. send' = [send EXCEPT !.at = "answered", !.answer = a]  BY <2>2, <3>1 DEF CoreAnswersSend
    <3>3. send' \in Sendings /\ send'.answer = a /\ send'.age = send.age  BY <1>0, <3>2 DEF Sendings
    <3>4. seen["verdict"][a] = 0  BY <1>0, <3>1 DEF AnswersInv, CoreSeen
    <3>5. send.age \in Nat  BY <1>0, GateNumbers DEF Sendings
    <3>6. 0 <= send.age  BY <3>5
    <3> QED BY <1>1, <3>3, <3>4, <3>6 DEF SendSeen
  <2>3. CASE SendResolved
    <3>1. PICK n \in 0..SendTimeout : n = 0  BY GateNumbers
    <3>2. send' = [send EXCEPT !.at = "resolved", !.age = n]  BY <2>3, <3>1 DEF SendResolved
    <3>3. send' \in Sendings /\ send'.at = "resolved"  BY <1>0, <3>2 DEF Sendings
    <3> QED BY <3>3 DEF SendSeen
  <2>4. CASE SendRefused
    <3>1. send' = NoSend  BY <2>4 DEF SendRefused
    <3> QED BY <3>1, GateNews DEF SendSeen
  <2> QED BY <2>1, <2>2, <2>3, <2>4
<1>4. cache' \in [Topics -> Verdicts] /\ CacheSeen'
  <2>1. CASE SendResolved
    <3>1. cache' = [cache EXCEPT !["verdict"] = [answer |-> send.answer, age |-> 0]] /\ send.at = "answered"
      BY <2>1 DEF SendResolved, Remembered
    <3>2. send.answer \in Answers  BY <1>0 DEF Sendings
    <3>3. PICK n \in Nat : n = seen["verdict"][send.answer]
      <4>1. seen["verdict"][send.answer] \in 0..Far + 1  BY <1>0, <3>2
      <4>2. 0..Far + 1 \subseteq Nat  BY GateNumbers
      <4> QED BY <4>1, <4>2
    <3>4. PICK k \in 0..SendTimeout : k = send.age  BY <1>0 DEF Sendings
    <3>5. n <= k  BY <3>1, <3>3, <3>4, Zenon DEF AnswersInv, SendSeen
    <3>6. n <= SendTimeout  BY <3>4, <3>5, GateNumbers
    <3>7. Allowed("verdict") = SendTimeout  BY DEF Allowed
    <3>8. n <= Allowed("verdict")  BY <3>6, <3>7, Zenon
    <3> QED BY <1>0, <1>1, <3>1, <3>2, <3>3, <3>8, CacheLearns
  <2>2. CASE ~SendResolved
    <3>1. cache' = cache  BY <2>2 DEF AskBeforeSend, CoreAnswersSend, SendRefused
    <3> QED BY <1>0, <1>1, <3>1 DEF AnswersInv, CacheSeen, Fresh, Allowed
  <2> QED BY <2>1, <2>2
<1> QED BY <1>1, <1>2, <1>3, <1>4 DEF AnswersInv, GatesTyped

LEMMA StartKeepsAnswers ==
  ASSUME GatesAssumption, AnswersInv, NEW g \in Gates, StartFetch(g)
  PROVE  AnswersInv'
<1>0. gate \in [Gates -> GateStates]  BY DEF AnswersInv, GatesTyped
<1>1. UNCHANGED <<core, seen, changes, cache, send>>  BY DEF StartFetch, world
<1>2. PICK ts \in SUBSET Topics : ts = gate[g].needs  BY <1>0 DEF GateStates
<1>3. PICK f \in Fetches : f = [NoFetch EXCEPT !.on = TRUE, !.left = ts] /\ f.asked = "none"
  <2>1. PICK f : f = [NoFetch EXCEPT !.on = TRUE, !.left = ts]  OBVIOUS
  <2>2. NoFetch \in Fetches /\ NoFetch.asked = "none"  BY GateNews
  <2>3. f \in Fetches /\ f.asked = "none"  BY <2>1, <2>2 DEF Fetches
  <2> QED BY <2>1, <2>3
<1>4. PICK x \in GateStates : x = [gate[g] EXCEPT !.needs = {}, !.fetch = f] /\ x.fetch = f
  <2>1. PICK x : x = [gate[g] EXCEPT !.needs = {}, !.fetch = f]  OBVIOUS
  <2>2. x \in GateStates /\ x.fetch = f  BY <1>0, <2>1 DEF GateStates
  <2> QED BY <2>1, <2>2
<1>5. gate' = [gate EXCEPT ![g] = x]
  BY <1>0, <1>2, <1>3, <1>4 DEF StartFetch
<1>6. gate' \in [Gates -> GateStates]  BY <1>0, <1>5
<1>7. FetchSeen'
  <2> SUFFICES ASSUME NEW h \in Gates, gate'[h].fetch.asked # "none"
               PROVE  gate'[h].fetch.on /\ seen[gate'[h].fetch.asked][gate'[h].fetch.answer] <= gate'[h].fetch.age
    BY <1>1 DEF FetchSeen
  <2>1. h # g /\ gate'[h] = gate[h]  BY <1>0, <1>3, <1>4, <1>5
  <2> QED BY <2>1 DEF AnswersInv, FetchSeen
<1>8. cache' \in [Topics -> Verdicts] /\ send' \in Sendings  BY <1>1 DEF AnswersInv, GatesTyped
<1>9. WorldTyped' /\ CoreSeen' /\ SendSeen'  BY <1>1 DEF AnswersInv, WorldTyped, CoreSeen, SendSeen
<1>10. CacheSeen'  BY <1>1 DEF AnswersInv, CacheSeen, Fresh, Allowed
<1> QED BY <1>6, <1>7, <1>8, <1>9, <1>10 DEF AnswersInv, GatesTyped

LEMMA AskKeepsAnswers ==
  ASSUME GatesAssumption, AnswersInv, NEW g \in Gates, CoreAnswers(g)
  PROVE  AnswersInv'
<1>0. gate \in [Gates -> GateStates] /\ core \in [Topics -> Answers]  BY DEF AnswersInv, WorldTyped, GatesTyped
<1>1. UNCHANGED <<core, seen, changes, cache, send>>  BY DEF CoreAnswers, world
<1>2. PICK f \in Fetches : f = gate[g].fetch  BY <1>0 DEF GateStates
<1>3. f.on /\ f.left # {} /\ f.left \in SUBSET Topics  BY <1>2 DEF CoreAnswers, Fetches
<1>4. PICK t \in Topics : t = NextTopic(f.left)  BY <1>3, NextIsLeft
<1>5. PICK a \in Answers : a = core[t]  BY <1>0
<1>6. PICK k \in Fetches : /\ k = [f EXCEPT !.asked = t, !.left = @ \ {t}, !.answer = a]
                           /\ k.on = f.on /\ k.asked = t /\ k.answer = a /\ k.age = f.age
  <2>1. PICK l \in SUBSET Topics : l = f.left \ {t}  BY <1>3
  <2>2. PICK k : k = [f EXCEPT !.asked = t, !.left = l, !.answer = a]  OBVIOUS
  <2>3. k \in Fetches /\ k.on = f.on /\ k.asked = t /\ k.answer = a /\ k.age = f.age
    BY <2>2 DEF Fetches
  <2>4. k = [f EXCEPT !.asked = t, !.left = @ \ {t}, !.answer = a]  BY <2>1, <2>2
  <2> QED BY <2>3, <2>4
<1>7. PICK x \in GateStates : x = [gate[g] EXCEPT !.fetch = k] /\ x.fetch = k
  <2>1. PICK x : x = [gate[g] EXCEPT !.fetch = k]  OBVIOUS
  <2>2. x \in GateStates /\ x.fetch = k  BY <1>0, <2>1 DEF GateStates
  <2> QED BY <2>1, <2>2
<1>8. gate' = [gate EXCEPT ![g] = x]
  <2>1. gate' = [gate EXCEPT ![g].fetch = [f EXCEPT !.asked = t, !.left = @ \ {t}, !.answer = a]]
    BY <1>2, <1>4, <1>5 DEF CoreAnswers
  <2>2. gate' = [gate EXCEPT ![g].fetch = k]  BY <1>6, <2>1, Zenon
  <2> QED BY <1>7, <2>2
<1>9. gate' \in [Gates -> GateStates]  BY <1>0, <1>8
<1>10. FetchSeen'
  <2> SUFFICES ASSUME NEW h \in Gates, gate'[h].fetch.asked # "none"
               PROVE  gate'[h].fetch.on /\ seen[gate'[h].fetch.asked][gate'[h].fetch.answer] <= gate'[h].fetch.age
    BY <1>1 DEF FetchSeen
  <2>1. CASE h = g
    <3>1. gate'[h].fetch = k  BY <1>0, <1>7, <1>8, <2>1
    <3>2. seen[t][a] = 0  BY <1>5 DEF AnswersInv, CoreSeen
    <3>3. PICK n \in Nat : n = k.age  BY GateNumbers DEF Fetches
    <3>4. 0 <= n  BY <3>3
    <3>5. seen[t][a] <= k.age  BY <3>2, <3>3, <3>4, Zenon
    <3> QED BY <1>3, <1>6, <3>1, <3>5, Zenon
  <2>2. CASE h # g
    <3>1. gate'[h] = gate[h]  BY <1>0, <1>8, <2>2
    <3> QED BY <3>1 DEF AnswersInv, FetchSeen
  <2> QED BY <2>1, <2>2
<1>11. cache' \in [Topics -> Verdicts] /\ send' \in Sendings  BY <1>1 DEF AnswersInv, GatesTyped
<1>12. WorldTyped' /\ CoreSeen' /\ SendSeen'  BY <1>1 DEF AnswersInv, WorldTyped, CoreSeen, SendSeen
<1>13. CacheSeen'  BY <1>1 DEF AnswersInv, CacheSeen, Fresh, Allowed
<1> QED BY <1>9, <1>10, <1>11, <1>12, <1>13 DEF AnswersInv, GatesTyped

LEMMA FetchEndKeepsAnswers ==
  ASSUME GatesAssumption, AnswersInv, NEW g \in Gates, AnswerArrives(g) \/ FetchFails(g)
  PROVE  AnswersInv'
<1>0. /\ gate \in [Gates -> GateStates] /\ cache \in [Topics -> Verdicts] /\ send \in Sendings
      /\ seen \in [Topics -> [Answers -> 0..Far + 1]]
  BY DEF AnswersInv, WorldTyped, GatesTyped
<1>1. UNCHANGED <<core, seen, changes, send>>  BY DEF AnswerArrives, FetchFails, world
<1>2. PICK f \in Fetches : f = gate[g].fetch  BY <1>0 DEF GateStates
<1>3. PICK k \in Fetches, x \in GateStates : gate' = [gate EXCEPT ![g] = x] /\ x.fetch = k /\ k.asked = "none"
  <2>1. CASE AnswerArrives(g)
    <3>1. PICK k \in Fetches : /\ k = IF f.left = {} THEN NoFetch ELSE [f EXCEPT !.asked = "none", !.answer = "none"]
                               /\ k.asked = "none"
      <4>1. PICK k : k = IF f.left = {} THEN NoFetch ELSE [f EXCEPT !.asked = "none", !.answer = "none"]
        OBVIOUS
      <4>2. NoFetch \in Fetches /\ NoFetch.asked = "none"  BY GateNews
      <4>3. CASE f.left = {}  BY <4>1, <4>2, <4>3
      <4>4. CASE f.left # {}
        <5>1. k = [f EXCEPT !.asked = "none", !.answer = "none"]  BY <4>1, <4>4
        <5>2. k \in Fetches /\ k.asked = "none"  BY <5>1 DEF Fetches, Answers
        <5> QED BY <4>1, <5>2
      <4> QED BY <4>3, <4>4
    <3>2. PICK x \in GateStates : x = [gate[g] EXCEPT !.fetch = k] /\ x.fetch = k
      <4>1. PICK x : x = [gate[g] EXCEPT !.fetch = k]  OBVIOUS
      <4>2. x \in GateStates /\ x.fetch = k  BY <1>0, <4>1 DEF GateStates
      <4> QED BY <4>1, <4>2
    <3>3. gate' = [gate EXCEPT ![g] = x]  BY <1>0, <1>2, <2>1, <3>1, <3>2 DEF AnswerArrives
    <3> QED BY <3>1, <3>2, <3>3
  <2>2. CASE FetchFails(g)
    <3>1. PICK o \in 0..BreakerOpen : o = BreakerOpen  BY GateNumbers
    <3>2. PICK x \in GateStates : x = [gate[g] EXCEPT !.fetch = NoFetch, !.open = o] /\ x.fetch = NoFetch
      <4>1. PICK x : x = [gate[g] EXCEPT !.fetch = NoFetch, !.open = o]  OBVIOUS
      <4>2. NoFetch \in Fetches  BY GateNews
      <4>3. x \in GateStates /\ x.fetch = NoFetch  BY <1>0, <4>1, <4>2 DEF GateStates
      <4> QED BY <4>1, <4>3
    <3>3. gate' = [gate EXCEPT ![g] = x]  BY <1>0, <2>2, <3>1, <3>2 DEF FetchFails
    <3> QED BY <3>2, <3>3, GateNews
  <2> QED BY <2>1, <2>2
<1>4. gate' \in [Gates -> GateStates]  BY <1>0, <1>3
<1>5. FetchSeen'
  <2> SUFFICES ASSUME NEW h \in Gates, gate'[h].fetch.asked # "none"
               PROVE  gate'[h].fetch.on /\ seen[gate'[h].fetch.asked][gate'[h].fetch.answer] <= gate'[h].fetch.age
    BY <1>1 DEF FetchSeen
  <2>1. h # g /\ gate'[h] = gate[h]  BY <1>0, <1>3
  <2> QED BY <2>1 DEF AnswersInv, FetchSeen
<1>6. cache' \in [Topics -> Verdicts] /\ CacheSeen'
  <2>1. CASE AnswerArrives(g)
    <3>1. f.asked # "none" /\ cache' = Keep(f.asked, f.answer)  BY <1>2, <2>1 DEF AnswerArrives
    <3>2. PICK t \in Topics, a \in Answers : t = f.asked /\ a = f.answer  BY <3>1 DEF Fetches
    <3>3. cache' = [cache EXCEPT ![t] = [answer |-> a, age |-> 0]]  BY <3>1, <3>2 DEF Keep
    <3>4. PICK n \in Nat : n = seen[t][a]
      <4>1. seen[t][a] \in 0..Far + 1  BY <1>0
      <4>2. 0..Far + 1 \subseteq Nat  BY GateNumbers
      <4> QED BY <4>1, <4>2
    <3>5. PICK m \in 0..RoundTimeout : m = f.age  BY DEF Fetches
    <3>6. seen[t][a] <= f.age  BY <1>2, <3>1, <3>2 DEF AnswersInv, FetchSeen
    <3>7. n <= m  BY <3>4, <3>5, <3>6, Zenon
    <3>8. n <= RoundTimeout /\ n <= SendTimeout  BY <3>5, <3>7, GateNumbers
    <3>9. Allowed(t) = RoundTimeout \/ Allowed(t) = SendTimeout  BY DEF Allowed
    <3>10. n <= Allowed(t)  BY <3>8, <3>9, Zenon
    <3> QED BY <1>1, <3>3, <3>4, <3>10, CacheLearns
  <2>2. CASE FetchFails(g)
    <3>1. cache' = cache  BY <2>2 DEF FetchFails
    <3> QED BY <1>0, <1>1, <3>1 DEF AnswersInv, CacheSeen, Fresh, Allowed
  <2> QED BY <2>1, <2>2
<1>7. WorldTyped' /\ CoreSeen' /\ SendSeen'  BY <1>1 DEF AnswersInv, WorldTyped, CoreSeen, SendSeen
<1> QED BY <1>0, <1>1, <1>4, <1>5, <1>6, <1>7 DEF AnswersInv, GatesTyped

\* The row, as far as this invariant needs it.
CheckedKinds == row.checked => Gated(row.kind, "preference")
\* A notification that has no link was asked for while its type was required.
LinkAsAsked ==
  row.state \in {"pending", "taken"} /\ row.kind = "notification" /\ ~row.link => row.required
\* Only a notification's type is ever required.
RequiredKinds == row.required => row.kind = "notification"
RowInv == RowTyped /\ CheckedKinds /\ LinkAsAsked /\ RequiredKinds
GatesInv == AnswersInv /\ RowInv

LEMMA GatesInvTyped == GatesInv => TypeOK
BY GateTypesNamed DEF GatesInv, AnswersInv, RowInv

LEMMA RowStart == GatesAssumption /\ Init => RowInv
<1> SUFFICES ASSUME GatesAssumption, Init PROVE RowInv  OBVIOUS
<1>1. PICK k \in Kinds : row = [state |-> "none", kind |-> k, link |-> FALSE, checked |-> FALSE,
                                required |-> FALSE, due |-> 0, age |-> 0, tries |-> 0]
  BY DEF Init
<1>2. 0 \in 0..UndecidedAfter /\ 0 \in 0..MaxTries - 1 /\ 0 \in 0..MaxRestarts  BY GateNumbers
<1>3. "none" \in RowState  BY DEF RowState
<1>4. row \in GateRows  BY <1>1, <1>2, <1>3 DEF GateRows
<1>5. row.state = "none" /\ row.checked = FALSE /\ row.required = FALSE  BY <1>1
<1>6. typeRequired \in BOOLEAN  BY DEF Init
<1> QED BY <1>2, <1>4, <1>5, <1>6 DEF Init, RowInv, RowTyped, CheckedKinds, LinkAsAsked, RequiredKinds

LEMMA RestartKeepsAnswers ==
  ASSUME GatesAssumption, AnswersInv, Restart
  PROVE  AnswersInv'
<1>1. UNCHANGED <<core, seen, changes>>  BY DEF Restart, world
<1>2. WorldTyped' /\ CoreSeen'  BY <1>1 DEF AnswersInv, WorldTyped, CoreSeen
<1>3. cache' \in [Topics -> Verdicts] /\ CacheSeen'
  <2>1. cache' = [t \in Topics |-> Unknown]  BY DEF Restart
  <2>2. \A t \in Topics : cache'[t] = Unknown  BY <2>1
  <2>3. \A t \in Topics : ~(cache'[t].age < TTL)  BY <2>2, UnknownIsOld, Zenon
  <2>4. cache' \in [Topics -> Verdicts]  BY <2>1, GateNews
  <2> QED BY <2>3, <2>4 DEF CacheSeen, Fresh
<1>4. gate' \in [Gates -> GateStates] /\ FetchSeen'
  <2>1. PICK x : x = [open |-> 0, needs |-> {}, fetch |-> NoFetch]  OBVIOUS
  <2>2. x \in GateStates
    <3>1. 0 \in 0..BreakerOpen  BY GateNumbers
    <3>2. NoFetch \in Fetches  BY GateNews
    <3> QED BY <2>1, <3>1, <3>2 DEF GateStates
  <2>3. gate' = [g \in Gates |-> x]  BY <2>1 DEF Restart
  <2>4. x.fetch = NoFetch  BY <2>1
  <2>5. gate' \in [Gates -> GateStates] /\ \A g \in Gates : gate'[g].fetch = NoFetch  BY <2>2, <2>3, <2>4
  <2> QED BY <2>5, GateNews DEF FetchSeen
<1>5. send' \in Sendings /\ SendSeen'  BY GateNews DEF Restart, SendSeen
<1> QED BY <1>2, <1>3, <1>4, <1>5 DEF AnswersInv, GatesTyped

LEMMA TakeKeepsAnswers ==
  ASSUME GatesAssumption, AnswersInv, TypeOK, Take
  PROVE  AnswersInv'
<1>1. UNCHANGED <<core, seen, changes, cache, send>>  BY DEF Take, world
<1>2. gate' \in [Gates -> GateStates] /\ \A g \in Gates : gate'[g].fetch = gate[g].fetch  BY TakeMoves
<1>3. cache' \in [Topics -> Verdicts] /\ send' \in Sendings  BY <1>1 DEF AnswersInv, GatesTyped
<1>4. WorldTyped' /\ CoreSeen' /\ SendSeen'  BY <1>1 DEF AnswersInv, WorldTyped, CoreSeen, SendSeen
<1>5. CacheSeen'  BY <1>1 DEF AnswersInv, CacheSeen, Fresh, Allowed
<1>6. FetchSeen'  BY <1>1, <1>2 DEF AnswersInv, FetchSeen
<1> QED BY <1>2, <1>3, <1>4, <1>5, <1>6 DEF AnswersInv, GatesTyped

LEMMA QueueKeepsAnswers ==
  ASSUME GatesAssumption, AnswersInv, QueueSend
  PROVE  AnswersInv'
<1>1. UNCHANGED <<core, seen, changes, cache, gate>> /\ send' = NoSend  BY DEF QueueSend, world
<1>2. send' \in Sendings /\ SendSeen'  BY <1>1, GateNews DEF SendSeen
<1>3. WorldTyped' /\ CoreSeen' /\ FetchSeen'  BY <1>1 DEF AnswersInv, WorldTyped, CoreSeen, FetchSeen
<1>4. CacheSeen'  BY <1>1 DEF AnswersInv, CacheSeen, Fresh, Allowed
<1>5. cache' \in [Topics -> Verdicts] /\ gate' \in [Gates -> GateStates]  BY <1>1 DEF AnswersInv, GatesTyped
<1> QED BY <1>2, <1>3, <1>4, <1>5 DEF AnswersInv, GatesTyped

LEMMA AnswersKept ==
  ASSUME GatesAssumption, GatesInv, [Next]_vars
  PROVE  AnswersInv'
<1>0. AnswersInv /\ RowTyped /\ TypeOK  BY GatesInvTyped DEF GatesInv, RowInv
<1>1. CASE CoreChanges  BY <1>0, <1>1, ChangeKeepsAnswers
<1>2. CASE Tick  BY <1>0, <1>2, TickKeepsAnswers
<1>3. CASE AskBeforeSend \/ CoreAnswersSend \/ SendResolved \/ SendRefused  BY <1>0, <1>3, SendKeepsAnswers
<1>4. CASE QueueSend  BY <1>0, <1>4, QueueKeepsAnswers
<1>5. CASE Take  BY <1>0, <1>5, TakeKeepsAnswers
<1>6. CASE Restart  BY <1>0, <1>6, RestartKeepsAnswers
<1>7. CASE \E g \in Gates : StartFetch(g) \/ CoreAnswers(g) \/ AnswerArrives(g) \/ FetchFails(g)
  <2>1. PICK g \in Gates : StartFetch(g) \/ CoreAnswers(g) \/ AnswerArrives(g) \/ FetchFails(g)  BY <1>7
  <2>2. CASE StartFetch(g)  BY <1>0, <2>2, StartKeepsAnswers
  <2>3. CASE CoreAnswers(g)  BY <1>0, <2>3, AskKeepsAnswers
  <2>4. CASE AnswerArrives(g) \/ FetchFails(g)  BY <1>0, <2>4, FetchEndKeepsAnswers
  <2> QED BY <2>1, <2>2, <2>3, <2>4
<1>8. CASE UNCHANGED <<cache, gate, send>> /\ UNCHANGED <<core, seen, changes>>
  <2>1. WorldTyped' /\ CoreSeen' /\ FetchSeen' /\ SendSeen'
    BY <1>0, <1>8 DEF AnswersInv, WorldTyped, CoreSeen, FetchSeen, SendSeen
  <2>2. CacheSeen'  BY <1>0, <1>8 DEF AnswersInv, CacheSeen, Fresh, Allowed
  <2>3. GatesTyped'  BY <1>0, <1>8 DEF AnswersInv, GatesTyped
  <2> QED BY <2>1, <2>2, <2>3 DEF AnswersInv
<1>9. CASE SendRow  BY <1>8, <1>9 DEF SendRow, world
<1>10. CASE UNCHANGED vars  BY <1>8, <1>10 DEF vars
<1>11. CASE Unsubscribe \/ Resubscribe \/ PutType
  <2>1. /\ UNCHANGED <<core, seen, cache, gate, send>> /\ changes' = changes + 1 /\ changes < MaxChanges
    BY <1>11 DEF Unsubscribe, Resubscribe, PutType
  <2>2. changes' \in 0..MaxChanges
    <3>1. changes \in 0..MaxChanges  BY <1>0 DEF AnswersInv, WorldTyped
    <3> QED BY <2>1, <3>1, GateNumbers
  <2>3. UNCHANGED <<core, seen, cache, gate, send>>  BY <2>1
  <2>4. WorldTyped' /\ CoreSeen' /\ FetchSeen' /\ SendSeen'
    BY <1>0, <2>2, <2>3 DEF AnswersInv, WorldTyped, CoreSeen, FetchSeen, SendSeen
  <2>5. CacheSeen'  BY <1>0, <2>3 DEF AnswersInv, CacheSeen, Fresh, Allowed
  <2>6. GatesTyped'  BY <1>0, <2>3 DEF AnswersInv, GatesTyped
  <2> QED BY <2>4, <2>5, <2>6 DEF AnswersInv
<1> QED BY <1>1, <1>2, <1>3, <1>4, <1>5, <1>6, <1>7, <1>9, <1>10, <1>11 DEF Next

LEMMA RowKept ==
  ASSUME GatesAssumption, GatesInv, [Next]_vars
  PROVE  RowInv'
<1>0. RowTyped /\ TypeOK /\ CheckedKinds /\ LinkAsAsked /\ RequiredKinds /\ row \in GateRows
  BY GatesInvTyped DEF GatesInv, RowInv, RowTyped
<1>1. out' \in BOOLEAN /\ typeRequired' \in BOOLEAN
  BY <1>0 DEF RowTyped, Next, vars, world, CoreChanges, Tick, Unsubscribe, Resubscribe, InsertUnsubscribe,
     DeleteUnsubscribe, PutType, AskBeforeSend, CoreAnswersSend, SendResolved, SendRefused, QueueSend, Take, SendRow,
     Restart, StartFetch, CoreAnswers, AnswerArrives, FetchFails
<1>2. restarts' \in 0..MaxRestarts
  <2>1. restarts' = restarts \/ (restarts' = restarts + 1 /\ restarts < MaxRestarts)
    BY DEF Next, vars, CoreChanges, Tick, Unsubscribe, Resubscribe, PutType, AskBeforeSend, CoreAnswersSend,
       SendResolved, SendRefused, QueueSend, Take, SendRow, Restart, StartFetch, CoreAnswers, AnswerArrives,
       FetchFails
  <2>2. restarts \in 0..MaxRestarts  BY <1>0 DEF RowTyped
  <2> QED BY <2>1, <2>2, GateNumbers
<1>3. CASE row' = row
  BY <1>0, <1>1, <1>2, <1>3 DEF RowInv, RowTyped, CheckedKinds, LinkAsAsked, RequiredKinds
<1>4. CASE QueueSend \/ SendRow \/ Restart \/ Tick
  <2>1. /\ row' \in GateRows /\ row'.kind = row.kind
        /\ row'.checked => row.checked \/ Gated(row.kind, "preference")
        /\ row.state = "none" \/ (row'.link = row.link /\ row'.required = row.required)
        /\ row'.required => row.required \/ row.kind = "notification"
        /\ row'.state \in {"pending", "taken"} =>
             \/ row.state \in {"pending", "taken"}
             \/ row.kind = "notification" /\ ~row'.link => row'.required
    BY <1>0, <1>4, RowMoves
  <2>2. CheckedKinds'  BY <1>0, <2>1 DEF CheckedKinds
  <2>3. LinkAsAsked' /\ RequiredKinds'  BY <1>0, <2>1 DEF LinkAsAsked, RequiredKinds
  <2> QED BY <1>1, <1>2, <2>1, <2>2, <2>3 DEF RowInv, RowTyped
<1>5. CASE Take
  <2>1. /\ row' \in GateRows /\ row'.kind = row.kind /\ row'.checked = row.checked
        /\ row'.required = row.required /\ row'.link \in {row.link, HasLink}
    BY <1>0, <1>5, TakeMoves
  <2>2. CheckedKinds'  BY <1>0, <2>1 DEF CheckedKinds
  <2>3. row.link => row'.link  BY <2>1 DEF HasLink
  <2>4. row.state = "pending"  BY <1>5 DEF Take
  <2>5. LinkAsAsked'  BY <1>0, <2>1, <2>3, <2>4 DEF LinkAsAsked
  <2>6. RequiredKinds'  BY <1>0, <2>1 DEF RequiredKinds
  <2> QED BY <1>1, <1>2, <2>1, <2>2, <2>5, <2>6 DEF RowInv, RowTyped
<1>6. Next => \/ row' = row
              \/ QueueSend \/ SendRow \/ Restart \/ Tick
              \/ Take
  BY DEF Next, CoreChanges, Unsubscribe, Resubscribe, PutType, AskBeforeSend, CoreAnswersSend, SendResolved,
     SendRefused, StartFetch, CoreAnswers, AnswerArrives, FetchFails
<1> QED BY <1>3, <1>4, <1>5, <1>6 DEF vars

LEMMA GatesInvariant == Spec => []GatesInv
<1>1. Init => GatesInv  BY GatesAssumption, AnswersStart, RowStart DEF GatesInv
<1>2. GatesInv /\ [Next]_vars => GatesInv'
  BY GatesAssumption, AnswersKept, RowKept DEF GatesInv
<1> QED BY <1>1, <1>2, PTL DEF Spec

\* Every record has its type.
THEOREM GateTypes == Spec => []TypeOK
BY GatesInvariant, GatesInvTyped, PTL

-----------------------------------------------------------------------------
(* A row is decided as core answered, that recently.                        *)

LEMMA SaysSaid ==
  ASSUME GatesAssumption, AnswersInv, NEW t \in Topics, NEW a \in Answers, Says(t, a)
  PROVE  seen[t][a] <= TTL - 1 + Allowed(t)
<1>1. Fresh(t) /\ cache[t].answer = a  BY DEF Says
<1>2. cache[t].age \in 0..TTL /\ seen[t][a] \in 0..Far + 1
  BY DEF AnswersInv, WorldTyped, GatesTyped, Verdicts
<1>3. PICK k \in 0..TTL : k = cache[t].age  BY <1>2
<1>4. PICK n \in 0..Far + 1 : n = seen[t][a]  BY <1>2
<1>5. PICK w \in Nat : w = Allowed(t)  BY AllowedIsANumber
<1>6. seen[t][cache[t].answer] <= cache[t].age + Allowed(t)  BY <1>1 DEF AnswersInv, CacheSeen
<1>7. n <= k + w  BY <1>1, <1>3, <1>4, <1>5, <1>6, Zenon
<1>8. k < TTL  BY <1>1, <1>3, Zenon DEF Fresh
<1>9. k \in Nat /\ n \in Nat  BY GateNumbers
<1>10. n <= TTL - 1 + w  BY <1>7, <1>8, <1>9, GateNumbers
<1> QED BY <1>4, <1>5, <1>10, Zenon

LEMMA AskedSaid ==
  ASSUME GatesAssumption, AnswersInv, NEW t \in {"promotional", "invited", "account"}, NEW a \in Answers,
         Says(t, a)
  PROVE  Said(t, {a}, RoundTimeout)
<1>1. t \in Topics /\ Allowed(t) = RoundTimeout  BY DEF Topics, Allowed
<1>2. seen[t][a] <= TTL - 1 + Allowed(t)  BY <1>1, SaysSaid
<1> QED BY <1>1, <1>2 DEF Said

LEMMA VerdictSaid ==
  ASSUME GatesAssumption, AnswersInv, NEW as \in SUBSET Answers, NEW a \in as, Says("verdict", a)
  PROVE  Said("verdict", as, SendTimeout)
<1>1. "verdict" \in Topics /\ Allowed("verdict") = SendTimeout  BY DEF Topics, Allowed
<1>2. seen["verdict"][a] <= TTL - 1 + Allowed("verdict")  BY <1>1, SaysSaid
<1> QED BY <1>1, <1>2 DEF Said

LEMMA ConsentIsCores ==
  ASSUME GatesAssumption, AnswersInv, RowTyped
  PROVE  /\ ConsentVerdict = "go" => Consented
         /\ ConsentVerdict = "held" => Refused
<1>0. row.kind \in KindsOfRow  BY DEF RowTyped, GateRows, GatesAssumption
<1>1. "yes" \in Answers /\ "no" \in Answers  BY DEF Answers
<1>2. \A t \in {"promotional", "invited", "account"} : \A a \in {"yes", "no"} :
        Says(t, a) => Said(t, {a}, RoundTimeout)
  BY <1>1, AskedSaid
<1>3. CASE row.kind \in {"person", "notification", "self test"}
  BY <1>3 DEF ConsentVerdict, Gated, ConsentGated, Consented
<1>4. CASE row.kind = "announcement"
  <2>1. ConsentVerdict = AnnouncementVerdict  BY <1>4 DEF ConsentVerdict, Gated, ConsentGated
  <2>2. ConsentVerdict = "go" => Says("account", "yes") \/ Says("invited", "yes")
    BY <2>1 DEF AnnouncementVerdict
  <2>3. ConsentVerdict = "held" => Says("account", "no") /\ Says("invited", "no")
    BY <2>1 DEF AnnouncementVerdict
  <2>4. ConsentVerdict = "go" => Consented  BY <1>2, <1>4, <2>2 DEF Consented
  <2>5. ConsentVerdict = "held" => Refused  BY <1>2, <1>4, <2>3 DEF Refused
  <2> QED BY <2>4, <2>5
<1>5. CASE row.kind \in {"promotional", "promotional to a person"}
  <2>1. ConsentVerdict = PromotionalVerdict  BY <1>5 DEF ConsentVerdict, Gated, ConsentGated
  <2>2. ConsentVerdict = "go" => Says("promotional", "yes")  BY <2>1 DEF PromotionalVerdict
  <2>3. ConsentVerdict = "held" => Says("promotional", "no")  BY <2>1 DEF PromotionalVerdict
  <2>4. ConsentVerdict = "go" => Consented  BY <1>2, <1>5, <2>2 DEF Consented
  <2>5. ConsentVerdict = "held" => Refused
    BY <1>2, <1>5, <2>3 DEF Refused, Gated, ConsentGated
  <2> QED BY <2>4, <2>5
<1> QED BY <1>0, <1>3, <1>4, <1>5 DEF KindsOfRow

LEMMA PreferenceIsCores ==
  ASSUME GatesAssumption, AnswersInv, RowTyped, CheckedKinds
  PROVE  /\ PreferenceVerdict = "go" /\ row.checked => Said("verdict", {"yes", "none"}, SendTimeout)
         /\ PreferenceVerdict = "held" => Refused
<1>1. ASSUME PreferenceVerdict = "go", row.checked
      PROVE  Said("verdict", {"yes", "none"}, SendTimeout)
  <2>1. CoreVerdict = "go"  BY <1>1 DEF PreferenceVerdict, CheckedKinds
  <2>2. PICK a \in {"yes", "none"} : Says("verdict", a)  BY <1>1, <2>1 DEF CoreVerdict
  <2>3. {"yes", "none"} \in SUBSET Answers  BY DEF Answers
  <2> QED BY <2>2, <2>3, VerdictSaid
<1>2. ASSUME PreferenceVerdict = "held"
      PROVE  Refused
  <2>1. Gated(row.kind, "preference") /\ CoreVerdict = "held"  BY <1>2 DEF PreferenceVerdict
  <2>2. Fresh("verdict") /\ ~\E a \in {"yes", "none"} : Says("verdict", a)  BY <2>1 DEF CoreVerdict
  <2>3. "verdict" \in Topics  BY DEF Topics
  <2>4. cache["verdict"].answer \in Answers  BY <2>3 DEF AnswersInv, GatesTyped, Verdicts
  <2>5. PICK a \in {"no", "gone"} : Says("verdict", a)  BY <2>2, <2>4 DEF Says, Answers
  <2>6. {"no", "gone"} \in SUBSET Answers  BY DEF Answers
  <2>7. Said("verdict", {"no", "gone"}, SendTimeout)  BY <2>5, <2>6, VerdictSaid
  <2> QED BY <2>1, <2>7 DEF Refused
<1> QED BY <1>1, <1>2

\* Nobody is sent a bulk mail they have left, and nobody misses one core never
\* held back: a row is taken or held as core said, that recently.
THEOREM DecidedInTime == Spec => DecidedAsAnswered
<1>1. ASSUME GatesInv, [Next]_vars, row.state = "pending"
      PROVE  /\ row'.state = "taken" =>
                  ~out /\ Consented /\ (row.checked => Said("verdict", {"yes", "none"}, SendTimeout))
             /\ row'.state = "held" => Refused
  <2>0. GatesAssumption /\ AnswersInv /\ RowTyped /\ CheckedKinds /\ TypeOK
    BY <1>1, GatesAssumption, GatesInvTyped DEF GatesInv, RowInv
  <2>1. CASE Take
    <3>1. /\ row'.state = "taken" => ~out /\ ConsentVerdict = "go" /\ PreferenceVerdict = "go"
          /\ row'.state = "held" => ConsentVerdict = "held" \/ PreferenceVerdict = "held"
      BY <2>0, <2>1, TakeMoves
    <3> QED BY <2>0, <3>1, ConsentIsCores, PreferenceIsCores
  <2>2. CASE row' = row  BY <1>1, <2>2
  <2>3. CASE QueueSend \/ SendRow \/ Restart \/ Tick
    <3>1. row'.state = "pending"  BY <1>1, <2>0, <2>3, RowMoves
    <3> QED BY <3>1
  <2>4. Next => \/ row' = row
                \/ QueueSend \/ SendRow \/ Restart \/ Tick
                \/ Take
    BY DEF Next, CoreChanges, Unsubscribe, Resubscribe, PutType, AskBeforeSend, CoreAnswersSend, SendResolved,
       SendRefused, StartFetch, CoreAnswers, AnswerArrives, FetchFails
  <2> QED BY <1>1, <2>1, <2>2, <2>3, <2>4 DEF vars
<1>2. GatesInv /\ [Next]_vars =>
        [row.state = "pending" =>
           /\ row'.state = "taken" =>
                /\ ~out /\ Consented
                /\ row.checked => Said("verdict", {"yes", "none"}, SendTimeout)
           /\ row'.state = "held" => Refused]_vars
  BY <1>1
<1> QED BY <1>2, GatesInvariant, PTL DEF Spec, DecidedAsAnswered

-----------------------------------------------------------------------------
(* The way out of a bulk mail.                                              *)

\* What a take does of the link: a row that goes has it, or may go without.
LEMMA TakeAsksForTheLink ==
  ASSUME GatesAssumption, TypeOK, LinkAsAsked, CheckOn(row.kind), Take
  PROVE  /\ row'.state = "taken" /\ ~row'.link => row.kind = "self test" \/ (row.required /\ typeRequired)
         /\ row'.state = "unsubscribe_missing" =>
              /\ ~row.link /\ row.kind \notin {"self test", "promotional to a person"}
              /\ ~(row.kind = "notification" /\ typeRequired)
<1>0. row.state = "pending"  BY DEF Take
<1>1. ASSUME row'.state = "taken", ~row'.link, row.kind # "self test"
      PROVE  row.required /\ typeRequired
  <2>1. PreferenceVerdict = "go" /\ ~HasLink  BY <1>1, TakeMoves
  <2>2. Gated(row.kind, "preference")  BY <1>1 DEF Gated, PreferenceGated
  <2>3. row.kind = "notification" /\ typeRequired
    BY <2>1, <2>2 DEF PreferenceVerdict, RequiredNotification
  <2>4. ~row.link  BY <2>1 DEF HasLink
  <2> QED BY <1>0, <2>3, <2>4 DEF LinkAsAsked
<1>2. ASSUME row'.state = "unsubscribe_missing"
      PROVE  /\ ~row.link /\ row.kind \notin {"self test", "promotional to a person"}
             /\ ~(row.kind = "notification" /\ typeRequired)
  <2>1. ConsentVerdict = "go" /\ PreferenceVerdict = "unsubscribe_missing"  BY <1>2, TakeMoves
  <2>2. Gated(row.kind, "preference") /\ ~HasLink /\ ~RequiredNotification
    BY <2>1 DEF PreferenceVerdict, CoreVerdict
  <2>3. row.kind # "self test"  BY <2>2 DEF Gated, PreferenceGated
  <2>4. row.kind # "promotional to a person"
    BY <2>1, <2>2 DEF HasLink, Gated, ConsentGated
  <2> QED BY <2>2, <2>3, <2>4 DEF HasLink, RequiredNotification
<1> QED BY <1>1, <1>2

\* While the preference check is on, a bulk mail goes without its way out only
\* to its own sender, or as a notification whose type was required both when its
\* mail was asked for and when its row was taken; and no mail that may is ended.
THEOREM WayOutOrRequired == Spec => NoLinkOnlyIfRequired
<1> DEFINE Allows ==
      row.state = "pending" /\ CheckOn(row.kind) =>
        /\ row'.state = "taken" /\ ~row'.link => row.kind = "self test" \/ (row.required /\ typeRequired)
        /\ row'.state = "unsubscribe_missing" =>
             /\ ~row.link /\ row.kind \notin {"self test", "promotional to a person"}
             /\ ~(row.required /\ typeRequired)
<1>1. ASSUME GatesInv, [Next]_vars, row.state = "pending", CheckOn(row.kind) PROVE Allows
  <2>0. GatesAssumption /\ TypeOK /\ LinkAsAsked /\ RequiredKinds
    BY <1>1, GatesAssumption, GatesInvTyped DEF GatesInv, RowInv
  <2>1. CASE Take  BY <1>1, <2>0, <2>1, TakeAsksForTheLink DEF RequiredKinds
  <2>2. CASE row' = row  BY <1>1, <2>2
  <2>3. CASE QueueSend \/ SendRow \/ Restart \/ Tick
    <3>1. row'.state = "pending"  BY <1>1, <2>0, <2>3, RowMoves
    <3> QED BY <3>1
  <2>4. Next => \/ row' = row
                \/ QueueSend \/ SendRow \/ Restart \/ Tick
                \/ Take
    BY DEF Next, CoreChanges, Unsubscribe, Resubscribe, PutType, AskBeforeSend, CoreAnswersSend, SendResolved,
       SendRefused, StartFetch, CoreAnswers, AnswerArrives, FetchFails
  <2> QED BY <1>1, <2>1, <2>2, <2>3, <2>4 DEF vars
<1>2. GatesInv /\ [Next]_vars => [Allows]_vars  BY <1>1
<1> QED BY <1>2, GatesInvariant, PTL DEF Spec, NoLinkOnlyIfRequired
=============================================================================
