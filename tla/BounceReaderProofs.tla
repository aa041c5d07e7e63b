-------------------------- MODULE BounceReaderProofs --------------------------
(***************************************************************************)
(* The bounce reader passes nothing over, writes no erased person's        *)
(* address back and puts a removed address back for something new only,    *)
(* proved for every number of rows, addresses, processes, messages, pages  *)
(* and faults.                                                             *)
(***************************************************************************)
EXTENDS BounceReader, TLAPS

RowPlaces == {"out", "sent", "refused", "failed"}
MailRows == [at: RowPlaces, clear: BOOLEAN]
ReadPlaces == {"idle", "page", "items", "record"}
Reads == [at: ReadPlaces, mode: Modes, next: Nat, upto: Nat, last: BOOLEAN, pages: 0..MaxPages]

ListTypes ==
  /\ row \in [Rows -> MailRows]
  /\ inbox \in Seq(Report) /\ Len(inbox) <= MaxReports
  /\ gone \subseteq DOMAIN inbox /\ early \subseteq DOMAIN inbox
  /\ lock \in Readers \union {Nobody}
  /\ bounces \subseteq DOMAIN inbox /\ judged \subseteq DOMAIN inbox
  /\ suppressed \subseteq Addresses /\ erased \subseteq Addresses
  /\ acted \subseteq DOMAIN inbox \union Rows
  /\ faults \in 0..MaxFaults /\ removals \in 0..MaxRemovals

\* A poll is within the Inbox of len messages, what an "on" one has read is
\* among those seen, and it ends when it has read its last page.
Sound(x, seen, len) ==
  /\ x.next <= len /\ x.upto <= len
  /\ x.mode = "on" => 1..x.next \subseteq seen
  /\ x.at = "items" => x.next < x.upto
  /\ x.at = "record" => x.upto <= x.next

ReadInv ==
  /\ reader \in [Readers -> Reads] /\ link \in [Modes -> Nat]
  /\ \A p \in Readers : Sound(reader[p], judged \union gone, Len(inbox))
  /\ \A m \in Modes : link[m] <= Len(inbox)
  /\ 1..link["on"] \subseteq judged \union gone

\* An erasure leaves no row with the address, so nothing writes it back; and
\* what has suppressed an address once is on record, or has left the Inbox.
ListInv ==
  /\ \A r \in Rows : To[r] \in erased => row[r].clear
  /\ suppressed \intersect erased = {}
  /\ \A r \in Rows : r \in acted => row[r].at = "failed"
  /\ \A i \in DOMAIN inbox : i \in acted => i \in bounces \union gone

BounceInv == ListTypes /\ ReadInv /\ ListInv

-----------------------------------------------------------------------------
(* What the steps are made of.                                              *)

LEMMA IdleIsSound ==
  ASSUME NEW m \in Modes, NEW seen, NEW len \in Nat
  PROVE  Idle(m) \in Reads /\ Sound(Idle(m), seen, len) /\ Idle(m).mode = m /\ Idle(m).next = 0
<1>1. 0 \in 0..MaxPages  BY ReaderAssumption
<1> QED BY <1>1 DEF Idle, Reads, ReadPlaces, Sound

\* A step of the reader's that changes nothing a mail or the list has.
LEMMA ReaderOnly ==
  ASSUME BounceInv, UNCHANGED <<row, mailbox, early, list>>, faults' \in 0..MaxFaults,
         lock' \in Readers \union {Nobody},
         reader' \in [Readers -> Reads], \A p \in Readers : Sound(reader'[p], judged \union gone, Len(inbox)),
         link' \in [Modes -> Nat], \A m \in Modes : link'[m] <= Len(inbox),
         1..link'["on"] \subseteq judged \union gone
  PROVE  BounceInv'
<1>1. UNCHANGED <<row, inbox, gone, early, bounces, suppressed, erased, judged, acted, removals>>  BY DEF mailbox, list
<1>2. ListTypes'  BY <1>1 DEF BounceInv, ListTypes
<1>3. ListInv'  BY <1>1 DEF BounceInv, ListInv
<1>4. ReadInv'  BY <1>1 DEF ReadInv
<1> QED BY <1>2, <1>3, <1>4 DEF BounceInv

\* One poll moves.
LEMMA PollMoves ==
  ASSUME BounceInv, NEW p \in Readers, NEW a \in Reads, reader' = [reader EXCEPT ![p] = a],
         Sound(a, judged \union gone, Len(inbox)),
         UNCHANGED <<row, mailbox, early, list, link>>, faults' \in 0..MaxFaults, lock' \in Readers \union {Nobody}
  PROVE  BounceInv'
<1>1. /\ reader \in [Readers -> Reads] /\ link \in [Modes -> Nat]
      /\ \A q \in Readers : Sound(reader[q], judged \union gone, Len(inbox))
      /\ \A m \in Modes : link[m] <= Len(inbox)
      /\ 1..link["on"] \subseteq judged \union gone
  BY DEF BounceInv, ReadInv
<1>2. reader' \in [Readers -> Reads] /\ \A q \in Readers : reader'[q] = IF q = p THEN a ELSE reader[q]
  BY <1>1
<1>3. \A q \in Readers : Sound(reader'[q], judged \union gone, Len(inbox))  BY <1>1, <1>2
<1> QED BY <1>1, <1>2, <1>3, ReaderOnly

LEMMA PollEnds ==
  ASSUME BounceInv, NEW p \in Readers, GiveUp(p), faults' \in 0..MaxFaults
  PROVE  BounceInv'
<1>1. reader[p] \in Reads /\ lock \in Readers \union {Nobody} /\ Len(inbox) \in Nat
  BY DEF BounceInv, ListTypes, ReadInv
<1>2. reader[p].mode \in Modes  BY <1>1 DEF Reads
<1> DEFINE a == Idle(reader[p].mode)
<1>3. a \in Reads /\ Sound(a, judged \union gone, Len(inbox))  BY <1>1, <1>2, IdleIsSound
<1>4. reader' = [reader EXCEPT ![p] = a] /\ UNCHANGED <<row, mailbox, early, list, link>>  BY DEF GiveUp
<1>5. lock' \in Readers \union {Nobody}  BY <1>1 DEF GiveUp, Unlocked
<1> HIDE DEF a
<1> QED BY <1>3, <1>4, <1>5, PollMoves

\* What is seen grows, and no poll of the same Inbox is undone by it.
LEMMA SeenGrows ==
  ASSUME NEW x \in Reads, NEW seen, NEW more, seen \subseteq more, NEW len \in Nat, NEW longer \in Nat, len <= longer,
         Sound(x, seen, len)
  PROVE  Sound(x, more, longer)
BY DEF Sound, Reads

\* The rows, or the list, change, and no poll does.
LEMMA PollsStand ==
  ASSUME BounceInv, UNCHANGED <<reader, link, lock>>, ListTypes',
         judged \union gone \subseteq judged' \union gone', Len(inbox) <= Len(inbox')
  PROVE  ReadInv'
<1>1. /\ reader \in [Readers -> Reads] /\ link \in [Modes -> Nat]
      /\ \A q \in Readers : Sound(reader[q], judged \union gone, Len(inbox))
      /\ \A m \in Modes : link[m] <= Len(inbox)
      /\ 1..link["on"] \subseteq judged \union gone
  BY DEF BounceInv, ReadInv
<1>0. Len(inbox) \in Nat /\ Len(inbox') \in Nat
  <2>1. inbox \in Seq(Report) /\ inbox' \in Seq(Report)  BY DEF BounceInv, ListTypes
  <2> QED BY <2>1
<1>2. \A q \in Readers : reader[q] \in Reads  BY <1>1
<1>3. \A q \in Readers : Sound(reader[q], judged' \union gone', Len(inbox'))  BY <1>0, <1>1, <1>2, SeenGrows
<1>4. \A m \in Modes : link[m] <= Len(inbox')
  <2> SUFFICES ASSUME NEW m \in Modes PROVE link[m] <= Len(inbox')  OBVIOUS
  <2>1. link[m] \in Nat /\ link[m] <= Len(inbox)  BY <1>1
  <2> QED BY <1>0, <2>1
<1> QED BY <1>1, <1>3, <1>4 DEF ReadInv

-----------------------------------------------------------------------------
LEMMA BounceStart == Init => BounceInv
<1> SUFFICES ASSUME Init PROVE BounceInv  OBVIOUS
<1> USE ReaderAssumption
<1>1. PICK m \in Modes : reader = [p \in Readers |-> Idle(m)]  BY DEF Init
<1>2. inbox = <<>> /\ Len(inbox) = 0 /\ DOMAIN inbox = {} /\ inbox \in Seq(Report)  BY DEF Init
<1>3. Idle(m) \in Reads /\ Sound(Idle(m), judged \union gone, Len(inbox))  BY <1>2, IdleIsSound
<1>4. ReadInv
  <2>1. link \in [Modes -> Nat] /\ \A k \in Modes : link[k] = 0  BY DEF Init
  <2>2. link["on"] = 0  BY <2>1 DEF Modes
  <2> QED BY <1>1, <1>2, <1>3, <2>1, <2>2 DEF ReadInv
<1>5. row \in [Rows -> MailRows] /\ \A r \in Rows : row[r].at = "out"  BY DEF Init, MailRows, RowPlaces
<1>6. ListTypes  BY <1>2, <1>5 DEF Init, ListTypes
<1>7. ListInv  BY DEF Init, ListInv
<1> QED BY <1>4, <1>6, <1>7 DEF BounceInv

\* One row moves on, and keeps what its person's erasure took.
LEMMA RowMoves ==
  ASSUME BounceInv, NEW r \in Rows, NEW at \in RowPlaces, at # "out", row[r].at # "failed",
         row' = [row EXCEPT ![r].at = at],
         UNCHANGED <<mailbox, link, reader, lock, bounces, erased, judged, removals>>,
         early' \subseteq DOMAIN inbox, faults' \in 0..MaxFaults,
         \/ UNCHANGED <<suppressed, acted>>
         \/ at = "failed" /\ SuppressRowAddress(r, r)
  PROVE  BounceInv'
<1> USE ReaderAssumption
<1>0. UNCHANGED <<inbox, gone>>  BY DEF mailbox
<1>1. row \in [Rows -> MailRows] /\ To[r] \in Addresses  BY DEF BounceInv, ListTypes
<1>2. /\ row' \in [Rows -> MailRows] /\ row'[r].at = at /\ row'[r].clear = row[r].clear
      /\ \A s \in Rows \ {r} : row'[s] = row[s]
  <2> DEFINE a == [row[r] EXCEPT !.at = at]
  <2>1. a \in MailRows /\ a.at = at /\ a.clear = row[r].clear  BY <1>1 DEF MailRows
  <2>2. row' = [row EXCEPT ![r] = a]  OBVIOUS
  <2> HIDE DEF a
  <2> QED BY <1>1, <2>1, <2>2
<1>3. /\ suppressed' \subseteq suppressed \union {To[r]} /\ acted' \subseteq acted \union {r}
      /\ row[r].clear => suppressed' = suppressed
      /\ at # "failed" => acted' = acted
  BY DEF SuppressRowAddress
<1>4. suppressed' \subseteq Addresses /\ acted' \subseteq DOMAIN inbox \union Rows
  BY <1>1, <1>3 DEF BounceInv, ListTypes
<1>5. ListTypes'  BY <1>0, <1>2, <1>4 DEF BounceInv, ListTypes
<1>6. ReadInv'  BY <1>0, <1>5, PollsStand DEF BounceInv, ListTypes
<1>7. \A s \in Rows : To[s] \in erased' => row'[s].clear  BY <1>2 DEF BounceInv, ListInv
<1>8. suppressed' \intersect erased' = {}  BY <1>3 DEF BounceInv, ListInv
<1>9. \A s \in Rows : s \in acted' => row'[s].at = "failed"  BY <1>2, <1>3 DEF BounceInv, ListInv
<1>10. \A i \in DOMAIN inbox : i \in acted' => i \in bounces \union gone
  <2>1. r \notin DOMAIN inbox  BY DEF BounceInv, ListTypes, Ids
  <2> QED BY <1>3, <2>1 DEF BounceInv, ListInv
<1> QED BY <1>0, <1>5, <1>6, <1>7, <1>8, <1>9, <1>10 DEF BounceInv, ListInv

\* A message is judged by a poll that is on.
LEMMA JudgeOne ==
  ASSUME BounceInv, NEW p \in Readers, Judge(p), reader[p].mode # "dry-run", reader[p].next + 1 \notin gone
  PROVE  /\ ListTypes' /\ ListInv' /\ reader[p].next + 1 \in judged' /\ judged \subseteq judged'
         /\ UNCHANGED <<gone, inbox, link, lock>>
<1> USE ReaderAssumption
<1> DEFINE i == reader[p].next + 1
<1>1. reader[p] \in Reads /\ Sound(reader[p], judged \union gone, Len(inbox)) /\ reader[p].at = "items"
  BY DEF BounceInv, ReadInv, Judge
<1>2. reader[p].next \in Nat /\ reader[p].upto \in Nat /\ reader[p].next < reader[p].upto /\ reader[p].upto <= Len(inbox)
      /\ Len(inbox) \in Nat
  BY <1>1 DEF Sound, Reads, BounceInv, ListTypes
<1>3. i \in DOMAIN inbox /\ inbox[i] \in Report
  <2>1. i \in 1..Len(inbox)  BY <1>2
  <2> QED BY <2>1 DEF BounceInv, ListTypes
<1>4. /\ judged' = judged \union {i}
      /\ bounces' = IF Records(i) THEN bounces \union {i} ELSE bounces
      /\ IF Records(i) /\ inbox[i].kind = "hard"
           THEN SuppressRowAddress(QueueID(i), i)
           ELSE UNCHANGED <<suppressed, acted>>
      /\ UNCHANGED <<erased, removals, row, inbox, gone, early, link, lock, faults>>
  BY DEF Judge, mailbox
<1>5. QueueID(i) \in Rows /\ To[QueueID(i)] \in Addresses  BY <1>3 DEF QueueID, Report
<1>6. /\ suppressed' \subseteq suppressed \union {To[QueueID(i)]} /\ acted' \subseteq acted \union {i}
      /\ row[QueueID(i)].clear => suppressed' = suppressed
      /\ acted' # acted => i \in bounces'
      /\ bounces \subseteq bounces' /\ bounces' \subseteq bounces \union {i}
  BY <1>4 DEF SuppressRowAddress
<1> HIDE DEF i
<1>7. ListTypes'
  <2>1. /\ judged' \subseteq DOMAIN inbox /\ bounces' \subseteq DOMAIN inbox /\ suppressed' \subseteq Addresses
        /\ acted' \subseteq DOMAIN inbox \union Rows
    BY <1>3, <1>4, <1>5, <1>6 DEF BounceInv, ListTypes
  <2> QED BY <1>4, <2>1 DEF BounceInv, ListTypes
<1>8. suppressed' \intersect erased = {}  BY <1>5, <1>6 DEF BounceInv, ListInv
<1>9. \A r \in Rows : r \in acted' => row[r].at = "failed"
  <2>1. i \notin Rows  BY <1>3 DEF BounceInv, ListTypes, Ids
  <2> QED BY <1>6, <2>1 DEF BounceInv, ListInv
<1>10. \A j \in DOMAIN inbox : j \in acted' => j \in bounces' \union gone  BY <1>6 DEF BounceInv, ListInv
<1>11. ListInv'  BY <1>4, <1>8, <1>9, <1>10 DEF BounceInv, ListInv
<1> QED BY <1>4, <1>7, <1>11 DEF i

LEMMA BounceStep == BounceInv /\ [Next]_vars => BounceInv'
<1> SUFFICES ASSUME BounceInv, [Next]_vars PROVE BounceInv'  OBVIOUS
<1> USE ReaderAssumption
<1>00. inbox \in Seq(Report)  BY DEF BounceInv, ListTypes
<1>01. Len(inbox) \in Nat /\ DOMAIN inbox = 1..Len(inbox)  BY <1>00
<1>0. /\ reader \in [Readers -> Reads] /\ link \in [Modes -> Nat] /\ Len(inbox) \in Nat
      /\ \A p \in Readers : reader[p] \in Reads /\ Sound(reader[p], judged \union gone, Len(inbox))
      /\ lock \in Readers \union {Nobody} /\ faults \in 0..MaxFaults /\ removals \in 0..MaxRemovals
      /\ row \in [Rows -> MailRows] /\ inbox \in Seq(Report) /\ DOMAIN inbox = 1..Len(inbox)
  BY <1>00, <1>01 DEF BounceInv, ListTypes, ReadInv
<1>1. ASSUME NEW r \in Rows, RecordSent(r) PROVE BounceInv'
  <2>1. early' \subseteq DOMAIN inbox /\ "sent" \in RowPlaces  BY <1>1 DEF RecordSent, BounceInv, ListTypes, RowPlaces
  <2> QED BY <1>0, <1>1, <2>1, RowMoves DEF RecordSent, list
<1>2. ASSUME NEW r \in Rows, RecordRefused(r) PROVE BounceInv'
  <2>1. early' \subseteq DOMAIN inbox /\ "refused" \in RowPlaces  BY <1>2 DEF RecordRefused, BounceInv, ListTypes, RowPlaces
  <2> QED BY <1>0, <1>2, <2>1, RowMoves DEF RecordRefused, list
<1>3. ASSUME NEW r \in Rows, SuppressRefused(r) PROVE BounceInv'
  <2>1. early' \subseteq DOMAIN inbox /\ "failed" \in RowPlaces  BY <1>3 DEF SuppressRefused, BounceInv, ListTypes, RowPlaces
  <2> QED BY <1>0, <1>3, <2>1, RowMoves DEF SuppressRefused
<1>4. ASSUME NEW r \in Rows, RefusalLost(r) PROVE BounceInv'
  <2>1. early' \subseteq DOMAIN inbox /\ "failed" \in RowPlaces  BY <1>4 DEF RefusalLost, BounceInv, ListTypes, RowPlaces
  <2>2. faults' \in 0..MaxFaults  BY <1>0, <1>4 DEF RefusalLost
  <2> QED BY <1>4, <2>1, <2>2, RowMoves DEF RefusalLost, list
<1>5. ASSUME NEW r \in Rows, ReportComes(r) PROVE BounceInv'
  <2>1. PICK k \in KindsSent : inbox' = Append(inbox, [row |-> r, kind |-> k, known |-> row[r].at = "sent"])
    BY <1>5 DEF ReportComes
  <2>2. [row |-> r, kind |-> k, known |-> row[r].at = "sent"] \in Report  BY DEF Report
  <2>3. inbox' \in Seq(Report) /\ Len(inbox') = Len(inbox) + 1 /\ Len(inbox') <= MaxReports /\ DOMAIN inbox' = 1..Len(inbox) + 1
    BY <1>0, <1>5, <2>1, <2>2 DEF ReportComes
  <2>4. DOMAIN inbox \subseteq DOMAIN inbox' /\ Len(inbox) <= Len(inbox')  BY <1>0, <2>3
  <2>5. UNCHANGED <<row, gone, early, link, reader, lock, bounces, suppressed, erased, judged, acted, removals, faults>>
    BY <1>5 DEF ReportComes, list
  <2>6. ListTypes'  BY <2>3, <2>4, <2>5 DEF BounceInv, ListTypes
  <2>7. ReadInv'  BY <2>4, <2>5, <2>6, PollsStand
  <2>8. \A i \in DOMAIN inbox' : i \in acted => i \in DOMAIN inbox
    <3>1. DOMAIN inbox' \subseteq Ids  BY <1>0, <2>3 DEF Ids
    <3> QED BY <3>1 DEF BounceInv, ListTypes, Ids
  <2>9. ListInv'  BY <2>5, <2>8 DEF BounceInv, ListInv
  <2> QED BY <2>6, <2>7, <2>9 DEF BounceInv
<1>6. ASSUME NEW i \in Ids, MessageLeaves(i) PROVE BounceInv'
  <2>1. gone' = gone \union {i} /\ i \in DOMAIN inbox
        /\ UNCHANGED <<row, inbox, early, link, reader, lock, bounces, suppressed, erased, judged, acted, removals, faults>>
    BY <1>6 DEF MessageLeaves, list
  <2>2. ListTypes'  BY <2>1 DEF BounceInv, ListTypes
  <2>3. ReadInv'  BY <1>0, <2>1, <2>2, PollsStand
  <2>4. ListInv'  BY <2>1 DEF BounceInv, ListInv
  <2> QED BY <2>2, <2>3, <2>4 DEF BounceInv
<1>7. ASSUME NEW p \in Readers, StartPoll(p) PROVE BounceInv'
  <2>1. reader[p].mode \in Modes  BY <1>0 DEF Reads
  <2> DEFINE m == reader[p].mode
             a == [Idle(m) EXCEPT !.at = "page", !.next = link[m]]
  <2>2. Idle(m) \in Reads /\ Idle(m).mode = m /\ Idle(m).upto = 0  BY <2>1, IdleIsSound DEF Idle
  <2>3. link[m] \in Nat /\ link[m] <= Len(inbox) /\ (m = "on" => 1..link[m] \subseteq judged \union gone)
    BY <2>1 DEF BounceInv, ReadInv
  <2>4. a \in Reads /\ a.at = "page" /\ a.mode = m /\ a.next = link[m] /\ a.upto = 0
    BY <2>2, <2>3 DEF Reads, ReadPlaces
  <2>5. reader' = [reader EXCEPT ![p] = a] /\ lock' = p /\ UNCHANGED <<row, mailbox, early, link, list, faults>>
    BY <1>7 DEF StartPoll
  <2> HIDE DEF a
  <2>6. Sound(a, judged \union gone, Len(inbox))  BY <1>0, <2>3, <2>4 DEF Sound
  <2> QED BY <1>0, <2>4, <2>5, <2>6, PollMoves
<1>8. ASSUME NEW p \in Readers, FetchPage(p) PROVE BounceInv'
  <2>1. PICK n \in reader[p].next..Len(inbox) :
          reader' = [reader EXCEPT ![p].at = After(reader[p].next, n, n = Len(inbox)), ![p].upto = n,
                                   ![p].last = (n = Len(inbox)), ![p].pages = @ + 1]
    BY <1>8 DEF FetchPage
  <2> DEFINE at == After(reader[p].next, n, n = Len(inbox))
             a == [reader[p] EXCEPT !.at = at, !.upto = n, !.last = (n = Len(inbox)), !.pages = @ + 1]
  <2>2. reader[p].next \in Nat /\ reader[p].pages \in 0..MaxPages /\ reader[p].pages < MaxPages  BY <1>0, <1>8 DEF Reads, FetchPage
  <2>3. n \in Nat /\ n <= Len(inbox) /\ reader[p].next <= n  BY <1>0, <2>2
  <2>4. at \in ReadPlaces /\ (at = "items" => reader[p].next < n) /\ (at = "record" => n <= reader[p].next)
    BY <2>2, <2>3 DEF After, ReadPlaces
  <2>5. reader[p].pages + 1 \in 0..MaxPages  BY <2>2
  <2> HIDE DEF at
  <2>6. a \in Reads /\ a.at = at /\ a.upto = n /\ a.next = reader[p].next /\ a.mode = reader[p].mode
    BY <1>0, <2>3, <2>4, <2>5 DEF Reads
  <2>7. reader' = [reader EXCEPT ![p] = a]  BY <2>1 DEF at
  <2> HIDE DEF a
  <2>8. Sound(a, judged \union gone, Len(inbox))  BY <1>0, <2>3, <2>4, <2>6 DEF Sound
  <2> QED BY <1>0, <1>8, <2>6, <2>7, <2>8, PollMoves DEF FetchPage
<1>9. ASSUME NEW p \in Readers, LinkForgotten(p) PROVE BounceInv'
  <2> DEFINE a == [reader[p] EXCEPT !.next = 0, !.pages = @ + 1]
  <2>1. reader[p].pages + 1 \in 0..MaxPages  BY <1>0, <1>9, SMTT(20) DEF Reads, LinkForgotten
  <2>2. a \in Reads /\ a.at = "page" /\ a.next = 0 /\ a.upto = reader[p].upto  BY <1>0, <1>9, <2>1 DEF Reads, LinkForgotten
  <2>3. reader' = [reader EXCEPT ![p] = a] /\ faults' \in 0..MaxFaults
    <3>1. reader' = [reader EXCEPT ![p].next = 0, ![p].pages = @ + 1]  BY <1>9 DEF LinkForgotten
    <3>2. reader' = [reader EXCEPT ![p] = a]  BY <3>1
    <3>3. faults' \in 0..MaxFaults  BY <1>0, <1>9 DEF LinkForgotten
    <3> QED BY <3>2, <3>3
  <2> HIDE DEF a
  <2>4. Sound(a, judged \union gone, Len(inbox))  BY <1>0, <2>2 DEF Sound
  <2> QED BY <1>0, <1>9, <2>2, <2>3, <2>4, PollMoves DEF LinkForgotten
<1>10. ASSUME NEW p \in Readers, Judge(p) PROVE BounceInv'
  <2> DEFINE at == After(reader[p].next + 1, reader[p].upto, reader[p].last)
             a == [reader[p] EXCEPT !.next = @ + 1, !.at = at]
  <2>1. reader[p].at = "items" /\ reader' = [reader EXCEPT ![p].next = @ + 1, ![p].at = at]  BY <1>10 DEF Judge
  <2>2. /\ reader[p].next \in Nat /\ reader[p].upto \in Nat
        /\ reader[p].next < reader[p].upto /\ reader[p].upto <= Len(inbox)
    BY <1>0, <2>1 DEF Reads, Sound
  <2>3. /\ at \in ReadPlaces /\ (at = "items" => reader[p].next + 1 < reader[p].upto)
        /\ (at = "record" => reader[p].upto <= reader[p].next + 1)
    BY <2>2 DEF After, ReadPlaces
  <2> HIDE DEF at
  <2>4. a \in Reads /\ a.at = at /\ a.upto = reader[p].upto /\ a.next = reader[p].next + 1 /\ a.mode = reader[p].mode
    <3>1. reader[p] \in Reads /\ reader[p].next + 1 \in Nat /\ at \in ReadPlaces  BY <1>0, <2>2, <2>3
    <3> QED BY <3>1 DEF Reads
  <2>5. reader' = [reader EXCEPT ![p] = a]  BY <2>1
  <2> HIDE DEF a
  <2>6. ASSUME NEW seen, judged \union gone \subseteq seen, a.mode = "on" => reader[p].next + 1 \in seen
        PROVE  Sound(a, seen, Len(inbox))
    <3>1. a.mode = "on" => 1..a.next \subseteq seen
      <4>1. 1..(reader[p].next + 1) \subseteq (1..reader[p].next) \union {reader[p].next + 1}  BY <2>2, SMTT(20)
      <4> QED BY <1>0, <2>4, <2>6, <4>1 DEF Sound
    <3> QED BY <1>0, <2>2, <2>3, <2>4, <3>1 DEF Sound
  <2>7. CASE reader[p].mode = "dry-run" \/ reader[p].next + 1 \in gone
    <3>1. Sound(a, judged \union gone, Len(inbox))  BY <2>4, <2>6, <2>7
    <3>2. UNCHANGED list  BY <1>10, <2>7 DEF Judge
    <3> QED BY <1>0, <1>10, <2>4, <2>5, <3>1, <3>2, PollMoves DEF Judge
  <2>8. CASE reader[p].mode # "dry-run" /\ reader[p].next + 1 \notin gone
    <3>1. /\ ListTypes' /\ ListInv' /\ reader[p].next + 1 \in judged' /\ judged \subseteq judged'
          /\ UNCHANGED <<gone, inbox, link, lock>>
      BY <1>10, <2>8, JudgeOne
    <3>2. Sound(a, judged' \union gone', Len(inbox'))  BY <2>6, <3>1
    <3>3. \A q \in Readers : Sound(reader[q], judged' \union gone', Len(inbox'))  BY <1>0, <3>1, SeenGrows
    <3>4. reader' \in [Readers -> Reads] /\ \A q \in Readers : reader'[q] = IF q = p THEN a ELSE reader[q]
      BY <1>0, <2>4, <2>5
    <3>5. ReadInv'  BY <3>1, <3>2, <3>3, <3>4 DEF BounceInv, ReadInv
    <3> QED BY <3>1, <3>5 DEF BounceInv
  <2> QED BY <2>7, <2>8
<1>11. ASSUME NEW p \in Readers, RecordPoll(p) PROVE BounceInv'
  <2>1. reader[p].mode \in Modes /\ reader[p].upto \in Nat /\ reader[p].next \in Nat /\ reader[p].at = "record"
    BY <1>0, <1>11 DEF Reads, RecordPoll
  <2>2. reader[p].upto <= reader[p].next /\ reader[p].upto <= Len(inbox)
        /\ (reader[p].mode = "on" => 1..reader[p].next \subseteq judged \union gone)
    BY <1>0, <2>1 DEF Sound
  <2>3. 1..reader[p].upto \subseteq 1..reader[p].next  BY <2>1, <2>2
  <2>4. link' = [link EXCEPT ![reader[p].mode] = reader[p].upto]  BY <1>11 DEF RecordPoll
  <2>5. link' \in [Modes -> Nat] /\ \A m \in Modes : link'[m] = IF m = reader[p].mode THEN reader[p].upto ELSE link[m]
    BY <1>0, <2>1, <2>4
  <2>6. (\A m \in Modes : link'[m] <= Len(inbox)) /\ 1..link'["on"] \subseteq judged \union gone
    BY <2>2, <2>3, <2>5 DEF BounceInv, ReadInv, Modes
  <2>7. Idle(reader[p].mode) \in Reads /\ Sound(Idle(reader[p].mode), judged \union gone, Len(inbox))
    BY <1>0, <2>1, IdleIsSound
  <2>8. reader' = [reader EXCEPT ![p] = Idle(reader[p].mode)]  BY <1>11 DEF RecordPoll
  <2>9. reader' \in [Readers -> Reads] /\ \A q \in Readers : Sound(reader'[q], judged \union gone, Len(inbox))
    BY <1>0, <2>7, <2>8
  <2>10. lock' \in Readers \union {Nobody}  BY <1>0, <1>11 DEF RecordPoll, Unlocked
  <2> QED BY <1>0, <1>11, <2>5, <2>6, <2>9, <2>10, ReaderOnly DEF RecordPoll
<1>12. ASSUME NEW p \in Readers, TooManyPages(p) PROVE BounceInv'
  BY <1>0, <1>12, PollEnds DEF TooManyPages
<1>13. ASSUME NEW p \in Readers, PollFails(p) PROVE BounceInv'
  <2>1. faults' \in 0..MaxFaults  BY <1>0, <1>13 DEF PollFails
  <2> QED BY <1>13, <2>1, PollEnds DEF PollFails
<1>14. ASSUME NEW p \in Readers, Restart(p) PROVE BounceInv'
  <2>1. PICK m \in Modes : reader' = [reader EXCEPT ![p] = Idle(m)]  BY <1>14 DEF Restart
  <2>2. Idle(m) \in Reads /\ Sound(Idle(m), judged \union gone, Len(inbox))  BY <1>0, IdleIsSound
  <2>3. faults' \in 0..MaxFaults /\ lock' \in Readers \union {Nobody}  BY <1>0, <1>14 DEF Restart, Unlocked
  <2> QED BY <1>14, <2>1, <2>2, <2>3, PollMoves DEF Restart
<1>15. CASE LockLost
  <2>1. faults' \in 0..MaxFaults /\ lock' \in Readers \union {Nobody}  BY <1>0, <1>15 DEF LockLost
  <2>2. UNCHANGED <<row, mailbox, early, link, reader, list>>  BY <1>15 DEF LockLost
  <2> QED BY <1>0, <2>1, <2>2, ReaderOnly DEF BounceInv, ReadInv
<1>16. ASSUME NEW a \in Addresses, Remove(a) PROVE BounceInv'
  <2>1. suppressed' = suppressed \ {a} /\ removals' \in 0..MaxRemovals
        /\ UNCHANGED <<row, inbox, gone, early, link, reader, lock, bounces, erased, judged, acted, faults>>
    BY <1>0, <1>16 DEF Remove, DeleteSuppression, mailbox
  <2>2. ListTypes'  BY <2>1 DEF BounceInv, ListTypes
  <2>3. ReadInv'  BY <1>0, <2>1, <2>2, PollsStand
  <2>4. ListInv'  BY <2>1 DEF BounceInv, ListInv
  <2> QED BY <2>2, <2>3, <2>4 DEF BounceInv
<1>17. ASSUME NEW i \in Ids, BounceExpires(i) PROVE BounceInv'
  <2>1. i \in gone /\ bounces' = bounces \ {i}
        /\ UNCHANGED <<row, inbox, gone, early, link, reader, lock, suppressed, erased, judged, acted, removals, faults>>
    BY <1>17 DEF BounceExpires, mailbox
  <2>2. ListTypes'  BY <2>1 DEF BounceInv, ListTypes
  <2>3. ReadInv'  BY <1>0, <2>1, <2>2, PollsStand
  <2>4. ListInv'  BY <2>1 DEF BounceInv, ListInv
  <2> QED BY <2>2, <2>3, <2>4 DEF BounceInv
<1>18. ASSUME NEW a \in Addresses, Erase(a) PROVE BounceInv'
  <2>1. suppressed' = suppressed \ {a} /\ erased' = erased \union {a}
        /\ UNCHANGED <<inbox, gone, early, link, reader, lock, bounces, judged, acted, removals, faults>>
    BY <1>18 DEF Erase, mailbox
  <2>2. row' = [r \in Rows |-> IF To[r] = a /\ row[r].at # "out" THEN [row[r] EXCEPT !.clear = TRUE] ELSE row[r]]
    BY <1>18 DEF Erase
  <2>3. \A r \in Rows : /\ [row[r] EXCEPT !.clear = TRUE] \in MailRows
                        /\ [row[r] EXCEPT !.clear = TRUE].at = row[r].at /\ [row[r] EXCEPT !.clear = TRUE].clear
    BY <1>0 DEF MailRows
  <2>4. row' \in [Rows -> MailRows]  BY <1>0, <2>2, <2>3
  <2>5. \A r \in Rows : /\ row'[r].at = row[r].at /\ (row[r].clear => row'[r].clear)
                        /\ To[r] = a => row'[r].clear
    BY <1>18, <2>2, <2>3 DEF Erase, Waits
  <2>6. ListTypes'  BY <2>1, <2>4 DEF BounceInv, ListTypes
  <2>7. ReadInv'  BY <1>0, <2>1, <2>6, PollsStand
  <2>8. ListInv'  BY <2>1, <2>5 DEF BounceInv, ListInv
  <2> QED BY <2>6, <2>7, <2>8 DEF BounceInv
<1>19. CASE UNCHANGED vars
  <2>1. UNCHANGED <<row, mailbox, early, link, reader, list, lock, faults>>  BY <1>19 DEF vars, mailbox, list
  <2> QED BY <1>0, <2>1, ReaderOnly DEF BounceInv, ReadInv
<1> QED BY <1>1, <1>2, <1>3, <1>4, <1>5, <1>6, <1>7, <1>8, <1>9, <1>10, <1>11, <1>12, <1>13, <1>14, <1>15, <1>16, <1>17, <1>18, <1>19 DEF Next, Poll

LEMMA BounceInvariant == Spec => []BounceInv
<1>1. Init => BounceInv  BY BounceStart
<1>2. BounceInv /\ [Next]_vars => BounceInv'  BY BounceStep
<1> QED BY <1>1, <1>2, PTL DEF Spec

LEMMA BounceTyped == BounceInv => TypeOK
<1> SUFFICES ASSUME BounceInv PROVE TypeOK  OBVIOUS
<1>1. \A p \in Readers : /\ reader[p] \in Reads /\ reader[p].next \in 0..Len(inbox) /\ reader[p].upto \in 0..Len(inbox)
  BY DEF BounceInv, ReadInv, ListTypes, Sound, Reads
<1>2. reader \in [Readers -> [at: ReadPlaces, mode: Modes, next: 0..Len(inbox), upto: 0..Len(inbox), last: BOOLEAN,
                              pages: 0..MaxPages]]
  <2>1. \A p \in Readers : reader[p] \in [at: ReadPlaces, mode: Modes, next: 0..Len(inbox), upto: 0..Len(inbox),
                                          last: BOOLEAN, pages: 0..MaxPages]
    BY <1>1 DEF Reads
  <2> QED BY <2>1 DEF BounceInv, ReadInv
<1>3. link \in [Modes -> 0..Len(inbox)]  BY DEF BounceInv, ReadInv, ListTypes
<1> QED BY <1>2, <1>3 DEF BounceInv, ListTypes, TypeOK, MailRows, RowPlaces, ReadPlaces

\* Every step keeps the rows, the Inbox, the polls and the list in their types,
\* and every poll within the Inbox.
THEOREM BounceTypes == Spec => []TypeOK
BY BounceInvariant, BounceTyped, PTL

\* The place stored for the next poll is never past a report nobody judged,
\* whatever failed, died, was forgotten or read twice at once.
THEOREM NoReportPassedOver == Spec => []NothingPassedOver
<1>1. BounceInv => NothingPassedOver  BY DEF BounceInv, ReadInv, NothingPassedOver
<1> QED BY <1>1, BounceInvariant, PTL

\* After a person is erased no report and no late refusal writes their address
\* back.
THEOREM ErasedForGood == Spec => []ErasedStaysErased
<1>1. BounceInv => ErasedStaysErased  BY DEF BounceInv, ListInv, ErasedStaysErased
<1> QED BY <1>1, BounceInvariant, PTL

-----------------------------------------------------------------------------
(* What an operator removed.                                                *)

\* An address comes on the list with new evidence of it.
NewEvidence ==
  \A a \in suppressed' \ suppressed : \E e \in acted' \ acted : a = To[IF e \in Rows THEN e ELSE inbox[e].row]

\* Every step but these two writes no address on the list.
LEMMA OnlyEvidenceSuppresses ==
  ASSUME BounceInv, [Next]_vars
  PROVE  \/ suppressed' \subseteq suppressed
         \/ \E r \in Rows : SuppressRefused(r)
         \/ \E p \in Readers : Judge(p)
<1>1. ASSUME NEW r \in Rows, RecordSent(r) \/ RecordRefused(r) \/ RefusalLost(r) \/ ReportComes(r) PROVE UNCHANGED suppressed
  BY <1>1 DEF RecordSent, RecordRefused, RefusalLost, ReportComes, list
<1>2. ASSUME NEW i \in Ids, MessageLeaves(i) \/ BounceExpires(i) PROVE UNCHANGED suppressed
  BY <1>2 DEF MessageLeaves, BounceExpires, list
<1>3. ASSUME NEW p \in Readers, StartPoll(p) \/ FetchPage(p) \/ RecordPoll(p) \/ TooManyPages(p) PROVE UNCHANGED suppressed
  BY <1>3 DEF StartPoll, FetchPage, RecordPoll, TooManyPages, GiveUp, list
<1>4. ASSUME NEW p \in Readers, LinkForgotten(p) \/ PollFails(p) \/ Restart(p) PROVE UNCHANGED suppressed
  BY <1>4 DEF LinkForgotten, PollFails, Restart, GiveUp, list
<1>5. CASE LockLost \/ UNCHANGED vars
  BY <1>5 DEF LockLost, list, vars
<1>6. ASSUME NEW a \in Addresses, Remove(a) \/ Erase(a) PROVE suppressed' \subseteq suppressed
  BY <1>6 DEF Remove, DeleteSuppression, Erase
<1> QED BY <1>1, <1>2, <1>3, <1>4, <1>5, <1>6 DEF Next, Poll

LEMMA EvidenceIsNew == BounceInv /\ [Next]_vars => [NewEvidence]_vars
<1> SUFFICES ASSUME BounceInv, [Next]_vars PROVE NewEvidence  OBVIOUS
<1> USE ReaderAssumption
<1>1. CASE suppressed' \subseteq suppressed
  BY <1>1 DEF NewEvidence
<1>2. ASSUME NEW r \in Rows, SuppressRefused(r) PROVE NewEvidence
  <2>1. r \notin acted  BY <1>2 DEF SuppressRefused, BounceInv, ListInv
  <2>2. SuppressRowAddress(r, r)  BY <1>2 DEF SuppressRefused
  <2> QED BY <2>1, <2>2 DEF SuppressRowAddress, NewEvidence
<1>3. ASSUME NEW p \in Readers, Judge(p) PROVE NewEvidence
  <2> DEFINE i == reader[p].next + 1
  <2>0. inbox \in Seq(Report)  BY DEF BounceInv, ListTypes
  <2>1. reader[p] \in Reads /\ Sound(reader[p], judged \union gone, Len(inbox)) /\ reader[p].at = "items" /\ Len(inbox) \in Nat
    <3>1. Len(inbox) \in Nat  BY <2>0
    <3>2. reader[p] \in Reads /\ Sound(reader[p], judged \union gone, Len(inbox))  BY DEF BounceInv, ReadInv
    <3>3. reader[p].at = "items"  BY <1>3 DEF Judge
    <3> QED BY <3>1, <3>2, <3>3
  <2>2. i \in 1..Len(inbox)  BY <2>1 DEF Reads, Sound
  <2>3. i \in DOMAIN inbox /\ inbox[i] \in Report  BY <2>2 DEF BounceInv, ListTypes
  <2>4. i \notin Rows  BY <2>3 DEF BounceInv, ListTypes, Ids
  <2>5. suppressed' \subseteq suppressed
        \/ (i \notin gone /\ i \notin bounces /\ SuppressRowAddress(QueueID(i), i))
    BY <1>3 DEF Judge, list, Records, Recorded
  <2> HIDE DEF i
  <2>6. CASE i \notin gone /\ i \notin bounces /\ SuppressRowAddress(QueueID(i), i)
    <3>1. i \notin acted  BY <2>3, <2>6 DEF BounceInv, ListInv
    <3> QED BY <2>4, <2>6, <3>1 DEF SuppressRowAddress, NewEvidence, QueueID
  <2> QED BY <2>5, <2>6 DEF NewEvidence
<1> QED BY <1>1, <1>2, <1>3, OnlyEvidenceSuppresses

\* An address an operator took off the list returns to it for a new refusal or
\* a new report only: one read again, by whichever process, is on record.
THEOREM RemovedForGood == Spec => RemovedStaysRemoved
<1>1. Spec => []BounceInv /\ [][Next]_vars  BY BounceInvariant, PTL DEF Spec
<1>2. Spec => [][NewEvidence]_vars  BY <1>1, EvidenceIsNew, PTL
<1> QED BY <1>2 DEF RemovedStaysRemoved, NewEvidence
===============================================================================
