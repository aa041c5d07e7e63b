------------------------- MODULE MailApprovalProofs -------------------------
(* Theorems about MailApproval for every set of handlers, contents, lists  *)
(* and groups and every deadline, checked by TLAPS.                        *)
EXTENDS MailApproval, TLAPS

USE DEF Decided, GroupSeen, WithContent

-----------------------------------------------------------------------------
(* The inductive invariant. *)

\* What a handler carries, and what it knows of the request from then on: a
\* submission's handler that there is none yet, a decision's that the request
\* is in a state it applies to, a send's that what it checked still holds.
Sound(h) ==
  /\ handler[h].op = "submit" => handler[h].pc = "ready" /\ req.state = "none"
  /\ handler[h].pc # "idle" /\ handler[h].op # "submit" => req.state # "none"
  /\ handler[h].op \in {"submit", "resubmit"} =>
       /\ handler[h].content \in Contents /\ handler[h].audience \in Audiences
       /\ handler[h].version \in Versions
  /\ handler[h].op = "accept" => handler[h].content = None
  /\ handler[h].pc \in {"do", "queued"} => req.state \in From(handler[h].op)
  /\ handler[h].pc = "queued" =>
       /\ Sends(handler[h].op) /\ template.version = req.send.version
       /\ req.send.audience \in Groups => handler[h].audience = req.send.audience
  /\ handler[h].pc = "expire" => Overdue

\* The row lock is exclusive, and only one submission makes the request.
Alone ==
  \A g, h \in Handlers :
    \/ Locking(g) /\ Locking(h)
    \/ handler[g].op = "submit" /\ handler[h].op = "submit"
    => g = h

\* A returned request waits as its approver left it.
ReturnedAsVetted == req.state = "returned" => vetted = req.send

IInv ==
  /\ TypeOK /\ Alone /\ ReturnedAsVetted /\ GoesOnceAsDecided
  /\ \A h \in Handlers : Sound(h)

-----------------------------------------------------------------------------
(* What the operators return. *)

LEMMA RestingType == Resting \in Doing /\ Resting.pc = "idle" /\ Resting.op = "none"
BY DEF Resting, Doing, Ops

\* A request that exists has a send, and so does its edit, to the same
\* audience and of the same version.
LEMMA AsEditedType ==
  ASSUME TypeOK, NEW h \in Handlers, req.state # "none"
  PROVE  /\ req.send \in Send /\ AsEdited(h) \in Send
         /\ AsEdited(h).audience = req.send.audience
         /\ AsEdited(h).version = req.send.version
         /\ handler[h].content = None => AsEdited(h) = req.send
<1>1. req.send \in Send
  BY DEF TypeOK
<1>2. handler[h] \in Doing
  BY DEF TypeOK
<1>3. Edited(h) => handler[h].content \in Contents
  BY <1>2 DEF Edited, Doing
<1> QED
  BY <1>1, <1>3 DEF AsEdited, Edited, Send

\* What a submission's handler carries makes a request.
LEMMA AsFilledInType ==
  ASSUME NEW h \in Handlers, handler[h].content \in Contents,
         handler[h].audience \in Audiences, handler[h].version \in Versions
  PROVE  /\ AsFilledIn(h) \in [state : States, send : Send \union {None}, left : 0..DecisionTime]
         /\ AsFilledIn(h).state = "pending" /\ AsFilledIn(h).send # None
<1>1. DecisionTime \in 0..DecisionTime
  BY ApprovalAssumption
<1>2. AsFilledIn(h).send \in Send
  BY DEF AsFilledIn, Send
<1>3. None \notin Send
  BY ApprovalAssumption DEF Send, Audiences, Versions
<1> QED
  BY <1>1, <1>2, <1>3 DEF AsFilledIn, States

\* Events are counted.
LEMMA HappenType ==
  ASSUME events \in [Kinds -> Nat], NEW kinds, Happen(kinds)
  PROVE  events' \in [Kinds -> Nat]
BY DEF Happen

\* A mail that is what was last decided is the first and the only one.
LEMMA FirstMail ==
  ASSUME NEW m \in Send, mails = <<>>, mails' = Append(mails, m)
  PROVE  mails' = <<m>> /\ mails' \in Seq(Send)
BY DEF Send

-----------------------------------------------------------------------------
(* What a step of a handler leaves true of all handlers. *)

\* A handler that ends, with or without a commit, leaves the others sound:
\* none of them can be past the lock when this one commits.
LEMMA EndsSoundly ==
  ASSUME IInv, NEW h \in Handlers, Ends(h), template' = template,
         \/ req' = req
         \/ req'.state # "none" /\ (Locking(h) \/ handler[h].op = "submit")
  PROVE  handler' \in [Handlers -> Doing] /\ Alone' /\ \A g \in Handlers : Sound(g)'
<1>1. handler' \in [Handlers -> Doing]
  BY RestingType DEF IInv, TypeOK, Ends
<1>2. handler'[h] = Resting /\ \A g \in Handlers : g # h => handler'[g] = handler[g]
  BY DEF IInv, TypeOK, Ends
<1>3. \A g \in Handlers : Locking(g)' => Locking(g)
  BY <1>2, RestingType DEF Locking
<1>4. \A g \in Handlers : handler'[g].op = "submit" => handler[g].op = "submit"
  BY <1>2, RestingType
<1>5. Alone'
  BY <1>3, <1>4 DEF IInv, Alone
<1>6. Sound(h)'
  BY <1>2, RestingType DEF Sound
<1>7. ASSUME NEW g \in Handlers, g # h
      PROVE  Sound(g)'
  <2>1. Sound(g) /\ Sound(h) /\ handler'[g] = handler[g]
    BY <1>2, <1>7 DEF IInv
  <2>2. CASE req' = req
    BY <2>1, <2>2 DEF Sound, undecided, Overdue
  <2>3. CASE req'.state # "none" /\ (Locking(h) \/ handler[h].op = "submit")
    <3>1. handler[h].op = "submit" => handler[g].op # "submit"
      BY <1>7 DEF IInv, Alone
    <3>2. Locking(h) => ~Locking(g)
      BY <1>7 DEF IInv, Alone
    <3>3. Locking(h) => req.state # "none"
      BY <2>1 DEF Locking, Sound, From
    <3>4. handler[g].op # "submit"
      BY <2>1, <2>3, <3>1, <3>3 DEF Sound
    <3>5. handler[h].op = "submit" => handler[g].pc = "idle"
      BY <2>1, <3>4 DEF Sound
    <3>6. handler[g].pc \notin {"do", "queued", "expire"}
      BY <2>3, <3>2, <3>4, <3>5 DEF Locking
    <3> QED
      BY <2>1, <2>3, <3>4, <3>6 DEF Sound
  <2> QED
    BY <2>2, <2>3, <1>7
<1> QED
  BY <1>1, <1>5, <1>6, <1>7

\* A handler that goes on to pc, sound there, leaves the others as they were.
LEMMA GoesSoundly ==
  ASSUME IInv, NEW h \in Handlers, NEW new \in Doing,
         handler' = [handler EXCEPT ![h] = new], req' = req, template' = template,
         new.op = "submit" => \A g \in Handlers : handler[g].op # "submit",
         new.pc \in {"do", "queued", "expire"} => Locking(h) \/ ~Locked,
         Sound(h)'
  PROVE  handler' \in [Handlers -> Doing] /\ Alone' /\ \A g \in Handlers : Sound(g)'
<1>1. handler' \in [Handlers -> Doing]
  BY DEF IInv, TypeOK
<1>2. handler'[h] = new /\ \A g \in Handlers : g # h => handler'[g] = handler[g]
  BY DEF IInv, TypeOK
<1>3. \A g \in Handlers : g # h => Sound(g)'
  BY <1>2 DEF IInv, Sound, undecided, Overdue
<1>4. \A f, g \in Handlers : Locking(f)' /\ Locking(g)' => f = g
  BY <1>2 DEF IInv, Alone, Locking, Locked
<1>5. \A f, g \in Handlers : handler'[f].op = "submit" /\ handler'[g].op = "submit" => f = g
  BY <1>2 DEF IInv, Alone
<1> QED
  BY <1>1, <1>3, <1>4, <1>5 DEF Alone

-----------------------------------------------------------------------------
(* Each action keeps the invariant. *)

LEMMA InitHolds == Init => IInv
<1> SUFFICES ASSUME Init PROVE IInv
  OBVIOUS
<1>1. TypeOK
  <2>1. 0 \in 0..DecisionTime /\ 1 \in Versions
    BY ApprovalAssumption DEF Versions
  <2> QED
    BY <2>1, RestingType DEF Init, TypeOK, States
<1>2. \A h \in Handlers : Sound(h)
  BY RestingType DEF Init, Sound
<1>3. Alone
  BY RestingType DEF Init, Alone, Locking
<1> QED
  BY <1>1, <1>2, <1>3 DEF Init, IInv, ReturnedAsVetted, GoesOnceAsDecided

\* The request, its mails and its history as they were.
Unmoved == UNCHANGED <<req, template, archived, mails, events, vetted>>

\* A step that moves only its handler, soundly, keeps the invariant.
LEMMA UnmovedKeeps ==
  ASSUME IInv, Unmoved, handler' \in [Handlers -> Doing], Alone', \A g \in Handlers : Sound(g)'
  PROVE  IInv'
<1>1. TypeOK'
  BY DEF IInv, TypeOK, Unmoved
<1> QED
  BY <1>1 DEF IInv, Unmoved, ReturnedAsVetted, GoesOnceAsDecided

LEMMA BeginKeeps ==
  ASSUME IInv, NEW h \in Handlers, Begin(h)
  PROVE  IInv'
<1> DEFINE New(op, content, audience, version) ==
             [pc |-> "ready", op |-> op, content |-> content, audience |-> audience, version |-> version]
<1>1. Unmoved
  BY DEF Begin, BeginSubmit, BeginResubmit, BeginSending, BeginOther, Unmoved
<1>2. ASSUME NEW op \in Ops, NEW content \in Contents \union {None},
             NEW audience \in Audiences \union {None}, NEW version \in Versions \union {0},
             Begins(h, op, content, audience, version),
             op = "submit" => req.state = "none" /\ \A g \in Handlers : handler[g].op # "submit",
             op # "submit" => req.state # "none",
             op \in {"submit", "resubmit"} =>
               content \in Contents /\ audience \in Audiences /\ version \in Versions,
             op = "accept" => content = None
      PROVE  IInv'
  <2>1. New(op, content, audience, version) \in Doing
    BY <1>2 DEF Doing
  <2>2. handler' = [handler EXCEPT ![h] = New(op, content, audience, version)]
    BY <1>2 DEF Begins
  <2>3. handler'[h] = New(op, content, audience, version)
    BY <2>2 DEF IInv, TypeOK
  <2>4. Sound(h)'
    BY <1>1, <1>2, <2>3 DEF Sound, Unmoved
  <2>5. handler' \in [Handlers -> Doing] /\ Alone' /\ \A g \in Handlers : Sound(g)'
    BY <1>1, <1>2, <2>1, <2>2, <2>4, GoesSoundly DEF Unmoved
  <2> QED
    BY <1>1, <2>5, UnmovedKeeps
<1>3. template.version \in Versions
  BY DEF IInv, TypeOK
<1>4. CASE BeginSubmit(h)
  BY <1>2, <1>3, <1>4 DEF BeginSubmit, CheckSend, Ops
<1>5. CASE BeginResubmit(h)
  BY <1>2, <1>3, <1>5 DEF BeginResubmit, CheckSend, Ops
<1>6. ASSUME NEW op \in Ops, BeginSending(h, op)
      PROVE  IInv'
  <2>1. (IF req.send.audience \in Groups THEN req.send.audience ELSE None) \in Audiences \union {None}
    BY DEF Audiences
  <2> QED
    BY <1>2, <1>6, <2>1 DEF BeginSending, Sends
<1>7. ASSUME NEW op \in Ops, BeginOther(h, op)
      PROVE  IInv'
  BY <1>2, <1>7 DEF BeginOther
<1> QED
  BY <1>4, <1>5, <1>6, <1>7 DEF Begin

LEMMA LockKeeps ==
  ASSUME IInv, NEW h \in Handlers, Lock(h) \/ Queue(h) \/ LockDue(h)
  PROVE  IInv'
<1> DEFINE new == handler'[h]
<1>1. Unmoved
  BY DEF Lock, Queue, LockDue, Unmoved
<1>2. handler[h] \in Doing /\ Sound(h) /\ req.state \in States
  BY DEF IInv, TypeOK
<1>3. CASE Lock(h)
  <2>1. PICK pc \in {"do", "expire"} :
          /\ Goes(h, pc)
          /\ pc = "do" => req.state \in From(handler[h].op)
          /\ pc = "expire" => Overdue
    BY <1>3 DEF Lock
  <2>2. /\ handler' = [handler EXCEPT ![h] = [handler[h] EXCEPT !.pc = pc]]
        /\ handler'[h] = [handler[h] EXCEPT !.pc = pc]
    BY <2>1 DEF Goes, IInv, TypeOK
  <2>3. [handler[h] EXCEPT !.pc = pc] \in Doing
    BY <1>2, <2>1 DEF Doing
  <2>4. /\ handler'[h].pc = pc /\ handler'[h].op = handler[h].op
        /\ handler'[h].content = handler[h].content
        /\ handler'[h].audience = handler[h].audience
        /\ handler'[h].version = handler[h].version
    BY <1>2, <2>2 DEF Doing
  <2>5. handler[h].op # "submit" /\ ~Locked /\ handler[h].pc = "ready"
    BY <1>3 DEF Lock
  <2>6. Sound(h)'
    BY <1>1, <1>2, <2>1, <2>4, <2>5 DEF Sound, Unmoved, undecided, Overdue
  <2>7. handler' \in [Handlers -> Doing] /\ Alone' /\ \A g \in Handlers : Sound(g)'
    BY <1>1, <2>2, <2>3, <2>4, <2>5, <2>6, GoesSoundly DEF Unmoved
  <2> QED
    BY <1>1, <2>7, UnmovedKeeps
<1>4. CASE Queue(h)
  <2>1. /\ handler' = [handler EXCEPT ![h] = [handler[h] EXCEPT !.pc = "queued"]]
        /\ handler'[h] = [handler[h] EXCEPT !.pc = "queued"]
    BY <1>4 DEF Queue, Goes, IInv, TypeOK
  <2>2. [handler[h] EXCEPT !.pc = "queued"] \in Doing
    BY <1>2 DEF Doing
  <2>3. /\ handler'[h].pc = "queued" /\ handler'[h].op = handler[h].op
        /\ handler'[h].content = handler[h].content
        /\ handler'[h].audience = handler[h].audience
        /\ handler'[h].version = handler[h].version
    BY <1>2, <2>1 DEF Doing
  <2>4. handler[h].op # "submit" /\ Locking(h)
    BY <1>2, <1>4 DEF Queue, Sends, Locking
  <2>5. Sound(h)'
    BY <1>1, <1>2, <1>4, <2>3, <2>4 DEF Sound, Unmoved, undecided, Overdue, Queue
  <2>6. handler' \in [Handlers -> Doing] /\ Alone' /\ \A g \in Handlers : Sound(g)'
    BY <1>1, <2>1, <2>2, <2>3, <2>4, <2>5, GoesSoundly DEF Unmoved
  <2> QED
    BY <1>1, <2>6, UnmovedKeeps
<1>5. CASE LockDue(h)
  <2> DEFINE due == [handler[h] EXCEPT !.pc = "expire", !.op = "sweep"]
  <2>1. handler' = [handler EXCEPT ![h] = due] /\ handler'[h] = due
    BY <1>5 DEF LockDue, IInv, TypeOK
  <2>2. due \in Doing /\ due.pc = "expire" /\ due.op = "sweep"
    BY <1>2 DEF Doing, Ops
  <2>3. Overdue /\ ~Locked
    BY <1>5 DEF LockDue
  <2>4. Sound(h)'
    BY <1>1, <2>1, <2>2, <2>3 DEF Sound, Unmoved, undecided, Overdue
  <2>5. handler' \in [Handlers -> Doing] /\ Alone' /\ \A g \in Handlers : Sound(g)'
    BY <1>1, <2>1, <2>2, <2>3, <2>4, GoesSoundly DEF Unmoved
  <2> QED
    BY <1>1, <2>5, UnmovedKeeps
<1> QED
  BY <1>3, <1>4, <1>5

LEMMA EndKeeps ==
  ASSUME IInv, NEW h \in Handlers, Refused(h) \/ Fail(h)
  PROVE  IInv'
BY EndsSoundly, UnmovedKeeps DEF Refused, Fail, Unmoved

\* A commit ends its handler soundly, so what is left to show of it is the
\* request, the mails, the events and what was last decided.
LEMMA CommitKeeps ==
  ASSUME IInv, NEW h \in Handlers, Ends(h), UNCHANGED <<template, archived>>,
         Locking(h) \/ handler[h].op = "submit",
         req' \in [state : States, send : Send, left : 0..DecisionTime], req'.state # "none",
         mails' \in Seq(Send), NEW kinds, Happen(kinds), vetted' \in Send \union {None},
         ReturnedAsVetted', GoesOnceAsDecided'
  PROVE  IInv'
<1>1. handler' \in [Handlers -> Doing] /\ Alone' /\ \A g \in Handlers : Sound(g)'
  BY EndsSoundly
<1>2. events' \in [Kinds -> Nat]
  BY HappenType DEF IInv, TypeOK
<1>3. req'.send # None
  BY ApprovalAssumption DEF Send, Audiences, Versions
<1>4. TypeOK'
  BY <1>1, <1>2, <1>3 DEF IInv, TypeOK
<1> QED
  BY <1>1, <1>4 DEF IInv

\* What a sending handler queues is what it was to queue.
LEMMA QueuedAsDecided ==
  ASSUME IInv, NEW h \in Handlers, handler[h].pc = "queued"
  PROVE  /\ Queued(h) = AsEdited(h) /\ AsEdited(h) \in Send
         /\ Sends(handler[h].op) /\ req.state \in {"pending", "returned"} /\ mails = <<>>
         /\ Locking(h)
<1>1. Sound(h) /\ TypeOK
  BY DEF IInv
<1>2. /\ Sends(handler[h].op) /\ template.version = req.send.version
      /\ req.send.audience \in Groups => handler[h].audience = req.send.audience
      /\ req.state \in From(handler[h].op)
  BY <1>1 DEF Sound
<1>3. req.state \in {"pending", "returned"}
  BY <1>2 DEF From, Sends
<1>4. /\ AsEdited(h) \in Send /\ AsEdited(h).audience = req.send.audience
      /\ AsEdited(h).version = req.send.version /\ req.send \in Send
  BY <1>1, <1>3, AsEditedType
<1>5. Queued(h) = [content |-> AsEdited(h).content, audience |-> AsEdited(h).audience,
                   version |-> AsEdited(h).version]
  BY <1>2, <1>4 DEF Queued
<1>6. Queued(h) = AsEdited(h)
  BY <1>4, <1>5 DEF Send
<1>7. mails = <<>>
  BY <1>3 DEF IInv, GoesOnceAsDecided
<1>8. Locking(h)
  BY <1>2 DEF Locking, Sends
<1> QED
  BY <1>2, <1>3, <1>4, <1>6, <1>7, <1>8

LEMMA SendingKeeps ==
  ASSUME IInv, NEW h \in Handlers, CommitApprove(h) \/ CommitAccept(h)
  PROVE  IInv'
<1>1. handler[h].pc = "queued"
  BY DEF CommitApprove, CommitAccept
<1>2. /\ Queued(h) = AsEdited(h) /\ AsEdited(h) \in Send
      /\ req.state \in {"pending", "returned"} /\ mails = <<>> /\ Locking(h)
      /\ req.state \in From(handler[h].op)
  BY <1>1, QueuedAsDecided DEF IInv, Sound
<1>3. req \in [state : States, send : Send \union {None}, left : 0..DecisionTime]
  BY DEF IInv, TypeOK
<1>4. mails' = <<Queued(h)>> /\ mails' \in Seq(Send)
  BY <1>2, FirstMail DEF CommitApprove, CommitAccept
<1>5. CASE CommitApprove(h)
  <2>1. /\ req' \in [state : States, send : Send, left : 0..DecisionTime]
        /\ req'.state = "approved" /\ vetted' = AsEdited(h)
    BY <1>2, <1>3, <1>5 DEF CommitApprove, States
  <2>2. ReturnedAsVetted' /\ GoesOnceAsDecided'
    BY <1>2, <1>4, <2>1 DEF ReturnedAsVetted, GoesOnceAsDecided
  <2> QED
    BY <1>2, <1>4, <1>5, <2>1, <2>2, CommitKeeps DEF CommitApprove
<1>6. CASE CommitAccept(h)
  <2>1. handler[h].op = "accept" /\ handler[h].content = None
    BY <1>6 DEF CommitAccept, IInv, Sound
  <2>2. req.state = "returned"
    BY <1>2, <2>1 DEF From
  <2>3. AsEdited(h) = req.send /\ vetted = req.send /\ req.send \in Send
    BY <2>1, <2>2, AsEditedType DEF IInv, ReturnedAsVetted
  <2>4. /\ req' \in [state : States, send : Send, left : 0..DecisionTime]
        /\ req'.state = "approved" /\ vetted' = AsEdited(h)
    BY <1>3, <1>6, <2>3 DEF CommitAccept, States
  <2>5. ReturnedAsVetted' /\ GoesOnceAsDecided'
    BY <1>2, <1>4, <2>4 DEF ReturnedAsVetted, GoesOnceAsDecided
  <2> QED
    BY <1>2, <1>4, <1>6, <2>3, <2>4, <2>5, CommitKeeps DEF CommitAccept
<1> QED
  BY <1>5, <1>6

LEMMA DecidingKeeps ==
  ASSUME IInv, NEW h \in Handlers,
         CommitReturn(h) \/ CommitReject(h) \/ CommitDecline(h) \/ CommitExpire(h)
  PROVE  IInv'
<1>1. handler[h].pc \in {"do", "expire"} /\ Sound(h)
  BY DEF CommitReturn, CommitReject, CommitDecline, CommitExpire, IInv
<1>2. Locking(h)
  BY <1>1 DEF Sound, Locking
<1>3. req.state # "none" /\ req.state # "approved"
  BY <1>1, <1>2 DEF Sound, From, Locking, undecided, Overdue
<1>4. /\ req \in [state : States, send : Send \union {None}, left : 0..DecisionTime]
      /\ req.send \in Send /\ AsEdited(h) \in Send
  BY <1>3, AsEditedType DEF IInv, TypeOK
<1>5. mails = <<>> /\ mails \in Seq(Send) /\ vetted \in Send \union {None}
  BY <1>3 DEF IInv, GoesOnceAsDecided, TypeOK
<1>6. CASE CommitReturn(h)
  <2>1. /\ req' \in [state : States, send : Send, left : 0..DecisionTime]
        /\ req'.state = "returned" /\ req'.send = AsEdited(h)
    BY <1>4, <1>6, ApprovalAssumption DEF CommitReturn, States
  <2>2. ReturnedAsVetted' /\ GoesOnceAsDecided'
    BY <1>5, <1>6, <2>1 DEF CommitReturn, ReturnedAsVetted, GoesOnceAsDecided
  <2> QED
    BY <1>2, <1>4, <1>5, <1>6, <2>1, <2>2, CommitKeeps DEF CommitReturn
<1>7. ASSUME NEW state \in {"rejected", "declined", "expired"}, NEW kinds, Happen(kinds),
             req' = [req EXCEPT !.state = state], Ends(h),
             UNCHANGED <<template, archived, mails, vetted>>
      PROVE  IInv'
  <2>1. /\ req' \in [state : States, send : Send, left : 0..DecisionTime]
        /\ req'.state = state
    BY <1>4, <1>7 DEF States
  <2>2. ReturnedAsVetted' /\ GoesOnceAsDecided'
    BY <1>5, <1>7, <2>1 DEF ReturnedAsVetted, GoesOnceAsDecided
  <2> QED
    BY <1>2, <1>5, <1>7, <2>1, <2>2, CommitKeeps
<1>8. CASE CommitReject(h)
  BY <1>7, <1>8 DEF CommitReject
<1>9. CASE CommitDecline(h)
  BY <1>7, <1>9 DEF CommitDecline
<1>10. CASE CommitExpire(h)
  BY <1>7, <1>10 DEF CommitExpire
<1> QED
  BY <1>6, <1>8, <1>9, <1>10

LEMMA FilledInKeeps ==
  ASSUME IInv, NEW h \in Handlers, CommitSubmit(h) \/ CommitResubmit(h)
  PROVE  IInv'
<1>1. Sound(h) /\ handler[h].op \in {"submit", "resubmit"}
  BY DEF CommitSubmit, CommitResubmit, IInv
<1>2. Locking(h) \/ handler[h].op = "submit"
  BY DEF CommitSubmit, CommitResubmit, Locking
<1>3. req.state # "approved"
  BY <1>1 DEF CommitSubmit, CommitResubmit, Sound, From
<1>4. /\ req' \in [state : States, send : Send \union {None}, left : 0..DecisionTime]
      /\ req'.state = "pending" /\ req'.send # None
  BY <1>1, AsFilledInType DEF CommitSubmit, CommitResubmit, Sound
<1>5. mails = <<>> /\ mails' = mails /\ mails \in Seq(Send)
      /\ vetted' = vetted /\ vetted \in Send \union {None}
  BY <1>3 DEF CommitSubmit, CommitResubmit, IInv, TypeOK, GoesOnceAsDecided
<1>6. ReturnedAsVetted' /\ GoesOnceAsDecided'
  BY <1>4, <1>5 DEF ReturnedAsVetted, GoesOnceAsDecided
<1>7. PICK kinds : Happen(kinds)
  BY DEF CommitSubmit, CommitResubmit
<1>8. req' \in [state : States, send : Send, left : 0..DecisionTime]
  BY <1>4
<1> QED
  BY <1>2, <1>4, <1>5, <1>6, <1>7, <1>8, CommitKeeps DEF CommitSubmit, CommitResubmit

\* Operators move the template and the lists only while no send that looked
\* at them is open; time passes for the request alone.
LEMMA OperatorKeeps ==
  ASSUME IInv, Publish \/ Archive \/ (\E list \in Lists : ArchiveList(list)) \/ Tick
  PROVE  IInv'
<1>1. handler' = handler /\ mails' = mails /\ events' = events /\ vetted' = vetted
  BY DEF Publish, Archive, ArchiveList, Tick
<1>2. /\ req' \in [state : States, send : Send \union {None}, left : 0..DecisionTime]
      /\ req'.state = req.state /\ req'.send = req.send
  <2> DEFINE Requests == [state : States, send : Send \union {None}, left : 0..DecisionTime]
  <2>1. req \in Requests
    BY DEF IInv, TypeOK
  <2>2. CASE Tick
    <3>1. req.left - 1 \in 0..DecisionTime
      BY <2>1, <2>2, ApprovalAssumption DEF Tick
    <3> QED
      BY <2>1, <2>2, <3>1 DEF Tick
  <2>3. CASE req' = req
    BY <2>1, <2>3
  <2> QED
    BY <2>2, <2>3 DEF Publish, Archive, ArchiveList
<1>3. /\ template' \in [version : Versions, archived : BOOLEAN]
      /\ template'.version = template.version \/ ~ShareLocked
  <2>1. CASE Publish
    BY <2>1, ApprovalAssumption DEF Publish, IInv, TypeOK, Versions
  <2>2. CASE Archive
    BY <2>2 DEF Archive, IInv, TypeOK
  <2>3. CASE template' = template
    BY <2>3 DEF IInv, TypeOK
  <2> QED
    BY <2>1, <2>2, <2>3 DEF ArchiveList, Tick
<1>4. archived' \in SUBSET Lists
  BY DEF Publish, Archive, ArchiveList, Tick, IInv, TypeOK
<1>5. TypeOK'
  BY <1>1, <1>2, <1>3, <1>4 DEF IInv, TypeOK
<1>6. Alone'
  BY <1>1 DEF IInv, Alone, Locking
<1>7. ASSUME NEW h \in Handlers PROVE Sound(h)'
  <2>1. handler[h].pc = "queued" => template'.version = template.version
    BY <1>3 DEF ShareLocked
  <2>2. Overdue => Overdue'
    BY <1>2 DEF Overdue, undecided, Publish, Archive, ArchiveList, Tick
  <2> QED
    BY <1>1, <1>2, <1>3, <2>1, <2>2 DEF IInv, Sound
<1>8. ReturnedAsVetted' /\ GoesOnceAsDecided'
  BY <1>1, <1>2 DEF IInv, ReturnedAsVetted, GoesOnceAsDecided
<1> QED
  BY <1>5, <1>6, <1>7, <1>8 DEF IInv

LEMMA StepKeeps == IInv /\ [Next]_vars => IInv'
<1> SUFFICES ASSUME IInv, [Next]_vars PROVE IInv'
  OBVIOUS
<1>1. ASSUME NEW h \in Handlers, Begin(h) \/ LockDue(h) \/ GoesOn(h)
      PROVE  IInv'
  BY <1>1, BeginKeeps, LockKeeps, EndKeeps, SendingKeeps, DecidingKeeps, FilledInKeeps
     DEF GoesOn, Commit
<1>2. CASE UNCHANGED vars
  <2>1. Unmoved /\ handler' = handler
    BY <1>2 DEF vars, Unmoved
  <2>2. TypeOK' /\ Alone' /\ ReturnedAsVetted' /\ GoesOnceAsDecided'
    BY <2>1 DEF IInv, TypeOK, Alone, Locking, ReturnedAsVetted, GoesOnceAsDecided, Unmoved
  <2>3. \A h \in Handlers : Sound(h)'
    BY <2>1 DEF IInv, Sound, undecided, Overdue, Unmoved
  <2> QED
    BY <2>2, <2>3 DEF IInv
<1> QED
  BY <1>1, <1>2, OperatorKeeps DEF Next

LEMMA InvariantHolds == Spec => []IInv
<1> QED
  BY InitHolds, StepKeeps, PTL DEF Spec

-----------------------------------------------------------------------------
(* Theorems *)

\* The approval's state is well formed: there is a send exactly when there is
\* a request, and only whole sends of the request's kinds are queued.
THEOREM ApprovalTypes == Spec => []TypeOK
<1>1. IInv => TypeOK
  BY DEF IInv
<1> QED
  BY <1>1, InvariantHolds, PTL

\* However many handlers and sweeps act at once, and whatever operators
\* publish and archive meanwhile, what goes out is the request as it was last
\* decided on, once, when and only when it is approved (act, queue).
THEOREM ApprovedGoesOnce == Spec => []GoesOnceAsDecided
<1>1. IInv => GoesOnceAsDecided
  BY DEF IInv
<1> QED
  BY <1>1, InvariantHolds, PTL

-----------------------------------------------------------------------------
(* The deadline. *)

LEMMA DeadlineStep ==
  ASSUME IInv, [Next]_vars
  PROVE  /\ (Overdue /\ ~Deciding) => (Overdue /\ ~Deciding)' \/ req'.state = "expired"
         /\ (req.state # "expired" /\ req'.state = "expired") => Overdue
<1>1. handler \in [Handlers -> Doing] /\ \A h \in Handlers : Sound(h)
  BY DEF IInv, TypeOK
<1>2. ASSUME NEW h \in Handlers, NEW new, handler' = [handler EXCEPT ![h] = new], req' = req,
             (new.pc \in {"do", "queued"} /\ new.op # "submit") => Deciding \/ ~Overdue
      PROVE  (Overdue /\ ~Deciding) => (Overdue /\ ~Deciding)'
  BY <1>1, <1>2 DEF Overdue, undecided, Deciding, Locking
<1>3. ASSUME NEW h \in Handlers, Begin(h)
      PROVE  req' = req /\ ((Overdue /\ ~Deciding) => (Overdue /\ ~Deciding)')
  BY <1>2, <1>3 DEF Begin, BeginSubmit, BeginResubmit, BeginSending, BeginOther, CheckSend, Begins
<1>4. ASSUME NEW h \in Handlers, Refused(h) \/ Fail(h)
      PROVE  req' = req /\ ((Overdue /\ ~Deciding) => (Overdue /\ ~Deciding)')
  BY <1>2, <1>4, RestingType DEF Refused, Fail, Ends
<1>5. ASSUME NEW h \in Handlers, Lock(h) \/ Queue(h) \/ LockDue(h)
      PROVE  req' = req /\ ((Overdue /\ ~Deciding) => (Overdue /\ ~Deciding)')
  <2>1. handler[h] \in Doing
    BY <1>1
  <2>2. CASE Lock(h)
    <3>1. PICK pc \in {"do", "expire"} : Goes(h, pc) /\ (pc = "do" => ~Overdue) /\ req' = req
      BY <2>2 DEF Lock
    <3>2. [handler[h] EXCEPT !.pc = pc].pc = pc
      BY <2>1 DEF Doing
    <3>3. handler' = [handler EXCEPT ![h] = [handler[h] EXCEPT !.pc = pc]]
      BY <3>1 DEF Goes
    <3> QED
      BY <1>2, <3>1, <3>2, <3>3
  <2>3. CASE Queue(h)
    <3>1. Deciding /\ req' = req
      BY <2>3 DEF Queue, Deciding, Locking, Sends
    <3> QED
      BY <3>1
  <2>4. CASE LockDue(h)
    <3> DEFINE due == [handler[h] EXCEPT !.pc = "expire", !.op = "sweep"]
    <3>1. due.pc = "expire"
      BY <2>1 DEF Doing
    <3>2. handler' = [handler EXCEPT ![h] = due] /\ req' = req
      BY <2>4 DEF LockDue
    <3> QED
      BY <1>2, <3>1, <3>2
  <2> QED
    BY <1>5, <2>2, <2>3, <2>4
<1>6. ASSUME NEW h \in Handlers,
             \/ CommitApprove(h) \/ CommitAccept(h) \/ CommitReturn(h) \/ CommitReject(h)
             \/ CommitDecline(h) \/ CommitResubmit(h)
      PROVE  Deciding /\ req'.state # "expired"
  <2>1. Deciding
    BY <1>6 DEF CommitApprove, CommitAccept, CommitReturn, CommitReject, CommitDecline,
                CommitResubmit, Deciding, Locking
  <2>2. req \in [state : States, send : Send \union {None}, left : 0..DecisionTime]
    BY DEF IInv, TypeOK
  <2>3. req'.state # "expired"
    <3>1. CASE CommitApprove(h)
      BY <2>2, <3>1 DEF CommitApprove
    <3>2. CASE CommitReturn(h) \/ CommitResubmit(h)
      BY <3>2 DEF CommitReturn, CommitResubmit, AsFilledIn
    <3>3. CASE CommitAccept(h)
      BY <2>2, <3>3 DEF CommitAccept
    <3>4. CASE CommitReject(h)
      BY <2>2, <3>4 DEF CommitReject
    <3>5. CASE CommitDecline(h)
      BY <2>2, <3>5 DEF CommitDecline
    <3> QED
      BY <1>6, <3>1, <3>2, <3>3, <3>4, <3>5
  <2> QED
    BY <2>1, <2>3
<1>7. ASSUME NEW h \in Handlers, CommitSubmit(h)
      PROVE  ~Overdue /\ req'.state # "expired"
  BY <1>1, <1>7 DEF CommitSubmit, Sound, Overdue, undecided, AsFilledIn
<1>8. ASSUME NEW h \in Handlers, CommitExpire(h)
      PROVE  Overdue /\ req'.state = "expired"
  BY <1>1, <1>8 DEF CommitExpire, Sound, IInv, TypeOK
<1>9. ASSUME Publish \/ Archive \/ (\E list \in Lists : ArchiveList(list)) \/ Tick
      PROVE  /\ req'.state = req.state
             /\ (Overdue /\ ~Deciding) => (Overdue /\ ~Deciding)'
  BY <1>9 DEF Publish, Archive, ArchiveList, Tick, Overdue, undecided, Deciding, Locking, IInv, TypeOK
<1>10. CASE UNCHANGED vars
  BY <1>10 DEF vars, Overdue, undecided, Deciding, Locking
<1>11. CASE \E h \in Handlers : Begin(h) \/ LockDue(h) \/ GoesOn(h)
  BY <1>3, <1>4, <1>5, <1>6, <1>7, <1>8, <1>11 DEF GoesOn, Commit
<1> QED
  BY <1>9, <1>10, <1>11 DEF Next

\* No decision begins on a request past its deadline, nothing gives it time
\* again, and none expires before it (act, expireLocked, ExpireDue).
THEOREM DeadlineKept == Spec => DeadlineHolds
<1>1. IInv /\ [Next]_vars =>
        [/\ (Overdue /\ ~Deciding) => (Overdue /\ ~Deciding)' \/ req'.state = "expired"
         /\ (req.state # "expired" /\ req'.state = "expired") => Overdue]_vars
  BY DeadlineStep
<1> QED
  BY <1>1, InvariantHolds, PTL DEF Spec, DeadlineHolds

-----------------------------------------------------------------------------
(* The history. *)

submissions == events["submitted"] + events["resubmitted"]
refusals == events["rejected"] + events["declined"]
ends == events["approved"] + events["accepted"] + events["expired"]
answers == events["accepted"] + events["declined"]

\* The history, by the state it leaves the request in: what HistoryAgrees
\* says, and what the next decision needs to keep it so.
Account ==
  /\ req.state \in {"none", "rejected", "declined"} => submissions = refusals /\ ends = 0
  /\ undecided => submissions = refusals + 1 /\ ends = 0
  /\ req.state \in {"approved", "expired"} => submissions = refusals + 1 /\ ends = 1
  /\ events["edited"] >= events["returned"]
  /\ answers + (IF req.state = "returned" THEN 1 ELSE 0) <= events["returned"]

LEMMA AccountAgrees ==
  ASSUME TypeOK, Account
  PROVE  HistoryAgrees
<1>1. \A k \in Kinds : events[k] \in Nat
  BY DEF TypeOK
<1>2. req.state \in States
  BY DEF TypeOK
<1>3. /\ submissions \in Nat /\ refusals \in Nat /\ ends \in Nat /\ answers \in Nat
      /\ events["returned"] \in Nat
  BY <1>1 DEF Kinds, submissions, refusals, ends, answers
<1>4. /\ undecided <=> submissions = refusals + ends + 1
      /\ req.state \in {"rejected", "declined"} => submissions = refusals
      /\ ends = IF req.state \in {"approved", "expired"} THEN 1 ELSE 0
      /\ answers <= events["returned"]
  BY <1>2, <1>3 DEF Account, States, undecided
<1> QED
  BY <1>4 DEF Account, HistoryAgrees, submissions, refusals, ends, answers

LEMMA AccountInit == Init => Account
BY DEF Init, Account, Kinds, submissions, refusals, ends, answers, undecided

\* How often a kind is among the events of one commit.
one(k, kinds) == IF k \in kinds THEN 1 ELSE 0

\* What a commit's events add to the counts.
LEMMA HappenCounts ==
  ASSUME events \in [Kinds -> Nat], NEW kinds, Happen(kinds)
  PROVE  /\ submissions' = submissions + one("submitted", kinds) + one("resubmitted", kinds)
         /\ refusals' = refusals + one("rejected", kinds) + one("declined", kinds)
         /\ ends' = ends + one("approved", kinds) + one("accepted", kinds) + one("expired", kinds)
         /\ answers' = answers + one("accepted", kinds) + one("declined", kinds)
         /\ events'["edited"] = events["edited"] + one("edited", kinds)
         /\ events'["returned"] = events["returned"] + one("returned", kinds)
         /\ submissions \in Nat /\ refusals \in Nat /\ ends \in Nat /\ answers \in Nat
         /\ events["edited"] \in Nat /\ events["returned"] \in Nat
<1>1. ASSUME NEW k \in Kinds
      PROVE  events[k] \in Nat /\ events'[k] = events[k] + one(k, kinds) /\ one(k, kinds) \in Nat
  BY DEF Happen, one
<1> HIDE DEF one
<1>2. /\ "submitted" \in Kinds /\ "resubmitted" \in Kinds /\ "rejected" \in Kinds
      /\ "declined" \in Kinds /\ "approved" \in Kinds /\ "accepted" \in Kinds
      /\ "expired" \in Kinds /\ "edited" \in Kinds /\ "returned" \in Kinds
  BY DEF Kinds
<1>3. submissions' = submissions + one("submitted", kinds) + one("resubmitted", kinds) /\ submissions \in Nat
  BY <1>1, <1>2 DEF submissions
<1>4. refusals' = refusals + one("rejected", kinds) + one("declined", kinds) /\ refusals \in Nat
  BY <1>1, <1>2 DEF refusals
<1>5. answers' = answers + one("accepted", kinds) + one("declined", kinds) /\ answers \in Nat
  BY <1>1, <1>2 DEF answers
<1>6. ends' = ends + one("approved", kinds) + one("accepted", kinds) + one("expired", kinds) /\ ends \in Nat
  BY <1>1, <1>2 DEF ends
<1> QED
  BY <1>1, <1>2, <1>3, <1>4, <1>5, <1>6

\* A commit writes one event for the state it leaves, and one more for an
\* edit: the account is kept when the state it found is one that event may
\* follow.
LEMMA AccountStep ==
  ASSUME IInv, Account, [Next]_vars
  PROVE  Account'
<1>1. events \in [Kinds -> Nat] /\ \A h \in Handlers : Sound(h) /\ handler[h] \in Doing
  BY DEF IInv, TypeOK
<1>2. req \in [state : States, send : Send \union {None}, left : 0..DecisionTime]
  BY DEF IInv, TypeOK
<1>5. CASE req'.state = req.state /\ events' = events
  BY <1>5 DEF Account, submissions, refusals, ends, answers, undecided
<1>6. ASSUME NEW h \in Handlers, CommitApprove(h)
      PROVE  Account'
  <2>1. req.state = "pending" /\ req'.state = "approved"
    BY <1>1, <1>2, <1>6 DEF CommitApprove, Sound, From
  <2>2. PICK kinds : /\ kinds = {"approved"} \union IF Edited(h) THEN {"edited"} ELSE {}
                     /\ Happen(kinds)
    BY <1>6 DEF CommitApprove
  <2>3. "approved" \in kinds /\ kinds \subseteq {"approved", "edited"}
    BY <2>2
  <2> QED
    BY <1>1, <2>1, <2>2, <2>3, HappenCounts DEF Account, undecided, one
<1>7. ASSUME NEW h \in Handlers, CommitAccept(h)
      PROVE  Account'
  <2>1. req.state = "returned" /\ req'.state = "approved" /\ Happen({"accepted"})
    BY <1>1, <1>2, <1>7 DEF CommitAccept, Sound, From
  <2> QED
    BY <1>1, <2>1, HappenCounts DEF Account, undecided, one
<1>8. ASSUME NEW h \in Handlers, CommitReturn(h)
      PROVE  Account'
  <2>1. req.state = "pending" /\ req'.state = "returned" /\ Happen({"edited", "returned"})
    BY <1>1, <1>2, <1>8 DEF CommitReturn, Sound, From
  <2> QED
    BY <1>1, <2>1, HappenCounts DEF Account, undecided, one
<1>9. ASSUME NEW h \in Handlers, CommitReject(h)
      PROVE  Account'
  <2>1. req.state = "pending" /\ req'.state = "rejected" /\ Happen({"rejected"})
    BY <1>1, <1>2, <1>9 DEF CommitReject, Sound, From
  <2> QED
    BY <1>1, <2>1, HappenCounts DEF Account, undecided, one
<1>10. ASSUME NEW h \in Handlers, CommitDecline(h)
       PROVE  Account'
  <2>1. req.state = "returned" /\ req'.state = "declined" /\ Happen({"declined"})
    BY <1>1, <1>2, <1>10 DEF CommitDecline, Sound, From
  <2> QED
    BY <1>1, <2>1, HappenCounts DEF Account, undecided, one
<1>11. ASSUME NEW h \in Handlers, CommitSubmit(h)
       PROVE  Account'
  <2>1. req.state = "none" /\ req'.state = "pending" /\ Happen({"submitted"})
    BY <1>1, <1>2, <1>11 DEF CommitSubmit, Sound, AsFilledIn
  <2> QED
    BY <1>1, <2>1, HappenCounts DEF Account, undecided, one
<1>12. ASSUME NEW h \in Handlers, CommitResubmit(h)
       PROVE  Account'
  <2>1. req.state \in {"rejected", "declined"} /\ req'.state = "pending" /\ Happen({"resubmitted"})
    BY <1>1, <1>2, <1>12 DEF CommitResubmit, Sound, From, AsFilledIn
  <2> QED
    BY <1>1, <2>1, HappenCounts DEF Account, undecided, one
<1>13. ASSUME NEW h \in Handlers, CommitExpire(h)
       PROVE  Account'
  <2>1. undecided /\ req'.state = "expired" /\ Happen({"expired"})
    BY <1>1, <1>2, <1>13 DEF CommitExpire, Sound, Overdue
  <2> QED
    BY <1>1, <2>1, HappenCounts DEF Account, undecided, one
<1>14. ASSUME NEW h \in Handlers, Begin(h) \/ LockDue(h) \/ Lock(h) \/ Refused(h) \/ Queue(h) \/ Fail(h)
       PROVE  req' = req /\ events' = events
  BY <1>14 DEF Begin, BeginSubmit, BeginResubmit, BeginSending, BeginOther, LockDue, Lock,
               Refused, Queue, Fail
<1>15. ASSUME Publish \/ Archive \/ (\E list \in Lists : ArchiveList(list)) \/ Tick \/ UNCHANGED vars
       PROVE  req'.state = req.state /\ events' = events
  BY <1>2, <1>15 DEF Publish, Archive, ArchiveList, Tick, vars
<1>16. CASE \E h \in Handlers : Begin(h) \/ LockDue(h) \/ GoesOn(h)
  BY <1>5, <1>6, <1>7, <1>8, <1>9, <1>10, <1>11, <1>12, <1>13, <1>14, <1>16 DEF GoesOn, Commit
<1> QED
  BY <1>5, <1>15, <1>16 DEF Next

\* Whoever raced to decide it, a request's history accounts for the state it
\* is in (decide, RecordMailApprovalEvent).
THEOREM HistoryKept == Spec => []HistoryAgrees
<1>1. Init => Account
  BY AccountInit
<1>2. IInv /\ Account /\ [Next]_vars => Account'
  BY AccountStep
<1>3. IInv /\ Account => HistoryAgrees
  BY AccountAgrees DEF IInv
<1> QED
  BY <1>1, <1>2, <1>3, InvariantHolds, PTL DEF Spec
=============================================================================
