---------------------------- MODULE MailApproval ----------------------------
(***************************************************************************)
(* One request for approval of a send: submitted, decided by approvers and *)
(* by its submitter, or expired, while several handlers and sweeps act on  *)
(* it at once and operators publish and archive what it would send.        *)
(*                                                                         *)
(* An action reads what it needs before it takes the request's row lock    *)
(* (a Keycloak group's members, a resubmission's checks), takes the lock   *)
(* without waiting, and in that transaction checks the deadline and the    *)
(* state, share-locks the template and the list, queues the send and       *)
(* writes the decision.  The mail that tells people about it is queued     *)
(* after the commit, changes nothing here and is left out.                 *)
(*                                                                         *)
(* Who may act is settled before anything here and left out; a failure of  *)
(* any check not named here is a transaction that ends without effect      *)
(* (Fail).  A Forms source, which a request cannot change, is left out.    *)
(***************************************************************************)
EXTENDS Naturals, Sequences

CONSTANTS
  Handlers,     \* requests being served, and sweeps
  Contents,     \* values of the body variables
  Lists,        \* internal lists
  Groups,       \* Keycloak groups
  None,
  DecisionTime, \* mailApprovalDeadline, in ticks
  MaxVersion,   \* bound: versions published
  MaxResubmits  \* bound

ASSUME ApprovalAssumption ==
  /\ None \notin Contents \union Groups \union Lists
  /\ None \notin [content : Contents, audience : Lists \union Groups, version : 1..MaxVersion]
  /\ Lists \intersect Groups = {}
  /\ DecisionTime \in Nat \ {0} /\ MaxVersion \in Nat \ {0} /\ MaxResubmits \in Nat

VARIABLES
  req,       \* the request's row
  template,  \* its template: the version published now, and whether archived
  archived,  \* internal lists archived
  handler,   \* what each handler does
  mails,     \* the sends queued for the request, in order
  events,    \* its history: how many events of each kind
  vetted     \* history: the request as the approver who last decided on it had it

vars == <<req, template, archived, handler, mails, events, vetted>>

-----------------------------------------------------------------------------
States == {"none", "pending", "returned", "approved", "rejected", "declined", "expired"}
Kinds == {"submitted", "edited", "approved", "returned", "rejected", "accepted",
          "declined", "resubmitted", "expired"}
Versions == 1..MaxVersion
Audiences == Lists \union Groups
Ops == {"none", "submit", "approve", "return", "reject", "accept", "decline", "resubmit", "sweep"}

\* What a request would send: its values, its audience and the template
\* version it is pinned to.
Send == [content : Contents, audience : Audiences, version : Versions]

\* What a handler is doing: how far it is with which action, what it was
\* given, and what it read before the lock.
Doing == [pc : {"idle", "ready", "do", "queued", "expire"}, op : Ops,
          content : Contents \union {None}, audience : Audiences \union {None},
          version : Versions \union {0}]
Resting == [pc |-> "idle", op |-> "none", content |-> None, audience |-> None,
            version |-> 0]

TypeOK ==
  /\ req \in [state : States, send : Send \union {None}, left : 0..DecisionTime]
  /\ req.send = None <=> req.state = "none"
  /\ template \in [version : Versions, archived : BOOLEAN]
  /\ archived \in SUBSET Lists
  /\ handler \in [Handlers -> Doing]
  /\ mails \in Seq(Send)
  /\ events \in [Kinds -> Nat]
  /\ vetted \in Send \union {None}

-----------------------------------------------------------------------------
undecided == req.state \in {"pending", "returned"}
Overdue == undecided /\ req.left = 0

\* The states an action applies to.
From(op) ==
  {s \in States : \/ s = "pending" /\ op \in {"approve", "return", "reject"}
                  \/ s = "returned" /\ op \in {"accept", "decline"}
                  \/ s \in {"rejected", "declined"} /\ op = "resubmit"}
Sends(op) == op \in {"approve", "accept"}

\* The request's row lock, and the share locks of its template and its list.
Locking(h) == handler[h].pc \in {"do", "queued", "expire"} /\ handler[h].op # "submit"
Locked == \E h \in Handlers : Locking(h)
ShareLocked == \E h \in Handlers : handler[h].pc = "queued"

\* An approver's edit of the values, when there is one that differs.
Edited(h) == handler[h].content # None /\ handler[h].content # req.send.content
WithContent(send, content) == [send EXCEPT !.content = content]
AsEdited(h) == IF Edited(h) THEN WithContent(req.send, handler[h].content) ELSE req.send

\* The request, decided: its state, its deadline as it was.
Decided(state) == [req EXCEPT !.state = state]

Begins(h, op, content, audience, version) ==
  handler' = [handler EXCEPT ![h] = [pc |-> "ready", op |-> op, content |-> content,
                                     audience |-> audience, version |-> version]]
Goes(h, pc) == handler' = [handler EXCEPT ![h].pc = pc]
Ends(h) == handler' = [handler EXCEPT ![h] = Resting]

Happen(kinds) == events' = [k \in Kinds |-> IF k \in kinds THEN events[k] + 1 ELSE events[k]]

Init ==
  /\ req = [state |-> "none", send |-> None, left |-> 0]
  /\ template \in [version : {1}, archived : BOOLEAN]
  /\ archived \in SUBSET Lists
  /\ handler = [h \in Handlers |-> Resting]
  /\ mails = <<>>
  /\ events = [k \in Kinds |-> 0]
  /\ vetted = None

-----------------------------------------------------------------------------
\* Before the lock.

\* checkSend: what would be sent is there, and is pinned to the version
\* published now.
CheckSend(h, op, content, audience) ==
  /\ ~template.archived /\ audience \notin archived
  /\ Begins(h, op, content, audience, template.version)

BeginSubmit(h) ==
  /\ handler[h].pc = "idle" /\ req.state = "none"
  /\ \A g \in Handlers : handler[g].op # "submit"
  /\ \E content \in Contents, audience \in Audiences : CheckSend(h, "submit", content, audience)
  /\ UNCHANGED <<req, template, archived, mails, events, vetted>>

BeginResubmit(h) ==
  /\ handler[h].pc = "idle" /\ req.state # "none"
  /\ events["resubmitted"] < MaxResubmits
  /\ \E content \in Contents, audience \in Audiences : CheckSend(h, "resubmit", content, audience)
  /\ UNCHANGED <<req, template, archived, mails, events, vetted>>

\* A sending action asks Keycloak for the members of the group it sees.
GroupSeen == IF req.send.audience \in Groups THEN req.send.audience ELSE None
BeginSending(h, op) ==
  /\ handler[h].pc = "idle" /\ req.state # "none"
  /\ Sends(op)
  /\ \E content \in IF op = "approve" THEN Contents \union {None} ELSE {None} :
       Begins(h, op, content, GroupSeen, 0)
  /\ UNCHANGED <<req, template, archived, mails, events, vetted>>

BeginOther(h, op) ==
  /\ handler[h].pc = "idle" /\ req.state # "none"
  /\ op \in {"return", "reject", "decline"}
  /\ \E content \in IF op = "return" THEN Contents ELSE {None} : Begins(h, op, content, None, 0)
  /\ UNCHANGED <<req, template, archived, mails, events, vetted>>

-----------------------------------------------------------------------------
\* Under the request's row lock.

Lock_StateFirst(h) ==
  /\ handler[h].pc = "ready" /\ handler[h].op # "submit" /\ ~Locked
  /\ \/ req.state \in From(handler[h].op) /\ Goes(h, "do")
     \/ Overdue /\ req.state \notin From(handler[h].op) /\ Goes(h, "expire")
  /\ UNCHANGED <<req, template, archived, mails, events, vetted>>
Lock_ReadsOnly(h) ==
  /\ handler[h].pc = "ready" /\ handler[h].op # "submit"
  /\ \/ Overdue /\ Goes(h, "expire")
     \/ ~Overdue /\ req.state \in From(handler[h].op) /\ Goes(h, "do")
  /\ UNCHANGED <<req, template, archived, mails, events, vetted>>
\* LockMailApproval: a request past its deadline is expired, whatever the
\* action, before its state is looked at.
Lock(h) ==
  /\ handler[h].pc = "ready" /\ handler[h].op # "submit" /\ ~Locked
  /\ \/ Overdue /\ Goes(h, "expire")
     \/ ~Overdue /\ req.state \in From(handler[h].op) /\ Goes(h, "do")
  /\ UNCHANGED <<req, template, archived, mails, events, vetted>>

\* Someone else holds the lock, the state is not one the action applies to,
\* or (approving again) the request is already what the action would make it.
Refused(h) ==
  /\ handler[h].pc = "ready" /\ handler[h].op # "submit"
  /\ Locked \/ (~Overdue /\ req.state \notin From(handler[h].op))
  /\ Ends(h)
  /\ UNCHANGED <<req, template, archived, mails, events, vetted>>

LockDue_PendingOnly(h) ==
  /\ handler[h].pc = "idle" /\ Overdue /\ req.state = "pending" /\ ~Locked
  /\ handler' = [handler EXCEPT ![h].pc = "expire", ![h].op = "sweep"]
  /\ UNCHANGED <<req, template, archived, mails, events, vetted>>
\* The sweep takes a request that no one is deciding (LockDueMailApproval).
LockDue(h) ==
  /\ handler[h].pc = "idle" /\ Overdue /\ ~Locked
  /\ handler' = [handler EXCEPT ![h].pc = "expire", ![h].op = "sweep"]
  /\ UNCHANGED <<req, template, archived, mails, events, vetted>>

\* What is to be sent, checked under share locks: the template is in use and
\* publishes the version the request is pinned to; the list is in use; a
\* group is the one whose members were asked for.
Queue(h) ==
  /\ handler[h].pc = "do" /\ Sends(handler[h].op)
  /\ ~template.archived /\ template.version = req.send.version
  /\ req.send.audience \notin archived
  /\ req.send.audience \in Groups => handler[h].audience = req.send.audience
  /\ Goes(h, "queued")
  /\ UNCHANGED <<req, template, archived, mails, events, vetted>>

\* The mail as the mailer queues it: of the template as it is, to the list or
\* to the members asked for.
Queued(h) == [content |-> AsEdited(h).content,
              audience |-> IF req.send.audience \in Groups THEN handler[h].audience
                           ELSE req.send.audience,
              version |-> template.version]

CommitApprove(h) ==
  /\ handler[h].pc = "queued" /\ handler[h].op = "approve"
  /\ req' = [Decided("approved") EXCEPT !.send = AsEdited(h)]
  /\ mails' = Append(mails, Queued(h))
  /\ vetted' = AsEdited(h)
  /\ Happen({"approved"} \union IF Edited(h) THEN {"edited"} ELSE {})
  /\ Ends(h)
  /\ UNCHANGED <<template, archived>>

CommitAccept(h) ==
  /\ handler[h].pc = "queued" /\ handler[h].op = "accept"
  /\ req' = Decided("approved")
  /\ mails' = Append(mails, Queued(h))
  /\ Happen({"accepted"})
  /\ Ends(h)
  /\ UNCHANGED <<template, archived, vetted>>

\* A return needs an edit, and gives the submitter a deadline of their own.
CommitReturn(h) ==
  /\ handler[h].pc = "do" /\ handler[h].op = "return" /\ Edited(h)
  /\ req' = [state |-> "returned", send |-> AsEdited(h), left |-> DecisionTime]
  /\ vetted' = AsEdited(h)
  /\ Happen({"edited", "returned"})
  /\ Ends(h)
  /\ UNCHANGED <<template, archived, mails>>

CommitReject(h) ==
  /\ handler[h].pc = "do" /\ handler[h].op = "reject"
  /\ req' = Decided("rejected")
  /\ Happen({"rejected"})
  /\ Ends(h)
  /\ UNCHANGED <<template, archived, mails, vetted>>

CommitDecline(h) ==
  /\ handler[h].pc = "do" /\ handler[h].op = "decline"
  /\ req' = Decided("declined")
  /\ Happen({"declined"})
  /\ Ends(h)
  /\ UNCHANGED <<template, archived, mails, vetted>>

AsFilledIn(h) == [state |-> "pending", left |-> DecisionTime,
                  send |-> [content |-> handler[h].content, audience |-> handler[h].audience,
                            version |-> handler[h].version]]

CommitSubmit(h) ==
  /\ handler[h].pc = "ready" /\ handler[h].op = "submit"
  /\ req' = AsFilledIn(h)
  /\ Happen({"submitted"})
  /\ Ends(h)
  /\ UNCHANGED <<template, archived, mails, vetted>>

CommitResubmit(h) ==
  /\ handler[h].pc = "do" /\ handler[h].op = "resubmit"
  /\ req' = AsFilledIn(h)
  /\ Happen({"resubmitted"})
  /\ Ends(h)
  /\ UNCHANGED <<template, archived, mails, vetted>>

CommitExpire(h) ==
  /\ handler[h].pc = "expire"
  /\ req' = Decided("expired")
  /\ Happen({"expired"})
  /\ Ends(h)
  /\ UNCHANGED <<template, archived, mails, vetted>>

\* A check fails, the process dies, or the client is gone: what was not
\* committed did not happen.
Fail(h) ==
  /\ handler[h].pc # "idle"
  /\ Ends(h)
  /\ UNCHANGED <<req, template, archived, mails, events, vetted>>

-----------------------------------------------------------------------------
\* The operators' screens: publishing and archiving wait for the share locks.

Publish_NotWaiting ==
  /\ ~template.archived /\ template.version < MaxVersion
  /\ template' = [template EXCEPT !.version = @ + 1]
  /\ UNCHANGED <<req, archived, handler, mails, events, vetted>>
Publish ==
  /\ ~ShareLocked
  /\ ~template.archived /\ template.version < MaxVersion
  /\ template' = [template EXCEPT !.version = @ + 1]
  /\ UNCHANGED <<req, archived, handler, mails, events, vetted>>

Archive ==
  /\ ~ShareLocked
  /\ template' = [template EXCEPT !.archived = ~@]
  /\ UNCHANGED <<req, archived, handler, mails, events, vetted>>

ArchiveList(list) ==
  /\ ShareLocked => req.send.audience # list
  /\ archived' = IF list \in archived THEN archived \ {list} ELSE archived \union {list}
  /\ UNCHANGED <<req, template, handler, mails, events, vetted>>

Tick ==
  /\ req.left > 0
  /\ req' = [req EXCEPT !.left = @ - 1]
  /\ UNCHANGED <<template, archived, handler, mails, events, vetted>>

-----------------------------------------------------------------------------
Begin(h) ==
  \/ BeginSubmit(h) \/ BeginResubmit(h)
  \/ \E op \in Ops : BeginSending(h, op) \/ BeginOther(h, op)

Commit(h) ==
  \/ CommitSubmit(h) \/ CommitApprove(h) \/ CommitAccept(h) \/ CommitReturn(h)
  \/ CommitReject(h) \/ CommitDecline(h) \/ CommitResubmit(h) \/ CommitExpire(h)

GoesOn(h) == Lock(h) \/ Refused(h) \/ Queue(h) \/ Commit(h) \/ Fail(h)

Next ==
  \/ \E h \in Handlers : Begin(h) \/ LockDue(h) \/ GoesOn(h)
  \/ Publish \/ Archive \/ (\E list \in Lists : ArchiveList(list)) \/ Tick

Spec == Init /\ [][Next]_vars

\* Time passes, a handler that began goes on to an end, and the sweep comes
\* again and again, once in a while when no one is deciding, and does not
\* fail for ever.
Fairness ==
  /\ WF_vars(Tick)
  /\ \A h \in Handlers : WF_vars(GoesOn(h)) /\ SF_vars(LockDue(h)) /\ SF_vars(CommitExpire(h))

FairSpec == Spec /\ Fairness

-----------------------------------------------------------------------------
(* Properties *)

\* What goes out is the request as the approver's last decision left it,
\* however many handlers act at once: its values (also when the submitter
\* accepts an edit much later), of the version it was pinned to and not one
\* published in between, to the audience of the request and not of an earlier
\* filling in.  It goes out once, when and only when the request is approved
\* (send, queue: "they exist only if the decision commits, all or none").
GoesOnceAsDecided ==
  mails = IF req.state = "approved" THEN <<vetted>> ELSE <<>>

\* Once a request's deadline passed with no one deciding it, the only way on
\* is its expiry: no decision begins on it, and nothing gives it time again
\* or takes it out of the sweep's sight.  And no request expires before its
\* deadline, a returned one's being the submitter's own (act, expireLocked,
\* LockDueMailApproval).
Deciding == \E h \in Handlers : Locking(h) /\ handler[h].pc # "expire"
DeadlineHolds ==
  [][/\ (Overdue /\ ~Deciding) => (Overdue /\ ~Deciding)' \/ req'.state = "expired"
     /\ (req.state # "expired" /\ req'.state = "expired") => Overdue]_vars

\* The request's history accounts for its state: a request is in the state
\* its last submission and the decisions on it leave it in, whoever raced to
\* decide it; it expires once at most and is answered once per submission
\* (RecordMailApprovalEvent).
HistoryAgrees ==
  LET submissions == events["submitted"] + events["resubmitted"]
      refusals == events["rejected"] + events["declined"]
      ends == events["approved"] + events["accepted"] + events["expired"] IN
  /\ undecided <=> submissions = refusals + ends + 1
  /\ req.state \in {"rejected", "declined"} => submissions = refusals
  /\ ends = IF req.state \in {"approved", "expired"} THEN 1 ELSE 0
  /\ events["edited"] >= events["returned"]
  /\ events["accepted"] + events["declined"] <= events["returned"]

\* Nobody's request waits for ever: it is decided, or it expires, though
\* handlers and sweeps fail on the way (ExpireDue).
EveryRequestEnds == undecided ~> ~undecided
=============================================================================
