---------------------------- MODULE FormSources ----------------------------
(* A prepared Forms audience (internal/handlers/form_mail_source.go). Forms *)
(* prepares a source: a fixed set of respondents and a time by which its    *)
(* owner must use it. The owner's calls send to it, or ask for a send to be *)
(* approved; each locks the source's row without waiting, and the first     *)
(* that goes through consumes it. The same call again is answered with what *)
(* the first one made. A request is decided under the same lock. The sweep  *)
(* deletes what nobody used in time. Account erasure of the owner or of a   *)
(* respondent invalidates the source at once, and takes the person out of   *)
(* it once none of their mail is on its way.                                *)
EXTENDS Naturals

CONSTANTS
  Calls,        \* the owner's calls of POST form-source and of Submit
  Payloads,     \* formSourceRequestHash of their bodies
  Respondents,  \* the addresses Forms may prepare
  Owner,        \* the person the source is prepared for
  NoOne,        \* no call
  Lifetime,     \* formSourceLifetime, in ticks
  MaxHour       \* bound: the clock stops here

ASSUME FormAssumption ==
  /\ NoOne \notin Calls /\ Owner \notin Respondents /\ Payloads # {}
  /\ Lifetime \in Nat \ {0} /\ MaxHour \in Nat /\ Lifetime <= MaxHour

VARIABLES
  source,   \* the row of mail_form_sources and its recipients
  call,     \* each call: where it is, what it asks for and its answer
  queued,   \* whom the send each call led to was queued to, {} when none
  request,  \* the approval asked for: none, or its state, or being decided
  leaver,   \* the person being erased: nobody, asked or erased
  hour

formVars == <<source, call, queued, request, leaver, hour>>

Kinds == {"direct", "approval"}
Answers == {"none", "busy", "not_found", "changed", "consumed", "expired", "refused", "error", "ok"}

AnyPayload == CHOOSE p \in Payloads: TRUE   \* until the call comes

FormTypeOK ==
  /\ source \in [state: {"none", "prepared", "deleted"}, owned: BOOLEAN,
                 prepared: SUBSET Respondents, people: SUBSET Respondents, expires: Nat,
                 invalid: BOOLEAN, by: Calls \cup {NoOne}]
  /\ call \in [Calls -> [at: {"idle", "received", "locked", "done"}, kind: Kinds, payload: Payloads,
                         answer: Answers, target: Calls \cup {NoOne}]]
  /\ queued \in [Calls -> SUBSET Respondents]
  /\ request \in {"none", "pending", "deciding", "approved", "rejected", "expired"}
  /\ leaver \in [who: Respondents \cup {Owner}, at: {"kept", "asked", "erased"}]
  /\ hour \in Nat

FormInit ==
  /\ source = [state |-> "none", owned |-> TRUE, prepared |-> {}, people |-> {},
               expires |-> 0, invalid |-> FALSE, by |-> NoOne]
  /\ call = [c \in Calls |-> [at |-> "idle", kind |-> "direct", payload |-> AnyPayload,
                              answer |-> "none", target |-> NoOne]]
  /\ queued = [c \in Calls |-> {}]
  /\ request = "none"
  /\ leaver = [who |-> Owner, at |-> "kept"]
  /\ hour = 0

Exists == source.state = "prepared"
Owned == Exists /\ source.owned
Consumed == source.by # NoOne
Expired == hour >= source.expires
IsLocked == request = "deciding" \/ \E c \in Calls: call[c].at = "locked"

\* An audience Forms may prepare: people, each once, not too many.
Valid(to) == to # {}

CreateMailFormSource(to) ==
  source' = [source EXCEPT !.state = "prepared", !.prepared = to, !.people = to, !.expires = hour + Lifetime]

\* CreateFormSource, one transaction.
PrepareSource ==
  /\ source.state = "none"
  /\ \E to \in SUBSET Respondents: Valid(to) /\ CreateMailFormSource(to)
  /\ UNCHANGED <<call, queued, request, leaver, hour>>

-----------------------------------------------------------------------------
(* A call of SendFormSource or submitFormSource.                            *)

ReceiveCall(c) ==
  /\ call[c].at = "idle" /\ source.state # "none"
  /\ \E kind \in Kinds, payload \in Payloads:
       call' = [call EXCEPT ![c].at = "received", ![c].kind = kind, ![c].payload = payload]
  /\ UNCHANGED <<source, queued, request, leaver, hour>>

Answered(c, answer, target) ==
  call' = [call EXCEPT ![c].at = "done", ![c].answer = answer, ![c].target = target]

\* LockOwnedMailFormSource: FOR UPDATE NOWAIT.
LockSource(c) ==
  /\ call[c].at = "received"
  /\ \/ ~Owned /\ Answered(c, "not_found", NoOne)
     \/ Owned /\ IsLocked /\ Answered(c, "busy", NoOne)
     \/ Owned /\ ~IsLocked /\ call' = [call EXCEPT ![c].at = "locked"]
  /\ UNCHANGED <<source, queued, request, leaver, hour>>

SameAs_Body(c, d) == call[c].payload = call[d].payload
SameAs(c, d) == call[c].kind = call[d].kind /\ call[c].payload = call[d].payload

\* formSourceRetry: an exact retry before the deadline is looked at.
Retry(c) ==
  /\ call[c].at = "locked" /\ (source.invalid \/ Consumed \/ Expired)
  /\ IF ~source.invalid /\ Consumed /\ SameAs(c, source.by) THEN Answered(c, "ok", source.by)
     ELSE Answered(c, IF source.invalid THEN "changed" ELSE IF Consumed THEN "consumed" ELSE "expired", NoOne)
  /\ UNCHANGED <<source, queued, request, leaver, hour>>

\* formSourceRecipients: the snapshot's hash is of the people as prepared.
Whole_NotChecked == source.people # {}
Whole == ~source.invalid /\ source.people = source.prepared

\* The target and the source's consumption commit together; a template not
\* in use, or the database, refuses both.
Consume(c) ==
  /\ call[c].at = "locked" /\ ~source.invalid /\ ~Consumed /\ ~Expired
  /\ IF Whole
     THEN \/ /\ source' = [source EXCEPT !.by = c]
             /\ IF call[c].kind = "direct"
                THEN queued' = [queued EXCEPT ![c] = source.people] /\ UNCHANGED request
                ELSE request' = "pending" /\ UNCHANGED queued
             /\ Answered(c, "ok", c)
          \/ Answered(c, "refused", NoOne) /\ UNCHANGED <<source, queued, request>>
     ELSE Answered(c, "changed", NoOne) /\ UNCHANGED <<source, queued, request>>
  /\ UNCHANGED <<leaver, hour>>

\* The reply is lost, or the process dies before the commit.
Abort(c) ==
  /\ call[c].at = "locked"
  /\ Answered(c, "error", NoOne) /\ UNCHANGED <<source, queued, request, leaver, hour>>

-----------------------------------------------------------------------------
(* The request's decision: the source's lock, then the approval's.          *)

BeginDecision ==
  /\ request = "pending" /\ ~IsLocked
  /\ request' = "deciding" /\ UNCHANGED <<source, call, queued, leaver, hour>>

\* The approver finds the snapshot whole and queues it; or is refused, and
\* the request waits on.
Approve ==
  /\ request = "deciding"
  /\ \/ /\ Whole
        /\ request' = "approved" /\ queued' = [queued EXCEPT ![source.by] = source.people]
     \/ request' = "pending" /\ UNCHANGED queued
  /\ UNCHANGED <<source, call, leaver, hour>>

\* Rejecting looks at no snapshot.
Reject ==
  /\ request = "deciding"
  /\ request' = "rejected" /\ UNCHANGED <<source, call, queued, leaver, hour>>

\* A rejected request asks again, for the same source, while it is whole.
Resubmit ==
  /\ request = "rejected" /\ ~IsLocked /\ Whole
  /\ request' = "pending" /\ UNCHANGED <<source, call, queued, leaver, hour>>

\* The sweep, or a decision that comes too late.
ExpireRequest ==
  /\ request \in {"pending", "deciding"}
  /\ request' = "expired" /\ UNCHANGED <<source, call, queued, leaver, hour>>

-----------------------------------------------------------------------------

Unused == Exists /\ ~Consumed /\ Expired

\* DeleteExpiredMailFormSources, in the approvals' sweep: it skips a locked row.
DeleteExpiredSources ==
  /\ Unused /\ ~IsLocked
  /\ source' = [source EXCEPT !.state = "deleted"]
  /\ UNCHANGED <<call, queued, request, leaver, hour>>

AskToLeave ==
  /\ leaver.at = "kept" /\ source.state # "none"   \* before, it concerns no source
  /\ \E who \in Respondents \cup {Owner}: leaver' = [who |-> who, at |-> "asked"]
  /\ UNCHANGED <<source, call, queued, request, hour>>

Concerns == leaver.who = Owner \/ leaver.who \in source.people

\* lockAndInvalidateFormSources waits for the lock; with mail in flight the
\* call ends there and commits, else scrubFormSources follows.
EraseLeaver ==
  /\ leaver.at = "asked" /\ (Exists /\ Concerns => ~IsLocked)
  /\ \E busy \in BOOLEAN:
       /\ leaver' = IF busy THEN leaver ELSE [leaver EXCEPT !.at = "erased"]
       /\ source' = IF ~(Exists /\ Concerns) THEN source
                    ELSE IF busy THEN [source EXCEPT !.invalid = TRUE]
                    ELSE [source EXCEPT !.invalid = TRUE, !.people = @ \ {leaver.who},
                                        !.owned = @ /\ leaver.who # Owner]
  /\ UNCHANGED <<call, queued, request, hour>>

\* The clock matters from the preparation on.
HourPasses ==
  /\ source.state # "none" /\ hour < MaxHour
  /\ hour' = hour + 1 /\ UNCHANGED <<source, call, queued, request, leaver>>

FormNext ==
  \/ PrepareSource \/ BeginDecision \/ Approve \/ Reject \/ Resubmit \/ ExpireRequest \/ DeleteExpiredSources
  \/ AskToLeave \/ EraseLeaver \/ HourPasses
  \/ \E c \in Calls: ReceiveCall(c) \/ LockSource(c) \/ Retry(c) \/ Consume(c) \/ Abort(c)

FormSpec == FormInit /\ [][FormNext]_formVars

(* A source has one send or request, whoever raced for it; everyone         *)
(* answered with one asked for exactly it (form_mail_source.go, "It never   *)
(* creates another target"); and what is queued is the audience as Forms    *)
(* prepared it, though a respondent is erased between the request and its   *)
(* approval (account_erasure.go, "prevents a pending decision from quietly  *)
(* sending a smaller, different snapshot").                                 *)
OneWholeTarget ==
  \A c, d \in Calls:
    /\ queued[c] \in {{}, source.prepared}
    /\ call[c].answer = "ok" =>
         /\ LET made == call[call[c].target] IN made.kind = call[c].kind /\ made.payload = call[c].payload
         /\ call[d].answer = "ok" => call[c].target = call[d].target
=============================================================================
