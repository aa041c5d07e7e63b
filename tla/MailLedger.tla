----------------------------- MODULE MailLedger -----------------------------
(***************************************************************************)
(* What the mail queue promises, with no process, lease or retry in it: a  *)
(* queued mail reaches the relay, is known to have reached it or is given  *)
(* up, and from then on is never sent again.  A copy beyond the first goes *)
(* out only after one the queue could not learn of.                        *)
(***************************************************************************)
EXTENDS Naturals

CONSTANT Rows

VARIABLES state,    \* of each mail
          copies,   \* how often the relay took it
          unknown   \* how many of those the queue never learned of

ledgerVars == <<state, copies, unknown>>

Init ==
  /\ state \in [Rows -> {"absent", "queued"}]
  /\ copies = [r \in Rows |-> 0]
  /\ unknown = [r \in Rows |-> 0]

Accept(r) ==
  /\ state[r] = "absent"
  /\ state' = [state EXCEPT ![r] = "queued"]
  /\ UNCHANGED <<copies, unknown>>

\* The relay takes the mail: no copy is out but those no one knows of.
Deliver(r) ==
  /\ state[r] = "queued" /\ copies[r] = unknown[r]
  /\ copies' = [copies EXCEPT ![r] = @ + 1]
  /\ UNCHANGED <<state, unknown>>

DeliverUnknown(r) ==
  /\ state[r] = "queued" /\ copies[r] = unknown[r]
  /\ copies' = [copies EXCEPT ![r] = @ + 1]
  /\ unknown' = [unknown EXCEPT ![r] = @ + 1]
  /\ UNCHANGED state

\* Copies that were about to be known are not any more: the process that had
\* them is gone.
Forget(S) ==
  /\ S # {}
  /\ \A r \in S : state[r] = "queued" /\ copies[r] = unknown[r] + 1
  /\ unknown' = [r \in Rows |-> IF r \in S THEN unknown[r] + 1 ELSE unknown[r]]
  /\ UNCHANGED <<state, copies>>

Confirm(r) ==
  /\ state[r] = "queued" /\ copies[r] = unknown[r] + 1
  /\ state' = [state EXCEPT ![r] = "sent"]
  /\ UNCHANGED <<copies, unknown>>

GiveUp(r) ==
  /\ state[r] = "queued" /\ copies[r] = unknown[r]
  /\ state' = [state EXCEPT ![r] = "failed"]
  /\ UNCHANGED <<copies, unknown>>

Next ==
  \/ \E r \in Rows : \/ Accept(r) \/ Deliver(r) \/ DeliverUnknown(r)
                     \/ Confirm(r) \/ GiveUp(r)
  \/ \E S \in SUBSET Rows : Forget(S)

Spec == Init /\ [][Next]_ledgerVars
=============================================================================
