--------------------------- MODULE MCMailApproval ---------------------------
(* Instances of MailApproval for TLC. *)
EXTENDS MailApproval

CONSTANTS h1, h2, c1, c2, list, g1

TwoHandlers == {h1, h2}
TwoContents == {c1, c2}
OneList == {list}
OneGroup == {g1}

\* Bound on the inputs: a request is filled in with the first value (approvers
\* edit it to the other and back), and a second time for the group; the
\* template and the list change while the request, or a handler, is about them.
Filled == \A h \in Handlers :
  handler[h].op \in {"submit", "resubmit"} =>
    /\ handler[h].content = c1
    /\ handler[h].op = "resubmit" => handler[h].audience = g1
ListMatters == req.state = "none" \/ req.send.audience = list
TemplateMatters ==
  req.state = "none" \/ undecided \/ (req.state \in {"rejected", "declined"} /\ events["resubmitted"] < MaxResubmits)
MCSpec ==
  /\ Init
  /\ [][Next /\ Filled' /\ ((TemplateMatters /\ ListMatters) \/ UNCHANGED archived)
             /\ (TemplateMatters \/ UNCHANGED template)]_vars
  /\ Fairness
=============================================================================
