---------------------------- MODULE BesideQueue ----------------------------
(* What stands beside the queue and shares no row of its own with the rest: *)
(* the ways another service's matter becomes a send (a News record mailed   *)
(* to an audience core names, a Forms source sent to or submitted, a        *)
(* notification of core's), the template a send is rendered from, and the   *)
(* token it goes out with. One behaviour follows one of them.               *)
EXTENDS NewsSends, FormSources, Notifications, TemplateStore, TokenSource

VARIABLE part   \* what is followed

Init ==
  /\ part \in {"news", "tests", "forms", "notifications", "template", "tokens"}
  /\ NewsInit /\ TestInit /\ FormInit /\ NoteInit /\ TokenInit
  /\ part # "tokens" => scope = "graph"
  /\ IF part = "template" THEN TemplateInit ELSE TemplateAbsent

Next ==
  /\ UNCHANGED part
  /\ \/ part = "news" /\ NewsNext /\ UNCHANGED <<testVars, formVars, noteVars, templateVars, tokenVars>>
     \/ part = "tests" /\ TestNext /\ UNCHANGED <<newsVars, formVars, noteVars, templateVars, tokenVars>>
     \/ part = "forms" /\ FormNext /\ UNCHANGED <<newsVars, testVars, noteVars, templateVars, tokenVars>>
     \/ part = "notifications" /\ NoteNext /\ UNCHANGED <<newsVars, testVars, formVars, templateVars, tokenVars>>
     \/ part = "template" /\ TemplateNext /\ UNCHANGED <<newsVars, testVars, formVars, noteVars, tokenVars>>
     \/ part = "tokens" /\ TokenNext /\ UNCHANGED <<newsVars, testVars, formVars, noteVars, templateVars>>

Spec == Init /\ [][Next]_<<part, newsVars, testVars, formVars, noteVars, templateVars, tokenVars>>
=============================================================================
