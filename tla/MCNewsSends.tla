----------------------------- MODULE MCNewsSends -----------------------------
(* A small instance of NewsSends alone, for the erasure of two people one   *)
(* send of a record went to; nobody sends test mails.                       *)
EXTENDS NewsSends, TLC

CONSTANTS n1, p1, p2, a1
OnePost == {n1}
ItsAudience == n1 :> a1
TwoPeople == {p1, p2}
Both == {{p1, p2}}
NoTests == {}

MCSpec ==
  /\ NewsInit /\ TestInit
  /\ [][NewsNext /\ UNCHANGED testVars]_<<newsVars, testVars>>
  /\ NewsFairness
=============================================================================
