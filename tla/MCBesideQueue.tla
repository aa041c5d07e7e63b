---------------------------- MODULE MCBesideQueue ----------------------------
(* Small instances of BesideQueue for TLC.                                  *)
EXTENDS BesideQueue, TLC

\* The ways of a send.
CONSTANTS n1, n2, n3, p1, p2, a1, a2
TwoCalls == {n1, n2}
ThreePosts == {n1, n2, n3}
SameAgain == n1 :> a1 @@ n2 :> a2 @@ n3 :> a1
TwoPeople == {p1, p2}
OnePerson == {p1}
TwoAudiences == {a1, a2}
Reached == {{p1}}

\* The template.
CONSTANTS o1, s1, b1, b2, t1, x
OneOperator == {o1}
OneSeed == {s1}
TwoBodies == {b1, b2}
OneSubject == {t1}
OneVar == {x}
\* Only b2 references the variable.
SomeRefs == (b1 :> {}) @@ (b2 :> {x})

FewContents ==
  {[subject |-> t1, main |-> "jsx", body |-> b1], [subject |-> t1, main |-> "html", body |-> b2]}
\* The old panel keeps the key, or takes it away.
FewEdits ==
  {[subject |-> t1, body |-> b2, jsx |-> TRUE, keyed |-> TRUE],
   [subject |-> t1, body |-> b2, jsx |-> FALSE, keyed |-> FALSE]}
\* A seed that declares a contract and sets the system mark, and one that sends
\* neither, forced and not.
FewPayloads ==
  {[subject |-> t1, body |-> IF full THEN b2 ELSE b1, jsx |-> FALSE, force |-> f /\ ~full,
    system |-> full, role |-> full, contract |-> {x}, sent |-> full, sensitive |-> "unset"] :
     full, f \in BOOLEAN}

\* The token: one not even minLeft outlasts, and one to be refreshed.
CONSTANTS w1, w2, w3
ThreeWorkers == {w1, w2, w3}
ShortAndLong == {1, 5}
=============================================================================
