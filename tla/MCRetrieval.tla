----------------------------- MODULE MCRetrieval -----------------------------
(***************************************************************************)
(* A bounded instance of Retrieval.  The second shape, first by its        *)
(* vector, and the third, first by its words, have one score.              *)
(***************************************************************************)
EXTENDS Retrieval

CONSTANTS asked, other

S(live, matches, mentions, subject, base, at) ==
  [live |-> live, matches |-> matches, mentions |-> mentions,
   exact |-> subject = asked, episode |-> FALSE, subject |-> subject,
   base |-> base, at |-> at]

MCShapes ==
  {S(TRUE, TRUE, TRUE, asked, 5000, 2), S(TRUE, FALSE, FALSE, NoSubject, 12000, 1),
   S(TRUE, TRUE, FALSE, other, 5000, 1), S(FALSE, TRUE, TRUE, asked, 5000, 2)}
=============================================================================
