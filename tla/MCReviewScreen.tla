---------------------------- MODULE MCReviewScreen ----------------------------
(* A small instance of ReviewScreen: two reviewers, one document type, two  *)
(* fields, one of whose contents does not fit its kind; f1 has two values a  *)
(* reviewer may type, f2 one.                                                *)
EXTENDS ReviewScreen, TLC

CONSTANTS r1, r2, good, typed, misfit, f1, f2, passport

MCReviewer == {r1, r2}
MCDocType == {passport}
MCField == {f1, f2}
MCFieldsFor == [t \in MCDocType |-> MCField]
MCValue == {good, typed, misfit}
MCValid == [f \in MCField |-> IF f = f1 THEN {good, typed} ELSE {good}]

\* A field as the extractor may report it: content, rating, unreadable.
High       == <<good, "high", FALSE>>
Misfit     == <<misfit, "high", FALSE>>   \* a content its kind does not allow
Low        == <<good, "low", FALSE>>
NotRated   == <<good, "unrated", FALSE>>
Smudged    == <<good, "high", TRUE>>      \* read, rated, and called unreadable
Unreadable == <<Null, "unrated", TRUE>>
Absent     == <<Null, "unrated", FALSE>>

Extract(a, b) ==
  LET read == (f1 :> a) @@ (f2 :> b) IN
  [type |-> passport, value |-> [f \in MCField |-> read[f][1]],
   rating |-> [f \in MCField |-> read[f][2]],
   unreadable |-> {f \in MCField : read[f][3]}]

MCExtractions ==
  {Extract(High, High), Extract(High, Low), Extract(Misfit, High),
   Extract(Smudged, NotRated), Extract(Unreadable, High), Extract(Absent, High),
   Extract(Absent, Absent)}

Symmetry == Permutations(MCReviewer)
=============================================================================
