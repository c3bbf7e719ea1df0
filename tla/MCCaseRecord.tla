----------------------------- MODULE MCCaseRecord -----------------------------
(***************************************************************************)
(* One case, complete but for its last document or without a row, two      *)
(* saves or two refreshes at a time, and one page.                         *)
(***************************************************************************)
EXTENDS CaseRecord, TLC

CONSTANT c1 \* a case id

MCCaseId == {c1}
MCRef == {}
MCEndsWith == [c \in MCCaseId |-> {c}]

MCName == {"ARUNI", "ARUNEE", ""}
MCFold == [n \in MCName |-> IF n = "ARUNEE" THEN "ARUNI" ELSE n]

Nothing == [name |-> Null, holder |-> Null, dob |-> Null, expiry |-> Null, date |-> Null,
            qualification |-> Null, gpa |-> Null, scale |-> Null,
            overall |-> Null, bands |-> [k \in Band |-> Null]]

Passport    == [Nothing EXCEPT !.name = "ARUNI", !.holder = "ARUNI", !.dob = 1, !.expiry = 30]
Transcript  == [Nothing EXCEPT !.name = "ARUNEE", !.dob = 1, !.date = 2, !.qualification = {"bachelor"}]
Certificate == [Nothing EXCEPT !.date = 3]
English     == [Nothing EXCEPT !.name = "ARUNI", !.dob = 1, !.date = 4, !.overall = 650]
Retaken     == [English EXCEPT !.overall = 700]

MCContent == [passport |-> {Passport}, transcript |-> {Transcript},
              degree_certificate |-> {Certificate}, english_test |-> {English, Retaken}]

Of(t, fields) == [case |-> c1, type |-> t, confirmed |-> fields, superseded_by |-> 0]

Complete ==
  <<Of("passport", Passport), Of("transcript", Transcript),
    Of("degree_certificate", Certificate), Of("english_test", English)>>

Lodged == [country |-> "AU", course_end_date |-> 20, submission_target |-> 6]

\* What a form sends: the country, or the dates.
MCPatches == {"country" :> "NZ", [course_end_date |-> 20, submission_target |-> 6]}

Each(v) == [c \in MCCaseId |-> v]

\* Complete but for a second English test to review, the spelling of the name
\* acknowledged; a passport and a transcript, and no row yet.
MCStarts ==
  {[docs |-> Append(Complete, Of("english_test", Null)), cases |-> Each(Lodged),
    acked |-> Each({"R1"}), held |-> Each({})],
   [docs |-> <<Of("passport", Passport), Of("transcript", Transcript)>>, cases |-> Each(Null),
    acked |-> Each({}), held |-> Each({})]}

MCIdOrder == <<4, 2, 6, 1, 5, 3, 7>>

MCMetas == {Lodged}

Symmetry == Permutations(Handler) \cup Permutations(Refresher)
=============================================================================
