------------------------------ MODULE MCCaseReads ------------------------------
(***************************************************************************)
(* The reads of a question on a small instance: two cases with the same    *)
(* ending, one about to be complete, and a release that replaces a policy. *)
(***************************************************************************)
EXTENDS CaseReads, TLC

CONSTANTS c1, c2, short \* two case ids, and the ending of both

MCCaseId == {c1, c2}
MCRef == {c1, short}
MCEndsWith == [r \in MCRef \cup MCCaseId |-> IF r = short THEN {c1, c2} ELSE {r}]

MCName == {"ARUNI", "ARUNEE", "BENJA", ""}
MCFold == [n \in MCName |-> IF n = "ARUNEE" THEN "ARUNI" ELSE n]

Nothing == [name |-> Null, holder |-> Null, dob |-> Null, expiry |-> Null, date |-> Null,
            qualification |-> Null, gpa |-> Null, scale |-> Null,
            overall |-> Null, bands |-> [k \in Band |-> Null]]

Passport    == [Nothing EXCEPT !.name = "ARUNI", !.holder = "ARUNI", !.dob = 1, !.expiry = 30]
Transcript  == [Nothing EXCEPT !.name = "ARUNEE", !.dob = 1, !.date = 2, !.gpa = 8000,
                  !.scale = 10000, !.qualification = {"bachelor", "diploma"}]
Certificate == [Nothing EXCEPT !.date = 3]
English     == [Nothing EXCEPT !.name = "ARUNI", !.dob = 1, !.date = 4, !.overall = 7,
                  !.bands = [k \in Band |-> IF k = "writing" THEN 5 ELSE 7]]
Expired     == [English EXCEPT !.date = 0]
Misread     == [Transcript EXCEPT !.name = "BENJA"]

MCContent == [passport |-> {Passport}, transcript |-> {Transcript, Misread},
              degree_certificate |-> {Certificate}, english_test |-> {English, Expired}]

OfCase(c, t, fields) == [case |-> c, type |-> t, confirmed |-> fields, superseded_by |-> 0]

NoRow  == [country |-> "AU", course_end_date |-> Null, submission_target |-> Null]
Lodged == [country |-> "AU", course_end_date |-> 20, submission_target |-> 6]
Moved  == [country |-> "NZ", course_end_date |-> 20, submission_target |-> 4]
MCMetas == {Lodged, Moved}

\* Three types signed off and the English test to review; all four signed off
\* and the English test expired.  Both times there are two transcripts, the later
\* one with the later file name (IdOrder) and with the earlier one.
MCStarts ==
  {[docs |-> <<OfCase(c1, "passport", Passport), OfCase(c1, "transcript", Misread),
               OfCase(c1, "transcript", Transcript),
               OfCase(c1, "degree_certificate", Certificate), OfCase(c1, "english_test", Null)>>,
    cases |-> [c \in MCCaseId |-> IF c = c1 THEN Lodged ELSE Null]],
   [docs |-> <<OfCase(c1, "transcript", Misread), OfCase(c1, "transcript", Transcript),
               OfCase(c1, "passport", Passport),
               OfCase(c1, "degree_certificate", Certificate), OfCase(c1, "english_test", Expired)>>,
    cases |-> [c \in MCCaseId |-> IF c = c1 THEN Lodged ELSE Null]]}

MCIdOrder == <<4, 2, 6, 1, 7, 3, 5>>

MCQuery == Rule
MCWords == [q \in MCQuery |->
              CASE q \in {"R1", "R2"} -> {"name"} [] q = "R3" -> {"certificate"}
                [] q = "R4" -> {"passport"} [] q = "R5" -> {"ielts", "expired"}]
MCText == {"english", "english, all bands", "identity", "master", "diploma"}
MCSimilar == [q \in MCQuery |-> [x \in MCText |->
                CASE x = "english, all bands" -> 60 [] x = "identity" -> 40
                  [] x = "diploma" -> 20 [] OTHER -> 10]]

AU(from, to, keywords, text) ==
  [country |-> "AU", from |-> from, to |-> to, keywords |-> keywords, text |-> text]
Offer(country, level, tuition, gpa, text) ==
  [country |-> country, level |-> level, field |-> {"it"}, city |-> {"sydney"},
   english |-> 6, band |-> 6, tuition |-> tuition, gpa |-> gpa, text |-> text]

\* The second release ends one version on day 6, starts the next on that day,
\* and rewords a programme.
MCEditions ==
  <<(1 :> AU(0, Null, {"ielts", "expired"}, "english")) @@ (3 :> AU(0, Null, {"name", "expired"}, "identity"))
      @@ (11 :> Offer("AU", "master", 9, Null, "master")) @@ (12 :> Offer("AU", "bachelor", Null, 300, "diploma")),
    (1 :> AU(0, 6, {"ielts", "expired"}, "english")) @@ (2 :> AU(6, Null, {"ielts", "expired"}, "english, all bands"))
      @@ (3 :> AU(0, Null, {"name"}, "identity")) @@ (11 :> Offer("NZ", "master", 9, 200, "diploma"))
      @@ (12 :> Offer("AU", "master", Null, 300, "diploma"))>>

\* Each filter alone, where it keeps a row out, and all together.
NoFilter == [country |-> Null, levels |-> Null, field |-> Null, city |-> Null,
             english |-> Null, tuition |-> Null, gpa |-> Null]
MCFilters ==
  {NoFilter, [NoFilter EXCEPT !.country = "AU"], [NoFilter EXCEPT !.levels = {"master"}],
   [NoFilter EXCEPT !.field = "law", !.levels = {}], [NoFilter EXCEPT !.city = "sydney", !.english = 5],
   [NoFilter EXCEPT !.tuition = 9], [NoFilter EXCEPT !.gpa = 100],
   [country |-> "AU", levels |-> {"master"}, field |-> "it", city |-> "sydney",
    english |-> 6, tuition |-> 9, gpa |-> 200]}

\* The days around the end of a version.
MCDays == 5 .. 6
=============================================================================
