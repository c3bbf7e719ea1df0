--------------------------------- MODULE Rules ---------------------------------
(***************************************************************************)
(* The rules service (rules/rules.go): five checks on the dates and the    *)
(* Latin names of a case.  It keeps no state.  Dates are day numbers and   *)
(* the thresholds numbers of days; Null is an absent input, for a name the *)
(* empty string as well.                                                   *)
(***************************************************************************)
EXTENDS Proposals, Integers

CONSTANTS
  Name,     \* normalised Latin names (Normalise in names.go)
  Blank,    \* what a name without letters normalises to
  Fold,     \* Fold[n]: the key of n that ignores romanisation choices
  PassportBuffer, EnglishValid, EnglishWarn, GradPass, GradWarn \* Config

ASSUME RulesAssumption ==
  /\ Blank \in Name /\ Null \notin Name /\ Null \notin Int
  /\ Null \notin [Rule -> Outcome]
  /\ DOMAIN Fold = Name
  /\ {PassportBuffer, EnglishValid, EnglishWarn, GradPass, GradWarn} \subseteq Nat

Date == Int \cup {Null}

\* Case, what POST /check takes.
Payload ==
  [passport_name : Name \cup {Null}, passport_dob : Date, passport_expiry : Date,
   transcript_name : Name \cup {Null}, transcript_dob : Date, transcript_grad_date : Date,
   certificate_grad_date : Date,
   english_test_name : Name \cup {Null}, english_test_dob : Date, english_test_date : Date,
   course_end_date : Date, submission_target : Date]

\* The passport's spelling against another document's.
CompareNames(passport, other) ==
  IF Blank \in {passport, other} THEN "block"
  ELSE IF passport = other THEN "pass"
  ELSE IF Fold[passport] = Fold[other] THEN "warn"
  ELSE "block"

Worst(verdicts) ==
  IF "block" \in verdicts THEN "block" ELSE IF "warn" \in verdicts THEN "warn" ELSE "pass"

\* The passport's name against every document that carries one.
R1(c) ==
  IF c.passport_name = Null THEN "pending"
  ELSE Worst({CompareNames(c.passport_name, other) :
                other \in {c.transcript_name, c.english_test_name} \ {Null}})

\* The date of birth against every document that carries one.  Which message a
\* block gives (543 years apart: a Buddhist-era year) is left out.
R2(c) ==
  IF c.passport_dob = Null THEN "pending"
  ELSE IF {c.transcript_dob, c.english_test_dob} \subseteq {Null, c.passport_dob} THEN "pass"
  ELSE "block"

\* Days from the graduation on the transcript to the conferral.
R3(c) ==
  IF Null \in {c.transcript_grad_date, c.certificate_grad_date} THEN "pending"
  ELSE LET diff == c.certificate_grad_date - c.transcript_grad_date IN
       CASE diff < 0 -> "block"
         [] diff \in 0 .. GradPass -> "pass"
         [] diff \in GradPass + 1 .. GradWarn -> "warn"
         [] OTHER -> "block"

\* The passport outlasts the course.
R4(c) ==
  IF Null \in {c.passport_expiry, c.course_end_date} THEN "pending"
  ELSE IF c.passport_expiry < c.course_end_date THEN "block"
  ELSE IF c.passport_expiry < c.course_end_date + PassportBuffer THEN "warn"
  ELSE "pass"

\* The English test is valid on the day of submission, today without one.
R5(c, today) ==
  IF c.english_test_date = Null THEN "pending"
  ELSE LET expires == c.english_test_date + EnglishValid
           target == IF c.submission_target = Null THEN today ELSE c.submission_target IN
       IF expires <= target THEN "block"
       ELSE IF expires - target <= EnglishWarn THEN "warn"
       ELSE "pass"

\* What each rule says; can_proceed is CanProceed of it.
Evaluate(c, today) ==
  [r \in Rule |-> CASE r = "R1" -> R1(c) [] r = "R2" -> R2(c) [] r = "R3" -> R3(c)
                    [] r = "R4" -> R4(c) [] r = "R5" -> R5(c, today)]
=============================================================================
