-------------------------------- MODULE MCAgent --------------------------------
(***************************************************************************)
(* The agent on small instances.                                           *)
(***************************************************************************)
EXTENDS Agent, TLC

CONSTANTS t1, t2, r1, r2

OneThread  == {t1}
TwoThreads == {t1, t2}
OneRun     == {r1}
TwoRuns    == {r1, r2}

RunSymmetry == Permutations({r1, r2})

OneMessage == {"message"}

AllPass == [r \in Rule |-> "pass"]

\* No such case; a case that passes everything; an English test that expired,
\* with the policy found or not; a name that differs on the English test while
\* the transcript waits for review and the certificate is missing, and the same
\* with names that agree.
Unknown == [known |-> FALSE, docs |-> [d \in DocType |-> "none"],
            checks |-> Null, cited |-> FALSE]
Clear   == [known |-> TRUE, docs |-> [d \in DocType |-> "confirmed"],
            checks |-> AllPass, cited |-> FALSE]
Expired == [known |-> TRUE, docs |-> [d \in DocType |-> "confirmed"],
            checks |-> [AllPass EXCEPT !["R5"] = "block"], cited |-> FALSE]
Cited   == [Expired EXCEPT !.cited = TRUE]
Differs == [known |-> TRUE,
            docs |-> [passport |-> "confirmed", transcript |-> "uploaded",
                      degree_certificate |-> "none", english_test |-> "confirmed"],
            checks |-> [AllPass EXCEPT !["R1"] = "block", !["R3"] = "pending"],
            cited |-> TRUE]
Waiting == [Differs EXCEPT !.checks["R1"] = "pass"]

Draft == [tool |-> "draft_student_message", args |-> "message", source |-> "model"]
Wants == [tool |-> "request_document", args |-> "passport", source |-> "model"]

Silent     == <<>>
Cites      == <<[kind |-> "cite"], [kind |-> "search"]>>
Drafts     == <<[kind |-> "external", proposal |-> Draft]>>
ReadsBad   == <<[kind |-> "suspicious"]>>
DraftsRead == <<[kind |-> "external", proposal |-> Draft], [kind |-> "suspicious"],
                [kind |-> "external", proposal |-> Wants]>>

AllFound == {Unknown, Clear, Expired, Differs, Waiting}
AllTurns == {Silent, Cites, ReadsBad, Drafts, DraftsRead}

\* What tells two cards apart: a request of the rules, a draft of the model's.
FewFound == {Clear, Cited}
FewTurns == {Silent, Drafts}
DifferentTurns == {Drafts, <<[kind |-> "external", proposal |-> Wants]>>}
=============================================================================
