------------------------------- MODULE Proposals -------------------------------
(***************************************************************************)
(* What the agent proposes by itself from a rules result                   *)
(* (propose_action in agent/agent/graph.py).  No model has a say in it.    *)
(***************************************************************************)
EXTENDS Naturals, Sequences, FiniteSetsExt, Shared

Rules == <<"R1", "R2", "R3", "R4", "R5">>
Rule  == {"R1", "R2", "R3", "R4", "R5"}

DocType == {"passport", "transcript", "degree_certificate", "english_test"}

\* What one check says.  "block 543" is a block whose text carries "543".
Outcome == {"pass", "warn", "pending", "block", "block 543"}

\* The best document of a type: none, one still in review, one signed off.
Held == {"none", "uploaded", "confirmed"}

\* RULE_INPUTS: what a pending rule may be missing.
RuleInputs(r) ==
  CASE r \in {"R1", "R2", "R4"} -> <<"passport">>
    [] r = "R3" -> <<"transcript", "degree_certificate">>
    [] r = "R5" -> <<"english_test">>

\* RULE_REISSUE: what a blocked rule usually needs again.
RuleReissue(r) ==
  CASE r \in {"R1", "R2"} -> "transcript"
    [] r = "R3" -> "degree_certificate"
    [] r = "R4" -> "passport"
    [] r = "R5" -> "english_test"

\* Mutant of CanProceed: a check that could not be made does not stop a case.
CanProceedUnlessBlocked(checks) ==
  \A r \in Rule : checks[r] \in {"pass", "warn", "pending"}

\* can_proceed as the rules service computes it.
CanProceed(checks) ==
  \A r \in Rule : checks[r] \in {"pass", "warn"}

Request(t) == [tool |-> "request_document", args |-> t, source |-> "rules"]

\* Mutant of Missing: what is uploaded and not signed off is missing as well.
MissingUnconfirmed(docs, r) ==
  {i \in DOMAIN RuleInputs(r) : docs[RuleInputs(r)[i]] # "confirmed"}

\* Where RULE_INPUTS names a document nobody uploaded.
Missing(docs, r) == {i \in DOMAIN RuleInputs(r) : docs[RuleInputs(r)[i]] = "none"}

\* What one check asks of the student first, Null for nothing: what a pending
\* rule has no upload of, what a blocked one needs again; a Buddhist-era year
\* is never the student's problem.
AskOf(checks, docs, r) ==
  CASE checks[r] = "pending" /\ Missing(docs, r) # {} -> RuleInputs(r)[Min(Missing(docs, r))]
    [] checks[r] = "block" -> RuleReissue(r)
    [] OTHER -> Null

\* Over the checks in order, the first ask wins, after a proposal of the model's.
FirstAsk(checks, docs, proposal) ==
  LET asking == {i \in DOMAIN Rules : AskOf(checks, docs, Rules[i]) # Null} IN
  IF proposal = Null /\ ~CanProceed(checks) /\ asking # {}
  THEN Request(AskOf(checks, docs, Rules[Min(asking)]))
  ELSE proposal

\* What a pending rule waits for a reviewer to sign off.
AwaitingReview(checks, docs) ==
  {t \in DocType : docs[t] = "uploaded"
                     /\ \E r \in Rule : checks[r] = "pending"
                                          /\ \E i \in DOMAIN RuleInputs(r) : RuleInputs(r)[i] = t}
=============================================================================
