------------------------------- MODULE MCIntake -------------------------------
(* Small instances of Intake.  With one field a document is signed off or    *)
(* not; half-reviewed ones are for ReviewScreen.                              *)
EXTENDS Intake, TLC

CONSTANTS f1, v1

MCDocType == {"passport", "transcript"}
MCField == {f1}
MCFieldsFor == [t \in MCDocType |-> MCField]
MCValue == {v1}
MCValid == [f \in MCField |-> MCValue]

MCExtractions ==
  {[type |-> t, value |-> [f \in MCField |-> v1],
    rating |-> [f \in MCField |-> "high"], unreadable |-> {}] : t \in MCDocType}

Page(t, c) == [doc_type |-> t, confidence |-> c, is_continuation |-> FALSE]

MCBatches ==
  {<<Page("transcript", "high")>>, <<Page("transcript", "low")>>,
   <<Page("transcript", "high"), Page("transcript", "high")>>,
   <<Page("transcript", "high"), Page("other", "high")>>}

Symmetry == Permutations(Handler)
=============================================================================
