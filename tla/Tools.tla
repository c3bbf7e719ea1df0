--------------------------------- MODULE Tools ---------------------------------
(***************************************************************************)
(* The agent's tools and the one place a call of them passes through       *)
(* (agent/agent/tools.py, risk.py).                                        *)
(***************************************************************************)

\* Tool: its risk, and the properties and required ones of its input schema
\* (the two sets are the same for every tool).
Tool(risk, args) == [risk |-> risk, args |-> args]

\* build_tools.
Registry ==
  [get_case              |-> Tool("read", {"case_id"}),
   list_documents        |-> Tool("read", {"case_id"}),
   get_extraction        |-> Tool("read", {"doc_id"}),
   run_rules             |-> Tool("read", {"case_id"}),
   search_policy         |-> Tool("read", {"query", "country", "effective_date"}),
   search_programs       |-> Tool("read", {"filters"}),
   get_study_profile     |-> Tool("read", {"case_id"}),
   escalate_to_visa_team |-> Tool("reversible", {"case_id", "reason"}),
   flag_document         |-> Tool("reversible", {"doc_id", "reason"}),
   request_document      |-> Tool("external", {"case_id", "doc_type", "reason"}),
   draft_student_message |-> Tool("external", {"case_id", "message_th"})]

\* ToolRegistry.execute of a call, given an approval for <<name, args>> or none:
\* what comes of it, "run" for the tool's own result.
Execute(name, args, approval, none) ==
  IF name \notin DOMAIN Registry THEN "ToolNotFound"
  ELSE IF DOMAIN args # Registry[name].args THEN "ToolInputError"
  ELSE IF Registry[name].risk # "external" \/ approval = <<name, args>> THEN "run"
  ELSE IF approval = none THEN "RequiresApproval"
  ELSE "RiskViolation"
=============================================================================
