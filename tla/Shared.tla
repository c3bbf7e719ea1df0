-------------------------------- MODULE Shared --------------------------------
(***************************************************************************)
(* What several parts of the agent name alike.                             *)
(***************************************************************************)

CONSTANT Null \* an absent value: None, null, NULL

\* The countries a case or a policy may be for (db/schema.sql, cases and
\* policies).
Country == {"AU", "NZ"}
=============================================================================
