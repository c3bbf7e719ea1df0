------------------------------- MODULE CaseReads -------------------------------
(***************************************************************************)
(* gather_case (agent/agent/graph.py): one tool call after the other, each *)
(* with a read of its own, while the web tier writes and a seed run fills  *)
(* the index.  What it leaves in the state is what Agent takes as found.   *)
(***************************************************************************)
EXTENDS CaseStore, KnowledgeIndex, Tools

CONSTANTS
  Today, \* the day the rules service answers on
  Starts, \* rows there may be when the question is asked
  MaxEvents, \* bound on the writes and seed runs beside one question
  AskedFilters, AskedDays \* the searches SearchesAgree compares

VARIABLE gather \* what the node holds, or Null before the question

vars == <<storeVars, indexVars, gather>>

Points == {"get_case", "list_documents", "run_rules", "search_policy",
           "get_study_profile", "search_programs", "done", "failed"}

\* PolicyStore's citation.
Citation == [id : PolicyId, country : Country, from : Int, to : Optional]

Suggestion == [id : ProgramId, fit : [english : {"unknown", "short", "ok"},
                                      gpa : {"not_required", "unknown", "short", "ok"}]]

\* ref is case_id, what the question called the case and then its id; metas is
\* what the first statement of the read at hand returned, Null before it; todo
\* are the places of the checks still to find a policy for.
Gathering ==
  [at : Points, ref : Ref \cup CaseId, programme : BOOLEAN,
   metas : [CaseId -> Meta \cup {Null}] \cup {Null},
   case : [id : CaseId, meta : Meta] \cup {Null},
   listed : (SUBSET Nat) \cup {Null},
   checks : [Rule -> Outcome] \cup {Null},
   todo : SUBSET (1 .. 5), cites : SUBSET Citation,
   profile : Profile \cup {Null}, programs : SUBSET Suggestion]

ASSUME ReadsAssumption ==
  /\ Today \in Int /\ MaxEvents \in Nat
  /\ Null \notin Gathering /\ Null \notin [CaseId -> Meta \cup {Null}]
  /\ Null \notin [id : CaseId, meta : Meta]
  /\ \A listed \in SUBSET (1 .. MaxDocuments) : listed # Null
  /\ {"diploma", "bachelor", "master"} \subseteq Level
  /\ Rule \subseteq Query
  /\ Null \notin Profile
  /\ AskedFilters \subseteq Filters /\ AskedDays \subseteq Int
  /\ \A s \in Starts :
       /\ s.docs \in Seq(Document) /\ Len(s.docs) <= MaxDocuments
       /\ s.cases \in [CaseId -> Meta \cup {Null}]
       /\ \A i \in DOMAIN s.docs : LET j == s.docs[i].superseded_by IN
            j # 0 => j \in DOMAIN s.docs /\ i < j /\ s.docs[i].case = s.docs[j].case

TypeOK ==
  /\ StoreTypeOK
  /\ IndexTypeOK
  /\ gather \in Gathering \cup {Null}

Init ==
  /\ \E s \in Starts : docs = s.docs /\ cases = s.cases
  /\ retyping = {} /\ writes = 0
  /\ IndexInit
  /\ gather = Null

-----------------------------------------------------------------------------
(* The steps of the node.                                                   *)

\* A call of the deterministic nodes runs a tool, or comes back with an error.
Runs(name, args) == Execute(name, args, Null, Null) = "run"

\* The state gather_case starts from, for a question that names a case.
Ask(ref, programme) ==
  /\ gather = Null
  /\ gather' = [at |-> "get_case", ref |-> ref, programme |-> programme, metas |-> Null,
                case |-> Null, listed |-> Null, checks |-> Null, todo |-> {}, cites |-> {},
                profile |-> Null, programs |-> {}]

Reads == {"get_case", "list_documents", "run_rules", "get_study_profile"}

\* PostgresCaseStore._load's first statement.
LoadCases ==
  /\ gather # Null /\ gather.at \in Reads /\ gather.metas = Null
  /\ gather' = [gather EXCEPT !.metas = cases]

\* The tool at hand has both statements' rows: the case it resolves to, or Null.
AtLoaded(tool) ==
  /\ gather # Null /\ gather.at = tool /\ gather.metas # Null
  /\ Runs(tool, [case_id |-> gather.ref])

Found == Resolve(gather.metas, docs, gather.ref)

Record == PgRecord(gather.metas, docs, Found)

\* Mutant of CaseName: the case keeps the name the question gave it.
CaseNameAsked(asked, c) == asked

\* case_id after get_case: the id it returned.
CaseName(asked, c) == c

\* get_case; without such a case the node ends with what it has.
GetCase ==
  /\ AtLoaded("get_case")
  /\ LET c == Found IN
     gather' = IF c = Null THEN [gather EXCEPT !.at = "done", !.metas = Null]
               ELSE [gather EXCEPT !.at = "list_documents", !.metas = Null,
                       !.ref = CaseName(@, c),
                       !.case = [id |-> c, meta |-> MetaOf(gather.metas, c)]]

\* list_documents: no documents when it reports an error.
ListDocuments ==
  /\ AtLoaded("list_documents")
  /\ gather' = [gather EXCEPT !.at = "run_rules", !.metas = Null,
                  !.listed = IF Found = Null THEN Null
                             ELSE DOMAIN Record.documents]

\* Where the node goes when no check is left.
AfterPolicies == IF gather.programme THEN "get_study_profile" ELSE "done"

\* run_rules: the payload of the case as it is now; every check that is not
\* passed is to be explained by a policy, if the case has a target.
RunRules ==
  /\ AtLoaded("run_rules")
  /\ LET checks == IF Found = Null THEN Null
                   ELSE Evaluate(BuildRulesPayload(Record), Today)
         todo == IF checks = Null \/ gather.case.meta.submission_target = Null THEN {}
                 ELSE {k \in DOMAIN Rules : checks[Rules[k]] # "pass"} IN
     gather' = [gather EXCEPT !.metas = Null, !.checks = checks, !.todo = todo,
                  !.at = IF todo = {} THEN AfterPolicies ELSE "search_policy"]

\* Mutant of Cite: the citation carries the policy's text.
CiteWithText(i) == [id |-> i, country |-> index[i].row.country, text |-> index[i].row.text,
                    from |-> index[i].row.from, to |-> index[i].row.to]

\* Policy.citation, without the text.
Cite(i) == [id |-> i, country |-> index[i].row.country,
            from |-> index[i].row.from, to |-> index[i].row.to]

\* effective: the target of the case as get_case showed it.
EffectiveDate == gather.case.meta.submission_target

\* _merge_citations: the first one of an id stays.
MergeCitations(existing, new) ==
  existing \cup {c \in new : \A e \in existing : e.id # c.id}

\* One search_policy, for the first check left; its question may or may not get
\* a vector.
SearchPolicy(embedded) ==
  /\ gather # Null /\ gather.at = "search_policy"
  /\ LET k == Min(gather.todo)
         args == [query |-> Rules[k], country |-> gather.case.meta.country,
                  effective_date |-> EffectiveDate]
         hits == PgPolicies(index, args.query, args.country, args.effective_date, embedded) IN
     /\ Runs("search_policy", args)
     /\ gather' = [gather EXCEPT !.cites = MergeCitations(@, {Cite(i) : i \in hits}),
                     !.todo = @ \ {k},
                     !.at = IF gather.todo = {k} THEN AfterPolicies ELSE @]

\* get_study_profile of the case as it is now.
GetStudyProfile ==
  /\ AtLoaded("get_study_profile")
  /\ gather' = [gather EXCEPT !.at = "search_programs", !.metas = Null,
                  !.profile = IF Found = Null THEN Null
                              ELSE StudyProfile(Record)]

\* programme_filters: the question itself only orders what is found.
ProgrammeFilters(case, profile) ==
  [country |-> case.meta.country, levels |-> IF profile = Null THEN Null ELSE profile.levels,
   field |-> Null, city |-> Null, english |-> Null, tuition |-> Null, gpa |-> Null]

\* search_programs and annotate_fit; q is the question, or Null if it gets no
\* vector.
SearchPrograms(q) ==
  /\ gather # Null /\ gather.at = "search_programs"
  /\ LET filters == ProgrammeFilters(gather.case, gather.profile) IN
     /\ Runs("search_programs", [filters |-> filters])
     /\ gather' = [gather EXCEPT !.at = "done",
                     !.programs = {[id |-> i, fit |-> Fit(index[i].row, gather.profile)] :
                                     i \in PgPrograms(index, filters, q)}]

\* The database, the rules service or a handler raises: the run ends.
GatherFails ==
  /\ gather # Null /\ gather.at \notin {"done", "failed"}
  /\ gather' = [gather EXCEPT !.at = "failed", !.metas = Null]

GatherNext ==
  \/ \E ref \in Ref, programme \in BOOLEAN : Ask(ref, programme)
  \/ LoadCases \/ GetCase \/ ListDocuments \/ RunRules
  \/ \E embedded \in BOOLEAN : SearchPolicy(embedded)
  \/ \E q \in Query \cup {Null} : SearchPrograms(q)
  \/ GetStudyProfile \/ GatherFails

Next ==
  \/ GatherNext /\ UNCHANGED <<storeVars, indexVars>>
  \/ StoreNext /\ writes' + seeds <= MaxEvents /\ UNCHANGED <<indexVars, gather>>
  \/ IndexNext /\ writes + seeds' <= MaxEvents /\ UNCHANGED <<storeVars, gather>>

Spec == Init /\ [][Next]_vars

-----------------------------------------------------------------------------
(* Properties.                                                              *)

\* A case that may proceed was signed off: when the checks a run gathered let it
\* through, a reviewer had completed a document of each of the four types for
\* that very case, whatever was read in between (rules.go:70, services.py:160).
ProceedIsSignedOff ==
  (gather # Null /\ gather.checks # Null /\ CanProceed(gather.checks)) =>
    \A t \in DocType : \E i \in DOMAIN docs :
      /\ docs[i].case = gather.case.id /\ docs[i].type = t
      /\ docs[i].confirmed # Null

\* Every policy cited was in force, as cited, for the country and on the
\* submission target that are shown with it (services.py:265-268).
CitedInForce ==
  gather # Null =>
    \A c \in gather.cites :
      /\ c.country = gather.case.meta.country
      /\ gather.case.meta.submission_target # Null
      /\ gather.case.meta.submission_target >= c.from
      /\ c.to # Null => gather.case.meta.submission_target < c.to

\* A run that found a case does not lose it between its reads: its documents
\* and its checks are those of that case, although another one with the same
\* ending may be opened in the meantime (services.py:90, graph.py:227).
OneCaseThroughout ==
  (gather # Null /\ gather.case # Null) =>
    /\ gather.at \notin {"get_case", "list_documents", "failed"} => gather.listed # Null
    /\ gather.at \notin {"get_case", "list_documents", "run_rules", "failed"} => gather.checks # Null
    /\ gather.at = "done" /\ gather.programme => gather.profile # Null

\* What is signed off of a type, and whether the latest of it has the last name
\* as well, which nothing in the code sees to: names are random.
SignedOff(c, t) == {i \in Standing(docs, c) : docs[i].type = t /\ docs[i].confirmed # Null}
LatestNamedLast(c) ==
  \A t \in DocType : \A i \in SignedOff(c, t) :
    (\A j \in SignedOff(c, t) : j <= i) => \A j \in SignedOff(c, t) : IdOrder[j] <= IdOrder[i]

\* For the same rows the agent gives the rules the case the web tier gives them
\* (services.py:161 says it mirrors buildCase): always from the tables, and from
\* the files when the latest signed-off document of every type has the last file
\* name too (services.py:116, :166).  Both stores hold the same documents, so
\* that otherwise the files' case has another signed-off one of the type.
WebAndAgentAgree ==
  \A c \in CaseId :
    LET pg == PgRecord(cases, docs, c)
        file == FileRecord(cases, docs, c) IN
    /\ BuildRulesPayload(pg) = BuildCase(cases, docs, c)
    /\ LatestNamedLast(c) => BuildRulesPayload(file) = BuildCase(cases, docs, c)
    /\ DOMAIN file.documents = {IdOrder[i] : i \in DOMAIN pg.documents}
    /\ \A i \in DOMAIN pg.documents : file.documents[IdOrder[i]] = pg.documents[i]

\* The rows of the index as the file stores would hold them.
PolicyRows == [i \in {i \in PolicyId : index[i] # Null} |-> index[i].row]
ProgramRows == [i \in {i \in ProgramId : index[i] # Null} |-> index[i].row]

\* Whatever seed runs left in the index, the database's searches answer like the
\* files' over the same rows: the same policies without vectors, with them only
\* ones tied at the best keyword score when there is one (ranking.py:4-9), and
\* the same programmes up to the limit (pg.py:133).
StoresAgree(filters, days) ==
  /\ \A q \in Query, c \in Country, d \in days :
       LET tied == FilePolicies(PolicyRows, q, c, d, Cardinality(PolicyId)) IN
       /\ PgPolicies(index, q, c, d, FALSE) = FilePolicies(PolicyRows, q, c, d, Limit)
       /\ tied # {} => PgPolicies(index, q, c, d, TRUE) \subseteq tied
  /\ \A f \in filters :
       LET all == FilePrograms(ProgramRows, f) IN
       \A q \in Query \cup {Null} :
         LET some == PgPrograms(index, f, q) IN
         /\ some \subseteq all
         /\ Cardinality(all) <= RowLimit => some = all

\* Each time a seed run changes the index, both ways to search it answer alike,
\* for every query and country, and the days and filters asked (pg.py:4-9,
\* ranking.py:4-9).
SearchesAgree == [][index' # index => StoresAgree(AskedFilters, AskedDays)']_index

\* A seed run that fails changes nothing, one that ends leaves all the rows of
\* one release; and a vector is of its row's text unless a run without embedding
\* replaced the text (seed.py:46-48).
IndexIsWhole ==
  /\ \/ \A i \in Id : index[i] = Null
     \/ \E e \in 1 .. edition : \A i \in DOMAIN Editions[e] :
          index[i] # Null /\ index[i].row = Editions[e][i]
  /\ \A i \in Id : (index[i] # Null /\ index[i].vector # Null) =>
       index[i].vector = index[i].row.text \/ i \in blind
=============================================================================
