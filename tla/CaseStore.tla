------------------------------- MODULE CaseStore -------------------------------
(***************************************************************************)
(* The rows of a case as its readers see them: the agent's stores          *)
(* (agent/agent/services.py, pg.py) and the web tier's checks              *)
(* (web/app/lib/checks.ts, review.ts, store.ts), and what the web tier     *)
(* writes in the meantime, without the steps in between that Intake and    *)
(* DocumentReview model.                                                   *)
(***************************************************************************)
EXTENDS Rules

CONSTANTS
  CaseId,     \* case ids
  Ref,        \* what staff may call a case: an id or the end of one
  EndsWith,   \* EndsWith[ref]: the case ids that end with ref (or with an id)
  Content,    \* Content[t]: what may be signed off on a document of type t
  Metas,      \* what the form of a case may save
  IdOrder,    \* IdOrder[n]: the place of the n-th document by its id
  MaxDocuments, MaxWrites \* bounds on the documents and on the writes

VARIABLES
  docs,     \* documents in the order of created_at
  cases,    \* cases[c]: the row of c in the cases table, or Null
  retyping, \* retypes between their two statements, as <<old, new>>
  writes    \* how many writes there were

storeVars == <<docs, cases, retyping, writes>>

\* The four component scores of an English test.
Band == {"listening", "reading", "writing", "speaking"}

\* The fields of confirmed_json the readers look at, over all types.  name is
\* as the rules normalise it; holder, on a passport, as profile.ts does surname
\* and given name, Null unless something is left of both.
Fields ==
  [name : Name \cup {Null}, holder : Name \cup {Null},
   dob : Date, expiry : Date, date : Date,
   qualification : (SUBSET {"master", "bachelor", "diploma", "secondary"}) \cup {Null},
   gpa : Date, scale : Date, overall : Date,
   bands : [Band -> Date]]

\* DocumentRecord, with the column the stores select by.
Document == [case : CaseId, type : DocType, confirmed : Fields \cup {Null},
             superseded_by : 0 .. MaxDocuments]

\* The columns of cases.
Meta == [country : Country, course_end_date : Date, submission_target : Date]

ASSUME StoreAssumption ==
  /\ Null \notin Ref \cup CaseId
  /\ EndsWith \in [Ref \cup CaseId -> SUBSET CaseId]
  /\ Content \in [DocType -> SUBSET Fields]
  /\ Metas \subseteq Meta
  /\ MaxDocuments \in Nat /\ MaxWrites \in Nat
  /\ IdOrder \in [1 .. MaxDocuments -> 1 .. MaxDocuments]
  /\ \A m, n \in 1 .. MaxDocuments : m # n => IdOrder[m] # IdOrder[n]
  /\ Null \notin Fields /\ Null \notin Meta

StoreTypeOK ==
  /\ docs \in Seq(Document) /\ Len(docs) <= MaxDocuments
  /\ cases \in [CaseId -> Meta \cup {Null}]
  /\ retyping \subseteq (1 .. MaxDocuments) \X (1 .. MaxDocuments)
  /\ writes \in 0 .. MaxWrites

-----------------------------------------------------------------------------
(* What a read finds.  A read of the agent's is two statements, the cases   *)
(* first: m and d are the tables as each of them saw it.                    *)

\* Mutant of Standing: a superseded document is read as well.
StandingOrNot(d, c) == {i \in DOMAIN d : d[i].case = c}

\* The documents of a case, in the order of created_at.
Standing(d, c) == {i \in DOMAIN d : d[i].case = c /\ d[i].superseded_by = 0}

\* The ids a store knows: rows of cases, and cases with documents alone.
Known(m, d) == {c \in CaseId : m[c] # Null \/ Standing(d, c) # {}}

\* MemoryCaseStore.get_case: an exact id, or the only one with that end.
Resolve(m, d, ref) ==
  LET hits == EndsWith[ref] \cap Known(m, d) IN
  CASE ref \in Known(m, d) -> ref
    [] ref \notin Known(m, d) /\ Cardinality(hits) = 1 -> CHOOSE c \in hits : TRUE
    [] OTHER -> Null

MetaOf(m, c) ==
  IF m[c] = Null THEN [country |-> "AU", course_end_date |-> Null, submission_target |-> Null]
  ELSE m[c]

\* PostgresCaseStore: documents by their place in the order of created_at.
PgRecord(m, d, c) ==
  [case |-> c, meta |-> MetaOf(m, c),
   documents |-> [i \in Standing(d, c) |-> [type |-> d[i].type, confirmed |-> d[i].confirmed]]]

\* FileCaseStore: documents by their place in the order of their file names.
FileRecord(m, d, c) ==
  LET files == {i \in DOMAIN d : d[i].case = c /\ d[i].superseded_by = 0} IN
  [case |-> c,
   meta |-> MetaOf(m, c),
   documents |-> [n \in {IdOrder[i] : i \in files} |->
                    LET i == CHOOSE i \in files : IdOrder[i] = n IN
                    [type |-> d[i].type, confirmed |-> d[i].confirmed]]]

\* The last confirmed document of a type.
Latest(rec, t) ==
  LET hits == {i \in DOMAIN rec.documents :
                 rec.documents[i].type = t /\ rec.documents[i].confirmed # Null} IN
  IF hits = {} THEN Null ELSE rec.documents[Max(hits)].confirmed

\* _field, _num.
Field(doc, name) == IF doc = Null THEN Null ELSE doc[name]

\* build_rules_payload.
BuildRulesPayload(rec) ==
  LET p == Latest(rec, "passport")
      t == Latest(rec, "transcript")
      c == Latest(rec, "degree_certificate")
      e == Latest(rec, "english_test") IN
  [passport_name |-> Field(p, "name"), passport_dob |-> Field(p, "dob"),
   passport_expiry |-> Field(p, "expiry"),
   transcript_name |-> Field(t, "name"), transcript_dob |-> Field(t, "dob"),
   transcript_grad_date |-> Field(t, "date"),
   certificate_grad_date |-> Field(c, "date"),
   english_test_name |-> Field(e, "name"), english_test_dob |-> Field(e, "dob"),
   english_test_date |-> Field(e, "date"),
   course_end_date |-> rec.meta.course_end_date,
   submission_target |-> rec.meta.submission_target]

\* listDocuments, newest first, as the web tier reads the documents of a case.
Listed(d, c) == {i \in DOMAIN d : d[i].superseded_by = 0 /\ d[i].case = c}

\* latestConfirmed.
LatestConfirmed(d, list, t) ==
  LET hits == {i \in list : d[i].type = t /\ d[i].confirmed # Null} IN
  IF hits = {} THEN Null ELSE d[CHOOSE i \in hits : \A j \in hits : j <= i].confirmed

\* loadCaseSummary's runChecks: getCaseMeta or defaultMeta, and buildCase.
BuildCase(m, d, case) ==
  LET One(t) == LatestConfirmed(d, Listed(d, case), t)
      Str(t, name) == IF One(t) = Null THEN Null ELSE One(t)[name]
      meta == MetaOf(m, case) IN
  [passport_name |-> Str("passport", "name"), passport_dob |-> Str("passport", "dob"),
   passport_expiry |-> Str("passport", "expiry"),
   transcript_name |-> Str("transcript", "name"), transcript_dob |-> Str("transcript", "dob"),
   transcript_grad_date |-> Str("transcript", "date"),
   certificate_grad_date |-> Str("degree_certificate", "date"),
   english_test_name |-> Str("english_test", "name"),
   english_test_dob |-> Str("english_test", "dob"),
   english_test_date |-> Str("english_test", "date"),
   course_end_date |-> meta.course_end_date, submission_target |-> meta.submission_target]

-----------------------------------------------------------------------------
(* The study profile.                                                       *)

\* suggested_levels: a qualification is the set of the patterns it matches.
SuggestedLevels(q) ==
  IF q \in {Null, {}} \/ "master" \in q THEN {}
  ELSE IF "bachelor" \in q THEN {"master"}
  ELSE IF "diploma" \in q THEN {"bachelor"}
  ELSE {"bachelor", "diploma"}

\* _gpa_on_4, in hundredths.
GpaOn4(gpa, scale) ==
  IF gpa = Null \/ scale \in {Null, 400} THEN gpa
  ELSE IF scale > 0 THEN (800 * gpa + scale) \div (2 * scale)
  ELSE Null

Or(a, b) == IF a = Null THEN b ELSE a

\* What build_study_profile returns, as far as candidates are judged by it.
Profile ==
  [levels : SUBSET {"diploma", "bachelor", "master"},
   gpa_on_4 : Date, overall : Date, lowest_band : Date]

\* build_study_profile.
StudyProfile(rec) ==
  LET t == Latest(rec, "transcript")
      c == Latest(rec, "degree_certificate")
      e == Latest(rec, "english_test")
      bands == IF e = Null THEN {} ELSE {e.bands[k] : k \in Band} \ {Null} IN
  [levels |-> SuggestedLevels(Or(Field(c, "qualification"), Field(t, "qualification"))),
   gpa_on_4 |-> GpaOn4(Field(t, "gpa"), Field(t, "scale")),
   overall |-> Field(e, "overall"),
   lowest_band |-> IF bands = {} THEN Null ELSE Min(bands)]

\* annotate_fit: what a candidate is said to be, for a profile or Null.
Fit(program, profile) ==
  LET Of(name) == IF profile = Null THEN Null ELSE profile[name] IN
  [english |-> IF Of("overall") = Null THEN "unknown"
               ELSE IF \/ Of("overall") < program.english
                       \/ Of("lowest_band") # Null /\ Of("lowest_band") < program.band THEN "short"
               ELSE "ok",
   gpa |-> IF program.gpa = Null THEN "not_required"
           ELSE IF Of("gpa_on_4") = Null THEN "unknown"
           ELSE IF Of("gpa_on_4") >= program.gpa THEN "ok" ELSE "short"]

-----------------------------------------------------------------------------
(* Writes of the web tier.                                                  *)

Write ==
  /\ writes < MaxWrites
  /\ writes' = writes + 1

New(c, t) == [case |-> c, type |-> t, confirmed |-> Null, superseded_by |-> 0]

\* A document is extracted and stored.
AddDocument(c, t) ==
  /\ Write
  /\ Len(docs) < MaxDocuments
  /\ docs' = Append(docs, New(c, t))
  /\ UNCHANGED <<cases, retyping>>

\* Confirmations complete a document, or change what was signed off.
Confirm(i, fields) ==
  /\ Write
  /\ docs' = [docs EXCEPT ![i].confirmed = fields]
  /\ UNCHANGED <<cases, retyping>>

\* retype's first statement.  Its guards were tested before the extraction: a
\* type does not change, but a document that stood then, as each once did, may
\* be superseded by now.
Retype(i, t) ==
  /\ Write
  /\ docs[i].type # t
  /\ Len(docs) < MaxDocuments
  /\ docs' = Append(docs, New(docs[i].case, t))
  /\ retyping' = retyping \cup {<<i, Len(docs) + 1>>}
  /\ UNCHANGED cases

\* Its second one.
Supersede(pair) ==
  /\ docs' = [docs EXCEPT ![pair[1]].superseded_by = pair[2]]
  /\ retyping' = retyping \ {pair}
  /\ UNCHANGED <<cases, writes>>

\* upsertCaseMeta: the row after the patch.
SaveMeta(c, meta) ==
  /\ Write
  /\ cases' = [cases EXCEPT ![c] = meta]
  /\ UNCHANGED <<docs, retyping>>

StoreNext ==
  \/ \E c \in CaseId, t \in DocType : AddDocument(c, t)
  \/ \E i \in DOMAIN docs : \E fields \in Content[docs[i].type] : Confirm(i, fields)
  \/ \E i \in DOMAIN docs, t \in DocType : Retype(i, t)
  \/ \E pair \in retyping : Supersede(pair)
  \/ \E c \in CaseId, meta \in Metas : SaveMeta(c, meta)
=============================================================================
