------------------------------ MODULE CaseRecord ------------------------------
(***************************************************************************)
(* What the web tier keeps and shows of a case besides its documents: the  *)
(* row of the case and the two routes that save it (web/app/lib/cases.ts,  *)
(* api/cases), the profile that is rebuilt after responses                 *)
(* (lib/similar.ts, lib/profile.ts), and the summary a page loads          *)
(* (lib/checks.ts, lib/case-status.ts).  Documents and held uploads change *)
(* beside it.                                                              *)
(*                                                                         *)
(* A row is in two variables: cases[c] are the columns the agent reads too,*)
(* acked[c] the warnings a person confirmed.  Each statement on Postgres   *)
(* is a step; the last one of a transaction includes its commit.           *)
(***************************************************************************)
EXTENDS CaseStore

CONSTANTS
  Handler,   \* requests that save a row at the same time
  Refresher, \* refreshes at work at the same time
  Today,     \* the day the rules service answers on
  Patches,   \* what a form may save: some of the columns of Meta
  Confirmable, \* the warnings somebody may confirm
  Arriving,  \* the types that documents and uploads may still come in as
  Starts,    \* documents, rows and held uploads there may be at first
  MaxEvents  \* bound on the writes and saves together

VARIABLES
  acked,   \* acked[c]: the column acknowledged, {} without a row
  save,    \* save[h]: the save h serves, or Null
  saves,   \* how many there were
  profile, \* profile[c]: the row of case_profiles, or Null
  due,     \* due[c]: refreshes that follow a response and have not begun
  refresh, \* refresh[r]: the refresh at work in r, or Null
  rebuild, \* retypes that will refresh the profile
  held,    \* held[c]: the types suggested for the uploads that are held
  load,    \* what a page has read of its case, or Null
  want,    \* history: the row all saves of c add up to
  raced,   \* history: cases with a save that was made on a row it had not locked
  missed   \* history: cases with a refresh that overlapped another, failed, or
           \* was not asked for

rowVars == <<acked, save, saves, want, raced>>
profileVars == <<profile, due, refresh, missed>>

vars == <<storeVars, rowVars, profileVars, rebuild, held, load>>

Other == "other"

Row == [meta : Meta, acked : SUBSET Rule]

\* A save changes the columns of patch, or is an acknowledgement of rule, made on
\* the column as known, or one taken back; seen is the row it selected.
Save ==
  [case : CaseId, at : {"read", "select", "upsert"},
   rule : Rule \cup {Null}, undo : BOOLEAN, patch : Patches \cup {<<>>},
   known : SUBSET Rule, seen : Row \cup {Null}]

\* What the documents contribute to a profile, and the profile's text: what
\* other cases are compared by and shown.
Parts == [qualification : (SUBSET {"master", "bachelor", "diploma", "secondary"}) \cup {Null},
          band : Date]
ProfileText == [country : Country, parts : Parts]

Identity == [name : Name, dob : Int]

\* Null is the empty profile, no hash, no vector; a vector is named by the text
\* it was made of.
ProfileRow == [text : ProfileText \cup {Null}, identity : Identity \cup {Null},
               vector : ProfileText \cup {Null}]

Contribution == [parts : Parts, identity : Identity \cup {Null}]

Refresh ==
  [case : CaseId, at : {"read", "compare", "embed", "write"},
   found : Contribution \cup {Null},
   country : Country \cup {Null},
   text : ProfileText \cup {Null}, vector : ProfileText \cup {Null}]

Load ==
  [case : CaseId, todo : SUBSET {"documents", "uploads", "row"}, shown : BOOLEAN,
   docs : Seq(Document), held : SUBSET (DocType \cup {Other}),
   row : Row \cup {Null}, checks : [Rule -> Outcome] \cup {Null}]

ASSUME RecordAssumption ==
  /\ Today \in Int /\ MaxEvents \in Nat /\ Confirmable \subseteq Rule
  /\ Arriving \subseteq DocType \cup {Other}
  /\ Null \notin Row /\ Null \notin ProfileText /\ Null \notin Identity
  /\ Null \notin Country /\ Null \notin Contribution /\ Null \notin ProfileRow
  /\ Null \notin Save /\ Null \notin Refresh /\ Null \notin Load
  /\ \A p \in Patches :
       /\ DOMAIN p \subseteq {"country", "course_end_date", "submission_target"}
       /\ "country" \in DOMAIN p => p["country"] \in Country
       /\ \A col \in DOMAIN p \ {"country"} : p[col] \in Date
  /\ \A s \in Starts :
       /\ s.docs \in Seq(Document) /\ Len(s.docs) <= MaxDocuments
       /\ s.cases \in [CaseId -> Meta \cup {Null}]
       /\ s.acked \in [CaseId -> SUBSET Rule]
       /\ s.held \in [CaseId -> SUBSET (DocType \cup {Other})]
       /\ \A c \in CaseId : s.cases[c] = Null => s.acked[c] = {}
       /\ \A i \in DOMAIN s.docs : LET j == s.docs[i].superseded_by IN
            j # 0 => j \in DOMAIN s.docs /\ i < j /\ s.docs[i].case = s.docs[j].case

TypeOK ==
  /\ StoreTypeOK
  /\ acked \in [CaseId -> SUBSET Rule]
  /\ save \in [Handler -> Save \cup {Null}]
  /\ saves \in 0 .. MaxEvents
  /\ profile \in [CaseId -> ProfileRow \cup {Null}]
  /\ due \in [CaseId -> Nat]
  /\ refresh \in [Refresher -> Refresh \cup {Null}]
  /\ rebuild \subseteq retyping
  /\ held \in [CaseId -> SUBSET (DocType \cup {Other})]
  /\ load \in Load \cup {Null}
  /\ want \in [CaseId -> Row]
  /\ raced \subseteq CaseId /\ missed \subseteq CaseId
  /\ \A c \in CaseId : cases[c] = Null => acked[c] = {}

-----------------------------------------------------------------------------
(* The profile of a case.                                                   *)

\* scoreBand, in hundredths: a half-band bucket, never the exact score.
ScoreBand(overall) == (overall \div 50) * 50

\* The documents' part of buildCaseProfile: the degree certificate first, then
\* the transcript.
PartsOf(d, c) ==
  LET One(t) == LatestConfirmed(d, Listed(d, c), t)
      overall == Field(One("english_test"), "overall") IN
  [qualification |-> Or(Field(One("degree_certificate"), "qualification"),
                        Field(One("transcript"), "qualification")),
   band |-> IF overall = Null THEN Null ELSE ScoreBand(overall)]

\* Its result: no profile unless some part contributes.
BuildCaseProfile(country, parts) ==
  IF parts = [qualification |-> Null, band |-> Null] THEN Null
  ELSE [country |-> country, parts |-> parts]

\* passportIdentity and identityHash: both names and the date, or none.
PassportIdentity(d, c) ==
  LET p == LatestConfirmed(d, Listed(d, c), "passport") IN
  IF Field(p, "holder") = Null \/ Field(p, "dob") = Null THEN Null
  ELSE [name |-> p.holder, dob |-> p.dob]

\* The row that a refresh leaves which meets no other, and does not fail.
Rebuilt(m, d, c) ==
  LET text == BuildCaseProfile(MetaOf(m, c).country, PartsOf(d, c))
      identity == PassportIdentity(d, c) IN
  IF text = Null /\ identity = Null THEN Null
  ELSE [text |-> text, identity |-> identity, vector |-> text]

-----------------------------------------------------------------------------
(* The summary of a case, from what a page has read.                        *)

\* latestByType: the newest document of a type, by its place, or Null.
LatestByType(l, t) ==
  LET hits == {i \in Listed(l.docs, l.case) : l.docs[i].type = t} IN
  IF hits = {} THEN Null ELSE Max(hits)

\* docState, as far as the status tells states apart.
Reviewed(l, t) == LatestByType(l, t) # Null /\ l.docs[LatestByType(l, t)].confirmed # Null

Awaited(l) == {t \in DocType : LatestByType(l, t) = Null /\ t \notin l.held}

\* The documents the page has and a reviewer is not done with.
ToReview(l) == {t \in DocType : LatestByType(l, t) # Null /\ ~Reviewed(l, t)}

With(l, outcome) ==
  IF l.checks = Null THEN {} ELSE {r \in Rule : l.checks[r] = outcome}

Acknowledged(l) == IF l.row = Null THEN {} ELSE l.row.acked

Warns(l) == With(l, "warn") \ Acknowledged(l)

\* openItems.
OpenItems(l) == l.held \cup ToReview(l) \cup Awaited(l) \cup Warns(l)

\* Mutant of CaseStatus: documents that wait for a reviewer do not count.
CaseStatusUnreviewed(l) ==
  IF With(l, "block") # {} THEN "blocked"
  ELSE IF Awaited(l) # {} THEN "pending_documents"
  ELSE IF l.held \cup Warns(l) = {} /\ l.checks # Null /\ CanProceed(l.checks) THEN "ready"
  ELSE "needs_review"

\* summarize: the state of the case as a whole.
CaseStatus(l) ==
  IF With(l, "block") # {} THEN "blocked"
  ELSE IF Awaited(l) # {} THEN "pending_documents"
  ELSE IF /\ l.held \cup ToReview(l) \cup Warns(l) = {}
          /\ l.checks # Null /\ CanProceed(l.checks) THEN "ready"
  ELSE "needs_review"

-----------------------------------------------------------------------------
Init ==
  /\ \E s \in Starts : docs = s.docs /\ cases = s.cases /\ acked = s.acked /\ held = s.held
  /\ retyping = {} /\ writes = 0
  /\ save = [h \in Handler |-> Null] /\ saves = 0
  /\ profile = [c \in CaseId |-> Rebuilt(cases, docs, c)]
  /\ due = [c \in CaseId |-> 0]
  /\ refresh = [r \in Refresher |-> Null]
  /\ rebuild = {}
  /\ load = Null
  /\ want = [c \in CaseId |-> [meta |-> MetaOf(cases, c), acked |-> acked[c]]]
  /\ raced = {} /\ missed = {}

-----------------------------------------------------------------------------
(* Saves of a row.                                                          *)

RowOf(c) == IF cases[c] = Null THEN Null ELSE [meta |-> cases[c], acked |-> acked[c]]

Begin(h, s) ==
  /\ save[h] = Null /\ saves + writes < MaxEvents
  /\ saves' = saves + 1
  /\ save' = [save EXCEPT ![h] = s]
  /\ UNCHANGED <<storeVars, acked, want, raced, profileVars, rebuild, held, load>>

\* POST /api/cases, with what the form has.
Post(h, c, patch) ==
  Begin(h, [case |-> c, at |-> "select", rule |-> Null, undo |-> FALSE, patch |-> patch,
            known |-> {}, seen |-> Null])

\* POST /api/cases/[id]/acknowledge: a person confirms a warning, or takes that back.
Acknowledge(h, c, rule, undo) ==
  Begin(h, [case |-> c, at |-> "read", rule |-> rule, undo |-> undo, patch |-> <<>>,
            known |-> {}, seen |-> Null])

At(h, point) == save[h] # Null /\ save[h].at = point

\* The column acknowledged after a save of it.
Marked(s, known) == IF s.undo THEN known \ {s.rule} ELSE known \cup {s.rule}

\* The route reads the acknowledgements it will write back, outside the transaction.
ReadAcknowledged(h) ==
  /\ At(h, "read")
  /\ LET s == save[h] IN
     save' = [save EXCEPT ![h] = [s EXCEPT !.at = "select", !.known = acked[s.case]]]
  /\ UNCHANGED <<storeVars, acked, saves, want, raced, profileVars, rebuild, held, load>>

\* Mutant of Locked: the row is read without FOR UPDATE.
NeverLocked(h) == FALSE

\* Another transaction holds the row.
Locked(h) ==
  \E g \in Handler \ {h} :
    At(g, "upsert") /\ save[g].case = save[h].case /\ save[g].seen # Null

\* upsertCaseMeta's SELECT ... FOR UPDATE: of a row that is not there it locks
\* nothing.
SelectRow(h) ==
  /\ At(h, "select") /\ ~Locked(h)
  /\ save' = [save EXCEPT ![h].at = "upsert", ![h].seen = RowOf(save[h].case)]
  /\ UNCHANGED <<storeVars, acked, saves, want, raced, profileVars, rebuild, held, load>>

\* defaultMeta.
DefaultMeta == [country |-> "AU", course_end_date |-> Null, submission_target |-> Null]

Overlay(meta, patch) ==
  [col \in DOMAIN meta |-> IF col \in DOMAIN patch THEN patch[col] ELSE meta[col]]

\* next in upsertCaseMeta: the row as selected, or defaultMeta, under the patch.
NextRow(s) ==
  LET cur == IF s.seen = Null THEN [meta |-> DefaultMeta, acked |-> {}] ELSE s.seen IN
  [meta |-> Overlay(cur.meta, s.patch),
   acked |-> IF s.rule = Null THEN cur.acked ELSE Marked(s, s.known)]

\* The upsert and the commit; a form that names the country has the profile
\* rebuilt after the response.  One that does not, and found no row, may still
\* put the country of a row saved meanwhile back to the default.
Upsert(h) ==
  /\ At(h, "upsert") /\ ~Locked(h)
  /\ LET s == save[h]
         c == s.case IN
     /\ cases' = [cases EXCEPT ![c] = NextRow(s).meta]
     /\ acked' = [acked EXCEPT ![c] = NextRow(s).acked]
     /\ want' = [want EXCEPT ![c] =
                   [meta |-> Overlay(@.meta, s.patch),
                    acked |-> IF s.rule = Null THEN @.acked ELSE Marked(s, @.acked)]]
     /\ raced' = IF \/ s.seen = Null /\ cases[c] # Null
                    \/ s.rule # Null /\ s.known # acked[c]
                 THEN raced \cup {c} ELSE raced
     /\ due' = [due EXCEPT ![c] = IF "country" \in DOMAIN s.patch THEN @ + 1 ELSE @]
     /\ missed' = IF /\ "country" \notin DOMAIN s.patch
                     /\ NextRow(s).meta.country # MetaOf(cases, c).country
                  THEN missed \cup {c} ELSE missed
  /\ save' = [save EXCEPT ![h] = Null]
  /\ UNCHANGED <<docs, retyping, writes, saves, profile, refresh, rebuild, held, load>>

\* A statement fails, or the process dies: nothing was written.
SaveFails(h) ==
  /\ save[h] # Null
  /\ save' = [save EXCEPT ![h] = Null]
  /\ UNCHANGED <<storeVars, acked, saves, want, raced, profileVars, rebuild, held, load>>

-----------------------------------------------------------------------------
(* refreshCaseProfile, after the response to what asked for it.             *)

Busy(r, point) == refresh[r] # Null /\ refresh[r].at = point

Refreshes(r, to) ==
  /\ refresh' = [refresh EXCEPT ![r] = to]
  /\ UNCHANGED <<storeVars, rowVars, rebuild, held, load>>

\* A refresh begins; it meets another one of its case, or not.
StartRefresh(r, c) ==
  /\ refresh[r] = Null /\ due[c] > 0
  /\ due' = [due EXCEPT ![c] = @ - 1]
  /\ missed' = IF \E q \in Refresher : refresh[q] # Null /\ refresh[q].case = c
               THEN missed \cup {c} ELSE missed
  /\ Refreshes(r, [case |-> c, at |-> "read", found |-> Null, country |-> Null,
                   text |-> Null, vector |-> Null])
  /\ UNCHANGED profile

\* Its two reads come back in either order.
ReadParts(r) ==
  /\ Busy(r, "read") /\ refresh[r].found = Null
  /\ LET c == refresh[r].case IN
     Refreshes(r, [refresh[r] EXCEPT
       !.found = [parts |-> PartsOf(docs, c), identity |-> PassportIdentity(docs, c)],
       !.at = IF refresh[r].country = Null THEN @ ELSE "compare"])
  /\ UNCHANGED <<profile, due, missed>>

ReadCountry(r) ==
  /\ Busy(r, "read") /\ refresh[r].country = Null
  /\ Refreshes(r, [refresh[r] EXCEPT !.country = MetaOf(cases, refresh[r].case).country,
                     !.at = IF refresh[r].found = Null THEN @ ELSE "compare"])
  /\ UNCHANGED <<profile, due, missed>>

\* Mutant of Unchanged: any vector will do.
UnchangedWithVector(row, text) == row # Null /\ (row.vector # Null \/ text = Null)

\* The row is the one a refresh would write, as far as the vector goes.
Unchanged(row, text) ==
  row # Null /\ row.text = text /\ (row.vector # Null \/ text = Null)

\* Nothing to keep: the row goes.  Otherwise the row is compared, and the text
\* embedded unless it is unchanged.
Compare(r) ==
  /\ Busy(r, "compare")
  /\ LET f == refresh[r]
         text == BuildCaseProfile(f.country, f.found.parts) IN
     IF text = Null /\ f.found.identity = Null
       THEN /\ profile' = [profile EXCEPT ![f.case] = Null]
            /\ Refreshes(r, Null)
       ELSE /\ Refreshes(r, [f EXCEPT !.text = text,
                 !.at = IF text # Null /\ ~Unchanged(profile[f.case], text)
                        THEN "embed" ELSE "write"])
            /\ UNCHANGED profile
  /\ UNCHANGED <<due, missed>>

Embed(r) ==
  /\ Busy(r, "embed")
  /\ Refreshes(r, [refresh[r] EXCEPT !.at = "write", !.vector = refresh[r].text])
  /\ UNCHANGED <<profile, due, missed>>

\* The row after INSERT ... ON CONFLICT.
Upserted(old, f) ==
  [text |-> f.text, identity |-> f.found.identity,
   vector |-> IF f.text = Null THEN Null
              ELSE IF f.vector # Null \/ old = Null THEN f.vector
              ELSE old.vector]

WriteProfile(r) ==
  /\ Busy(r, "write")
  /\ LET f == refresh[r] IN
     profile' = [profile EXCEPT ![f.case] = Upserted(@, f)]
  /\ Refreshes(r, Null)
  /\ UNCHANGED <<due, missed>>

\* A read, the embedding or the write fails, or the process dies: it is logged
\* at most, and nothing asks again.
RefreshFails(r) ==
  /\ refresh[r] # Null
  /\ missed' = missed \cup {refresh[r].case}
  /\ Refreshes(r, Null)
  /\ UNCHANGED <<profile, due>>

-----------------------------------------------------------------------------
(* Documents and uploads, beside all this (CaseStore).                      *)

Others == <<rowVars, profile, refresh, load>>

AddsDocument(c, t) ==
  /\ AddDocument(c, t)
  /\ UNCHANGED <<Others, due, missed, rebuild, held>>

\* Mutant of Confirms: the profile is not rebuilt.
ConfirmsQuietly(i, fields) ==
  /\ Confirm(i, fields)
  /\ UNCHANGED <<Others, due, missed, rebuild, held>>

\* A confirmation that leaves a complete document has the profile rebuilt.
Confirms(i, fields) ==
  /\ Confirm(i, fields)
  /\ due' = [due EXCEPT ![docs[i].case] = @ + 1]
  /\ UNCHANGED <<Others, missed, rebuild, held>>

\* The new document of a retype.  Whether the profile will be rebuilt goes by
\* the old one as the route read it, before the extraction: with one that is
\* signed off now, early or late.
Retypes(i, t, early) ==
  /\ Retype(i, t)
  /\ early => docs[i].confirmed # Null
  /\ rebuild' = IF early THEN rebuild \cup (retyping' \ retyping) ELSE rebuild
  /\ UNCHANGED <<Others, due, missed, held>>

\* Mutant of Supersedes: what was to be rebuilt is not forgotten.
SupersedesAgain(pair) ==
  /\ Supersede(pair)
  /\ due' = [due EXCEPT ![docs[pair[1]].case] = IF pair \in rebuild THEN @ + 1 ELSE @]
  /\ UNCHANGED <<Others, missed, rebuild, held>>

\* The old document is marked, and the profile rebuilt after the response if the
\* route knows of one that contributed.
Supersedes(pair) ==
  /\ Supersede(pair)
  /\ LET old == docs[pair[1]] IN
     /\ due' = [due EXCEPT ![old.case] = IF pair \in rebuild THEN @ + 1 ELSE @]
     /\ missed' = IF old.confirmed # Null /\ pair \notin rebuild
                  THEN missed \cup {old.case} ELSE missed
  /\ rebuild' = rebuild \ {pair}
  /\ UNCHANGED <<Others, held>>

\* An upload is held under a guess, or extracted or moved to another one.
HoldUpload(c, t) ==
  /\ Write
  /\ held' = [held EXCEPT ![c] = @ \cup {t}]
  /\ UNCHANGED <<docs, cases, retyping, Others, due, missed, rebuild>>

SettleUpload(c, t) ==
  /\ Write /\ t \in held[c]
  /\ held' = [held EXCEPT ![c] = @ \ {t}]
  /\ UNCHANGED <<docs, cases, retyping, Others, due, missed, rebuild>>

-----------------------------------------------------------------------------
(* loadCaseSummary.                                                         *)

Loads(to) ==
  /\ load' = to
  /\ UNCHANGED <<storeVars, rowVars, profileVars, rebuild, held>>

\* A page asks for its case, or is done with one.
OpenPage(c) ==
  /\ load = Null
  /\ Loads([case |-> c, todo |-> {"documents", "uploads", "row"}, shown |-> FALSE,
            docs |-> <<>>, held |-> {}, row |-> Null, checks |-> Null])

ClosePage == load # Null /\ Loads(Null)

\* Three reads, each a statement of its own, in any order.
ReadsNext(part) == load # Null /\ part \in load.todo

LoadDocuments ==
  /\ ReadsNext("documents")
  /\ Loads([load EXCEPT !.todo = @ \ {"documents"}, !.docs = docs])

LoadUploads ==
  /\ ReadsNext("uploads")
  /\ Loads([load EXCEPT !.todo = @ \ {"uploads"}, !.held = held[load.case]])

LoadRow ==
  /\ ReadsNext("row")
  /\ Loads([load EXCEPT !.todo = @ \ {"row"}, !.row = RowOf(load.case)])

\* What runChecks asks the rules service about.
Asked(l) ==
  BuildCase([c \in CaseId |-> IF l.row = Null THEN Null ELSE l.row.meta], l.docs, l.case)

\* runChecks, which may get no answer, and the summary.  A case nothing is
\* known of has none; dismissed says whether it has uploads although none is
\* held, which listUploads returns too.
Show(answered, dismissed) ==
  /\ load # Null /\ load.todo = {} /\ ~load.shown
  /\ LET mine == Listed(load.docs, load.case)
         some == \E i \in mine : load.docs[i].confirmed # Null IN
     /\ answered => some
     /\ Loads(IF load.row = Null /\ mine = {} /\ load.held = {} /\ ~dismissed THEN Null
              ELSE [load EXCEPT !.shown = TRUE,
                      !.checks = IF answered THEN Evaluate(Asked(load), Today) ELSE Null])

-----------------------------------------------------------------------------
\* What a request that saves a row does.
SaveStep(h) ==
  \/ \E c \in CaseId : \/ \E patch \in Patches : Post(h, c, patch)
                      \/ \E rule \in Confirmable, undo \in BOOLEAN : Acknowledge(h, c, rule, undo)
  \/ ReadAcknowledged(h) \/ SelectRow(h) \/ Upsert(h) \/ SaveFails(h)

\* What a refresh does.
RefreshStep(r) ==
  \/ \E c \in CaseId : StartRefresh(r, c)
  \/ ReadParts(r) \/ ReadCountry(r) \/ Compare(r) \/ Embed(r) \/ WriteProfile(r) \/ RefreshFails(r)

\* What happens to documents.
DocumentStep ==
  \/ \E pair \in retyping : Supersedes(pair)
  \/ /\ writes + saves < MaxEvents
     /\ \/ \E c \in CaseId, t \in Arriving \ {Other} : AddsDocument(c, t)
        \/ \E i \in DOMAIN docs : \E fields \in Content[docs[i].type] : Confirms(i, fields)
        \/ \E i \in DOMAIN docs, t \in Arriving \ {Other}, early \in BOOLEAN : Retypes(i, t, early)

\* What happens to uploads.
UploadStep ==
  /\ writes + saves < MaxEvents
  /\ \E c \in CaseId, t \in Arriving : HoldUpload(c, t) \/ SettleUpload(c, t)

\* What the page does.
PageStep ==
  \/ \E c \in CaseId : OpenPage(c)
  \/ ClosePage \/ LoadDocuments \/ LoadUploads \/ LoadRow
  \/ \E answered, dismissed \in BOOLEAN : Show(answered, dismissed)

Next ==
  \/ \E h \in Handler : SaveStep(h)
  \/ \E r \in Refresher : RefreshStep(r)
  \/ DocumentStep \/ UploadStep \/ PageStep

Spec == Init /\ [][Next]_vars

-----------------------------------------------------------------------------
(* Properties.                                                              *)

\* A form's save and an acknowledgement, at the same time, keep each other's
\* columns, and so do two forms: a row is what all saves add up to, in the order
\* they were made.  Only two things are lost: a save made while the row's first
\* one was under way, which found nothing to lock, and an acknowledgement made
\* beside another, whose column was read before the lock (cases.ts:76,
\* acknowledge/route.ts:22).
SavesAreKept ==
  \A c \in CaseId \ raced :
    want[c] = [meta |-> MetaOf(cases, c), acked |-> acked[c]]

\* A case is shown as ready only if, in one snapshot of its documents, the newest
\* one of each type is signed off and is the one whose values the rules were asked
\* about, the same values the agent would ask about, nothing is held, and every
\* warning was confirmed.  It is then ready exactly when the page lists nothing to
\* do and every check could be made and blocks nothing (case-status.ts:150).
ReadyIsBacked ==
  (load # Null /\ load.shown) =>
    /\ CaseStatus(load) = "ready" =>
         LET m == [c \in CaseId |-> IF load.row = Null THEN Null ELSE load.row.meta]
             checks == Evaluate(BuildRulesPayload(PgRecord(m, load.docs, load.case)), Today) IN
         /\ \A t \in DocType :
              /\ LatestByType(load, t) # Null
              /\ LET i == LatestByType(load, t) IN
                 /\ load.docs[i].confirmed # Null
                 /\ load.docs[i].confirmed =
                      LatestConfirmed(load.docs, Listed(load.docs, load.case), t)
                 /\ docs[i].confirmed # Null
         /\ load.held = {}
         /\ checks = load.checks
         /\ \A r \in Rule : checks[r] = "pass" \/ (checks[r] = "warn" /\ r \in load.row.acked)
    /\ CaseStatus(load) = "ready" <=>
         /\ OpenItems(load) = {}
         /\ load.checks # Null
         /\ \A r \in Rule : load.checks[r] \in {"pass", "warn"}

\* What similar cases are found by: no vector without a profile, and, as long as
\* no two refreshes of the case met, only the vector of the profile that is shown
\* with it (similar.ts:52, :64).
VectorIsOfItsText ==
  \A c \in CaseId : profile[c] # Null =>
    /\ profile[c].text = Null => profile[c].vector = Null
    /\ c \notin missed => profile[c].vector = profile[c].text

\* When all refreshes that were asked for are through, and none failed, met
\* another or was not asked for, the profile is that of what is signed off now:
\* no confirmation, retype or change of country in the meantime is left out
\* (confirm/route.ts:48, api/cases/route.ts:68).
ProfileIsCurrent ==
  \A c \in CaseId \ missed :
    (due[c] = 0 /\ \A r \in Refresher : refresh[r] = Null \/ refresh[r].case # c) =>
      profile[c] = Rebuilt(cases, docs, c)
=============================================================================
