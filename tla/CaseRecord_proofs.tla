--------------------------- MODULE CaseRecord_proofs ---------------------------
(***************************************************************************)
(* Theorems about CaseRecord, for any number of saves, refreshes and cases *)
(* and whatever is written beside them.  The row of a case, its profile    *)
(* and the page have an invariant each; none needs the other two.          *)
(***************************************************************************)
EXTENDS CaseRecord, CaseStore_proofs

-----------------------------------------------------------------------------
(* Types.                                                                   *)

\* The row of a case and the saves of it.
RowTypeOK ==
  /\ acked \in [CaseId -> SUBSET Rule]
  /\ save \in [Handler -> Save \cup {Null}]
  /\ saves \in 0 .. MaxEvents
  /\ want \in [CaseId -> Row]
  /\ raced \subseteq CaseId
  /\ \A c \in CaseId : cases[c] = Null => acked[c] = {}

\* Its profile and the refreshes.
ProfileTypeOK ==
  /\ profile \in [CaseId -> ProfileRow \cup {Null}]
  /\ due \in [CaseId -> Nat]
  /\ refresh \in [Refresher -> Refresh \cup {Null}]
  /\ missed \subseteq CaseId

\* What is beside them, and the page.
BesideTypeOK ==
  /\ rebuild \subseteq retyping
  /\ held \in [CaseId -> SUBSET (DocType \cup {Other})]

LoadTypeOK == load \in Load \cup {Null}

\* A column of the row, as the form sends it or as it was.
LEMMA OverlayTyped ==
  ASSUME NEW meta \in Meta, NEW p \in Patches \cup {<<>>}
  PROVE  /\ Overlay(meta, p) \in Meta
         /\ Overlay(meta, p).country = IF "country" \in DOMAIN p THEN p["country"] ELSE meta.country
<1>1. DOMAIN meta = {"country", "course_end_date", "submission_target"}
  BY DEF Meta
<1>2. \A col \in DOMAIN meta : Overlay(meta, p)[col] = IF col \in DOMAIN p THEN p[col] ELSE meta[col]
  BY DEF Overlay
<1>3. /\ "country" \in DOMAIN p => p["country"] \in Country
      /\ \A col \in DOMAIN p \ {"country"} : p[col] \in Date
  BY RecordAssumption DEF RecordAssumption
<1>4. meta["country"] \in Country /\ meta["course_end_date"] \in Date /\ meta["submission_target"] \in Date
  BY DEF Meta
<1>5. /\ Overlay(meta, p)["country"] \in Country /\ Overlay(meta, p)["course_end_date"] \in Date
      /\ Overlay(meta, p)["submission_target"] \in Date
  BY <1>1, <1>2, <1>3, <1>4
<1>6. Overlay(meta, p) = [country |-> Overlay(meta, p)["country"],
                          course_end_date |-> Overlay(meta, p)["course_end_date"],
                          submission_target |-> Overlay(meta, p)["submission_target"]]
  BY <1>1 DEF Overlay
<1> QED
  BY <1>1, <1>2, <1>5, <1>6 DEF Meta

\* The default columns.
LEMMA DefaultTyped == DefaultMeta \in Meta
BY DEF DefaultMeta, Meta, Country, Date

\* What a row is saved as.
LEMMA NextRowTyped ==
  ASSUME NEW s \in Save
  PROVE  /\ NextRow(s) \in Row
         /\ s.seen = Null => NextRow(s).meta = Overlay(DefaultMeta, s.patch)
         /\ s.seen # Null => NextRow(s).meta = Overlay(s.seen.meta, s.patch)
         /\ s.rule # Null => NextRow(s).acked = Marked(s, s.known)
         /\ s.rule = Null => NextRow(s).acked = IF s.seen = Null THEN {} ELSE s.seen.acked
<1>1. /\ s.patch \in Patches \cup {<<>>} /\ s.known \in SUBSET Rule /\ s.rule \in Rule \cup {Null}
      /\ s.seen \in Row \cup {Null}
  BY DEF Save
<1>2. s.seen # Null => s.seen.meta \in Meta /\ s.seen.acked \in SUBSET Rule
  BY <1>1 DEF Row
<1>3. Overlay(DefaultMeta, s.patch) \in Meta
      /\ (s.seen # Null => Overlay(s.seen.meta, s.patch) \in Meta)
  BY <1>1, <1>2, DefaultTyped, OverlayTyped
<1>4. s.rule # Null => Marked(s, s.known) \in SUBSET Rule
  BY <1>1 DEF Marked
<1> QED
  BY <1>1, <1>2, <1>3, <1>4 DEF NextRow, Row

-----------------------------------------------------------------------------
(* The row.                                                                 *)

\* The row a save selected under its lock stays as it is until its upsert.
LockedRowsStay ==
  \A h \in Handler : At(h, "upsert") /\ save[h].seen # Null =>
    RowOf(save[h].case) = save[h].seen

RowInv == RowTypeOK /\ LockedRowsStay /\ SavesAreKept

\* A request leaves all others' saves, and its own well typed.
LEMMA OneSaveChanges ==
  ASSUME RowTypeOK, NEW h \in Handler, NEW s \in Save \cup {Null},
         save' = [save EXCEPT ![h] = s]
  PROVE  /\ save' \in [Handler -> Save \cup {Null}] /\ save'[h] = s
         /\ \A g \in Handler : g # h => save'[g] = save[g]
BY DEF RowTypeOK

\* A step of a request keeps the row's invariant; all it does to a case besides
\* is to give it a row.
LEMMA SaveStepsKeepRow ==
  ASSUME StoreInv, RowInv, NEW h \in Handler, SaveStep(h)
  PROVE  /\ RowInv' /\ cases' \in [CaseId -> Meta \cup {Null}]
         /\ \A c \in CaseId : cases[c] # Null => cases'[c] # Null
         /\ UNCHANGED <<docs, retyping, writes, profile, refresh, rebuild, held, load>>
<1>0. /\ acked \in [CaseId -> SUBSET Rule] /\ save \in [Handler -> Save \cup {Null}]
      /\ saves \in 0 .. MaxEvents /\ want \in [CaseId -> Row] /\ raced \subseteq CaseId
      /\ \A c \in CaseId : cases[c] = Null => acked[c] = {}
      /\ cases \in [CaseId -> Meta \cup {Null}]
      /\ MaxEvents \in Nat /\ writes \in Nat /\ Null \notin Save /\ Null \notin Row
      /\ Confirmable \subseteq Rule /\ MaxWrites \in Nat /\ Null \notin Meta
  BY RecordAssumption, StoreAssumption
  DEF RowInv, RowTypeOK, StoreInv, StoreTypeOK, RecordAssumption, StoreAssumption
<1>1. ASSUME NEW s \in Save, s.at # "upsert", Begin(h, s)
      PROVE  RowInv'
  <2>1. /\ save' = [save EXCEPT ![h] = s] /\ saves' = saves + 1 /\ saves + writes < MaxEvents
        /\ UNCHANGED <<cases, acked, want, raced>>
    BY <1>1 DEF Begin, storeVars
  <2>2. /\ save' \in [Handler -> Save \cup {Null}] /\ save'[h] = s
        /\ \A g \in Handler : g # h => save'[g] = save[g]
    BY <2>1, OneSaveChanges DEF RowInv
  <2>3. RowTypeOK'
    BY <1>0, <2>1, <2>2 DEF RowTypeOK
  <2>4. LockedRowsStay'
    BY <1>1, <2>1, <2>2 DEF RowInv, LockedRowsStay, At, RowOf
  <2>5. SavesAreKept'
    BY <2>1 DEF RowInv, SavesAreKept, MetaOf
  <2> QED
    BY <2>3, <2>4, <2>5 DEF RowInv
<1>2. ASSUME NEW c \in CaseId, NEW patch \in Patches, Post(h, c, patch)
      PROVE  RowInv'
  <2> DEFINE s == [case |-> c, at |-> "select", rule |-> Null, undo |-> FALSE, patch |-> patch,
                   known |-> {}, seen |-> Null]
  <2>1. s \in Save /\ s.at # "upsert"
    BY DEF Save
  <2> QED
    BY <1>1, <1>2, <2>1 DEF Post
<1>3. ASSUME NEW c \in CaseId, NEW rule \in Confirmable, NEW undo \in BOOLEAN,
             Acknowledge(h, c, rule, undo)
      PROVE  RowInv'
  <2> DEFINE s == [case |-> c, at |-> "read", rule |-> rule, undo |-> undo, patch |-> <<>>,
                   known |-> {}, seen |-> Null]
  <2>1. rule \in Rule
    BY <1>0
  <2>2. s \in Save /\ s.at # "upsert"
    BY <2>1 DEF Save
  <2> QED
    BY <1>1, <1>3, <2>2 DEF Acknowledge
<1>4. ASSUME NEW s \in Save \cup {Null}, save' = [save EXCEPT ![h] = s],
             s # Null /\ s.at = "upsert" /\ s.seen # Null => s.seen = RowOf(s.case),
             UNCHANGED <<cases, acked, saves, want, raced>>
      PROVE  RowInv'
  <2>1. /\ save' \in [Handler -> Save \cup {Null}] /\ save'[h] = s
        /\ \A g \in Handler : g # h => save'[g] = save[g]
    BY <1>4, OneSaveChanges DEF RowInv
  <2>2. RowTypeOK'
    BY <1>0, <1>4, <2>1 DEF RowTypeOK
  <2>3. LockedRowsStay'
    BY <1>4, <2>1 DEF RowInv, LockedRowsStay, At, RowOf
  <2>4. SavesAreKept'
    BY <1>4 DEF RowInv, SavesAreKept, MetaOf
  <2> QED
    BY <2>2, <2>3, <2>4 DEF RowInv
<1>5. ASSUME ReadAcknowledged(h)
      PROVE  RowInv'
  <2> DEFINE s == [save[h] EXCEPT !.at = "select", !.known = acked[save[h].case]]
  <2>1. save[h] \in Save /\ save[h].case \in CaseId
    BY <1>0, <1>5 DEF ReadAcknowledged, At, Save
  <2>2. acked[save[h].case] \in SUBSET Rule
    BY <1>0, <2>1
  <2>3. s \in Save /\ s.at = "select"
    BY <2>1, <2>2 DEF Save
  <2>4. save' = [save EXCEPT ![h] = s] /\ UNCHANGED <<cases, acked, saves, want, raced>>
    BY <1>5 DEF ReadAcknowledged, storeVars
  <2> HIDE DEF s
  <2> QED
    BY <1>4, <2>3, <2>4
<1>6. ASSUME SelectRow(h)
      PROVE  RowInv'
  <2> DEFINE s == [save[h] EXCEPT !.at = "upsert", !.seen = RowOf(save[h].case)]
  <2>1. save[h] \in Save /\ save[h].case \in CaseId
    BY <1>0, <1>6 DEF SelectRow, At, Save
  <2>2. RowOf(save[h].case) \in Row \cup {Null}
    BY <1>0, <2>1 DEF RowOf, Row
  <2>3. s \in Save /\ s.seen = RowOf(s.case)
    BY <2>1, <2>2 DEF Save
  <2>4. save' = [save EXCEPT ![h] = s] /\ UNCHANGED <<cases, acked, saves, want, raced>>
    BY <1>0, <1>6 DEF SelectRow, storeVars
  <2> HIDE DEF s
  <2> QED
    BY <1>4, <2>3, <2>4
<1>7. ASSUME SaveFails(h)
      PROVE  RowInv'
  <2>1. save' = [save EXCEPT ![h] = Null] /\ UNCHANGED <<cases, acked, saves, want, raced>>
    BY <1>7 DEF SaveFails, storeVars
  <2> QED
    BY <1>4, <2>1
<1>8. ASSUME Upsert(h)
      PROVE  /\ RowInv' /\ cases' \in [CaseId -> Meta \cup {Null}]
             /\ \A c \in CaseId : cases[c] # Null => cases'[c] # Null
  <2> DEFINE s == save[h]
             row == NextRow(s)
  <2>1. s \in Save /\ s.case \in CaseId /\ s.at = "upsert" /\ ~Locked(h)
    BY <1>0, <1>8 DEF Upsert, At, Save
  <2>2. row \in Row /\ row.meta \in Meta /\ row.acked \in SUBSET Rule
    BY <2>1, NextRowTyped DEF Row
  <2>3. /\ cases' = [cases EXCEPT ![s.case] = row.meta]
        /\ acked' = [acked EXCEPT ![s.case] = row.acked]
        /\ want' = [want EXCEPT ![s.case] =
                     [meta |-> Overlay(want[s.case].meta, s.patch),
                      acked |-> IF s.rule = Null THEN want[s.case].acked
                                ELSE Marked(s, want[s.case].acked)]]
        /\ raced' = IF \/ s.seen = Null /\ cases[s.case] # Null
                       \/ s.rule # Null /\ s.known # acked[s.case]
                    THEN raced \cup {s.case} ELSE raced
        /\ save' = [save EXCEPT ![h] = Null] /\ saves' = saves
    BY <1>8 DEF Upsert
  <2>4. /\ save' \in [Handler -> Save \cup {Null}] /\ save'[h] = Null
        /\ \A g \in Handler : g # h => save'[g] = save[g]
    BY <2>3, OneSaveChanges DEF RowInv
  <2>5. /\ s.patch \in Patches \cup {<<>>} /\ s.rule \in Rule \cup {Null}
    BY <2>1 DEF Save
  <2>6. want[s.case].meta \in Meta /\ want[s.case].acked \in SUBSET Rule
    BY <1>0, <2>1 DEF Row
  <2>7. Overlay(want[s.case].meta, s.patch) \in Meta
    BY <2>5, <2>6, OverlayTyped
  <2>8. s.rule # Null => Marked(s, want[s.case].acked) \in SUBSET Rule
    BY <2>5, <2>6 DEF Marked
  <2>9. want'[s.case] \in Row
    BY <1>0, <2>1, <2>3, <2>6, <2>7, <2>8 DEF Row
  <2> HIDE DEF row
  <2>10. /\ cases' \in [CaseId -> Meta \cup {Null}] /\ acked' \in [CaseId -> SUBSET Rule]
         /\ want' \in [CaseId -> Row] /\ raced' \subseteq CaseId
         /\ cases'[s.case] = row.meta /\ acked'[s.case] = row.acked
         /\ \A c \in CaseId : c # s.case => /\ cases'[c] = cases[c] /\ acked'[c] = acked[c]
                                            /\ want'[c] = want[c]
    BY <1>0, <2>1, <2>2, <2>3, <2>9
  <2>11. RowTypeOK' /\ \A c \in CaseId : cases[c] # Null => cases'[c] # Null
    BY <1>0, <2>2, <2>3, <2>4, <2>10 DEF RowTypeOK
  <2>12. LockedRowsStay'
    <3> SUFFICES ASSUME NEW g \in Handler, At(g, "upsert")', save'[g].seen # Null
                 PROVE  RowOf(save[g].case)' = save'[g].seen
      BY DEF LockedRowsStay
    <3>1. g # h /\ save'[g] = save[g] /\ At(g, "upsert") /\ save[g].seen # Null
      BY <2>4 DEF At
    <3>2. save[g].case # s.case
      BY <2>1, <3>1 DEF Locked
    <3>3. save[g].case \in CaseId
      BY <1>0, <3>1 DEF At, Save
    <3>4. RowOf(save[g].case) = save[g].seen
      BY <3>1 DEF RowInv, LockedRowsStay
    <3> QED
      BY <2>10, <3>1, <3>2, <3>3, <3>4 DEF RowOf
  <2>13. SavesAreKept'
    <3> SUFFICES ASSUME NEW c \in CaseId, c \notin raced'
                 PROVE  want'[c] = [meta |-> MetaOf(cases, c)', acked |-> acked'[c]]
      BY DEF SavesAreKept
    <3>1. c \notin raced
      BY <2>3
    <3>2. want[c] = [meta |-> MetaOf(cases, c), acked |-> acked[c]]
      BY <3>1 DEF RowInv, SavesAreKept
    <3>3. CASE c # s.case
      BY <2>10, <3>2, <3>3 DEF MetaOf
    <3>4. CASE c = s.case
      <4>1. /\ s.seen = Null => cases[c] = Null
            /\ s.rule # Null => s.known = acked[c]
        BY <2>3, <3>4
      <4>2. s.seen # Null => cases[c] # Null /\ s.seen = [meta |-> cases[c], acked |-> acked[c]]
        BY <1>0, <2>1, <3>4 DEF RowInv, LockedRowsStay, At, RowOf
      <4>3. row.meta = Overlay(MetaOf(cases, c), s.patch)
        BY <2>1, <4>1, <4>2, NextRowTyped DEF row, MetaOf, DefaultMeta
      <4>4. row.acked = IF s.rule = Null THEN acked[c] ELSE Marked(s, acked[c])
        <5>1. /\ s.rule # Null => row.acked = Marked(s, s.known)
              /\ s.rule = Null => row.acked = IF s.seen = Null THEN {} ELSE s.seen.acked
          BY <2>1, NextRowTyped DEF row
        <5>2. (IF s.seen = Null THEN {} ELSE s.seen.acked) = acked[c]
          BY <1>0, <4>1, <4>2
        <5> HIDE DEF s
        <5> QED
          BY <4>1, <5>1, <5>2
      <4>5. MetaOf(cases, c)' = row.meta
        BY <1>0, <2>2, <2>10, <3>4 DEF MetaOf
      <4>6. want'[c] = [meta |-> Overlay(MetaOf(cases, c), s.patch),
                        acked |-> IF s.rule = Null THEN acked[c] ELSE Marked(s, acked[c])]
        BY <1>0, <2>3, <3>2, <3>4
      <4> QED
        BY <2>10, <3>4, <4>3, <4>4, <4>5, <4>6
    <3> QED
      BY <3>3, <3>4
  <2> QED
    BY <2>10, <2>11, <2>12, <2>13 DEF RowInv
<1>9. Upsert(h) \/ UNCHANGED cases
  BY DEF SaveStep, Post, Acknowledge, Begin, ReadAcknowledged, SelectRow, SaveFails, storeVars
<1>10. UNCHANGED <<docs, retyping, writes, profile, refresh, rebuild, held, load>>
  BY DEF SaveStep, Post, Acknowledge, Begin, ReadAcknowledged, SelectRow, Upsert, SaveFails,
         storeVars, profileVars
<1> QED
  BY <1>0, <1>2, <1>3, <1>5, <1>6, <1>7, <1>8, <1>9, <1>10 DEF SaveStep

-----------------------------------------------------------------------------
(* What a profile is made of.                                               *)

\* What the documents contribute, whatever was signed off.
LEMMA PartsTyped ==
  ASSUME NEW d \in Seq(Document), NEW c
  PROVE  PartsOf(d, c) \in Parts /\ PassportIdentity(d, c) \in Identity \cup {Null}
<1> DEFINE One(t) == LatestConfirmed(d, Listed(d, c), t)
           overall == Field(One("english_test"), "overall")
           Levels == (SUBSET {"master", "bachelor", "diploma", "secondary"}) \cup {Null}
<1>1. \A t : One(t) \in Fields \cup {Null}
  BY ListedTyped
<1>2. PartsOf(d, c) =
        [qualification |-> Or(Field(One("degree_certificate"), "qualification"),
                              Field(One("transcript"), "qualification")),
         band |-> IF overall = Null THEN Null ELSE ScoreBand(overall)]
  BY DEF PartsOf
<1>3. \A t : Field(One(t), "qualification") \in Levels /\ Field(One(t), "overall") \in Date
             /\ Field(One(t), "holder") \in Name \cup {Null} /\ Field(One(t), "dob") \in Date
  BY <1>1 DEF Field, Fields, Date
<1>4. PassportIdentity(d, c) =
        IF Field(One("passport"), "holder") = Null \/ Field(One("passport"), "dob") = Null
        THEN Null
        ELSE [name |-> One("passport").holder, dob |-> One("passport").dob]
  BY DEF PassportIdentity
<1>5. overall \in Date
  BY <1>3
<1>6. \A t : One(t) # Null => Field(One(t), "holder") = One(t).holder /\ Field(One(t), "dob") = One(t).dob
  BY DEF Field
<1>61. One("passport") = Null => Field(One("passport"), "dob") = Null
  BY DEF Field
<1> HIDE DEF One, overall
<1>7. (IF overall = Null THEN Null ELSE ScoreBand(overall)) \in Date
  <2>1. \A n \in Int : (n \div 50) * 50 \in Int
    OBVIOUS
  <2> QED
    BY <1>5, <2>1 DEF ScoreBand, Date
<1>8. PartsOf(d, c) \in Parts
  BY <1>2, <1>3, <1>7 DEF Parts, Or
<1>9. PassportIdentity(d, c) \in Identity \cup {Null}
  <2>1. CASE Field(One("passport"), "holder") = Null \/ Field(One("passport"), "dob") = Null
    BY <1>4, <2>1
  <2>2. CASE ~(Field(One("passport"), "holder") = Null \/ Field(One("passport"), "dob") = Null)
    <3>1. One("passport").holder \in Name /\ One("passport").dob \in Int
      BY <1>3, <1>6, <1>61, <2>2 DEF Date
    <3> QED
      BY <1>4, <2>2, <3>1 DEF Identity
  <2> QED
    BY <2>1, <2>2
<1> QED
  BY <1>8, <1>9

\* A text, or none.
LEMMA TextTyped ==
  ASSUME NEW country \in Country, NEW parts \in Parts
  PROVE  BuildCaseProfile(country, parts) \in ProfileText \cup {Null}
BY DEF BuildCaseProfile, ProfileText

\* The row a refresh leaves.
LEMMA RebuiltTyped ==
  ASSUME NEW d \in Seq(Document), NEW m \in [CaseId -> Meta \cup {Null}], NEW c \in CaseId
  PROVE  /\ Rebuilt(m, d, c) \in ProfileRow \cup {Null}
         /\ Rebuilt(m, d, c) # Null => Rebuilt(m, d, c).vector = Rebuilt(m, d, c).text
<1>1. MetaOf(m, c).country \in Country
  BY MetaTyped DEF Meta
<1>2. BuildCaseProfile(MetaOf(m, c).country, PartsOf(d, c)) \in ProfileText \cup {Null}
  BY <1>1, PartsTyped, TextTyped
<1>3. PassportIdentity(d, c) \in Identity \cup {Null}
  BY PartsTyped
<1> QED
  BY <1>2, <1>3 DEF Rebuilt, ProfileRow

\* A profile only changes with the documents that count.
LEMMA SameHitsSameParts ==
  ASSUME NEW d \in Seq(Document), NEW e \in Seq(Document), NEW c,
         \A t : /\ Hits(d, c, t) = Hits(e, c, t)
                /\ \A i \in Hits(d, c, t) : d[i].confirmed = e[i].confirmed
  PROVE  PartsOf(d, c) = PartsOf(e, c) /\ PassportIdentity(d, c) = PassportIdentity(e, c)
<1>1. \A t : LatestConfirmed(d, Listed(d, c), t) = LatestConfirmed(e, Listed(e, c), t)
  <2> SUFFICES ASSUME NEW t
               PROVE  LatestConfirmed(d, Listed(d, c), t) = LatestConfirmed(e, Listed(e, c), t)
    OBVIOUS
  <2>1. Hits(d, c, t) # {} => Max(Hits(d, c, t)) \in Hits(d, c, t)
    BY LastOfListed
  <2> QED
    BY <2>1, LastOfListed
<1> QED
  BY <1>1 DEF PartsOf, PassportIdentity

-----------------------------------------------------------------------------
(* The profile.                                                             *)

\* r is a refresh of c.
Works(r, c) == refresh[r] # Null /\ refresh[r].case = c

\* Only cases in missed have more than one.
OneAtATime ==
  \A c \in CaseId \ missed : \A q, r \in Refresher : Works(q, c) /\ Works(r, c) => q = r

\* What a refresh has at each point.  It writes without a vector only where the
\* row has the one of its text.
Carries(r) ==
  LET f == refresh[r] IN
  /\ f.at \in {"compare", "embed", "write"} => f.found # Null /\ f.country # Null
  /\ f.at = "embed" => f.text # Null /\ f.vector = Null
  /\ f.at \in {"read", "compare"} => f.text = Null /\ f.vector = Null
  /\ f.vector \in {Null, f.text}
  /\ f.at = "write" /\ f.text # Null /\ f.vector = Null /\ f.case \notin missed =>
       Unchanged(profile[f.case], f.text)

\* What it has is what is there now.
UpToDate(r) ==
  LET f == refresh[r]
      c == f.case IN
  /\ f.found # Null => f.found = [parts |-> PartsOf(docs, c), identity |-> PassportIdentity(docs, c)]
  /\ f.country # Null => f.country = MetaOf(cases, c).country
  /\ f.at \in {"embed", "write"} =>
       /\ f.text = BuildCaseProfile(f.country, f.found.parts)
       /\ ~(f.text = Null /\ f.found.identity = Null)

\* That holds unless another refresh is still to come.
RefreshesCarry ==
  \A r \in Refresher : refresh[r] # Null =>
    /\ Carries(r)
    /\ refresh[r].case \notin missed /\ due[refresh[r].case] = 0 => UpToDate(r)

ProfileInv ==
  ProfileTypeOK /\ OneAtATime /\ RefreshesCarry /\ VectorIsOfItsText /\ ProfileIsCurrent

\* A refresh changes no other's.
LEMMA OneRefreshChanges ==
  ASSUME ProfileTypeOK, NEW r \in Refresher, NEW f \in Refresh \cup {Null},
         refresh' = [refresh EXCEPT ![r] = f]
  PROVE  /\ refresh' \in [Refresher -> Refresh \cup {Null}] /\ refresh'[r] = f
         /\ \A q \in Refresher : q # r => refresh'[q] = refresh[q]
BY DEF ProfileTypeOK

\* Whatever is written beside the refreshes: a case whose profile would be another
\* one afterwards has a refresh to come, or is in missed.
LEMMA WritesKeepProfile ==
  ASSUME ProfileInv, UNCHANGED <<profile, refresh>>,
         missed \subseteq missed', missed' \subseteq CaseId, due' \in [CaseId -> Nat],
         \A c \in CaseId \ missed' :
           \/ due'[c] > 0
           \/ /\ due'[c] = due[c]
              /\ PartsOf(docs', c) = PartsOf(docs, c)
              /\ PassportIdentity(docs', c) = PassportIdentity(docs, c)
              /\ MetaOf(cases', c).country = MetaOf(cases, c).country
  PROVE  ProfileInv'
<1>1. ProfileTypeOK'
  BY DEF ProfileInv, ProfileTypeOK
<1>2. OneAtATime'
  BY DEF ProfileInv, OneAtATime, Works
<1>3. VectorIsOfItsText'
  BY DEF ProfileInv, VectorIsOfItsText
<1>4. RefreshesCarry'
  <2> SUFFICES ASSUME NEW r \in Refresher, refresh'[r] # Null
               PROVE  /\ Carries(r)'
                      /\ refresh'[r].case \notin missed' /\ due'[refresh'[r].case] = 0 => UpToDate(r)'
    BY DEF RefreshesCarry
  <2>1. refresh[r] \in Refresh /\ refresh[r].case \in CaseId
    BY DEF ProfileInv, ProfileTypeOK, Refresh
  <2>2. Carries(r)
    BY DEF ProfileInv, RefreshesCarry
  <2>3. Carries(r)'
    BY <2>2 DEF Carries, Unchanged
  <2>4. ASSUME refresh[r].case \notin missed', due'[refresh[r].case] = 0
        PROVE  UpToDate(r)'
    <3> DEFINE c == refresh[r].case
    <3>1. /\ due[c] = 0 /\ c \notin missed
          /\ PartsOf(docs', c) = PartsOf(docs, c)
          /\ PassportIdentity(docs', c) = PassportIdentity(docs, c)
          /\ MetaOf(cases', c).country = MetaOf(cases, c).country
      BY <2>1, <2>4
    <3>2. UpToDate(r)
      BY <3>1 DEF ProfileInv, RefreshesCarry
    <3> QED
      BY <3>1, <3>2 DEF UpToDate
  <2> QED
    BY <2>3, <2>4
<1>5. ProfileIsCurrent'
  <2> SUFFICES ASSUME NEW c \in CaseId, c \notin missed', due'[c] = 0,
                      \A r \in Refresher : refresh[r] = Null \/ refresh[r].case # c
               PROVE  profile[c] = Rebuilt(cases', docs', c)
    BY DEF ProfileIsCurrent
  <2>1. /\ due[c] = 0 /\ c \notin missed
        /\ PartsOf(docs', c) = PartsOf(docs, c)
        /\ PassportIdentity(docs', c) = PassportIdentity(docs, c)
        /\ MetaOf(cases', c).country = MetaOf(cases, c).country
    OBVIOUS
  <2>2. profile[c] = Rebuilt(cases, docs, c)
    BY <2>1 DEF ProfileInv, ProfileIsCurrent
  <2> QED
    BY <2>1, <2>2 DEF Rebuilt
<1> QED
  BY <1>1, <1>2, <1>3, <1>4, <1>5 DEF ProfileInv

\* A refresh on its way: it has what the invariant asks for, and all else stays.
LEMMA OnItsWay ==
  ASSUME ProfileInv, NEW r \in Refresher, refresh[r] # Null, NEW f \in Refresh,
         f.case = refresh[r].case, refresh' = [refresh EXCEPT ![r] = f],
         UNCHANGED <<docs, cases, profile, due, missed>>,
         Carries(r)', f.case \notin missed /\ due[f.case] = 0 => UpToDate(r)'
  PROVE  ProfileInv'
<1>1. /\ refresh' \in [Refresher -> Refresh \cup {Null}] /\ refresh'[r] = f
      /\ \A q \in Refresher : q # r => refresh'[q] = refresh[q]
  BY OneRefreshChanges DEF ProfileInv
<1>2. f # Null
  BY RecordAssumption DEF RecordAssumption
<1>3. \A q \in Refresher : \A c : Works(q, c)' <=> Works(q, c)
  BY <1>1, <1>2 DEF Works
<1>4. ProfileTypeOK'
  BY <1>1 DEF ProfileInv, ProfileTypeOK
<1>5. OneAtATime'
  BY <1>3 DEF ProfileInv, OneAtATime
<1>6. RefreshesCarry'
  <2> SUFFICES ASSUME NEW q \in Refresher, refresh'[q] # Null
               PROVE  /\ Carries(q)'
                      /\ refresh'[q].case \notin missed' /\ due'[refresh'[q].case] = 0 => UpToDate(q)'
    BY DEF RefreshesCarry
  <2>1. CASE q = r
    BY <1>1, <2>1
  <2>2. CASE q # r
    <3>1. refresh'[q] = refresh[q]
      BY <1>1, <2>2
    <3>2. Carries(q) /\ (refresh[q].case \notin missed /\ due[refresh[q].case] = 0 => UpToDate(q))
      BY <3>1 DEF ProfileInv, RefreshesCarry
    <3>3. Carries(q)'
      BY <3>1, <3>2 DEF Carries, Unchanged
    <3>4. UpToDate(q) => UpToDate(q)'
      BY <3>1 DEF UpToDate
    <3> QED
      BY <3>1, <3>2, <3>3, <3>4
  <2> QED
    BY <2>1, <2>2
<1>7. VectorIsOfItsText'
  BY DEF ProfileInv, VectorIsOfItsText
<1>8. ProfileIsCurrent'
  <2> SUFFICES ASSUME NEW c \in CaseId, c \notin missed, due[c] = 0,
                      \A q \in Refresher : ~Works(q, c)'
               PROVE  profile[c] = Rebuilt(cases, docs, c)
    BY DEF ProfileIsCurrent, Works
  <2>1. \A q \in Refresher : ~Works(q, c)
    BY <1>3
  <2> QED
    BY <2>1 DEF ProfileInv, ProfileIsCurrent, Works
<1> QED
  BY <1>4, <1>5, <1>6, <1>7, <1>8 DEF ProfileInv

\* A refresh that ends leaves its case with row, or a reason why not.
LEMMA AtItsEnd ==
  ASSUME ProfileInv, NEW r \in Refresher, refresh[r] # Null, NEW c \in CaseId, c = refresh[r].case,
         NEW row \in ProfileRow \cup {Null}, profile' = [profile EXCEPT ![c] = row],
         refresh' = [refresh EXCEPT ![r] = Null], UNCHANGED <<docs, cases, due>>,
         missed \subseteq missed', missed' \subseteq CaseId,
         row # Null => /\ row.text = Null => row.vector = Null
                       /\ c \notin missed' => row.vector = row.text,
         c \notin missed' /\ due[c] = 0 => row = Rebuilt(cases, docs, c)
  PROVE  ProfileInv'
<1>1. /\ refresh' \in [Refresher -> Refresh \cup {Null}] /\ refresh'[r] = Null
      /\ \A q \in Refresher : q # r => refresh'[q] = refresh[q]
  BY OneRefreshChanges DEF ProfileInv
<1>2. /\ profile' \in [CaseId -> ProfileRow \cup {Null}] /\ profile'[c] = row
      /\ \A k \in CaseId : k # c => profile'[k] = profile[k]
  BY DEF ProfileInv, ProfileTypeOK
<1>3. \A q \in Refresher : \A k : Works(q, k)' <=> q # r /\ Works(q, k)
  BY <1>1 DEF Works
<1>4. ProfileTypeOK'
  BY <1>1, <1>2 DEF ProfileInv, ProfileTypeOK
<1>5. OneAtATime'
  BY <1>3 DEF ProfileInv, OneAtATime
<1>6. RefreshesCarry'
  <2> SUFFICES ASSUME NEW q \in Refresher, refresh'[q] # Null
               PROVE  /\ Carries(q)'
                      /\ refresh'[q].case \notin missed' /\ due'[refresh'[q].case] = 0 => UpToDate(q)'
    BY DEF RefreshesCarry
  <2>1. q # r /\ refresh'[q] = refresh[q] /\ refresh[q] # Null
    BY <1>1
  <2>2. Carries(q) /\ (refresh[q].case \notin missed /\ due[refresh[q].case] = 0 => UpToDate(q))
    BY <2>1 DEF ProfileInv, RefreshesCarry
  <2>3. refresh[q].case \in CaseId
    BY <2>1 DEF ProfileInv, ProfileTypeOK, Refresh
  <2>4. refresh[q].case \notin missed' => refresh[q].case # c
    BY <2>1 DEF ProfileInv, OneAtATime, Works
  <2>5. refresh[q].case \notin missed' => profile'[refresh[q].case] = profile[refresh[q].case]
    BY <1>2, <2>3, <2>4
  <2>6. Carries(q)'
    BY <2>1, <2>2, <2>5 DEF Carries, Unchanged
  <2>7. UpToDate(q) => UpToDate(q)'
    BY <2>1 DEF UpToDate
  <2> QED
    BY <2>1, <2>2, <2>6, <2>7
<1>7. VectorIsOfItsText'
  BY <1>2 DEF ProfileInv, VectorIsOfItsText
<1>8. ProfileIsCurrent'
  <2> SUFFICES ASSUME NEW k \in CaseId, k \notin missed', due[k] = 0,
                      \A q \in Refresher : ~Works(q, k)'
               PROVE  profile'[k] = Rebuilt(cases, docs, k)
    BY DEF ProfileIsCurrent, Works
  <2>1. CASE k = c
    BY <1>2, <2>1
  <2>2. CASE k # c
    <3>1. \A q \in Refresher : ~Works(q, k)
      BY <1>3, <2>2 DEF Works
    <3>2. profile[k] = Rebuilt(cases, docs, k)
      BY <3>1 DEF ProfileInv, ProfileIsCurrent, Works
    <3> QED
      BY <1>2, <2>2, <3>2
  <2> QED
    BY <2>1, <2>2
<1> QED
  BY <1>4, <1>5, <1>6, <1>7, <1>8 DEF ProfileInv

\* The columns of a refresh at work.
LEMMA RefreshAt ==
  ASSUME ProfileInv, NEW r \in Refresher, refresh[r] # Null
  PROVE  /\ refresh[r] \in Refresh
         /\ refresh[r].case \in CaseId
         /\ refresh[r].at \in {"read", "compare", "embed", "write"}
         /\ refresh[r].found \in Contribution \cup {Null}
         /\ refresh[r].country \in Country \cup {Null}
         /\ refresh[r].text \in ProfileText \cup {Null}
         /\ refresh[r].vector \in ProfileText \cup {Null}
         /\ Carries(r)
         /\ refresh[r].case \notin missed /\ due[refresh[r].case] = 0 => UpToDate(r)
<1>1. refresh[r] \in Refresh
  BY DEF ProfileInv, ProfileTypeOK
<1> QED
  BY <1>1 DEF Refresh, ProfileInv, RefreshesCarry

\* A refresh that begins.
LEMMA BeginningKeepsProfile ==
  ASSUME StoreInv, ProfileInv, NEW r \in Refresher, NEW c \in CaseId, StartRefresh(r, c)
  PROVE  ProfileInv'
<1> DEFINE f == [case |-> c, at |-> "read", found |-> Null, country |-> Null,
                 text |-> Null, vector |-> Null]
<1>0. due \in [CaseId -> Nat] /\ missed \subseteq CaseId /\ Null \notin Refresh
  BY RecordAssumption DEF ProfileInv, ProfileTypeOK, RecordAssumption
<1>1. /\ refresh[r] = Null /\ due[c] > 0 /\ due' = [due EXCEPT ![c] = due[c] - 1]
      /\ missed' = IF \E q \in Refresher : refresh[q] # Null /\ refresh[q].case = c
                   THEN missed \cup {c} ELSE missed
      /\ refresh' = [refresh EXCEPT ![r] = f] /\ UNCHANGED <<docs, cases, profile>>
  BY DEF StartRefresh, Refreshes, storeVars
<1>2. f \in Refresh /\ f # Null
  <2>1. f \in Refresh
    BY DEF Refresh
  <2> QED
    BY <1>0, <2>1
<1>3. /\ refresh' \in [Refresher -> Refresh \cup {Null}] /\ refresh'[r] = f
      /\ \A q \in Refresher : q # r => refresh'[q] = refresh[q]
  BY <1>1, <1>2, OneRefreshChanges DEF ProfileInv
<1>4. /\ due' \in [CaseId -> Nat] /\ \A k \in CaseId : k # c => due'[k] = due[k]
      /\ missed \subseteq missed' /\ missed' \subseteq CaseId
      /\ \A k \in CaseId : k # c /\ k \notin missed' => k \notin missed
  BY <1>0, <1>1
<1>5. c \notin missed' => \A q \in Refresher : ~Works(q, c)
  BY <1>1 DEF Works
<1>6. \A q \in Refresher : \A k : Works(q, k)' <=> Works(q, k) \/ (q = r /\ k = c)
  BY <1>1, <1>2, <1>3 DEF Works
<1>7. ProfileTypeOK'
  BY <1>1, <1>3, <1>4 DEF ProfileInv, ProfileTypeOK
<1>8. OneAtATime'
  <2> SUFFICES ASSUME NEW k \in CaseId, k \notin missed',
                      NEW p \in Refresher, NEW q \in Refresher, Works(p, k)', Works(q, k)'
               PROVE  p = q
    BY DEF OneAtATime
  <2>1. CASE k = c
    BY <1>5, <1>6, <2>1
  <2>2. CASE k # c
    BY <1>4, <1>6, <2>2 DEF ProfileInv, OneAtATime
  <2> QED
    BY <2>1, <2>2
<1>9. RefreshesCarry'
  <2> SUFFICES ASSUME NEW q \in Refresher, refresh'[q] # Null
               PROVE  /\ Carries(q)'
                      /\ refresh'[q].case \notin missed' /\ due'[refresh'[q].case] = 0 => UpToDate(q)'
    BY DEF RefreshesCarry
  <2>1. CASE q = r
    BY <1>3, <2>1 DEF Carries, UpToDate
  <2>2. CASE q # r
    <3>1. refresh'[q] = refresh[q] /\ refresh[q] # Null /\ refresh[q].case \in CaseId
      BY <1>3, <2>2, RefreshAt
    <3>2. Carries(q)'
      BY <1>1, <1>4, <3>1, RefreshAt DEF Carries, Unchanged
    <3>3. refresh[q].case \notin missed' => refresh[q].case # c
      BY <1>5, <3>1 DEF Works
    <3>4. refresh[q].case \notin missed' /\ due'[refresh[q].case] = 0 => UpToDate(q)
      BY <1>4, <3>1, <3>3, RefreshAt
    <3>5. UpToDate(q) => UpToDate(q)'
      BY <1>1, <3>1 DEF UpToDate
    <3> QED
      BY <3>1, <3>2, <3>4, <3>5
  <2> QED
    BY <2>1, <2>2
<1>10. VectorIsOfItsText'
  BY <1>1, <1>4 DEF ProfileInv, VectorIsOfItsText
<1>11. ProfileIsCurrent'
  <2> SUFFICES ASSUME NEW k \in CaseId, k \notin missed', due'[k] = 0,
                      \A q \in Refresher : ~Works(q, k)'
               PROVE  profile'[k] = Rebuilt(cases', docs', k)
    BY DEF ProfileIsCurrent, Works
  <2>1. k # c /\ \A q \in Refresher : ~Works(q, k)
    BY <1>6
  <2>2. k \notin missed /\ due[k] = 0
    BY <1>4, <2>1
  <2>3. profile[k] = Rebuilt(cases, docs, k)
    BY <2>1, <2>2 DEF ProfileInv, ProfileIsCurrent, Works
  <2> QED
    BY <1>1, <2>3
<1> QED
  BY <1>7, <1>8, <1>9, <1>10, <1>11 DEF ProfileInv

\* The reads of a refresh.
LEMMA ReadingKeepsProfile ==
  ASSUME StoreInv, ProfileInv, NEW r \in Refresher, ReadParts(r) \/ ReadCountry(r)
  PROVE  ProfileInv'
<1> DEFINE f == refresh[r]
           c == f.case
           found == [parts |-> PartsOf(docs, c), identity |-> PassportIdentity(docs, c)]
           country == MetaOf(cases, c).country
<1>0. /\ f # Null /\ f \in Refresh /\ c \in CaseId /\ f.at = "read"
      /\ UNCHANGED <<docs, cases, profile, due, missed>>
  BY RefreshAt DEF ReadParts, ReadCountry, Busy, Refreshes, storeVars
<1>01. /\ docs \in Seq(Document) /\ cases \in [CaseId -> Meta \cup {Null}]
       /\ Null \notin Contribution /\ Null \notin Country
  BY RecordAssumption DEF StoreInv, StoreTypeOK, RecordAssumption
<1>1. found \in Contribution /\ found # Null
  BY <1>01, PartsTyped DEF Contribution
<1>2. country \in Country /\ country # Null
  BY <1>0, <1>01, MetaTyped DEF Meta
<1> HIDE DEF found, country
<1>3. ASSUME ReadParts(r)
      PROVE  ProfileInv'
  <2> DEFINE g == [f EXCEPT !.found = found, !.at = IF f.country = Null THEN f.at ELSE "compare"]
  <2>1. refresh' = [refresh EXCEPT ![r] = g]
    BY <1>3 DEF ReadParts, Refreshes, found
  <2>2. g \in Refresh
    BY <1>0, <1>1 DEF Refresh
  <2>3. /\ g.case = c /\ g.found = found /\ g.country = f.country /\ g.text = f.text /\ g.vector = f.vector
        /\ g.at = IF f.country = Null THEN f.at ELSE "compare"
    BY <1>0 DEF Refresh
  <2> HIDE DEF g
  <2>4. refresh'[r] = g
    BY <2>1, <2>2, OneRefreshChanges DEF ProfileInv
  <2>5. Carries(r)'
    BY <1>0, <1>1, <2>3, <2>4, RefreshAt DEF Carries
  <2>6. c \notin missed /\ due[c] = 0 => UpToDate(r)'
    BY <1>0, <2>3, <2>4, RefreshAt DEF UpToDate, found
  <2> QED
    BY <1>0, <2>1, <2>2, <2>3, <2>5, <2>6, OnItsWay
<1>4. ASSUME ReadCountry(r)
      PROVE  ProfileInv'
  <2> DEFINE g == [f EXCEPT !.country = country, !.at = IF f.found = Null THEN f.at ELSE "compare"]
  <2>1. refresh' = [refresh EXCEPT ![r] = g]
    BY <1>4 DEF ReadCountry, Refreshes, country
  <2>2. g \in Refresh
    BY <1>0, <1>2 DEF Refresh
  <2>3. /\ g.case = c /\ g.found = f.found /\ g.country = country /\ g.text = f.text /\ g.vector = f.vector
        /\ g.at = IF f.found = Null THEN f.at ELSE "compare"
    BY <1>0 DEF Refresh
  <2> HIDE DEF g
  <2>4. refresh'[r] = g
    BY <2>1, <2>2, OneRefreshChanges DEF ProfileInv
  <2>5. Carries(r)'
    BY <1>0, <1>2, <2>3, <2>4, RefreshAt DEF Carries
  <2>6. c \notin missed /\ due[c] = 0 => UpToDate(r)'
    BY <1>0, <2>3, <2>4, RefreshAt DEF UpToDate, country
  <2> QED
    BY <1>0, <2>1, <2>2, <2>3, <2>5, <2>6, OnItsWay
<1> QED
  BY <1>3, <1>4

\* What follows its reads.
LEMMA WorkingKeepsProfile ==
  ASSUME StoreInv, ProfileInv, NEW r \in Refresher,
         Compare(r) \/ Embed(r) \/ WriteProfile(r) \/ RefreshFails(r)
  PROVE  ProfileInv'
<1> DEFINE f == refresh[r]
           c == f.case
<1>0. /\ f # Null /\ f \in Refresh /\ c \in CaseId
      /\ f.text \in ProfileText \cup {Null} /\ f.vector \in ProfileText \cup {Null}
      /\ UNCHANGED <<docs, cases, due>>
  BY RefreshAt DEF Compare, Embed, WriteProfile, RefreshFails, Busy, Refreshes, storeVars
<1>01. /\ docs \in Seq(Document) /\ cases \in [CaseId -> Meta \cup {Null}]
       /\ Null \notin Contribution /\ Null \notin Country /\ Null \notin ProfileRow
       /\ profile \in [CaseId -> ProfileRow \cup {Null}] /\ missed \subseteq CaseId
  BY RecordAssumption DEF StoreInv, StoreTypeOK, RecordAssumption, ProfileInv, ProfileTypeOK
<1>1. ASSUME Compare(r)
      PROVE  ProfileInv'
  <2> DEFINE text == BuildCaseProfile(f.country, f.found.parts)
  <2>1. f.at = "compare" /\ UNCHANGED missed
    BY <1>1 DEF Compare, Busy
  <2>2. /\ f.found \in Contribution /\ f.country \in Country /\ f.found # Null /\ f.country # Null
        /\ f.text = Null /\ f.vector = Null
    BY <1>0, <2>1, RefreshAt DEF Carries
  <2>3. text \in ProfileText \cup {Null}
    BY <2>2, TextTyped DEF Contribution
  <2>4. CASE text = Null /\ f.found.identity = Null
    <3>1. profile' = [profile EXCEPT ![c] = Null] /\ refresh' = [refresh EXCEPT ![r] = Null]
      BY <1>1, <2>4 DEF Compare, Refreshes
    <3>2. c \notin missed /\ due[c] = 0 => Rebuilt(cases, docs, c) = Null
      <4> SUFFICES ASSUME c \notin missed, due[c] = 0 PROVE Rebuilt(cases, docs, c) = Null
        OBVIOUS
      <4>1. UpToDate(r)
        BY <1>0, RefreshAt
      <4>2. /\ f.found.identity = PassportIdentity(docs, c) /\ f.found.parts = PartsOf(docs, c)
            /\ f.country = MetaOf(cases, c).country
        BY <2>2, <4>1 DEF UpToDate
      <4> QED
        BY <2>4, <4>2 DEF Rebuilt
    <3> QED
      BY <1>0, <1>01, <2>1, <3>1, <3>2, AtItsEnd
  <2>5. CASE ~(text = Null /\ f.found.identity = Null)
    <3> DEFINE g == [f EXCEPT !.text = text,
                              !.at = IF text # Null /\ ~Unchanged(profile[c], text)
                                     THEN "embed" ELSE "write"]
    <3>1. refresh' = [refresh EXCEPT ![r] = g] /\ UNCHANGED profile
      BY <1>1, <2>5 DEF Compare, Refreshes
    <3>2. g \in Refresh
      BY <1>0, <2>3 DEF Refresh
    <3>3. /\ g.case = c /\ g.found = f.found /\ g.country = f.country /\ g.text = text
          /\ g.vector = f.vector
          /\ g.at = IF text # Null /\ ~Unchanged(profile[c], text) THEN "embed" ELSE "write"
      BY <1>0 DEF Refresh
    <3> HIDE DEF g
    <3>4. refresh'[r] = g
      BY <3>1, <3>2, OneRefreshChanges DEF ProfileInv
    <3>5. Carries(r)'
      BY <1>0, <2>1, <2>2, <3>1, <3>3, <3>4 DEF Carries, Unchanged
    <3>6. c \notin missed /\ due[c] = 0 => UpToDate(r)'
      <4>1. c \notin missed /\ due[c] = 0 => UpToDate(r)
        BY <1>0, RefreshAt
      <4>2. UpToDate(r) => UpToDate(r)'
        BY <1>0, <2>5, <3>3, <3>4 DEF UpToDate
      <4> QED
        BY <4>1, <4>2
    <3> QED
      BY <1>0, <2>1, <3>1, <3>2, <3>3, <3>5, <3>6, OnItsWay
  <2> QED
    BY <2>4, <2>5
<1>2. ASSUME Embed(r)
      PROVE  ProfileInv'
  <2> DEFINE g == [f EXCEPT !.at = "write", !.vector = f.text]
  <2>1. /\ f.at = "embed" /\ refresh' = [refresh EXCEPT ![r] = g] /\ UNCHANGED <<profile, missed>>
    BY <1>2 DEF Embed, Busy, Refreshes
  <2>2. g \in Refresh
    BY <1>0 DEF Refresh
  <2>3. /\ g.case = c /\ g.found = f.found /\ g.country = f.country /\ g.text = f.text
        /\ g.vector = f.text /\ g.at = "write"
    BY <1>0 DEF Refresh
  <2> HIDE DEF g
  <2>4. refresh'[r] = g
    BY <2>1, <2>2, OneRefreshChanges DEF ProfileInv
  <2>5. Carries(r)'
    BY <1>0, <2>1, <2>3, <2>4, RefreshAt DEF Carries
  <2>6. c \notin missed /\ due[c] = 0 => UpToDate(r)'
    <3>1. c \notin missed /\ due[c] = 0 => UpToDate(r)
      BY <1>0, RefreshAt
    <3>2. UpToDate(r) => UpToDate(r)'
      BY <1>0, <2>1, <2>3, <2>4 DEF UpToDate
    <3> QED
      BY <3>1, <3>2
  <2> QED
    BY <1>0, <2>1, <2>2, <2>3, <2>5, <2>6, OnItsWay
<1>3. ASSUME WriteProfile(r)
      PROVE  ProfileInv'
  <2> DEFINE old == profile[c]
             row == Upserted(old, f)
  <2>1. /\ f.at = "write" /\ refresh' = [refresh EXCEPT ![r] = Null] /\ UNCHANGED missed
        /\ profile' = [profile EXCEPT ![c] = row]
    BY <1>3 DEF WriteProfile, Busy, Refreshes
  <2>2. /\ f.found \in Contribution /\ f.country \in Country /\ f.found # Null /\ f.country # Null
        /\ f.vector \in {Null, f.text}
        /\ f.text # Null /\ f.vector = Null /\ c \notin missed => Unchanged(old, f.text)
    BY <1>0, <2>1, RefreshAt DEF Carries
  <2>3. old \in ProfileRow \cup {Null}
        /\ (old # Null => old.vector \in ProfileText \cup {Null})
    BY <1>0, <1>01 DEF ProfileRow
  <2>4. /\ row.text = f.text /\ row.identity = f.found.identity
        /\ row.vector = IF f.text = Null THEN Null
                        ELSE IF f.vector # Null \/ old = Null THEN f.vector ELSE old.vector
        /\ row = [text |-> row.text, identity |-> row.identity, vector |-> row.vector]
    BY DEF Upserted
  <2>5. f.found.identity \in Identity \cup {Null}
    BY <2>2 DEF Contribution
  <2> HIDE DEF row
  <2>6. row \in ProfileRow
    BY <1>0, <2>3, <2>4, <2>5 DEF ProfileRow
  <2>7. row.text = Null => row.vector = Null
    BY <2>4
  <2>8. c \notin missed => row.vector = row.text
    <3> SUFFICES ASSUME c \notin missed, f.text # Null, f.vector = Null PROVE row.vector = f.text
      BY <2>2, <2>4
    <3>1. old # Null /\ old.text = f.text
      BY <2>2 DEF Unchanged
    <3>2. old.vector = old.text
      BY <1>0, <3>1 DEF ProfileInv, VectorIsOfItsText
    <3> QED
      BY <2>4, <3>1, <3>2
  <2>9. c \notin missed /\ due[c] = 0 => row = Rebuilt(cases, docs, c)
    <3> SUFFICES ASSUME c \notin missed, due[c] = 0 PROVE row = Rebuilt(cases, docs, c)
      OBVIOUS
    <3>1. UpToDate(r)
      BY <1>0, RefreshAt
    <3>2. /\ f.found.identity = PassportIdentity(docs, c) /\ f.found.parts = PartsOf(docs, c)
          /\ f.country = MetaOf(cases, c).country
          /\ f.text = BuildCaseProfile(f.country, f.found.parts)
          /\ ~(f.text = Null /\ f.found.identity = Null)
      BY <2>1, <2>2, <3>1 DEF UpToDate
    <3> QED
      BY <2>4, <2>8, <3>2 DEF Rebuilt
  <2> QED
    BY <1>0, <1>01, <2>1, <2>6, <2>7, <2>8, <2>9, AtItsEnd
<1>4. ASSUME RefreshFails(r)
      PROVE  ProfileInv'
  <2>1. /\ refresh' = [refresh EXCEPT ![r] = Null] /\ UNCHANGED profile
        /\ missed' = missed \cup {c}
    BY <1>4 DEF RefreshFails, Refreshes
  <2>2. profile' = [profile EXCEPT ![c] = profile[c]] /\ profile[c] \in ProfileRow \cup {Null}
    BY <1>0, <1>01, <2>1
  <2>3. profile[c] # Null => (profile[c].text = Null => profile[c].vector = Null)
    BY <1>0 DEF ProfileInv, VectorIsOfItsText
  <2> QED
    BY <1>0, <1>01, <2>1, <2>2, <2>3, AtItsEnd
<1> QED
  BY <1>1, <1>2, <1>3, <1>4

\* A step of a refresh keeps the profile's invariant and leaves all else alone.
LEMMA RefreshStepsKeepProfile ==
  ASSUME StoreInv, ProfileInv, NEW r \in Refresher, RefreshStep(r)
  PROVE  ProfileInv' /\ UNCHANGED <<storeVars, rowVars, rebuild, held, load>>
<1>1. UNCHANGED <<storeVars, rowVars, rebuild, held, load>>
  BY DEF RefreshStep, StartRefresh, ReadParts, ReadCountry, Compare, Embed, WriteProfile,
         RefreshFails, Refreshes
<1> QED
  BY <1>1, BeginningKeepsProfile, ReadingKeepsProfile, WorkingKeepsProfile DEF RefreshStep

\* An upsert keeps it: a change of country is followed by a refresh, or is in missed.
LEMMA SaveStepsKeepProfile ==
  ASSUME StoreInv, RowInv, ProfileInv, NEW h \in Handler, SaveStep(h)
  PROVE  ProfileInv'
<1>0. /\ UNCHANGED <<docs, profile, refresh>> /\ due \in [CaseId -> Nat] /\ missed \subseteq CaseId
      /\ cases \in [CaseId -> Meta \cup {Null}]
  BY SaveStepsKeepRow DEF ProfileInv, ProfileTypeOK, StoreInv, StoreTypeOK
<1>1. CASE Upsert(h)
  <2> DEFINE s == save[h]
             row == NextRow(s)
  <2>1. /\ s \in Save /\ s.case \in CaseId
        /\ cases' = [cases EXCEPT ![s.case] = row.meta]
        /\ due' = [due EXCEPT ![s.case] = IF "country" \in DOMAIN s.patch THEN due[s.case] + 1
                                          ELSE due[s.case]]
        /\ missed' = IF /\ "country" \notin DOMAIN s.patch
                        /\ row.meta.country # MetaOf(cases, s.case).country
                     THEN missed \cup {s.case} ELSE missed
    BY <1>1 DEF Upsert, At, RowInv, RowTypeOK, Save
  <2>2. row.meta # Null
    BY <2>1, NextRowTyped, StoreAssumption DEF Row, StoreAssumption
  <2> HIDE DEF row
  <2>3. /\ due' \in [CaseId -> Nat]
        /\ \A c \in CaseId : c # s.case => due'[c] = due[c] /\ cases'[c] = cases[c]
        /\ "country" \in DOMAIN s.patch => due'[s.case] > 0
        /\ "country" \notin DOMAIN s.patch => due'[s.case] = due[s.case]
        /\ cases'[s.case] = row.meta
    BY <1>0, <2>1
  <2>4. missed \subseteq missed' /\ missed' \subseteq CaseId
    BY <1>0, <2>1
  <2>5. \A c \in CaseId \ missed' :
          due'[c] > 0 \/ (due'[c] = due[c] /\ MetaOf(cases', c).country = MetaOf(cases, c).country)
    <3> SUFFICES ASSUME NEW c \in CaseId, c \notin missed'
                 PROVE  \/ due'[c] > 0
                        \/ due'[c] = due[c] /\ MetaOf(cases', c).country = MetaOf(cases, c).country
      OBVIOUS
    <3>1. CASE c # s.case
      BY <2>3, <3>1 DEF MetaOf
    <3>2. CASE c = s.case
      <4>1. MetaOf(cases', c) = row.meta
        BY <2>2, <2>3, <3>2 DEF MetaOf
      <4> QED
        BY <2>1, <2>3, <3>2, <4>1
    <3> QED
      BY <3>1, <3>2
  <2> QED
    BY <1>0, <2>3, <2>4, <2>5, WritesKeepProfile
<1>2. CASE ~Upsert(h)
  <2>1. UNCHANGED <<cases, due, missed>>
    BY <1>2 DEF SaveStep, Post, Acknowledge, Begin, ReadAcknowledged, SelectRow, SaveFails,
                storeVars, profileVars
  <2> QED
    BY <1>0, <2>1, WritesKeepProfile
<1> QED
  BY <1>1, <1>2

-----------------------------------------------------------------------------
(* Documents.                                                               *)

\* A document that is new, or one that was never signed off, counts for nothing.
LEMMA AppendedCountsNot ==
  ASSUME StoreInv, NEW k \in CaseId, NEW t \in DocType, Len(docs) < MaxDocuments,
         docs' = Append(docs, New(k, t)), NEW c \in CaseId
  PROVE  PartsOf(docs', c) = PartsOf(docs, c) /\ PassportIdentity(docs', c) = PassportIdentity(docs, c)
<1>1. /\ docs' \in Seq(Document) /\ DOMAIN docs' = 1 .. Len(docs) + 1
      /\ \A i \in DOMAIN docs : i \in DOMAIN docs' /\ docs'[i] = docs[i]
      /\ docs'[Len(docs) + 1] = New(k, t)
  BY Inserted
<1>2. docs \in Seq(Document) /\ Len(docs) \in Nat /\ DOMAIN docs = 1 .. Len(docs)
  BY DEF StoreInv, StoreTypeOK
<1>3. New(k, t).confirmed = Null
  BY DEF New
<1>4. \A i \in DOMAIN docs' : i \in DOMAIN docs \/ docs'[i].confirmed = Null
  BY <1>1, <1>2, <1>3
<1>5. \A u : /\ Hits(docs', c, u) = Hits(docs, c, u)
             /\ \A i \in Hits(docs', c, u) : docs'[i].confirmed = docs[i].confirmed
  BY <1>1, <1>4 DEF Hits, Listed
<1> QED
  BY <1>1, <1>2, <1>5, SameHitsSameParts

\* A write to one document reaches no other case, and one that was never signed
\* off not even its own.
LEMMA RewrittenCountsNot ==
  ASSUME StoreInv, NEW i \in DOMAIN docs, NEW e \in Document,
         e.case = docs[i].case, docs' = [docs EXCEPT ![i] = e], NEW c \in CaseId,
         c = docs[i].case => docs[i].confirmed = Null /\ e.confirmed = Null
  PROVE  PartsOf(docs', c) = PartsOf(docs, c) /\ PassportIdentity(docs', c) = PassportIdentity(docs, c)
<1>1. docs \in Seq(Document)
  BY DEF StoreInv, StoreTypeOK
<1>2. docs' \in Seq(Document) /\ DOMAIN docs' = DOMAIN docs
      /\ docs'[i] = e /\ \A j \in DOMAIN docs : j # i => docs'[j] = docs[j]
  BY <1>1, ExceptSeq
<1>3. \A u : i \notin Hits(docs', c, u) /\ i \notin Hits(docs, c, u)
  BY <1>2 DEF Hits, Listed
<1>4. \A u : /\ Hits(docs', c, u) = Hits(docs, c, u)
             /\ \A j \in Hits(docs', c, u) : docs'[j].confirmed = docs[j].confirmed
  BY <1>2, <1>3 DEF Hits, Listed
<1>5. docs \in Seq(Document) /\ docs' \in Seq(Document)
  BY <1>1, <1>2
<1>6. ASSUME NEW d \in Seq(Document), d = docs'
      PROVE  PartsOf(d, c) = PartsOf(docs, c) /\ PassportIdentity(d, c) = PassportIdentity(docs, c)
  <2>1. \A u : /\ Hits(d, c, u) = Hits(docs, c, u)
               /\ \A j \in Hits(d, c, u) : d[j].confirmed = docs[j].confirmed
    BY <1>4, <1>6
  <2> QED
    BY <1>5, <2>1, SameHitsSameParts
<1> QED
  BY <1>5, <1>6

\* What happens to documents is a write of the store's.
LEMMA DocumentStepsAreWrites ==
  ASSUME DocumentStep
  PROVE  StoreNext /\ UNCHANGED <<rowVars, profile, refresh, load, held, cases>>
<1>1. Arriving \ {Other} \subseteq DocType
  BY RecordAssumption DEF RecordAssumption
<1>2. UNCHANGED <<rowVars, profile, refresh, load, held, cases>>
  BY DEF DocumentStep, AddsDocument, Confirms, Retypes, Supersedes, Others,
         AddDocument, Confirm, Retype, Supersede
<1> QED
  BY <1>1, <1>2 DEF DocumentStep, AddsDocument, Confirms, Retypes, Supersedes, StoreNext

\* It keeps the profile's invariant: a confirmation is followed by a refresh, and
\* so is a retype of what was signed off, or it is in missed.
LEMMA DocumentStepsKeepProfile ==
  ASSUME StoreInv, ProfileInv, DocumentStep
  PROVE  ProfileInv'
<1>0. /\ UNCHANGED <<profile, refresh, cases>> /\ due \in [CaseId -> Nat] /\ missed \subseteq CaseId
      /\ Arriving \ {Other} \subseteq DocType /\ docs \in Seq(Document)
  BY DocumentStepsAreWrites, RecordAssumption
  DEF ProfileInv, ProfileTypeOK, RecordAssumption, StoreInv, StoreTypeOK
<1>1. ASSUME NEW c \in CaseId, NEW t \in DocType, AddsDocument(c, t)
      PROVE  ProfileInv'
  <2>1. docs' = Append(docs, New(c, t)) /\ Len(docs) < MaxDocuments /\ UNCHANGED <<due, missed>>
    BY <1>1 DEF AddsDocument, AddDocument
  <2>2. \A k \in CaseId : /\ PartsOf(docs', k) = PartsOf(docs, k)
                          /\ PassportIdentity(docs', k) = PassportIdentity(docs, k)
    BY <2>1, AppendedCountsNot
  <2> QED
    BY <1>0, <2>1, <2>2, WritesKeepProfile
<1>2. ASSUME NEW i \in DOMAIN docs, NEW t \in DocType, NEW early \in BOOLEAN, Retypes(i, t, early)
      PROVE  ProfileInv'
  <2>1. /\ docs' = Append(docs, New(docs[i].case, t)) /\ Len(docs) < MaxDocuments
        /\ UNCHANGED <<due, missed>>
    BY <1>2 DEF Retypes, Retype
  <2>2. docs[i].case \in CaseId
    BY DocumentAt DEF StoreInv
  <2>3. \A k \in CaseId : /\ PartsOf(docs', k) = PartsOf(docs, k)
                          /\ PassportIdentity(docs', k) = PassportIdentity(docs, k)
    BY <2>1, <2>2, AppendedCountsNot
  <2> QED
    BY <1>0, <2>1, <2>3, WritesKeepProfile
<1>3. ASSUME NEW i \in DOMAIN docs, NEW fields \in Content[docs[i].type], Confirms(i, fields)
      PROVE  ProfileInv'
  <2> DEFINE k == docs[i].case
             e == [docs[i] EXCEPT !.confirmed = fields]
  <2>1. docs[i] \in Document /\ k \in CaseId /\ docs[i].type \in DocType
    BY DocumentAt DEF StoreInv
  <2>2. fields \in Fields
    BY <2>1, StoreAssumption DEF StoreAssumption
  <2>3. e \in Document /\ e.case = k
    BY <2>1, <2>2 DEF Document
  <2>4. docs' = [docs EXCEPT ![i] = e] /\ due' = [due EXCEPT ![k] = due[k] + 1] /\ UNCHANGED missed
    BY <1>3 DEF Confirms, Confirm
  <2> HIDE DEF e
  <2>5. \A c \in CaseId : c # k => /\ PartsOf(docs', c) = PartsOf(docs, c)
                                   /\ PassportIdentity(docs', c) = PassportIdentity(docs, c)
    BY <2>3, <2>4, RewrittenCountsNot
  <2>6. due' \in [CaseId -> Nat] /\ due'[k] > 0 /\ \A c \in CaseId : c # k => due'[c] = due[c]
    BY <1>0, <2>1, <2>4
  <2> QED
    BY <1>0, <2>4, <2>5, <2>6, WritesKeepProfile
<1>4. ASSUME NEW pair \in retyping, Supersedes(pair)
      PROVE  ProfileInv'
  <2> DEFINE i == pair[1]
             k == docs[i].case
             e == [docs[i] EXCEPT !.superseded_by = pair[2]]
  <2>1. i \in DOMAIN docs /\ pair[2] \in 0 .. MaxDocuments
    BY StoreAssumption DEF StoreInv, StoreTypeOK, Successors, Succeeds, StoreAssumption
  <2>2. docs[i] \in Document /\ k \in CaseId
    BY <2>1, DocumentAt DEF StoreInv
  <2>3. e \in Document /\ e.case = k /\ e.confirmed = docs[i].confirmed
    BY <2>1, <2>2 DEF Document
  <2>4. /\ docs' = [docs EXCEPT ![i] = e]
        /\ due' = [due EXCEPT ![k] = IF pair \in rebuild THEN due[k] + 1 ELSE due[k]]
        /\ missed' = IF docs[i].confirmed # Null /\ pair \notin rebuild THEN missed \cup {k} ELSE missed
    BY <1>4 DEF Supersedes, Supersede
  <2> HIDE DEF e, i
  <2>5. \A c \in CaseId : c # k \/ docs[i].confirmed = Null =>
                            /\ PartsOf(docs', c) = PartsOf(docs, c)
                            /\ PassportIdentity(docs', c) = PassportIdentity(docs, c)
    BY <2>1, <2>3, <2>4, RewrittenCountsNot
  <2>6. /\ due' \in [CaseId -> Nat] /\ \A c \in CaseId : c # k => due'[c] = due[c]
        /\ pair \in rebuild => due'[k] > 0
        /\ pair \notin rebuild => due'[k] = due[k]
    BY <1>0, <2>2, <2>4
  <2>7. missed \subseteq missed' /\ missed' \subseteq CaseId
    BY <1>0, <2>2, <2>4
  <2>8. \A c \in CaseId \ missed' :
          \/ due'[c] > 0
          \/ due'[c] = due[c] /\ (c # k \/ docs[i].confirmed = Null)
    BY <2>4, <2>6
  <2> QED
    BY <1>0, <2>5, <2>6, <2>7, <2>8, WritesKeepProfile
<1> QED
  BY <1>0, <1>1, <1>2, <1>3, <1>4 DEF DocumentStep

-----------------------------------------------------------------------------
(* The page.                                                                *)

\* What a page has read is still there, whatever was written since, and what it
\* shows of the rules is what they say of it.
PageFollows ==
  load # Null =>
    /\ \A i \in DOMAIN load.docs :
         i \in DOMAIN docs /\ (load.docs[i].confirmed # Null => docs[i].confirmed # Null)
    /\ load.shown => load.todo = {}
    /\ load.checks # Null => load.shown /\ load.checks = Evaluate(Asked(load), Today)

PageInv == LoadTypeOK /\ PageFollows

\* Whatever is written beside the page.
LEMMA WritesKeepPage ==
  ASSUME PageInv, RowsKept, UNCHANGED load
  PROVE  PageInv'
<1>1. LoadTypeOK'
  BY DEF PageInv, LoadTypeOK
<1>2. PageFollows'
  BY DEF PageInv, PageFollows, RowsKept, Asked
<1> QED
  BY <1>1, <1>2 DEF PageInv

\* A step of the page: it reads, and writes nothing.
LEMMA PageStepsKeepPage ==
  ASSUME StoreInv, RowInv, BesideTypeOK, PageInv, PageStep
  PROVE  PageInv' /\ UNCHANGED <<storeVars, rowVars, profileVars, rebuild, held>>
<1>0. /\ docs \in Seq(Document) /\ cases \in [CaseId -> Meta \cup {Null}]
      /\ acked \in [CaseId -> SUBSET Rule] /\ held \in [CaseId -> SUBSET (DocType \cup {Other})]
      /\ Null \notin Load /\ load \in Load \cup {Null}
  BY RecordAssumption
  DEF StoreInv, StoreTypeOK, RowInv, RowTypeOK, BesideTypeOK, PageInv, LoadTypeOK, RecordAssumption
<1>1. ASSUME load' = Null
      PROVE  PageInv'
  BY <1>1 DEF PageInv, LoadTypeOK, PageFollows
<1>2. ASSUME load # Null
      PROVE  /\ load \in Load /\ load.case \in CaseId
             /\ load.todo \in SUBSET {"documents", "uploads", "row"} /\ load.docs \in Seq(Document)
             /\ load.row \in Row \cup {Null} /\ load.held \in SUBSET (DocType \cup {Other})
  BY <1>0, <1>2 DEF Load
<1>3. ASSUME NEW c \in CaseId, OpenPage(c)
      PROVE  PageInv'
  <2> DEFINE l == [case |-> c, todo |-> {"documents", "uploads", "row"}, shown |-> FALSE,
                   docs |-> <<>>, held |-> {}, row |-> Null, checks |-> Null]
  <2>1. load' = l
    BY <1>3 DEF OpenPage, Loads
  <2>2. l \in Load
    <3>1. <<>> \in Seq(Document)
      OBVIOUS
    <3> QED
      BY <3>1 DEF Load
  <2>3. DOMAIN l.docs = {} /\ ~l.shown /\ l.checks = Null
    OBVIOUS
  <2> HIDE DEF l
  <2> QED
    BY <2>1, <2>2, <2>3 DEF PageInv, LoadTypeOK, PageFollows
<1>4. ASSUME NEW l \in Load, load # Null, load.todo # {}, load' = l, l.shown = load.shown,
             l.checks = load.checks, l.docs \in {load.docs, docs}, UNCHANGED docs
      PROVE  PageInv'
  <2>1. ~load.shown /\ load.checks = Null
    BY <1>4 DEF PageInv, PageFollows
  <2>2. \A i \in DOMAIN l.docs :
          i \in DOMAIN docs /\ (l.docs[i].confirmed # Null => docs[i].confirmed # Null)
    BY <1>4 DEF PageInv, PageFollows
  <2> QED
    BY <1>4, <2>1, <2>2 DEF PageInv, LoadTypeOK, PageFollows
<1>5. ASSUME LoadDocuments
      PROVE  PageInv'
  <2> DEFINE l == [load EXCEPT !.todo = load.todo \ {"documents"}, !.docs = docs]
  <2>1. load # Null /\ load.todo # {} /\ load' = l /\ UNCHANGED docs
    BY <1>5 DEF LoadDocuments, ReadsNext, Loads, storeVars
  <2>2. l \in Load /\ l.shown = load.shown /\ l.checks = load.checks /\ l.docs = docs
    BY <1>0, <1>2, <2>1 DEF Load
  <2> HIDE DEF l
  <2> QED
    BY <1>4, <2>1, <2>2
<1>6. ASSUME LoadUploads
      PROVE  PageInv'
  <2> DEFINE l == [load EXCEPT !.todo = load.todo \ {"uploads"}, !.held = held[load.case]]
  <2>1. load # Null /\ load.todo # {} /\ load' = l /\ UNCHANGED docs
    BY <1>6 DEF LoadUploads, ReadsNext, Loads, storeVars
  <2>2. l \in Load /\ l.shown = load.shown /\ l.checks = load.checks /\ l.docs = load.docs
    <3>1. held[load.case] \in SUBSET (DocType \cup {Other})
      BY <1>0, <1>2, <2>1
    <3> QED
      BY <1>2, <2>1, <3>1 DEF Load
  <2> HIDE DEF l
  <2> QED
    BY <1>4, <2>1, <2>2
<1>7. ASSUME LoadRow
      PROVE  PageInv'
  <2> DEFINE l == [load EXCEPT !.todo = load.todo \ {"row"}, !.row = RowOf(load.case)]
  <2>1. load # Null /\ load.todo # {} /\ load' = l /\ UNCHANGED docs
    BY <1>7 DEF LoadRow, ReadsNext, Loads, storeVars
  <2>2. l \in Load /\ l.shown = load.shown /\ l.checks = load.checks /\ l.docs = load.docs
    <3>1. RowOf(load.case) \in Row \cup {Null}
      BY <1>0, <1>2, <2>1 DEF RowOf, Row
    <3> QED
      BY <1>2, <2>1, <3>1 DEF Load
  <2> HIDE DEF l
  <2> QED
    BY <1>4, <2>1, <2>2
<1>8. ASSUME NEW answered \in BOOLEAN, NEW dismissed \in BOOLEAN, Show(answered, dismissed)
      PROVE  PageInv'
  <2> DEFINE checks == IF answered THEN Evaluate(Asked(load), Today) ELSE Null
             l == [load EXCEPT !.shown = TRUE, !.checks = checks]
  <2>1. load # Null /\ load.todo = {} /\ ~load.shown /\ UNCHANGED docs
        /\ (load' = Null \/ load' = l)
    BY <1>8 DEF Show, Loads, storeVars
  <2>2. checks \in [Rule -> Outcome] \cup {Null}
    BY ChecksTyped
  <2> HIDE DEF checks
  <2>3. /\ l \in Load /\ l.shown /\ l.todo = {} /\ l.checks = checks /\ l.docs = load.docs
        /\ l.case = load.case /\ l.row = load.row
    BY <1>2, <2>1, <2>2 DEF Load
  <2> HIDE DEF l
  <2>4. Asked(l) = Asked(load)
    BY <2>3 DEF Asked
  <2>5. l.checks # Null => l.checks = Evaluate(Asked(l), Today)
    BY <2>3, <2>4 DEF checks
  <2>6. CASE load' = l
    <3>1. LoadTypeOK'
      BY <2>3, <2>6 DEF LoadTypeOK
    <3>2. \A i \in DOMAIN l.docs :
            i \in DOMAIN docs /\ (l.docs[i].confirmed # Null => docs[i].confirmed # Null)
      BY <2>1, <2>3 DEF PageInv, PageFollows
    <3>3. PageFollows'
      BY <2>1, <2>3, <2>5, <2>6, <3>2 DEF PageFollows, Asked
    <3> QED
      BY <3>1, <3>3 DEF PageInv
  <2> QED
    BY <1>1, <2>1, <2>6
<1>9. ASSUME ClosePage
      PROVE  PageInv'
  BY <1>1, <1>9 DEF ClosePage, Loads
<1>10. UNCHANGED <<storeVars, rowVars, profileVars, rebuild, held>>
  BY DEF PageStep, OpenPage, ClosePage, LoadDocuments, LoadUploads, LoadRow, Show, Loads
<1> QED
  BY <1>3, <1>5, <1>6, <1>7, <1>8, <1>9, <1>10 DEF PageStep

\* What is shown as ready has what it takes.
LEMMA ReadyNeedsAll ==
  ASSUME PageInv
  PROVE  ReadyIsBacked
<1> SUFFICES ASSUME load # Null, load.shown PROVE ReadyIsBacked
  BY DEF ReadyIsBacked
<1> DEFINE l == load
           mine(t) == {i \in Listed(l.docs, l.case) : l.docs[i].type = t}
           m == [c \in CaseId |-> IF l.row = Null THEN Null ELSE l.row.meta]
           checks == Evaluate(BuildRulesPayload(PgRecord(m, l.docs, l.case)), Today)
           backed == CaseStatus(l) = "ready"
<1>1. /\ l.docs \in Seq(Document) /\ Len(l.docs) \in Nat /\ DOMAIN l.docs = 1 .. Len(l.docs)
      /\ l.case \in CaseId /\ l.held \in SUBSET (DocType \cup {Other})
      /\ l.checks \in [Rule -> Outcome] \cup {Null} /\ l.row \in Row \cup {Null}
  BY DEF PageInv, LoadTypeOK, Load
<1>2. /\ \A i \in DOMAIN l.docs : l.docs[i].confirmed # Null => docs[i].confirmed # Null
      /\ l.checks # Null => l.checks = Evaluate(Asked(l), Today)
  BY DEF PageInv, PageFollows
<1>3. Asked(l) = BuildRulesPayload(PgRecord(m, l.docs, l.case))
  BY <1>1, SamePayload DEF Asked
<1>4. l.checks # Null => l.checks = checks
  BY <1>2, <1>3
<1> HIDE DEF checks, m
<1>5. backed <=> /\ With(l, "block") = {} /\ Awaited(l) = {}
                 /\ l.held = {} /\ ToReview(l) = {} /\ Warns(l) = {}
                 /\ l.checks # Null /\ CanProceed(l.checks)
  BY DEF CaseStatus
<1>6. backed <=> /\ OpenItems(l) = {} /\ l.checks # Null
                 /\ \A r \in Rule : l.checks[r] \in {"pass", "warn"}
  <2>1. OpenItems(l) = {} <=> l.held = {} /\ ToReview(l) = {} /\ Awaited(l) = {} /\ Warns(l) = {}
    BY DEF OpenItems
  <2>2. CanProceed(l.checks) => With(l, "block") = {}
    BY DEF CanProceed, With
  <2> QED
    BY <1>5, <2>1, <2>2 DEF CanProceed
<1> HIDE DEF backed
<1>7. ASSUME backed, NEW t \in DocType
      PROVE  /\ LatestByType(l, t) # Null
             /\ l.docs[LatestByType(l, t)].confirmed # Null
             /\ l.docs[LatestByType(l, t)].confirmed =
                  LatestConfirmed(l.docs, Listed(l.docs, l.case), t)
             /\ docs[LatestByType(l, t)].confirmed # Null
  <2>1. LatestByType(l, t) # Null /\ Reviewed(l, t)
    BY <1>5, <1>7 DEF Awaited, ToReview
  <2>2. mine(t) # {} /\ LatestByType(l, t) = Max(mine(t))
    BY <2>1 DEF LatestByType
  <2>3. mine(t) \in SUBSET (1 .. Len(l.docs))
    BY <1>1 DEF Listed
  <2>4. Max(mine(t)) \in mine(t) /\ \A j \in mine(t) : j <= Max(mine(t))
    BY <1>1, <2>2, <2>3, LargestOfSome
  <2>5. l.docs[Max(mine(t))].confirmed # Null
    BY <2>1, <2>2 DEF Reviewed
  <2> DEFINE x == Max(mine(t))
             y == Max(Hits(l.docs, l.case, t))
  <2>6. x \in Hits(l.docs, l.case, t) /\ Hits(l.docs, l.case, t) \subseteq mine(t)
    BY <2>4, <2>5 DEF Hits
  <2>7. y \in Hits(l.docs, l.case, t) /\ x <= y
    BY <1>1, <2>6, LastOfListed
  <2>8. y <= x /\ x \in Nat /\ y \in Nat
    BY <2>3, <2>4, <2>6, <2>7
  <2> HIDE DEF x, y
  <2>9. x = y
    BY <2>7, <2>8
  <2>10. LatestConfirmed(l.docs, Listed(l.docs, l.case), t) = l.docs[x].confirmed
    BY <1>1, <2>6, <2>9, LastOfListed DEF y
  <2>11. x \in DOMAIN l.docs
    BY <1>1, <2>3, <2>4 DEF x
  <2> QED
    BY <1>2, <2>1, <2>2, <2>5, <2>10, <2>11 DEF x
<1>8. ASSUME backed, NEW r \in Rule
      PROVE  checks[r] = "pass" \/ (checks[r] = "warn" /\ r \in l.row.acked)
  <2>1. l.checks # Null /\ l.checks[r] = checks[r] /\ checks[r] \in {"pass", "warn"}
        /\ Warns(l) = {}
    BY <1>4, <1>5, <1>6, <1>8
  <2>2. checks[r] = "warn" => r \in With(l, "warn")
    BY <2>1 DEF With
  <2>3. checks[r] = "warn" => r \in Acknowledged(l)
    BY <2>1, <2>2 DEF Warns
  <2> QED
    BY <2>1, <2>3 DEF Acknowledged
<1>9. backed => l.held = {} /\ checks = l.checks
  BY <1>4, <1>5
<1> QED
  BY <1>6, <1>7, <1>8, <1>9 DEF ReadyIsBacked, backed, checks, m

-----------------------------------------------------------------------------
(* The theorems.                                                            *)

Inv == StoreInv /\ RowInv /\ ProfileInv /\ BesideTypeOK /\ PageInv

LEMMA InitInv == Init => Inv
<1> SUFFICES ASSUME Init PROVE Inv
  OBVIOUS
<1>1. PICK s \in Starts : docs = s.docs /\ cases = s.cases /\ acked = s.acked /\ held = s.held
  BY DEF Init
<1>2. /\ retyping = {} /\ writes = 0
      /\ save = [h \in Handler |-> Null] /\ saves = 0
      /\ profile = [c \in CaseId |-> Rebuilt(cases, docs, c)]
      /\ due = [c \in CaseId |-> 0]
      /\ refresh = [r \in Refresher |-> Null]
      /\ rebuild = {} /\ load = Null
      /\ want = [c \in CaseId |-> [meta |-> MetaOf(cases, c), acked |-> acked[c]]]
      /\ raced = {} /\ missed = {}
  BY DEF Init
<1>3. /\ docs \in Seq(Document) /\ Len(docs) <= MaxDocuments
      /\ cases \in [CaseId -> Meta \cup {Null}]
      /\ acked \in [CaseId -> SUBSET Rule]
      /\ held \in [CaseId -> SUBSET (DocType \cup {Other})]
      /\ \A c \in CaseId : cases[c] = Null => acked[c] = {}
      /\ \A i \in DOMAIN docs : docs[i].superseded_by # 0 =>
           /\ docs[i].superseded_by \in DOMAIN docs /\ i < docs[i].superseded_by
           /\ docs[i].case = docs[docs[i].superseded_by].case
      /\ MaxEvents \in Nat /\ MaxWrites \in Nat
  BY <1>1, RecordAssumption, StoreAssumption DEF RecordAssumption, StoreAssumption
<1>4. StoreInv
  BY <1>2, <1>3 DEF StoreInv, StoreTypeOK, Successors, Succeeds
<1>5. RowInv
  <2>1. \A c \in CaseId : want[c] \in Row /\ want[c] = [meta |-> MetaOf(cases, c), acked |-> acked[c]]
    <3> SUFFICES ASSUME NEW c \in CaseId
                 PROVE  want[c] \in Row /\ want[c] = [meta |-> MetaOf(cases, c), acked |-> acked[c]]
      OBVIOUS
    <3>1. MetaOf(cases, c) \in Meta /\ acked[c] \in SUBSET Rule
      BY <1>3, MetaTyped
    <3> QED
      BY <1>2, <3>1 DEF Row
  <2>2. RowTypeOK
    BY <1>2, <1>3, <2>1 DEF RowTypeOK
  <2> QED
    BY <1>2, <2>1, <2>2 DEF RowInv, LockedRowsStay, At, SavesAreKept
<1>6. ProfileInv
  <2>1. \A c \in CaseId : /\ profile[c] = Rebuilt(cases, docs, c)
                          /\ profile[c] \in ProfileRow \cup {Null}
                          /\ profile[c] # Null => profile[c].vector = profile[c].text
    BY <1>2, <1>3, RebuiltTyped
  <2>2. ProfileTypeOK
    BY <1>2, <2>1 DEF ProfileTypeOK
  <2>3. VectorIsOfItsText /\ ProfileIsCurrent
    BY <2>1 DEF VectorIsOfItsText, ProfileIsCurrent
  <2> QED
    BY <1>2, <2>2, <2>3 DEF ProfileInv, OneAtATime, Works, RefreshesCarry
<1>7. BesideTypeOK /\ PageInv
  BY <1>2, <1>3 DEF BesideTypeOK, PageInv, LoadTypeOK, PageFollows
<1> QED
  BY <1>4, <1>5, <1>6, <1>7 DEF Inv

\* What leaves the row of a case and its saves alone keeps their invariant.
LEMMA RowAlone ==
  ASSUME RowInv, UNCHANGED <<rowVars, cases>>
  PROVE  RowInv'
BY DEF RowInv, RowTypeOK, LockedRowsStay, At, RowOf, SavesAreKept, MetaOf, rowVars

\* What leaves the profile and all it is made of alone keeps its invariant.
LEMMA ProfileAlone ==
  ASSUME ProfileInv, UNCHANGED <<profileVars, docs, cases>>
  PROVE  ProfileInv'
BY WritesKeepProfile DEF profileVars, ProfileInv, ProfileTypeOK

LEMMA NextInv == Inv /\ [Next]_vars => Inv'
<1> SUFFICES ASSUME Inv, [Next]_vars PROVE Inv'
  OBVIOUS
<1>0. StoreInv /\ RowInv /\ ProfileInv /\ BesideTypeOK /\ PageInv
  BY DEF Inv
<1>1. ASSUME NEW h \in Handler, SaveStep(h)
      PROVE  Inv'
  <2>1. /\ RowInv' /\ cases' \in [CaseId -> Meta \cup {Null}]
        /\ \A c \in CaseId : cases[c] # Null => cases'[c] # Null
        /\ UNCHANGED <<docs, retyping, writes, rebuild, held, load>>
    BY <1>0, <1>1, SaveStepsKeepRow
  <2>2. StoreInv'
    BY <1>0, <2>1 DEF StoreInv, StoreTypeOK, Successors, Succeeds
  <2>3. RowsKept
    BY <2>1 DEF RowsKept
  <2>4. PageInv'
    BY <1>0, <2>1, <2>3, WritesKeepPage
  <2>5. BesideTypeOK'
    BY <1>0, <2>1 DEF BesideTypeOK
  <2>6. ProfileInv'
    BY <1>0, <1>1, SaveStepsKeepProfile
  <2> QED
    BY <2>1, <2>2, <2>4, <2>5, <2>6 DEF Inv
<1>2. ASSUME UNCHANGED storeVars
      PROVE  StoreInv' /\ RowsKept
  BY <1>0, <1>2 DEF storeVars, StoreInv, StoreTypeOK, Successors, Succeeds, RowsKept
<1>3. ASSUME NEW r \in Refresher, RefreshStep(r)
      PROVE  Inv'
  <2>1. ProfileInv' /\ UNCHANGED <<storeVars, rowVars, rebuild, held, load>>
    BY <1>0, <1>3, RefreshStepsKeepProfile
  <2>2. StoreInv' /\ RowsKept
    BY <1>2, <2>1
  <2>3. RowInv'
    BY <1>0, <2>1, RowAlone DEF storeVars
  <2>4. PageInv'
    BY <1>0, <2>1, <2>2, WritesKeepPage
  <2>5. BesideTypeOK'
    BY <1>0, <2>1 DEF BesideTypeOK, storeVars
  <2> QED
    BY <2>1, <2>2, <2>3, <2>4, <2>5 DEF Inv
<1>4. ASSUME DocumentStep
      PROVE  Inv'
  <2>1. StoreNext /\ UNCHANGED <<rowVars, profile, refresh, load, held, cases>>
    BY <1>4, DocumentStepsAreWrites
  <2>2. StoreInv' /\ RowsKept
    BY <1>0, <2>1, WritesKeepRows
  <2>3. RowInv'
    BY <1>0, <2>1, RowAlone
  <2>4. PageInv'
    BY <1>0, <2>1, <2>2, WritesKeepPage
  <2>5. rebuild' \subseteq retyping'
    <3>1. CASE \E pair \in retyping : Supersedes(pair)
      BY <1>0, <3>1 DEF Supersedes, Supersede, BesideTypeOK
    <3>2. CASE \E c \in CaseId, t \in Arriving \ {Other} : AddsDocument(c, t)
      BY <1>0, <3>2 DEF AddsDocument, AddDocument, BesideTypeOK
    <3>3. CASE \E i \in DOMAIN docs : \E fields \in Content[docs[i].type] : Confirms(i, fields)
      BY <1>0, <3>3 DEF Confirms, Confirm, BesideTypeOK
    <3>4. CASE \E i \in DOMAIN docs, t \in Arriving \ {Other}, early \in BOOLEAN : Retypes(i, t, early)
      BY <1>0, <3>4 DEF Retypes, Retype, BesideTypeOK
    <3> QED
      BY <1>4, <3>1, <3>2, <3>3, <3>4 DEF DocumentStep
  <2>6. BesideTypeOK'
    BY <1>0, <2>1, <2>5 DEF BesideTypeOK
  <2>7. ProfileInv'
    BY <1>0, <1>4, DocumentStepsKeepProfile
  <2> QED
    BY <2>2, <2>3, <2>4, <2>6, <2>7 DEF Inv
<1>5. ASSUME UploadStep
      PROVE  Inv'
  <2>1. PICK c \in CaseId, t \in Arriving : HoldUpload(c, t) \/ SettleUpload(c, t)
    BY <1>5 DEF UploadStep
  <2>2. /\ Write /\ UNCHANGED <<docs, cases, retyping, rowVars, profileVars, load, rebuild>>
        /\ held' \in {[held EXCEPT ![c] = held[c] \cup {t}], [held EXCEPT ![c] = held[c] \ {t}]}
    BY <2>1 DEF HoldUpload, SettleUpload, Others, profileVars
  <2>3. t \in DocType \cup {Other} /\ MaxWrites \in Nat
    BY RecordAssumption, StoreAssumption DEF RecordAssumption, StoreAssumption
  <2>4. writes' \in 0 .. MaxWrites
    BY <1>0, <2>2, <2>3 DEF Write, StoreInv, StoreTypeOK
  <2>5. StoreInv' /\ RowsKept
    BY <1>0, <2>2, <2>4 DEF StoreInv, StoreTypeOK, Successors, Succeeds, RowsKept
  <2>6. BesideTypeOK'
    BY <1>0, <2>2, <2>3 DEF BesideTypeOK
  <2>7. RowInv' /\ ProfileInv' /\ PageInv'
    BY <1>0, <2>2, <2>5, RowAlone, ProfileAlone, WritesKeepPage
  <2> QED
    BY <2>5, <2>6, <2>7 DEF Inv
<1>6. ASSUME PageStep
      PROVE  Inv'
  <2>1. PageInv' /\ UNCHANGED <<storeVars, rowVars, profileVars, rebuild, held>>
    BY <1>0, <1>6, PageStepsKeepPage
  <2>2. StoreInv'
    BY <1>2, <2>1
  <2>3. RowInv' /\ ProfileInv'
    BY <1>0, <2>1, RowAlone, ProfileAlone DEF storeVars
  <2>4. BesideTypeOK'
    BY <1>0, <2>1 DEF BesideTypeOK, storeVars
  <2> QED
    BY <2>1, <2>2, <2>3, <2>4 DEF Inv
<1>7. ASSUME UNCHANGED vars
      PROVE  Inv'
  <2>1. UNCHANGED <<storeVars, rowVars, profileVars, rebuild, held, load>>
    BY <1>7 DEF vars
  <2>2. StoreInv' /\ RowsKept
    BY <1>2, <2>1
  <2>3. RowInv' /\ ProfileInv' /\ PageInv'
    BY <1>0, <2>1, <2>2, RowAlone, ProfileAlone, WritesKeepPage DEF storeVars
  <2>4. BesideTypeOK'
    BY <1>0, <2>1 DEF BesideTypeOK, storeVars
  <2> QED
    BY <2>2, <2>3, <2>4 DEF Inv
<1> QED
  BY <1>1, <1>3, <1>4, <1>5, <1>6, <1>7 DEF Next

\* Whatever is saved, refreshed, written and shown, all keeps its type.
THEOREM TypeCorrect == Spec => []TypeOK
<1>1. Inv => TypeOK
  BY DEF Inv, StoreInv, RowInv, RowTypeOK, ProfileInv, ProfileTypeOK, BesideTypeOK,
         PageInv, LoadTypeOK, TypeOK
<1> QED
  BY InitInv, NextInv, <1>1, PTL DEF Spec

\* However many requests save a row, and in whatever order their statements come,
\* it is what all saves add up to, unless one was made on a row it had not locked.
THEOREM SavesAlwaysKept == Spec => []SavesAreKept
<1>1. Inv => SavesAreKept
  BY DEF Inv, RowInv
<1> QED
  BY InitInv, NextInv, <1>1, PTL DEF Spec

\* No case is shown as ready without its four documents and its warnings dealt
\* with, whatever changes between the reads of the page.
THEOREM ReadyAlwaysBacked == Spec => []ReadyIsBacked
<1>1. Inv => ReadyIsBacked
  BY ReadyNeedsAll DEF Inv
<1> QED
  BY InitInv, NextInv, <1>1, PTL DEF Spec

\* A profile is found by the vector of its own text, however many refreshes run.
THEOREM VectorsAlwaysFit == Spec => []VectorIsOfItsText
<1>1. Inv => VectorIsOfItsText
  BY DEF Inv, ProfileInv
<1> QED
  BY InitInv, NextInv, <1>1, PTL DEF Spec

\* When its refreshes are through, a profile is that of what is signed off now.
THEOREM ProfilesCatchUp == Spec => []ProfileIsCurrent
<1>1. Inv => ProfileIsCurrent
  BY DEF Inv, ProfileInv
<1> QED
  BY InitInv, NextInv, <1>1, PTL DEF Spec
=============================================================================
