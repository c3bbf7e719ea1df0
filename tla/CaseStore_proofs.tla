--------------------------- MODULE CaseStore_proofs ---------------------------
(***************************************************************************)
(* What holds of the rows of a case whoever reads them: what a write keeps,*)
(* and what the operators of CaseStore and Rules return.                   *)
(***************************************************************************)
EXTENDS CaseStore, SequenceTheorems, FiniteSetTheorems,
        WellFoundedInduction, TLAPS

-----------------------------------------------------------------------------
(* Largest and smallest elements.                                           *)

\* A set of numbers up to a bound that is not empty has a largest one.
LEMMA LargestOfSome ==
  ASSUME NEW n \in Nat, NEW S \in SUBSET (1 .. n), S # {}
  PROVE  Max(S) \in S /\ \A y \in S : y <= Max(S)
<1> DEFINE D == {n - x : x \in S}
<1>1. D \subseteq Nat /\ D # {}
  <2>1. \A x \in S : n - x \in Nat
    OBVIOUS
  <2>2. PICK x \in S : TRUE
    OBVIOUS
  <2>3. n - x \in D
    OBVIOUS
  <2> QED
    BY <2>1, <2>3
<1>2. PICK d \in D : \A e \in D : <<e, d>> \notin OpToRel(<, Nat)
  BY <1>1, NatLessThanWellFounded, WFMin, Zenon
<1>3. \A e \in D : d <= e
  <2> SUFFICES ASSUME NEW e \in D PROVE d <= e
    OBVIOUS
  <2>1. ~ (e < d)
    BY <1>1, <1>2 DEF OpToRel
  <2> QED
    BY <1>1, <2>1
<1>4. PICK x \in S : d = n - x
  BY <1>2
<1>5. \A y \in S : x >= y
  <2> SUFFICES ASSUME NEW y \in S PROVE x >= y
    OBVIOUS
  <2>1. n - y \in D
    OBVIOUS
  <2> QED
    BY <1>3, <1>4, <2>1
<1> QED
  BY <1>4, <1>5 DEF Max

\* Of four scores, those that are there have a smallest one.
LEMMA LowestOfBands ==
  ASSUME NEW b \in [Band -> Date], {b[k] : k \in Band} \ {Null} # {}
  PROVE  Min({b[k] : k \in Band} \ {Null}) \in Int
<1> DEFINE S == {b[k] : k \in Band} \ {Null}
<1>1. \E x \in S : \A y \in S : x <= y
  BY DEF Band, Date
<1>2. S \subseteq Int
  BY DEF Date
<1> QED
  BY <1>1, <1>2 DEF Min

-----------------------------------------------------------------------------
(* The rows of the web tier.                                                *)

\* j is a later document of the case of i.
Succeeds(i, j) ==
  i \in DOMAIN docs /\ j \in DOMAIN docs /\ i < j /\ docs[i].case = docs[j].case

\* Superseded documents lead to later ones of the same case.
Successors ==
  /\ \A i \in DOMAIN docs : docs[i].superseded_by # 0 => Succeeds(i, docs[i].superseded_by)
  /\ \A pair \in retyping : Succeeds(pair[1], pair[2])

StoreInv == StoreTypeOK /\ Successors

\* What no write undoes.
RowsKept ==
  /\ \A i \in DOMAIN docs :
       /\ i \in DOMAIN docs' /\ docs'[i].case = docs[i].case /\ docs'[i].type = docs[i].type
       /\ docs[i].confirmed # Null => docs'[i].confirmed # Null
  /\ \A c \in CaseId : cases[c] # Null => cases'[c] # Null

\* The columns of a document.
LEMMA DocumentAt ==
  ASSUME StoreTypeOK, NEW i \in DOMAIN docs
  PROVE  /\ i \in Nat /\ Len(docs) \in Nat /\ DOMAIN docs = 1 .. Len(docs)
         /\ docs[i] \in Document
         /\ docs[i].case \in CaseId /\ docs[i].type \in DocType
         /\ docs[i].confirmed \in Fields \cup {Null}
         /\ docs[i].superseded_by \in 0 .. MaxDocuments
         /\ docs[i] = [case |-> docs[i].case, type |-> docs[i].type,
                       confirmed |-> docs[i].confirmed, superseded_by |-> docs[i].superseded_by]
<1>1. docs \in Seq(Document) /\ i \in Nat /\ Len(docs) \in Nat /\ DOMAIN docs = 1 .. Len(docs)
  BY DEF StoreTypeOK
<1>2. docs[i] \in Document
  BY <1>1
<1> QED
  BY <1>1, <1>2 DEF Document

\* A row that is inserted: the others stay, and nothing supersedes them.
LEMMA Inserted ==
  ASSUME StoreInv, NEW c \in CaseId, NEW t \in DocType, Len(docs) < MaxDocuments,
         docs' = Append(docs, New(c, t))
  PROVE  /\ docs' \in Seq(Document) /\ Len(docs') <= MaxDocuments
         /\ DOMAIN docs' = 1 .. Len(docs) + 1
         /\ \A i \in DOMAIN docs : i \in DOMAIN docs' /\ docs'[i] = docs[i]
         /\ docs'[Len(docs) + 1] = New(c, t)
<1>1. New(c, t) \in Document
  BY StoreAssumption DEF New, Document, StoreAssumption
<1>2. docs \in Seq(Document) /\ Len(docs) \in Nat /\ MaxDocuments \in Nat
  BY StoreAssumption DEF StoreInv, StoreTypeOK, StoreAssumption
<1> QED
  BY <1>1, <1>2, AppendProperties

\* A write keeps the rows well typed and their successions in order, and undoes
\* nothing a reader may have relied on.
LEMMA WritesKeepRows ==
  ASSUME StoreInv, StoreNext
  PROVE  StoreInv' /\ RowsKept
<1>0. /\ docs \in Seq(Document) /\ Len(docs) \in Nat /\ Len(docs) <= MaxDocuments
      /\ DOMAIN docs = 1 .. Len(docs) /\ MaxDocuments \in Nat /\ MaxWrites \in Nat
      /\ cases \in [CaseId -> Meta \cup {Null}]
      /\ retyping \subseteq (1 .. MaxDocuments) \X (1 .. MaxDocuments)
      /\ writes \in 0 .. MaxWrites
  BY StoreAssumption DEF StoreInv, StoreTypeOK, StoreAssumption
<1>01. Write => writes' \in 0 .. MaxWrites
  BY <1>0 DEF Write
<1>1. ASSUME NEW c \in CaseId, NEW t \in DocType, AddDocument(c, t)
      PROVE  StoreInv' /\ RowsKept
  <2>1. docs' = Append(docs, New(c, t)) /\ Len(docs) < MaxDocuments /\ UNCHANGED <<cases, retyping>>
        /\ writes' \in 0 .. MaxWrites
    BY <1>1, <1>01 DEF AddDocument
  <2>2. /\ docs' \in Seq(Document) /\ Len(docs') <= MaxDocuments
        /\ DOMAIN docs' = 1 .. Len(docs) + 1
        /\ \A i \in DOMAIN docs : i \in DOMAIN docs' /\ docs'[i] = docs[i]
        /\ docs'[Len(docs) + 1] = New(c, t)
    BY <2>1, Inserted
  <2>3. StoreTypeOK'
    BY <1>0, <2>1, <2>2 DEF StoreTypeOK
  <2>4. New(c, t).superseded_by = 0
    BY DEF New
  <2>5. Successors'
    BY <1>0, <2>1, <2>2, <2>4 DEF StoreInv, Successors, Succeeds
  <2>6. RowsKept
    BY <2>1, <2>2 DEF RowsKept
  <2> QED
    BY <2>3, <2>5, <2>6 DEF StoreInv
<1>2. ASSUME NEW i \in DOMAIN docs, NEW fields \in Content[docs[i].type], Confirm(i, fields)
      PROVE  StoreInv' /\ RowsKept
  <2>1. docs[i] \in Document /\ docs[i].type \in DocType
    BY DocumentAt DEF StoreInv
  <2>2. fields \in Fields /\ fields # Null
    BY <2>1, StoreAssumption DEF StoreAssumption
  <2>3. docs' = [docs EXCEPT ![i].confirmed = fields] /\ UNCHANGED <<cases, retyping>>
        /\ writes' \in 0 .. MaxWrites
    BY <1>2, <1>01 DEF Confirm
  <2>4. [docs[i] EXCEPT !.confirmed = fields] \in Document
    BY <2>1, <2>2 DEF Document
  <2>5. docs' \in Seq(Document) /\ Len(docs') = Len(docs) /\ DOMAIN docs' = DOMAIN docs
        /\ \A j \in DOMAIN docs :
             docs'[j] = IF j = i THEN [docs[i] EXCEPT !.confirmed = fields] ELSE docs[j]
    BY <1>0, <2>3, <2>4, ExceptSeq
  <2>6. \A j \in DOMAIN docs : /\ docs'[j].case = docs[j].case /\ docs'[j].type = docs[j].type
                               /\ docs'[j].superseded_by = docs[j].superseded_by
                               /\ docs[j].confirmed # Null => docs'[j].confirmed # Null
    BY <2>1, <2>2, <2>5 DEF Document
  <2>7. StoreTypeOK'
    BY <1>0, <2>3, <2>5 DEF StoreTypeOK
  <2>8. Successors'
    BY <2>3, <2>5, <2>6 DEF StoreInv, Successors, Succeeds
  <2>9. RowsKept
    BY <2>3, <2>5, <2>6 DEF RowsKept
  <2> QED
    BY <2>7, <2>8, <2>9 DEF StoreInv
<1>3. ASSUME NEW i \in DOMAIN docs, NEW t \in DocType, Retype(i, t)
      PROVE  StoreInv' /\ RowsKept
  <2>1. docs[i].case \in CaseId
    BY DocumentAt DEF StoreInv
  <2>2. /\ docs' = Append(docs, New(docs[i].case, t)) /\ Len(docs) < MaxDocuments
        /\ retyping' = retyping \cup {<<i, Len(docs) + 1>>} /\ cases' = cases
        /\ writes' \in 0 .. MaxWrites
    BY <1>3, <1>01 DEF Retype
  <2>3. /\ docs' \in Seq(Document) /\ Len(docs') <= MaxDocuments
        /\ DOMAIN docs' = 1 .. Len(docs) + 1
        /\ \A j \in DOMAIN docs : j \in DOMAIN docs' /\ docs'[j] = docs[j]
        /\ docs'[Len(docs) + 1] = New(docs[i].case, t)
    BY <2>1, <2>2, Inserted
  <2>4. New(docs[i].case, t).superseded_by = 0 /\ New(docs[i].case, t).case = docs[i].case
    BY DEF New
  <2>5. <<i, Len(docs) + 1>> \in (1 .. MaxDocuments) \X (1 .. MaxDocuments)
    BY <1>0, <2>2
  <2>6. StoreTypeOK'
    BY <1>0, <2>2, <2>3, <2>5 DEF StoreTypeOK
  <2>7. i \in DOMAIN docs' /\ Len(docs) + 1 \in DOMAIN docs' /\ i < Len(docs) + 1
        /\ docs'[i].case = docs'[Len(docs) + 1].case
    BY <1>0, <2>3, <2>4
  <2>8. \A pair \in retyping' : Succeeds(pair[1], pair[2])'
    <3> SUFFICES ASSUME NEW pair \in retyping' PROVE Succeeds(pair[1], pair[2])'
      OBVIOUS
    <3>1. CASE pair \in retyping
      BY <2>3, <3>1 DEF StoreInv, Successors, Succeeds
    <3>2. CASE pair = <<i, Len(docs) + 1>>
      BY <2>7, <3>2 DEF Succeeds
    <3> QED
      BY <2>2, <3>1, <3>2
  <2>9. \A j \in DOMAIN docs' : docs'[j].superseded_by # 0 => Succeeds(j, docs[j].superseded_by)'
    <3> SUFFICES ASSUME NEW j \in DOMAIN docs', docs'[j].superseded_by # 0
                 PROVE  Succeeds(j, docs[j].superseded_by)'
      OBVIOUS
    <3>1. j \in DOMAIN docs /\ docs'[j] = docs[j]
      BY <1>0, <2>3, <2>4
    <3>2. Succeeds(j, docs[j].superseded_by)
      BY <3>1 DEF StoreInv, Successors
    <3> QED
      BY <2>3, <3>1, <3>2 DEF Succeeds
  <2>10. RowsKept
    BY <2>2, <2>3 DEF RowsKept
  <2> QED
    BY <2>6, <2>8, <2>9, <2>10 DEF StoreInv, Successors
<1>4. ASSUME NEW pair \in retyping, Supersede(pair)
      PROVE  StoreInv' /\ RowsKept
  <2>1. Succeeds(pair[1], pair[2]) /\ pair[2] \in 0 .. MaxDocuments
    BY <1>0 DEF StoreInv, Successors
  <2>2. /\ docs' = [docs EXCEPT ![pair[1]].superseded_by = pair[2]]
        /\ retyping' = retyping \ {pair} /\ UNCHANGED <<cases, writes>>
    BY <1>4 DEF Supersede
  <2>3. pair[1] \in DOMAIN docs /\ docs[pair[1]] \in Document
    BY <2>1, DocumentAt DEF StoreInv, Succeeds
  <2>4. [docs[pair[1]] EXCEPT !.superseded_by = pair[2]] \in Document
    BY <2>1, <2>3 DEF Document
  <2>5. docs' \in Seq(Document) /\ Len(docs') = Len(docs) /\ DOMAIN docs' = DOMAIN docs
        /\ \A j \in DOMAIN docs :
             docs'[j] = IF j = pair[1] THEN [docs[j] EXCEPT !.superseded_by = pair[2]] ELSE docs[j]
    BY <1>0, <2>2, <2>3, <2>4, ExceptSeq
  <2>6. \A j \in DOMAIN docs :
          /\ docs'[j].case = docs[j].case /\ docs'[j].type = docs[j].type
          /\ docs'[j].confirmed = docs[j].confirmed
          /\ docs'[j].superseded_by = IF j = pair[1] THEN pair[2] ELSE docs[j].superseded_by
    BY <2>3, <2>5 DEF Document
  <2>7. StoreTypeOK'
    BY <1>0, <2>2, <2>5 DEF StoreTypeOK
  <2>8. Successors'
    BY <2>1, <2>2, <2>5, <2>6 DEF StoreInv, Successors, Succeeds
  <2>9. RowsKept
    BY <2>2, <2>5, <2>6 DEF RowsKept
  <2> QED
    BY <2>7, <2>8, <2>9 DEF StoreInv
<1>5. ASSUME NEW c \in CaseId, NEW meta \in Metas, SaveMeta(c, meta)
      PROVE  StoreInv' /\ RowsKept
  <2>1. meta \in Meta /\ meta # Null
    BY StoreAssumption DEF StoreAssumption
  <2>2. cases' = [cases EXCEPT ![c] = meta] /\ UNCHANGED <<docs, retyping>> /\ writes' \in 0 .. MaxWrites
    BY <1>5, <1>01 DEF SaveMeta
  <2>3. cases' \in [CaseId -> Meta \cup {Null}] /\ \A k \in CaseId : cases[k] # Null => cases'[k] # Null
    BY <1>0, <2>1, <2>2
  <2>4. StoreTypeOK'
    BY <1>0, <2>2, <2>3 DEF StoreTypeOK
  <2>5. Successors' /\ RowsKept
    BY <2>2, <2>3 DEF StoreInv, Successors, Succeeds, RowsKept
  <2> QED
    BY <2>4, <2>5 DEF StoreInv
<1> QED
  BY <1>1, <1>2, <1>3, <1>4, <1>5 DEF StoreNext

\* A case with a document has one that stands: the latest is never superseded.
LEMMA SomeDocumentStands ==
  ASSUME StoreInv, NEW c \in CaseId, NEW i \in DOMAIN docs, docs[i].case = c
  PROVE  Standing(docs, c) # {}
<1> DEFINE S == {j \in DOMAIN docs : docs[j].case = c}
<1>1. Len(docs) \in Nat /\ S \in SUBSET (1 .. Len(docs)) /\ S # {}
  BY DEF StoreInv, StoreTypeOK
<1>2. Max(S) \in S /\ \A y \in S : y <= Max(S)
  BY <1>1, LargestOfSome
<1> HIDE DEF S
<1>3. docs[Max(S)].superseded_by = 0
  <2> SUFFICES ASSUME docs[Max(S)].superseded_by # 0 PROVE FALSE
    OBVIOUS
  <2>1. Succeeds(Max(S), docs[Max(S)].superseded_by)
    BY <1>2 DEF StoreInv, Successors, S
  <2>2. docs[Max(S)].superseded_by \in S /\ Max(S) < docs[Max(S)].superseded_by
    BY <1>2, <2>1 DEF Succeeds, S
  <2>3. S \subseteq Nat
    BY <1>1
  <2>4. Max(S) \in Nat /\ docs[Max(S)].superseded_by \in Nat
    BY <1>2, <2>2, <2>3
  <2> QED
    BY <1>2, <2>2, <2>4
<1> QED
  BY <1>2, <1>3 DEF S, Standing

-----------------------------------------------------------------------------
(* What is read off the rows.                                               *)

\* The columns of a case, default ones without a row.
LEMMA MetaTyped ==
  ASSUME NEW m \in [CaseId -> Meta \cup {Null}], NEW c \in CaseId
  PROVE  MetaOf(m, c) \in Meta
BY DEF MetaOf, Meta, Country, Date

\* The rules say one thing of each rule.
LEMMA ChecksTyped ==
  ASSUME NEW payload, NEW today
  PROVE  Evaluate(payload, today) \in [Rule -> Outcome] /\ Evaluate(payload, today) # Null
<1>1. \A verdicts : Worst(verdicts) \in Outcome
  BY DEF Worst, Outcome
<1>2. R1(payload) \in Outcome /\ R2(payload) \in Outcome
  BY <1>1 DEF R1, R2, Outcome
<1>3. R3(payload) \in Outcome
  BY DEF R3, Outcome
<1>4. R4(payload) \in Outcome /\ R5(payload, today) \in Outcome
  BY DEF R4, R5, Outcome
<1>5. \A r \in Rule : Evaluate(payload, today)[r] \in Outcome
  BY <1>2, <1>3, <1>4 DEF Evaluate, Rule
<1>6. Evaluate(payload, today) \in [Rule -> Outcome]
  BY <1>5 DEF Evaluate
<1> QED
  BY <1>6, RulesAssumption DEF RulesAssumption

\* The latest confirmed document of a type is one of the case.
LEMMA LatestIsConfirmed ==
  ASSUME StoreInv, NEW m, NEW c \in CaseId, NEW t
  PROVE  LET latest == Latest(PgRecord(m, docs, c), t) IN
         /\ latest \in Fields \cup {Null}
         /\ latest # Null => \E i \in DOMAIN docs : /\ docs[i].case = c /\ docs[i].type = t
                                                    /\ docs[i].confirmed # Null
<1> DEFINE rec == PgRecord(m, docs, c)
           hits == {i \in DOMAIN rec.documents :
                      rec.documents[i].type = t /\ rec.documents[i].confirmed # Null}
<1>1. rec.documents = [i \in Standing(docs, c) |-> [type |-> docs[i].type, confirmed |-> docs[i].confirmed]]
  BY DEF PgRecord
<1>2. DOMAIN rec.documents = Standing(docs, c)
      /\ \A i \in Standing(docs, c) : /\ rec.documents[i].type = docs[i].type
                                      /\ rec.documents[i].confirmed = docs[i].confirmed
  BY <1>1
<1>3. Len(docs) \in Nat /\ DOMAIN docs = 1 .. Len(docs)
  BY DEF StoreInv, StoreTypeOK
<1> HIDE DEF rec
<1>4. hits \subseteq DOMAIN docs /\ \A i \in hits : /\ docs[i].case = c /\ docs[i].type = t
                                                    /\ docs[i].confirmed # Null
                                                    /\ rec.documents[i].confirmed = docs[i].confirmed
  BY <1>2 DEF Standing
<1>5. Latest(rec, t) = IF hits = {} THEN Null ELSE rec.documents[Max(hits)].confirmed
  BY DEF Latest
<1> HIDE DEF hits
<1>6. CASE hits = {}
  BY <1>5, <1>6 DEF rec
<1>7. CASE hits # {}
  <2>1. Max(hits) \in hits
    BY <1>3, <1>4, <1>7, LargestOfSome
  <2>2. Latest(rec, t) = docs[Max(hits)].confirmed
    BY <1>4, <1>5, <1>7, <2>1
  <2>3. docs[Max(hits)].confirmed \in Fields \cup {Null}
    BY <1>4, <2>1, DocumentAt DEF StoreInv
  <2> QED
    BY <1>4, <2>1, <2>2, <2>3 DEF rec
<1> QED
  BY <1>6, <1>7

\* The study profile is one, whatever was signed off.
LEMMA ProfileTyped ==
  ASSUME StoreInv, NEW m, NEW c \in CaseId
  PROVE  StudyProfile(PgRecord(m, docs, c)) \in Profile
<1> DEFINE rec == PgRecord(m, docs, c)
           t == Latest(rec, "transcript")
           d == Latest(rec, "degree_certificate")
           e == Latest(rec, "english_test")
           bands == IF e = Null THEN {} ELSE {e.bands[k] : k \in Band} \ {Null}
<1>1. t \in Fields \cup {Null} /\ d \in Fields \cup {Null} /\ e \in Fields \cup {Null}
  BY LatestIsConfirmed
<1>2. StudyProfile(rec) =
        [levels |-> SuggestedLevels(Or(Field(d, "qualification"), Field(t, "qualification"))),
         gpa_on_4 |-> GpaOn4(Field(t, "gpa"), Field(t, "scale")),
         overall |-> Field(e, "overall"),
         lowest_band |-> IF bands = {} THEN Null ELSE Min(bands)]
  BY DEF StudyProfile
<1> HIDE DEF rec, t, d, e
<1>3. \A q : SuggestedLevels(q) \in SUBSET {"diploma", "bachelor", "master"}
  BY DEF SuggestedLevels
<1>4. Field(t, "gpa") \in Date /\ Field(t, "scale") \in Date /\ Field(e, "overall") \in Date
  BY <1>1 DEF Field, Fields, Date
<1>5. \A gpa \in Date, scale \in Date : GpaOn4(gpa, scale) \in Date
  <2> SUFFICES ASSUME NEW gpa \in Date, NEW scale \in Date PROVE GpaOn4(gpa, scale) \in Date
    OBVIOUS
  <2>1. CASE gpa = Null \/ scale \in {Null, 400}
    BY <2>1 DEF GpaOn4
  <2>2. CASE gpa # Null /\ scale \notin {Null, 400} /\ scale > 0
    <3>1. gpa \in Int /\ scale \in Int
      BY <2>2 DEF Date
    <3>2. 800 * gpa + scale \in Int /\ 2 * scale \in Int /\ 2 * scale > 0
      BY <2>2, <3>1
    <3>3. (800 * gpa + scale) \div (2 * scale) \in Int
      BY <3>2
    <3> QED
      BY <2>2, <3>3 DEF GpaOn4, Date
  <2>3. CASE gpa # Null /\ scale \notin {Null, 400} /\ ~(scale > 0)
    BY <2>3 DEF GpaOn4, Date
  <2> QED
    BY <2>1, <2>2, <2>3
<1>6. (IF bands = {} THEN Null ELSE Min(bands)) \in Date
  <2>1. CASE bands = {}
    BY <2>1 DEF Date
  <2>2. CASE bands # {}
    <3>1. e.bands \in [Band -> Date] /\ bands = {e.bands[k] : k \in Band} \ {Null}
      BY <1>1, <2>2 DEF Fields
    <3> QED
      BY <2>2, <3>1, LowestOfBands DEF Date
  <2> QED
    BY <2>1, <2>2
<1> HIDE DEF bands
<1> QED
  BY <1>2, <1>3, <1>4, <1>5, <1>6 DEF Profile, rec

\* can_proceed asks for a confirmed document of each type, whatever is on them.
LEMMA ProceedNeedsFour ==
  ASSUME StoreInv, NEW m, NEW c \in CaseId, NEW today,
         CanProceed(Evaluate(BuildRulesPayload(PgRecord(m, docs, c)), today)),
         NEW t \in DocType
  PROVE  \E i \in DOMAIN docs : docs[i].case = c /\ docs[i].type = t /\ docs[i].confirmed # Null
<1> DEFINE rec == PgRecord(m, docs, c)
           payload == BuildRulesPayload(rec)
<1>1. payload.passport_name # Null
  BY DEF CanProceed, Evaluate, Rule, R1
<1>2. payload.transcript_grad_date # Null /\ payload.certificate_grad_date # Null
  BY DEF CanProceed, Evaluate, Rule, R3
<1>3. payload.english_test_date # Null
  BY DEF CanProceed, Evaluate, Rule, R5
<1>4. /\ payload.passport_name = Field(Latest(rec, "passport"), "name")
      /\ payload.transcript_grad_date = Field(Latest(rec, "transcript"), "date")
      /\ payload.certificate_grad_date = Field(Latest(rec, "degree_certificate"), "date")
      /\ payload.english_test_date = Field(Latest(rec, "english_test"), "date")
  BY DEF BuildRulesPayload
<1> HIDE DEF payload, rec
<1>5. Latest(rec, t) # Null
  BY <1>1, <1>2, <1>3, <1>4 DEF Field, DocType
<1> QED
  BY <1>5, LatestIsConfirmed DEF rec

-----------------------------------------------------------------------------
(* The web tier and the agent.                                              *)

\* The documents of a type that count for a case.
Hits(d, c, t) == {i \in Listed(d, c) : d[i].type = t /\ d[i].confirmed # Null}

\* The web tier takes the last of them.
LEMMA LastOfListed ==
  ASSUME NEW d \in Seq(Document), NEW c, NEW t
  PROVE  /\ Hits(d, c, t) \subseteq 1 .. Len(d)
         /\ Hits(d, c, t) # {} => /\ Max(Hits(d, c, t)) \in Hits(d, c, t)
                                 /\ \A j \in Hits(d, c, t) : j <= Max(Hits(d, c, t))
         /\ LatestConfirmed(d, Listed(d, c), t) =
              IF Hits(d, c, t) = {} THEN Null ELSE d[Max(Hits(d, c, t))].confirmed
<1> DEFINE S == Hits(d, c, t)
<1>1. S \subseteq 1 .. Len(d) /\ Len(d) \in Nat
  BY DEF Hits, Listed
<1>2. LatestConfirmed(d, Listed(d, c), t) =
        IF S = {} THEN Null ELSE d[CHOOSE i \in S : \A j \in S : j <= i].confirmed
  BY DEF LatestConfirmed, Hits
<1> HIDE DEF S
<1>3. S # {} => Max(S) \in S /\ \A j \in S : j <= Max(S)
  BY <1>1, LargestOfSome
<1>4. S # {} => (CHOOSE i \in S : \A j \in S : j <= i) = Max(S)
  <2> SUFFICES ASSUME S # {} PROVE (CHOOSE i \in S : \A j \in S : j <= i) = Max(S)
    OBVIOUS
  <2> DEFINE x == CHOOSE i \in S : \A j \in S : j <= i
  <2>1. x \in S /\ \A j \in S : j <= x
    BY <1>3
  <2> HIDE DEF x
  <2>2. Max(S) \in S /\ x <= Max(S) /\ Max(S) <= x
    BY <1>3, <2>1
  <2>3. \A y \in S : y \in Nat
    BY <1>1
  <2>4. x = Max(S)
    BY <2>1, <2>2, <2>3
  <2> QED
    BY <2>4 DEF x
<1> QED
  BY <1>1, <1>2, <1>3, <1>4 DEF S

\* What it takes has the fields of a signed-off document.
LEMMA ListedTyped ==
  ASSUME NEW d \in Seq(Document), NEW c, NEW t
  PROVE  LatestConfirmed(d, Listed(d, c), t) \in Fields \cup {Null}
<1> DEFINE i == Max(Hits(d, c, t))
<1>1. CASE Hits(d, c, t) = {}
  BY <1>1, LastOfListed
<1>2. CASE Hits(d, c, t) # {}
  <2>1. i \in 1 .. Len(d) /\ LatestConfirmed(d, Listed(d, c), t) = d[i].confirmed
    BY <1>2, LastOfListed
  <2>2. d[i] \in Document
    BY <2>1
  <2> QED
    BY <2>1, <2>2 DEF Document
<1> QED
  BY <1>1, <1>2

\* The agent takes the same one from what its Postgres store returns.
LEMMA SameLatest ==
  ASSUME NEW d \in Seq(Document), NEW m, NEW c, NEW t
  PROVE  Latest(PgRecord(m, d, c), t) = LatestConfirmed(d, Listed(d, c), t)
<1> DEFINE rec == PgRecord(m, d, c)
           S == {i \in DOMAIN rec.documents :
                   rec.documents[i].type = t /\ rec.documents[i].confirmed # Null}
<1>1. rec.documents = [i \in Standing(d, c) |-> [type |-> d[i].type, confirmed |-> d[i].confirmed]]
  BY DEF PgRecord
<1>2. /\ DOMAIN rec.documents = Standing(d, c)
      /\ \A i \in Standing(d, c) : /\ rec.documents[i].type = d[i].type
                                   /\ rec.documents[i].confirmed = d[i].confirmed
  BY <1>1
<1>3. Latest(rec, t) = IF S = {} THEN Null ELSE rec.documents[Max(S)].confirmed
  BY DEF Latest
<1> HIDE DEF rec
<1>4. S = Hits(d, c, t) /\ S \subseteq DOMAIN rec.documents
  BY <1>2 DEF Hits, Listed, Standing
<1> HIDE DEF S
<1>5. S # {} => rec.documents[Max(S)].confirmed = d[Max(S)].confirmed
  BY <1>2, <1>4, LastOfListed
<1> QED
  BY <1>3, <1>4, <1>5, LastOfListed DEF rec

\* So both give the rules service the same case.
LEMMA SamePayload ==
  ASSUME NEW d \in Seq(Document), NEW m, NEW c
  PROVE  BuildRulesPayload(PgRecord(m, d, c)) = BuildCase(m, d, c)
<1>1. \A t : Latest(PgRecord(m, d, c), t) = LatestConfirmed(d, Listed(d, c), t)
  BY SameLatest
<1>2. PgRecord(m, d, c).meta = MetaOf(m, c)
  BY DEF PgRecord
<1> QED
  BY <1>1, <1>2 DEF BuildRulesPayload, BuildCase, Field

\* The agent's file store returns the documents its Postgres store does, by the
\* order of their ids.
LEMMA SameDocuments ==
  ASSUME NEW d \in Seq(Document), Len(d) <= MaxDocuments, NEW m, NEW c
  PROVE  LET pg == PgRecord(m, d, c)
             file == FileRecord(m, d, c) IN
         /\ DOMAIN file.documents = {IdOrder[i] : i \in DOMAIN pg.documents}
         /\ \A i \in DOMAIN pg.documents : file.documents[IdOrder[i]] = pg.documents[i]
<1> DEFINE S == Standing(d, c)
           Entry(i) == [type |-> d[i].type, confirmed |-> d[i].confirmed]
           Place(n) == CHOOSE i \in S : IdOrder[i] = n
<1>1. PgRecord(m, d, c).documents = [i \in S |-> Entry(i)]
  BY DEF PgRecord
<1>2. FileRecord(m, d, c).documents = [n \in {IdOrder[i] : i \in S} |-> Entry(Place(n))]
  BY DEF FileRecord, Standing
<1>3. S \subseteq 1 .. MaxDocuments
  BY StoreAssumption DEF Standing, StoreAssumption
<1>4. \A i \in S : Place(IdOrder[i]) = i
  <2> SUFFICES ASSUME NEW i \in S PROVE Place(IdOrder[i]) = i
    OBVIOUS
  <2>1. Place(IdOrder[i]) \in S /\ IdOrder[Place(IdOrder[i])] = IdOrder[i]
    OBVIOUS
  <2> QED
    BY <1>3, <2>1, StoreAssumption DEF StoreAssumption
<1> HIDE DEF S, Entry, Place
<1>5. \A i \in S : /\ IdOrder[i] \in {IdOrder[j] : j \in S}
                   /\ FileRecord(m, d, c).documents[IdOrder[i]] = Entry(i)
  BY <1>2, <1>4
<1> QED
  BY <1>1, <1>2, <1>5

\* When the latest signed-off document of a type has the last name as well, the
\* files give that one.
LEMMA SameLatestByName ==
  ASSUME NEW d \in Seq(Document), Len(d) <= MaxDocuments, NEW m, NEW c, NEW t,
         \A i \in Hits(d, c, t) :
           (\A j \in Hits(d, c, t) : j <= i) => \A j \in Hits(d, c, t) : IdOrder[j] <= IdOrder[i]
  PROVE  Latest(FileRecord(m, d, c), t) = LatestConfirmed(d, Listed(d, c), t)
<1> DEFINE rec == FileRecord(m, d, c)
           S == Standing(d, c)
           H == Hits(d, c, t)
           F == {n \in DOMAIN rec.documents :
                   rec.documents[n].type = t /\ rec.documents[n].confirmed # Null}
<1>1. PgRecord(m, d, c).documents = [i \in S |-> [type |-> d[i].type, confirmed |-> d[i].confirmed]]
  BY DEF PgRecord
<1>2. /\ DOMAIN rec.documents = {IdOrder[i] : i \in S}
      /\ \A i \in S : /\ rec.documents[IdOrder[i]].type = d[i].type
                      /\ rec.documents[IdOrder[i]].confirmed = d[i].confirmed
  <2>1. DOMAIN PgRecord(m, d, c).documents = S
    BY <1>1
  <2>2. /\ DOMAIN rec.documents = {IdOrder[i] : i \in S}
        /\ \A i \in S : rec.documents[IdOrder[i]] = PgRecord(m, d, c).documents[i]
    BY <2>1, SameDocuments
  <2>3. ASSUME NEW i \in S
        PROVE  /\ rec.documents[IdOrder[i]].type = d[i].type
               /\ rec.documents[IdOrder[i]].confirmed = d[i].confirmed
    <3>1. PgRecord(m, d, c).documents[i] = [type |-> d[i].type, confirmed |-> d[i].confirmed]
      BY <1>1
    <3>2. rec.documents[IdOrder[i]] = PgRecord(m, d, c).documents[i]
      BY <2>2
    <3> QED
      BY <3>1, <3>2
  <2> QED
    BY <2>2, <2>3
<1>3. Latest(rec, t) = IF F = {} THEN Null ELSE rec.documents[Max(F)].confirmed
  BY DEF Latest
<1> HIDE DEF rec
<1>4. H = {i \in S : d[i].type = t /\ d[i].confirmed # Null}
  BY DEF Hits, Listed, Standing
<1>5. F = {IdOrder[i] : i \in H}
  BY <1>2, <1>4
<1>6. H \subseteq 1 .. Len(d) /\ Len(d) \in Nat /\ MaxDocuments \in Nat
  BY LastOfListed, StoreAssumption DEF StoreAssumption
<1>7. \A i \in H : IdOrder[i] \in 1 .. MaxDocuments
  BY <1>6, StoreAssumption DEF StoreAssumption
<1>8. F \in SUBSET (1 .. MaxDocuments)
  BY <1>5, <1>7
<1> HIDE DEF F, H, S
<1>9. CASE H = {}
  <2>1. F = {}
    BY <1>5, <1>9
  <2> QED
    BY <1>3, <1>9, <2>1, LastOfListed DEF rec, H
<1>10. CASE H # {}
  <2> DEFINE x == Max(H)
  <2>1. x \in H /\ \A j \in H : j <= x
    BY <1>10, LastOfListed DEF H
  <2>2. LatestConfirmed(d, Listed(d, c), t) = d[x].confirmed
    BY <1>10, LastOfListed DEF H
  <2> HIDE DEF x
  <2>3. \A j \in H : IdOrder[j] <= IdOrder[x]
    BY <2>1 DEF H
  <2>4. IdOrder[x] \in F /\ \A n \in F : n <= IdOrder[x]
    BY <1>5, <2>1, <2>3
  <2>5. Max(F) \in F /\ IdOrder[x] <= Max(F) /\ Max(F) <= IdOrder[x]
    BY <1>6, <1>8, <2>4, LargestOfSome
  <2>6. Max(F) = IdOrder[x]
    <3>1. \A n \in F : n \in Int
      BY <1>8
    <3>2. Max(F) \in Int /\ IdOrder[x] \in Int
      BY <2>4, <2>5, <3>1, Zenon
    <3> QED
      BY <3>2, <2>5
  <2>7. x \in S
    BY <1>4, <2>1
  <2>8. Latest(rec, t) = rec.documents[IdOrder[x]].confirmed
    BY <1>3, <2>4, <2>6
  <2> QED
    BY <1>2, <2>2, <2>7, <2>8 DEF rec
<1> QED
  BY <1>9, <1>10

\* So their case is then the web tier's, too.
LEMMA SamePayloadByName ==
  ASSUME NEW d \in Seq(Document), Len(d) <= MaxDocuments, NEW m, NEW c,
         \A t \in DocType : \A i \in Hits(d, c, t) :
           (\A j \in Hits(d, c, t) : j <= i) => \A j \in Hits(d, c, t) : IdOrder[j] <= IdOrder[i]
  PROVE  BuildRulesPayload(FileRecord(m, d, c)) = BuildCase(m, d, c)
<1>1. \A t \in DocType : Latest(FileRecord(m, d, c), t) = LatestConfirmed(d, Listed(d, c), t)
  BY SameLatestByName
<1>2. FileRecord(m, d, c).meta = MetaOf(m, c)
  BY DEF FileRecord
<1>3. {"passport", "transcript", "degree_certificate", "english_test"} \subseteq DocType
  BY DEF DocType
<1> QED
  BY <1>1, <1>2, <1>3 DEF BuildRulesPayload, BuildCase, Field
=============================================================================
