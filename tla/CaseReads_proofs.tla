--------------------------- MODULE CaseReads_proofs ---------------------------
(***************************************************************************)
(* Theorems about CaseReads.  The rows and the index each have an          *)
(* inductive invariant of their own; the one of a question at work rests   *)
(* on both, since its reads go on while the web tier and a seed run write. *)
(***************************************************************************)
EXTENDS CaseReads, CaseStore_proofs

-----------------------------------------------------------------------------
(* The index.                                                               *)

\* The rows of both tables under the ids of one of them are of its kind, and
\* their hash is of their text.
RowsTyped(rows) ==
  \A i \in Id : rows[i] # Null => /\ rows[i].row \in IF i \in PolicyId THEN Policy ELSE Program
                                  /\ rows[i].hash = rows[i].row.text

\* Every row of the file for these ids is among the rows.
Holds(rows, e, ids) ==
  \A i \in DOMAIN Editions[e] \cap ids : rows[i] # Null /\ rows[i].row = Editions[e][i]

\* A vector is of its row's text, unless the text changed without embedding.
VectorFits(rows, i) ==
  (rows[i] # Null /\ rows[i].vector # Null) => rows[i].vector = rows[i].row.text \/ i \in blind

\* A seed run at work: what it has yet to write is as in the index, what it
\* wrote is of the file it read, and so are the vectors it has made.
SeedInv ==
  seed # Null =>
    /\ seed.file <= edition
    /\ RowsTyped(seed.rows)
    /\ seed.at = "policies" => seed.rows = index
    /\ seed.at = "programs" => \A i \in ProgramId : seed.rows[i] = index[i]
    /\ seed.at \in {"programs", "commit"} => Holds(seed.rows, seed.file, PolicyId)
    /\ seed.at = "commit" => Holds(seed.rows, seed.file, ProgramId)
    /\ \A i \in Id : \/ VectorFits(seed.rows, i)
                     \/ ~seed.embed /\ index[i] # Null /\ index[i].hash # seed.rows[i].hash

IndexInv == IndexTypeOK /\ RowsTyped(index) /\ SeedInv /\ IndexIsWhole

\* What upsert writes under an id of the table at hand, and elsewhere.
LEMMA UpsertedRows ==
  ASSUME NEW s \in Seed, RowsTyped(s.rows), s.at \in {"policies", "programs"}
  PROVE  /\ Upserted(s) \in [Id -> Entry \cup {Null}]
         /\ RowsTyped(Upserted(s))
         /\ \A i \in Id : i \notin DOMAIN Editions[s.file] \cap Table(s.at) => Upserted(s)[i] = s.rows[i]
         /\ \A i \in DOMAIN Editions[s.file] \cap Table(s.at) :
              LET text == Editions[s.file][i].text
                  old == IF s.rows[i] = Null THEN Null ELSE s.rows[i].vector IN
              /\ Upserted(s)[i] # Null
              /\ Upserted(s)[i].row = Editions[s.file][i] /\ Upserted(s)[i].hash = text
              /\ Upserted(s)[i].vector = IF s.embed /\ Needs(s.rows, i, text) THEN text ELSE old
<1> DEFINE file == Editions[s.file]
           Old(i) == IF s.rows[i] = Null THEN Null ELSE s.rows[i].vector
           Fresh(i) == [row |-> file[i], hash |-> file[i].text,
                        vector |-> IF s.embed /\ Needs(s.rows, i, file[i].text) THEN file[i].text ELSE Old(i)]
<1>1. Upserted(s) = [i \in Id |-> IF i \in DOMAIN file \cap Table(s.at) THEN Fresh(i) ELSE s.rows[i]]
  BY DEF Upserted
<1>2. s.file \in DOMAIN Editions /\ s.rows \in [Id -> Entry \cup {Null}]
  BY DEF Seed
<1>3. DOMAIN file \subseteq Id
  BY <1>2, IndexAssumption DEF IndexAssumption, Id
<1>4. \A i \in DOMAIN file : /\ file[i] \in IF i \in PolicyId THEN Policy ELSE Program
                             /\ file[i] \in Policy \cup Program
                             /\ file[i].text \in Text
  BY <1>2, IndexAssumption DEF IndexAssumption, Policy, Program
<1>5. \A i \in Id : Old(i) \in Text \cup {Null}
  BY <1>2 DEF Entry
<1> HIDE DEF Old, file
<1>6. \A i \in DOMAIN file : /\ Fresh(i) \in Entry
                             /\ Fresh(i).row = file[i] /\ Fresh(i).hash = file[i].text
  BY <1>3, <1>4, <1>5 DEF Entry
<1>7. Null \notin Entry
  BY IndexAssumption DEF IndexAssumption
<1> HIDE DEF Fresh
<1> DEFINE mine == DOMAIN file \cap Table(s.at)
<1>8. mine \subseteq DOMAIN file /\ mine \subseteq Id
  BY <1>3
<1> HIDE DEF mine
<1>9. /\ \A i \in mine : Upserted(s)[i] = Fresh(i)
      /\ \A i \in Id : i \notin mine => Upserted(s)[i] = s.rows[i]
  BY <1>1, <1>8 DEF mine
<1>10. Upserted(s) \in [Id -> Entry \cup {Null}]
  BY <1>1, <1>2, <1>6, <1>8 DEF mine
<1>11. RowsTyped(Upserted(s))
  <2> SUFFICES ASSUME NEW i \in Id, Upserted(s)[i] # Null
               PROVE  /\ Upserted(s)[i].row \in IF i \in PolicyId THEN Policy ELSE Program
                      /\ Upserted(s)[i].hash = Upserted(s)[i].row.text
    BY DEF RowsTyped
  <2>1. CASE i \in mine
    BY <1>4, <1>6, <1>8, <1>9, <2>1
  <2>2. CASE i \notin mine
    BY <1>9, <2>2 DEF RowsTyped
  <2> QED
    BY <2>1, <2>2
<1>12. \A i \in mine : Fresh(i).vector = IF s.embed /\ Needs(s.rows, i, file[i].text)
                                         THEN file[i].text ELSE Old(i)
  BY DEF Fresh
<1> QED
  BY <1>6, <1>7, <1>8, <1>9, <1>10, <1>11, <1>12 DEF mine, Old, file

\* The index starts empty.
LEMMA IndexStarts ==
  ASSUME IndexInit
  PROVE  IndexInv
<1>1. 1 \in DOMAIN Editions
  BY IndexAssumption DEF IndexAssumption
<1>2. IndexTypeOK
  BY <1>1, IndexAssumption DEF IndexInit, IndexTypeOK, IndexAssumption
<1> QED
  BY <1>2 DEF IndexInit, IndexInv, RowsTyped, SeedInv, IndexIsWhole

\* Releases and seed runs keep the invariant of the index.
LEMMA SeedsKeepIndex ==
  ASSUME IndexInv, IndexNext
  PROVE  IndexInv'
<1>0. /\ edition \in DOMAIN Editions /\ index \in [Id -> Entry \cup {Null}]
      /\ seed \in Seed \cup {Null} /\ seeds \in 0 .. MaxSeeds /\ blind \subseteq Id
      /\ DOMAIN Editions \subseteq Nat /\ MaxSeeds \in Nat
      /\ Null \notin Seed /\ Null \notin Entry
      /\ PolicyId \cap ProgramId = {} /\ Id = PolicyId \cup ProgramId
      /\ \A e \in DOMAIN Editions : DOMAIN Editions[e] \subseteq Id
  BY IndexAssumption DEF IndexInv, IndexTypeOK, IndexAssumption, Id
<1>01. seed # Null => /\ seed.file \in DOMAIN Editions /\ seed.embed \in BOOLEAN
                      /\ seed.rows \in [Id -> Entry \cup {Null}]
                      /\ seed.at \in {"policies", "programs", "commit"}
  BY <1>0 DEF Seed
<1>02. RowsTyped(index) /\ SeedInv /\ IndexIsWhole
  BY DEF IndexInv
<1>1. CASE Release
  <2>1. edition' \in DOMAIN Editions /\ edition <= edition' /\ UNCHANGED <<index, seed, seeds, blind>>
    BY <1>0, <1>1 DEF Release
  <2>2. IndexTypeOK' /\ RowsTyped(index)'
    BY <1>0, <1>02, <2>1 DEF IndexTypeOK, RowsTyped
  <2>3. SeedInv'
    BY <1>0, <1>01, <1>02, <2>1 DEF SeedInv, RowsTyped, Holds, VectorFits
  <2>4. IndexIsWhole'
    BY <1>0, <1>02, <2>1 DEF IndexIsWhole
  <2> QED
    BY <2>2, <2>3, <2>4 DEF IndexInv
<1>2. ASSUME NEW embed \in BOOLEAN, StartSeed(embed)
      PROVE  IndexInv'
  <2>1. /\ seed' = [at |-> "policies", embed |-> embed, file |-> edition, rows |-> index]
        /\ seeds' \in 0 .. MaxSeeds /\ UNCHANGED <<edition, index, blind>>
    BY <1>0, <1>2 DEF StartSeed
  <2>2. seed' \in Seed
    BY <1>0, <2>1 DEF Seed
  <2>3. IndexTypeOK' /\ RowsTyped(index)' /\ IndexIsWhole'
    BY <1>0, <1>02, <2>1, <2>2 DEF IndexTypeOK, RowsTyped, IndexIsWhole
  <2>4. SeedInv'
    BY <1>0, <1>02, <2>1 DEF SeedInv, RowsTyped, IndexIsWhole, VectorFits
  <2> QED
    BY <2>3, <2>4 DEF IndexInv
<1>3. CASE Upsert
  <2> DEFINE new == Upserted(seed)
             mine == DOMAIN Editions[seed.file] \cap Table(seed.at)
  <2>1. /\ seed # Null /\ seed.at \in {"policies", "programs"} /\ seed \in Seed /\ RowsTyped(seed.rows)
        /\ seed' = [seed EXCEPT !.rows = new, !.at = IF @ = "policies" THEN "programs" ELSE "commit"]
        /\ UNCHANGED <<edition, index, seeds, blind>>
    BY <1>0, <1>02, <1>3 DEF Upsert, SeedInv
  <2>2. /\ new \in [Id -> Entry \cup {Null}] /\ RowsTyped(new)
        /\ \A i \in Id : i \notin mine => new[i] = seed.rows[i]
        /\ \A i \in mine :
             LET text == Editions[seed.file][i].text
                 old == IF seed.rows[i] = Null THEN Null ELSE seed.rows[i].vector IN
             /\ new[i] # Null
             /\ new[i].row = Editions[seed.file][i] /\ new[i].hash = text
             /\ new[i].vector = IF seed.embed /\ Needs(seed.rows, i, text) THEN text ELSE old
    BY <2>1, UpsertedRows
  <2> HIDE DEF new
  <2>3. /\ seed' \in Seed /\ seed' # Null
        /\ seed'.at = IF seed.at = "policies" THEN "programs" ELSE "commit"
        /\ seed'.rows = new /\ seed'.file = seed.file /\ seed'.embed = seed.embed
    BY <1>0, <2>1, <2>2 DEF Seed
  <2>4. IndexTypeOK' /\ RowsTyped(index)' /\ IndexIsWhole'
    BY <1>0, <1>02, <2>1, <2>3 DEF IndexTypeOK, RowsTyped, IndexIsWhole
  <2>5. mine \subseteq Id /\ mine \subseteq DOMAIN Editions[seed.file]
    BY <1>0, <1>01, <2>1
  <2>6. \A i \in mine : seed.rows[i] = index[i]
    BY <1>0, <1>02, <2>1, <2>5 DEF SeedInv, Table
  <2>7. seed'.at = "programs" => \A i \in ProgramId : new[i] = index[i]
    <3> SUFFICES ASSUME seed'.at = "programs", NEW i \in ProgramId PROVE new[i] = index[i]
      OBVIOUS
    <3>1. seed.at = "policies" /\ i \in Id /\ i \notin mine
      BY <1>0, <2>1, <2>3 DEF Table
    <3> QED
      BY <1>02, <2>1, <2>2, <3>1 DEF SeedInv
  <2>8. seed'.at \in {"programs", "commit"} => Holds(new, seed.file, PolicyId)
    <3>1. CASE seed.at = "policies"
      BY <2>2, <3>1 DEF Holds, Table
    <3>2. CASE seed.at = "programs"
      <4>1. Holds(seed.rows, seed.file, PolicyId) /\ \A i \in PolicyId : i \in Id /\ i \notin mine
        BY <1>0, <1>02, <2>1, <3>2 DEF SeedInv, Table
      <4> QED
        BY <2>2, <4>1 DEF Holds
    <3> QED
      BY <2>1, <3>1, <3>2
  <2>9. seed'.at = "commit" => Holds(new, seed.file, ProgramId)
    BY <2>1, <2>2, <2>3 DEF Holds, Table
  <2>10. ASSUME NEW i \in Id
         PROVE  \/ VectorFits(new, i)
                \/ ~seed.embed /\ index[i] # Null /\ index[i].hash # new[i].hash
    <3>1. CASE i \notin mine
      BY <1>02, <2>1, <2>2, <3>1 DEF SeedInv, VectorFits
    <3>2. CASE i \in mine
      <4> DEFINE text == Editions[seed.file][i].text
      <4>1. new[i].row.text = text /\ new[i].hash = text
        BY <2>2, <3>2
      <4>2. CASE seed.embed /\ Needs(seed.rows, i, text)
        BY <2>2, <3>2, <4>1, <4>2 DEF VectorFits
      <4>3. CASE ~(seed.embed /\ Needs(seed.rows, i, text)) /\ index[i] = Null
        BY <2>2, <2>6, <3>2, <4>1, <4>3 DEF VectorFits
      <4>4. CASE ~(seed.embed /\ Needs(seed.rows, i, text)) /\ index[i] # Null
        <5>1. new[i].vector = index[i].vector
          BY <2>2, <2>6, <3>2, <4>4
        <5>2. index[i].hash = index[i].row.text /\ VectorFits(index, i)
          BY <1>02, <4>4 DEF RowsTyped, IndexIsWhole, VectorFits
        <5>3. seed.embed => index[i].hash = text
          BY <2>6, <3>2, <4>4 DEF Needs
        <5> QED
          BY <1>01, <2>1, <4>1, <4>4, <5>1, <5>2, <5>3 DEF VectorFits
      <4> QED
        BY <4>2, <4>3, <4>4
    <3> QED
      BY <3>1, <3>2
  <2>11. SeedInv'
    <3> HIDE DEF mine
    <3>1. ASSUME NEW i \in Id
          PROVE  \/ VectorFits(seed.rows, i)'
                 \/ ~seed'.embed /\ index'[i] # Null /\ index'[i].hash # seed'.rows[i].hash
      <4>1. blind' = blind /\ index' = index /\ seed'.rows = new /\ seed'.embed = seed.embed
        BY <2>1, <2>3
      <4>2. CASE VectorFits(new, i)
        BY <4>1, <4>2 DEF VectorFits
      <4>3. CASE ~seed.embed /\ index[i] # Null /\ index[i].hash # new[i].hash
        BY <4>1, <4>3
      <4> QED
        BY <2>10, <4>2, <4>3
    <3>2. RowsTyped(seed.rows)'
      BY <2>2, <2>3 DEF RowsTyped
    <3>3. seed'.file <= edition' /\ seed'.at # "policies"
      BY <1>02, <2>1, <2>3 DEF SeedInv
    <3>4. seed'.at \in {"programs", "commit"} => Holds(seed.rows, seed.file, PolicyId)'
      BY <2>3, <2>8 DEF Holds
    <3>5. seed'.at = "commit" => Holds(seed.rows, seed.file, ProgramId)'
      BY <2>3, <2>9 DEF Holds
    <3>6. seed'.at = "programs" => \A i \in ProgramId : seed'.rows[i] = index'[i]
      BY <2>1, <2>3, <2>7
    <3> QED
      BY <3>1, <3>2, <3>3, <3>4, <3>5, <3>6 DEF SeedInv
  <2> QED
    BY <2>4, <2>11 DEF IndexInv
<1>4. CASE SeedFails
  <2>1. seed' = Null /\ UNCHANGED <<edition, index, seeds, blind>>
    BY <1>4 DEF SeedFails
  <2>2. IndexTypeOK' /\ RowsTyped(index)' /\ SeedInv' /\ IndexIsWhole'
    BY <1>0, <1>02, <2>1 DEF IndexTypeOK, RowsTyped, SeedInv, IndexIsWhole
  <2> QED
    BY <2>2 DEF IndexInv
<1>5. CASE Commit
  <2> DEFINE changed == {i \in Id : ~seed.embed /\ index[i] # Null /\ index[i].hash # seed.rows[i].hash}
  <2>1. /\ seed # Null /\ seed.at = "commit" /\ index' = seed.rows /\ blind' = blind \cup changed
        /\ seed' = Null /\ UNCHANGED <<edition, seeds>>
    BY <1>5 DEF Commit
  <2>2. IndexTypeOK'
    BY <1>0, <1>01, <2>1 DEF IndexTypeOK
  <2>3. RowsTyped(index)' /\ SeedInv'
    BY <1>02, <2>1 DEF RowsTyped, SeedInv
  <2>4. seed.file \in 1 .. edition /\ seed.file \in DOMAIN Editions
    BY <1>0, <1>01, <1>02, <2>1, IndexAssumption DEF SeedInv, IndexAssumption
  <2>5. \A i \in DOMAIN Editions[seed.file] : index'[i] # Null /\ index'[i].row = Editions[seed.file][i]
    BY <1>0, <1>02, <2>1, <2>4 DEF SeedInv, Holds
  <2>6. \A i \in Id : (index'[i] # Null /\ index'[i].vector # Null) =>
          index'[i].vector = index'[i].row.text \/ i \in blind'
    BY <1>02, <2>1 DEF SeedInv, VectorFits
  <2>7. IndexIsWhole'
    BY <2>1, <2>4, <2>5, <2>6 DEF IndexIsWhole
  <2> QED
    BY <2>2, <2>3, <2>7 DEF IndexInv
<1> QED
  BY <1>1, <1>2, <1>3, <1>4, <1>5 DEF IndexNext

-----------------------------------------------------------------------------
(* What a search returns.                                                   *)

\* A policy found was in force on the day asked for, in the country asked for.
LEMMA FoundInForce ==
  ASSUME NEW rows, NEW q, NEW country, NEW day, NEW embedded, NEW i \in PgPolicies(rows, q, country, day, embedded)
  PROVE  i \in PolicyId /\ rows[i] # Null /\ rows[i].row.country = country /\ Governs(rows[i].row, day)
<1> DEFINE Row(j) == rows[j].row
           Cosine(j) == IF ~embedded \/ rows[j].vector = Null THEN Null ELSE Similar[q][rows[j].vector]
           found == {j \in PolicyId : rows[j] # Null /\ Row(j).country = country /\ Governs(Row(j), day)}
           cands == {Candidate(j, KeywordScore(q, Row(j)), Cosine(j)) : j \in found}
<1>1. i \in Rank(cands, Limit)
  BY DEF PgPolicies
<1> HIDE DEF cands
<1>2. \E c \in cands : i = c.id
  BY <1>1 DEF Rank, Pool
<1>3. \A c \in cands : c.id \in found
  BY DEF cands, Candidate
<1> QED
  BY <1>2, <1>3

-----------------------------------------------------------------------------
(* A question at work.                                                      *)

\* The case that was found is there, as the tables stand and as the read at hand
\* saw them first.
CaseThere(m) ==
  m[gather.case.id] # Null \/ \E i \in DOMAIN docs : docs[i].case = gather.case.id

\* What the node holds at each of its points.
Holding ==
  gather # Null =>
    /\ gather.at = "get_case" => gather.case = Null
    /\ gather.case = Null => /\ gather.at \in {"get_case", "done", "failed"}
                             /\ gather.cites = {} /\ gather.checks = Null
    /\ gather.case # Null => /\ gather.ref = gather.case.id
                             /\ CaseThere(cases)
                             /\ gather.metas # Null => CaseThere(gather.metas)
    /\ gather.metas # Null => \A c \in CaseId : gather.metas[c] # Null => cases[c] # Null
    /\ gather.at = "search_policy" => gather.case.meta.submission_target # Null
    /\ gather.at = "search_programs" => gather.profile # Null

GatherInv ==
  /\ gather \in Gathering \cup {Null}
  /\ Holding /\ ProceedIsSignedOff /\ CitedInForce /\ OneCaseThroughout

\* The parts of what a node holds.
LEMMA Parts ==
  ASSUME gather \in Gathering
  PROVE  /\ gather # Null
         /\ gather.at \in Points /\ gather.ref \in Ref \cup CaseId /\ gather.programme \in BOOLEAN
         /\ gather.metas # Null => gather.metas \in [CaseId -> Meta \cup {Null}]
         /\ gather.case # Null => /\ gather.case.id \in CaseId /\ gather.case.meta \in Meta
         /\ gather.listed \in (SUBSET Nat) \cup {Null}
         /\ gather.checks \in [Rule -> Outcome] \cup {Null}
         /\ gather.todo \in SUBSET (1 .. 5) /\ gather.cites \subseteq Citation
         /\ gather.profile \in Profile \cup {Null} /\ gather.programs \subseteq Suggestion
BY ReadsAssumption DEF Gathering, ReadsAssumption

\* The kinds of the parts that change.
CaseKind     == [id : CaseId, meta : Meta]
ListingKind  == SUBSET Nat
ChecksKind   == [Rule -> Outcome]
TodoKind     == SUBSET (1 .. 5)
CitesKind    == SUBSET Citation
ProgramsKind == SUBSET Suggestion

\* Changing some parts for others of their kind keeps what a node holds well typed.
LEMMA HoldingChanged ==
  ASSUME gather \in Gathering, NEW at \in Points
  PROVE  /\ [gather EXCEPT !.at = at, !.metas = Null] \in Gathering
         /\ \A ref \in CaseId, case \in CaseKind :
              [gather EXCEPT !.at = at, !.metas = Null, !.ref = ref, !.case = case] \in Gathering
         /\ \A listed \in ListingKind :
              [gather EXCEPT !.at = at, !.metas = Null, !.listed = listed] \in Gathering
         /\ \A checks \in ChecksKind, todo \in TodoKind :
              [gather EXCEPT !.metas = Null, !.checks = checks, !.todo = todo, !.at = at] \in Gathering
         /\ \A cites \in CitesKind, todo \in TodoKind :
              [gather EXCEPT !.cites = cites, !.todo = todo, !.at = at] \in Gathering
         /\ \A profile \in Profile :
              [gather EXCEPT !.at = at, !.metas = Null, !.profile = profile] \in Gathering
         /\ \A programs \in ProgramsKind :
              [gather EXCEPT !.at = at, !.programs = programs] \in Gathering
<1> DEFINE Rf == Ref \cup CaseId
           Ms == [CaseId -> Meta \cup {Null}] \cup {Null}
           Cs == [id : CaseId, meta : Meta] \cup {Null}
           Ls == (SUBSET Nat) \cup {Null}
           Ch == [Rule -> Outcome] \cup {Null}
           Td == SUBSET (1 .. 5)
           Ct == SUBSET Citation
           Pf == Profile \cup {Null}
           Pg == SUBSET Suggestion
           Kind == [at : Points, ref : Rf, programme : BOOLEAN, metas : Ms, case : Cs, listed : Ls,
                    checks : Ch, todo : Td, cites : Ct, profile : Pf, programs : Pg]
<1>1. gather \in Kind /\ Kind = Gathering
  BY DEF Gathering
<1>2. Null \in Ms
  OBVIOUS
<1> HIDE DEF Rf, Ms, Cs, Ls, Ch, Td, Ct, Pf, Pg
<1>3. /\ [gather EXCEPT !.at = at, !.metas = Null] \in Kind
      /\ \A ref \in Rf, case \in Cs :
           [gather EXCEPT !.at = at, !.metas = Null, !.ref = ref, !.case = case] \in Kind
      /\ \A listed \in Ls : [gather EXCEPT !.at = at, !.metas = Null, !.listed = listed] \in Kind
      /\ \A checks \in Ch, todo \in Td :
           [gather EXCEPT !.metas = Null, !.checks = checks, !.todo = todo, !.at = at] \in Kind
      /\ \A cites \in Ct, todo \in Td :
           [gather EXCEPT !.cites = cites, !.todo = todo, !.at = at] \in Kind
      /\ \A profile \in Pf : [gather EXCEPT !.at = at, !.metas = Null, !.profile = profile] \in Kind
      /\ \A programs \in Pg : [gather EXCEPT !.at = at, !.programs = programs] \in Kind
  BY <1>1, <1>2
<1> HIDE DEF Kind
<1> QED
  BY <1>1, <1>3, Zenon DEF Rf, Cs, Ls, Ch, Td, Ct, Pf, Pg,
     CaseKind, ListingKind, ChecksKind, TodoKind, CitesKind, ProgramsKind

\* A read finds the case again.
LEMMA FoundAgain ==
  ASSUME StoreInv, GatherInv, gather # Null, gather.case # Null, gather.metas # Null
  PROVE  Found = gather.case.id /\ gather.case.id \in CaseId /\ Found # Null
<1>1. gather \in Gathering
  BY DEF GatherInv
<1>01. gather.case.id \in CaseId
  BY <1>1, Parts
<1>02. gather.ref = gather.case.id /\ CaseThere(gather.metas)
  BY DEF GatherInv, Holding, CaseThere
<1>2. gather.case.id \in CaseId /\ gather.ref = gather.case.id /\ CaseThere(gather.metas)
  BY <1>01, <1>02
<1>3. gather.case.id \in Known(gather.metas, docs)
  <2>1. CASE gather.metas[gather.case.id] # Null
    BY <1>2, <2>1 DEF Known
  <2>2. CASE \E i \in DOMAIN docs : docs[i].case = gather.case.id
    BY <1>2, <2>2, SomeDocumentStands DEF Known
  <2> QED
    BY <1>2, <2>1, <2>2 DEF CaseThere
<1>4. Found = gather.case.id
  BY <1>2, <1>3 DEF Found, Resolve
<1> QED
  BY <1>2, <1>4, StoreAssumption DEF StoreAssumption

\* A reference that resolves is a case the read knows.
LEMMA ResolvedIsKnown ==
  ASSUME NEW m, NEW d, NEW ref, Resolve(m, d, ref) # Null
  PROVE  Resolve(m, d, ref) \in Known(m, d) /\ Resolve(m, d, ref) \in CaseId
<1> DEFINE hits == EndsWith[ref] \cap Known(m, d)
<1>1. CASE ref \in Known(m, d)
  BY <1>1 DEF Resolve, Known
<1>2. CASE ref \notin Known(m, d) /\ Cardinality(hits) = 1
  <2>1. hits # {}
    BY <1>2, FS_EmptySet
  <2>2. (CHOOSE c \in hits : TRUE) \in hits
    BY <2>1
  <2>3. Resolve(m, d, ref) = CHOOSE c \in hits : TRUE
    BY <1>2 DEF Resolve
  <2> QED
    BY <2>2, <2>3 DEF Known
<1>3. CASE ref \notin Known(m, d) /\ Cardinality(hits) # 1
  BY <1>3 DEF Resolve
<1> QED
  BY <1>1, <1>2, <1>3

\* What the web tier writes beside a question takes nothing from it.
LEMMA WritesKeepQuestion ==
  ASSUME StoreInv, RowsKept, GatherInv, gather' = gather
  PROVE  GatherInv'
<1>1. CASE gather = Null
  BY <1>1 DEF GatherInv, Holding, ProceedIsSignedOff, CitedInForce, OneCaseThroughout
<1>2. CASE gather # Null
  <2>1. gather \in Gathering
    BY <1>2 DEF GatherInv
  <2>2. gather.case # Null => gather.case.id \in CaseId
    BY <2>1, Parts
  <2>3. CaseThere(cases) /\ gather.case # Null => CaseThere(cases)'
    BY <2>2 DEF CaseThere, RowsKept
  <2>4. CaseThere(gather.metas) => CaseThere(gather.metas)'
    BY DEF CaseThere, RowsKept
  <2>5. Holding'
    BY <2>3, <2>4 DEF GatherInv, Holding, RowsKept, CaseThere
  <2>6. ProceedIsSignedOff'
    <3> SUFFICES ASSUME gather.checks # Null, CanProceed(gather.checks), NEW t \in DocType
                 PROVE  \E i \in DOMAIN docs' : /\ docs'[i].case = gather.case.id /\ docs'[i].type = t
                                                /\ docs'[i].confirmed # Null
      BY DEF ProceedIsSignedOff
    <3>1. PICK i \in DOMAIN docs : /\ docs[i].case = gather.case.id /\ docs[i].type = t
                                   /\ docs[i].confirmed # Null
      BY <1>2 DEF GatherInv, ProceedIsSignedOff
    <3> QED
      BY <3>1 DEF RowsKept
  <2>7. CitedInForce' /\ OneCaseThroughout'
    BY DEF GatherInv, CitedInForce, OneCaseThroughout
  <2> QED
    BY <2>1, <2>5, <2>6, <2>7 DEF GatherInv
<1> QED
  BY <1>1, <1>2

\* A step of the node that leaves the case, the checks, the citations and the
\* listing as they are.
LEMMA RestKept ==
  ASSUME GatherInv, gather # Null, gather' # Null, docs' = docs,
         gather'.case = gather.case, gather'.checks = gather.checks, gather'.cites = gather.cites
  PROVE  ProceedIsSignedOff' /\ CitedInForce'
BY DEF GatherInv, ProceedIsSignedOff, CitedInForce

\* Each step of the node keeps the invariant of the question.
LEMMA StepsKeepQuestion ==
  ASSUME StoreInv, IndexInv, GatherInv, GatherNext, UNCHANGED <<storeVars, indexVars>>
  PROVE  GatherInv'
<1>0. /\ docs' = docs /\ cases' = cases /\ index' = index
      /\ cases \in [CaseId -> Meta \cup {Null}] /\ cases # Null /\ Null \notin Gathering
  BY ReadsAssumption DEF storeVars, indexVars, StoreInv, StoreTypeOK, ReadsAssumption
<1>01. gather # Null =>
         /\ gather \in Gathering
         /\ gather.case # Null => gather.case.id \in CaseId /\ gather.case.meta \in Meta
  BY Parts DEF GatherInv
<1>1. ASSUME NEW ref \in Ref, NEW programme \in BOOLEAN, Ask(ref, programme)
      PROVE  GatherInv'
  <2>1. gather' \in Gathering
    BY <1>1 DEF Ask, Gathering, Points
  <2>2. gather' # Null /\ gather'.at = "get_case" /\ gather'.case = Null /\ gather'.cites = {}
        /\ gather'.checks = Null /\ gather'.metas = Null
    BY <1>0, <1>1, <2>1 DEF Ask
  <2> QED
    BY <2>1, <2>2 DEF GatherInv, Holding, ProceedIsSignedOff, CitedInForce, OneCaseThroughout
<1>2. CASE LoadCases
  <2>1. gather # Null /\ gather.at \in Reads /\ gather' = [gather EXCEPT !.metas = cases]
    BY <1>2 DEF LoadCases
  <2>2. gather' \in Gathering /\ gather' # Null
    BY <1>0, <1>01, <2>1 DEF Gathering
  <2>3. /\ gather'.metas = cases /\ gather'.at = gather.at /\ gather'.ref = gather.ref
        /\ gather'.case = gather.case /\ gather'.cites = gather.cites /\ gather'.checks = gather.checks
        /\ gather'.listed = gather.listed /\ gather'.profile = gather.profile
        /\ gather'.programme = gather.programme
    BY <1>01, <2>1 DEF Gathering
  <2>4. CaseThere(cases) => CaseThere(gather.metas)' /\ CaseThere(cases)'
    BY <1>0, <2>3 DEF CaseThere
  <2>04. \A c \in CaseId : gather'.metas[c] # Null => cases'[c] # Null
    BY <1>0, <2>3
  <2>5. Holding'
    BY <2>1, <2>2, <2>3, <2>4, <2>04 DEF GatherInv, Holding, Reads, CaseThere
  <2>6. ProceedIsSignedOff' /\ CitedInForce'
    BY <1>0, <2>1, <2>2, <2>3, RestKept
  <2>7. OneCaseThroughout'
    BY <2>1, <2>2, <2>3 DEF GatherInv, OneCaseThroughout
  <2> QED
    BY <2>2, <2>5, <2>6, <2>7 DEF GatherInv
<1>3. CASE GetCase
  <2>1. gather # Null /\ gather.at = "get_case" /\ gather.metas # Null /\ gather.case = Null
        /\ gather.cites = {} /\ gather.checks = Null
    BY <1>3 DEF GetCase, AtLoaded, GatherInv, Holding
  <2>2. CASE Found = Null
    <3>1. gather' = [gather EXCEPT !.at = "done", !.metas = Null]
      BY <1>3, <2>2 DEF GetCase
    <3>2. gather' \in Gathering /\ gather' # Null
      BY <1>0, <1>01, <2>1, <3>1 DEF Gathering, Points
    <3>3. gather'.at = "done" /\ gather'.case = Null /\ gather'.cites = {} /\ gather'.checks = Null
          /\ gather'.metas = Null
      BY <1>01, <2>1, <3>1 DEF Gathering
    <3> QED
      BY <3>2, <3>3 DEF GatherInv, Holding, ProceedIsSignedOff, CitedInForce, OneCaseThroughout
  <2>3. CASE Found # Null
    <3> DEFINE c == Found
               case == [id |-> c, meta |-> MetaOf(gather.metas, c)]
    <3>1. gather' = [gather EXCEPT !.at = "list_documents", !.metas = Null, !.ref = c, !.case = case]
      BY <1>3, <2>3 DEF GetCase, CaseName
    <3>2. c \in CaseId /\ c \in Known(gather.metas, docs)
      BY <2>3, ResolvedIsKnown DEF Found
    <3>3. gather.metas \in [CaseId -> Meta \cup {Null}]
      BY <1>01, <2>1, Parts
    <3>4. case \in [id : CaseId, meta : Meta] /\ case # Null
      BY <3>2, <3>3, MetaTyped, ReadsAssumption DEF ReadsAssumption
    <3> HIDE DEF case, c
    <3>05. gather \in Gathering /\ "list_documents" \in Points /\ case \in CaseKind
      BY <1>01, <2>1, <3>4 DEF Points, CaseKind
    <3>a. [gather EXCEPT !.at = "list_documents", !.metas = Null, !.ref = c, !.case = case] \in Gathering
      BY <3>2, <3>05, HoldingChanged, Zenon
    <3>5. gather' \in Gathering /\ gather' # Null
      BY <1>0, <3>1, <3>a
    <3>6. /\ gather'.at = "list_documents" /\ gather'.case = case /\ gather'.ref = c
          /\ gather'.cites = {} /\ gather'.checks = Null /\ gather'.metas = Null
      BY <1>01, <2>1, <3>1 DEF Gathering
    <3>7. case.id = c
      BY DEF case
    <3>8. CaseThere(cases)'
      <4>1. CASE gather.metas[c] # Null
        BY <1>0, <2>1, <3>2, <3>6, <3>7, <4>1 DEF CaseThere, GatherInv, Holding
      <4>2. CASE Standing(docs, c) # {}
        BY <1>0, <3>6, <3>7, <4>2 DEF CaseThere, Standing
      <4> QED
        BY <3>2, <4>1, <4>2 DEF Known
    <3> QED
      BY <3>4, <3>5, <3>6, <3>7, <3>8 DEF GatherInv, Holding, ProceedIsSignedOff, CitedInForce, OneCaseThroughout
  <2> QED
    BY <2>2, <2>3
<1>4. CASE ListDocuments
  <2> DEFINE listed == IF Found = Null THEN Null ELSE DOMAIN Record.documents
  <2>1. /\ gather # Null /\ gather.at = "list_documents" /\ gather.metas # Null /\ gather.case # Null
        /\ gather' = [gather EXCEPT !.at = "run_rules", !.metas = Null, !.listed = listed]
    BY <1>4 DEF ListDocuments, AtLoaded, GatherInv, Holding
  <2>2. Found # Null
    BY <2>1, FoundAgain
  <2>3. DOMAIN Record.documents = Standing(docs, Found)
    BY DEF Record, PgRecord
  <2>4. listed \in SUBSET Nat /\ listed # Null
    <3>1. DOMAIN docs = 1 .. Len(docs) /\ Len(docs) \in Nat /\ Len(docs) <= MaxDocuments
      BY DEF StoreInv, StoreTypeOK
    <3>2. Standing(docs, Found) \subseteq 1 .. MaxDocuments
      BY <3>1, StoreAssumption DEF Standing, StoreAssumption
    <3> QED
      BY <2>2, <2>3, <3>2, ReadsAssumption DEF ReadsAssumption
  <2> HIDE DEF listed
  <2>05. gather \in Gathering /\ "run_rules" \in Points /\ listed \in ListingKind
    BY <1>01, <2>1, <2>4 DEF Points, ListingKind
  <2>a. [gather EXCEPT !.at = "run_rules", !.metas = Null, !.listed = listed] \in Gathering
    BY <2>05, HoldingChanged, Zenon
  <2>5. gather' \in Gathering /\ gather' # Null
    BY <1>0, <2>1, <2>a
  <2>6. /\ gather'.at = "run_rules" /\ gather'.ref = gather.ref /\ gather'.metas = Null
        /\ gather'.case = gather.case /\ gather'.cites = gather.cites /\ gather'.checks = gather.checks
        /\ gather'.listed = listed
    BY <1>01, <2>1 DEF Gathering
  <2>7. Holding' /\ OneCaseThroughout'
    BY <1>0, <2>1, <2>4, <2>5, <2>6 DEF GatherInv, Holding, OneCaseThroughout, CaseThere
  <2>8. ProceedIsSignedOff' /\ CitedInForce'
    BY <1>0, <2>1, <2>5, <2>6, RestKept
  <2> QED
    BY <2>5, <2>7, <2>8 DEF GatherInv
<1>5. CASE RunRules
  <2> DEFINE checks == IF Found = Null THEN Null ELSE Evaluate(BuildRulesPayload(Record), Today)
             todo == IF checks = Null \/ gather.case.meta.submission_target = Null THEN {}
                     ELSE {k \in DOMAIN Rules : checks[Rules[k]] # "pass"}
             at == IF todo = {} THEN AfterPolicies ELSE "search_policy"
  <2>1. /\ gather # Null /\ gather.at = "run_rules" /\ gather.metas # Null /\ gather.case # Null
        /\ gather' = [gather EXCEPT !.metas = Null, !.checks = checks, !.todo = todo, !.at = at]
    BY <1>5 DEF RunRules, AtLoaded, GatherInv, Holding
  <2>2. Found = gather.case.id /\ Found # Null /\ Found \in CaseId
    BY <2>1, FoundAgain
  <2>3. checks = Evaluate(BuildRulesPayload(PgRecord(gather.metas, docs, gather.case.id)), Today)
    BY <2>2 DEF Record
  <2>4. checks \in [Rule -> Outcome] /\ checks # Null
    BY <2>3, ChecksTyped
  <2>5. CanProceed(checks) => \A t \in DocType : \E i \in DOMAIN docs :
                                /\ docs[i].case = gather.case.id /\ docs[i].type = t
                                /\ docs[i].confirmed # Null
    BY <2>2, <2>3, ProceedNeedsFour
  <2> HIDE DEF checks
  <2>6. todo \in SUBSET (1 .. 5) /\ (todo # {} => gather.case.meta.submission_target # Null)
    BY DEF Rules
  <2> HIDE DEF todo
  <2>7. at \in {"done", "get_study_profile", "search_policy"} /\ (at = "done" => ~gather.programme)
        /\ (at = "search_policy" => todo # {})
    BY DEF AfterPolicies
  <2> HIDE DEF at
  <2>08. gather \in Gathering /\ at \in Points /\ checks \in ChecksKind /\ todo \in TodoKind
    BY <1>01, <2>1, <2>4, <2>6, <2>7 DEF Points, ChecksKind, TodoKind
  <2>a. [gather EXCEPT !.metas = Null, !.checks = checks, !.todo = todo, !.at = at] \in Gathering
    BY <2>08, HoldingChanged, Zenon
  <2>8. gather' \in Gathering /\ gather' # Null
    BY <1>0, <2>1, <2>a
  <2>9. /\ gather'.at = at /\ gather'.ref = gather.ref /\ gather'.metas = Null
        /\ gather'.case = gather.case /\ gather'.cites = gather.cites /\ gather'.checks = checks
        /\ gather'.listed = gather.listed /\ gather'.programme = gather.programme
    BY <1>01, <2>1 DEF Gathering
  <2>10. Holding'
    BY <1>0, <2>1, <2>6, <2>7, <2>8, <2>9 DEF GatherInv, Holding, CaseThere
  <2>11. OneCaseThroughout'
    BY <2>1, <2>4, <2>7, <2>9 DEF GatherInv, OneCaseThroughout
  <2>12. ProceedIsSignedOff'
    BY <1>0, <2>5, <2>9 DEF ProceedIsSignedOff
  <2>13. CitedInForce'
    BY <2>1, <2>8, <2>9 DEF GatherInv, CitedInForce
  <2> QED
    BY <2>8, <2>10, <2>11, <2>12, <2>13 DEF GatherInv
<1>6. ASSUME NEW embedded \in BOOLEAN, SearchPolicy(embedded)
      PROVE  GatherInv'
  <2> DEFINE k == Min(gather.todo)
             hits == PgPolicies(index, Rules[k], gather.case.meta.country, EffectiveDate, embedded)
             new == {Cite(i) : i \in hits}
             cites == MergeCitations(gather.cites, new)
             at == IF gather.todo = {k} THEN AfterPolicies ELSE "search_policy"
  <2>1. /\ gather # Null /\ gather.at = "search_policy" /\ gather.case # Null
        /\ gather' = [gather EXCEPT !.cites = cites, !.todo = @ \ {k}, !.at = at]
    BY <1>6 DEF SearchPolicy, GatherInv, Holding
  <2>2. gather.case.meta.submission_target # Null /\ gather.case.meta.submission_target \in Int
    BY <1>01, <2>1 DEF GatherInv, Holding, Meta, Date
  <2>3. ASSUME NEW i \in hits
        PROVE  /\ Cite(i) \in Citation /\ Cite(i).country = gather.case.meta.country
               /\ gather.case.meta.submission_target >= Cite(i).from
               /\ Cite(i).to # Null => gather.case.meta.submission_target < Cite(i).to
    <3>1. /\ i \in PolicyId /\ index[i] # Null /\ index[i].row.country = gather.case.meta.country
          /\ Governs(index[i].row, gather.case.meta.submission_target)
      BY FoundInForce DEF EffectiveDate
    <3>2. index[i].row \in Policy
      BY <3>1 DEF IndexInv, RowsTyped, Id
    <3>3. /\ Cite(i).id = i /\ Cite(i).country = index[i].row.country
          /\ Cite(i).from = index[i].row.from /\ Cite(i).to = index[i].row.to
      BY DEF Cite
    <3>4. index[i].row.from \in Int /\ index[i].row.to \in Optional /\ index[i].row.country \in Country
      BY <3>2 DEF Policy
    <3>5. Cite(i) \in Citation
      BY <3>1, <3>4 DEF Cite, Citation
    <3> QED
      BY <2>2, <3>1, <3>3, <3>4, <3>5 DEF Governs
  <2> HIDE DEF hits
  <2>4. cites \subseteq gather.cites \cup new
    BY DEF MergeCitations
  <2>5. gather.cites \subseteq Citation /\ gather.todo \in SUBSET (1 .. 5) /\ new \subseteq Citation
    BY <1>01, <2>1, <2>3, Parts
  <2> HIDE DEF cites, new
  <2>6. at \in {"done", "get_study_profile", "search_policy"} /\ (at = "done" => ~gather.programme)
    BY DEF AfterPolicies
  <2> HIDE DEF at, k
  <2>07. gather \in Gathering /\ at \in Points /\ cites \in CitesKind
         /\ gather.todo \ {k} \in TodoKind
    BY <1>01, <2>1, <2>4, <2>5, <2>6 DEF Points, CitesKind, TodoKind
  <2>a. [gather EXCEPT !.cites = cites, !.todo = gather.todo \ {k}, !.at = at] \in Gathering
    BY <2>07, HoldingChanged, Zenon
  <2>7. gather' \in Gathering /\ gather' # Null
    BY <1>0, <2>1, <2>a
  <2>8. /\ gather'.at = at /\ gather'.ref = gather.ref /\ gather'.metas = gather.metas
        /\ gather'.case = gather.case /\ gather'.cites = cites /\ gather'.checks = gather.checks
        /\ gather'.listed = gather.listed /\ gather'.programme = gather.programme
    BY <1>01, <2>1 DEF Gathering
  <2>9. Holding'
    BY <1>0, <2>1, <2>2, <2>6, <2>7, <2>8 DEF GatherInv, Holding, CaseThere
  <2>10. OneCaseThroughout'
    BY <2>1, <2>6, <2>8 DEF GatherInv, OneCaseThroughout
  <2>11. ProceedIsSignedOff'
    BY <1>0, <2>1, <2>8 DEF GatherInv, ProceedIsSignedOff
  <2>12. CitedInForce'
    <3> SUFFICES ASSUME NEW c \in cites
                 PROVE  /\ c.country = gather.case.meta.country
                        /\ gather.case.meta.submission_target # Null
                        /\ gather.case.meta.submission_target >= c.from
                        /\ c.to # Null => gather.case.meta.submission_target < c.to
      BY <2>8 DEF CitedInForce
    <3>1. CASE c \in gather.cites
      BY <2>1, <3>1 DEF GatherInv, CitedInForce
    <3>2. CASE c \in new
      BY <2>2, <2>3, <3>2 DEF new
    <3> QED
      BY <2>4, <3>1, <3>2
  <2> QED
    BY <2>7, <2>9, <2>10, <2>11, <2>12 DEF GatherInv
<1>7. CASE GetStudyProfile
  <2> DEFINE profile == IF Found = Null THEN Null ELSE StudyProfile(Record)
  <2>1. /\ gather # Null /\ gather.at = "get_study_profile" /\ gather.metas # Null /\ gather.case # Null
        /\ gather' = [gather EXCEPT !.at = "search_programs", !.metas = Null, !.profile = profile]
    BY <1>7 DEF GetStudyProfile, AtLoaded, GatherInv, Holding
  <2>2. Found # Null /\ Found \in CaseId
    BY <2>1, FoundAgain
  <2>3. profile \in Profile /\ profile # Null
    BY <2>2, ProfileTyped, ReadsAssumption DEF Record, ReadsAssumption
  <2> HIDE DEF profile
  <2>4. gather' \in Gathering /\ gather' # Null
    BY <1>0, <1>01, <2>1, <2>3, HoldingChanged DEF Points
  <2>5. /\ gather'.at = "search_programs" /\ gather'.ref = gather.ref /\ gather'.metas = Null
        /\ gather'.case = gather.case /\ gather'.cites = gather.cites /\ gather'.checks = gather.checks
        /\ gather'.listed = gather.listed /\ gather'.profile = profile
    BY <1>01, <2>1 DEF Gathering
  <2>6. Holding' /\ OneCaseThroughout'
    BY <1>0, <2>1, <2>3, <2>4, <2>5 DEF GatherInv, Holding, OneCaseThroughout, CaseThere
  <2>7. ProceedIsSignedOff' /\ CitedInForce'
    BY <1>0, <2>1, <2>4, <2>5, RestKept
  <2> QED
    BY <2>4, <2>6, <2>7 DEF GatherInv
<1>8. ASSUME NEW q \in Query \cup {Null}, SearchPrograms(q)
      PROVE  GatherInv'
  <2> DEFINE found == PgPrograms(index, ProgrammeFilters(gather.case, gather.profile), q)
             programs == {[id |-> i, fit |-> Fit(index[i].row, gather.profile)] : i \in found}
  <2>1. /\ gather # Null /\ gather.at = "search_programs" /\ gather.case # Null /\ gather.profile # Null
        /\ gather' = [gather EXCEPT !.at = "done", !.programs = programs]
    BY <1>8 DEF SearchPrograms, GatherInv, Holding
  <2>2. found \subseteq ProgramId
    BY DEF PgPrograms
  <2>3. programs \subseteq Suggestion
    BY <2>2 DEF Suggestion, Fit
  <2> HIDE DEF programs
  <2>04. gather \in Gathering /\ "done" \in Points /\ programs \in ProgramsKind
    BY <1>01, <2>1, <2>3 DEF Points, ProgramsKind
  <2>a. [gather EXCEPT !.at = "done", !.programs = programs] \in Gathering
    BY <2>04, HoldingChanged, Zenon
  <2>4. gather' \in Gathering /\ gather' # Null
    BY <1>0, <2>1, <2>a
  <2>5. /\ gather'.at = "done" /\ gather'.ref = gather.ref /\ gather'.metas = gather.metas
        /\ gather'.case = gather.case /\ gather'.cites = gather.cites /\ gather'.checks = gather.checks
        /\ gather'.listed = gather.listed /\ gather'.profile = gather.profile
    BY <1>01, <2>1 DEF Gathering
  <2>6. Holding' /\ OneCaseThroughout'
    BY <1>0, <2>1, <2>4, <2>5 DEF GatherInv, Holding, OneCaseThroughout, CaseThere
  <2>7. ProceedIsSignedOff' /\ CitedInForce'
    BY <1>0, <2>1, <2>4, <2>5, RestKept
  <2> QED
    BY <2>4, <2>6, <2>7 DEF GatherInv
<1>9. CASE GatherFails
  <2>1. gather # Null /\ gather' = [gather EXCEPT !.at = "failed", !.metas = Null]
    BY <1>9 DEF GatherFails
  <2>a. [gather EXCEPT !.at = "failed", !.metas = Null] \in Gathering
    <3>1. gather \in Gathering /\ "failed" \in Points
      BY <1>01, <2>1 DEF Points
    <3> QED
      BY <3>1, HoldingChanged, Zenon
  <2>2. gather' \in Gathering /\ gather' # Null
    BY <1>0, <2>1, <2>a
  <2>3. /\ gather'.at = "failed" /\ gather'.ref = gather.ref /\ gather'.metas = Null
        /\ gather'.case = gather.case /\ gather'.cites = gather.cites /\ gather'.checks = gather.checks
    BY <1>01, <2>1 DEF Gathering
  <2>4. Holding' /\ OneCaseThroughout'
    BY <1>0, <2>1, <2>2, <2>3 DEF GatherInv, Holding, OneCaseThroughout, CaseThere
  <2>5. ProceedIsSignedOff' /\ CitedInForce'
    BY <1>0, <2>1, <2>2, <2>3, RestKept
  <2> QED
    BY <2>2, <2>4, <2>5 DEF GatherInv
<1> QED
  BY <1>1, <1>2, <1>3, <1>4, <1>5, <1>6, <1>7, <1>8, <1>9 DEF GatherNext

-----------------------------------------------------------------------------
(* Both ways to search.                                                     *)

\* A keyword score is a number, since a query and a row share finitely many
\* keywords.
LEMMA ScoreIsNumber ==
  ASSUME NEW q, NEW row \in Policy
  PROVE  KeywordScore(q, row) \in Nat
<1>1. Words[q] \cap row.keywords \in SUBSET Word
  BY DEF Policy
<1>2. IsFiniteSet(Word)
  BY IndexAssumption DEF IndexAssumption
<1>3. IsFiniteSet(Words[q] \cap row.keywords)
  BY <1>1, <1>2, FS_Subset
<1> QED
  BY <1>3, FS_CardinalityType DEF KeywordScore

\* With a limit of as many policies as there are, Rank keeps all of the pool:
\* fewer of them are before any one.
LEMMA RankKeepsAll ==
  ASSUME NEW cands, NEW c \in Pool(cands), NEW found \in SUBSET PolicyId,
         NEW score \in [found -> Int],
         cands = {Candidate(i, score[i], Null) : i \in found}
  PROVE  c.id \in Rank(cands, Cardinality(PolicyId))
<1> DEFINE before == {d \in Pool(cands) : Before(d, c)}
           others == PolicyId \ {c.id}
           id == [d \in before |-> d.id]
<1>1. \A d \in Pool(cands) : d \in cands
  BY DEF Pool
<1>2. \A d \in Pool(cands) : \E i \in found : d = Candidate(i, score[i], Null)
  BY <1>1
<1>3. \A d \in Pool(cands) : /\ d.id \in PolicyId /\ d.keyword = score[d.id] /\ d.cosine = Null
                             /\ d.keyword \in Int
                             /\ d = Candidate(d.id, score[d.id], Null)
  BY <1>2 DEF Candidate
<1>4. \A d \in Pool(cands) : HybridScore(d) = 100 * d.keyword
  BY <1>3 DEF HybridScore
<1>5. PolicyId \subseteq Int /\ IsFiniteSet(PolicyId)
  BY IndexAssumption DEF IndexAssumption
<1>6. ASSUME NEW d \in before PROVE d.id \in others
  <2>1. CASE d.id # c.id
    BY <1>3, <2>1
  <2>2. CASE d.id = c.id
    <3>1. d = c
      BY <1>3, <2>2
    <3>2. ~Before(c, c)
      <4>0. c.keyword \in Int /\ c.id \in PolicyId /\ HybridScore(c) = 100 * c.keyword
        BY <1>3, <1>4
      <4>1. HybridScore(c) \in Int
        <5>1. \A k \in Int : 100 * k \in Int
          OBVIOUS
        <5> QED
          BY <4>0, <5>1
      <4>2. c.id \in Int
        BY <4>0, <1>5
      <4> QED
        BY <4>1, <4>2 DEF Before
    <3> QED
      BY <3>1, <3>2
  <2> QED
    BY <2>1, <2>2
<1>7. id \in Injection(before, others)
  <2>1. id \in [before -> others]
    BY <1>6
  <2>2. \A d, e \in before : id[d] = id[e] => d = e
    BY <1>3
  <2> QED
    BY <2>1, <2>2 DEF Injection, IsInjective
<1>8. /\ IsFiniteSet(others) /\ Cardinality(PolicyId) \in Nat
      /\ Cardinality(others) = Cardinality(PolicyId) - 1
  BY <1>3, <1>5, FS_RemoveElement, FS_CardinalityType
<1>9. IsFiniteSet(before) /\ Cardinality(before) <= Cardinality(others)
  BY <1>7, <1>8, FS_Injection
<1>10. Cardinality(before) < Cardinality(PolicyId)
  BY <1>8, <1>9, FS_CardinalityType
<1> QED
  BY <1>10 DEF Rank

\* Over the same rows, both ways to search look at the same policies.
LEMMA SamePoliciesFound ==
  ASSUME IndexTypeOK, RowsTyped(index), NEW country, NEW day \in Int
  PROVE  LET found == {i \in PolicyId : index[i] # Null /\ index[i].row.country = country /\ Governs(index[i].row, day)}
             in_force == {i \in DOMAIN PolicyRows : PolicyRows[i].country = country /\ InForceOn(PolicyRows[i], day)} IN
         /\ in_force = found
         /\ \A i \in found : PolicyRows[i] = index[i].row /\ index[i].row \in Policy
<1>1. \A i \in PolicyId : index[i] # Null => index[i].row \in Policy
  BY DEF RowsTyped, Id
<1>2. \A i \in PolicyId : index[i] # Null => i \in DOMAIN PolicyRows /\ PolicyRows[i] = index[i].row
  BY DEF PolicyRows
<1>3. \A i \in DOMAIN PolicyRows : i \in PolicyId /\ index[i] # Null
  BY DEF PolicyRows
<1>4. ASSUME NEW row \in Policy PROVE Governs(row, day) <=> InForceOn(row, day)
  BY DEF Governs, InForceOn
<1> QED
  BY <1>1, <1>2, <1>3, <1>4

\* Without vectors the database finds the policies the files would.
LEMMA SameWithoutVectors ==
  ASSUME IndexTypeOK, RowsTyped(index), NEW q, NEW country, NEW day \in Int
  PROVE  PgPolicies(index, q, country, day, FALSE) = FilePolicies(PolicyRows, q, country, day, Limit)
<1> DEFINE found == {i \in PolicyId : index[i] # Null /\ index[i].row.country = country /\ Governs(index[i].row, day)}
           in_force == {i \in DOMAIN PolicyRows : PolicyRows[i].country = country /\ InForceOn(PolicyRows[i], day)}
           listed == {Candidate(i, KeywordScore(q, index[i].row), Null) : i \in found}
           read == {Candidate(i, KeywordScore(q, PolicyRows[i]), Null) : i \in in_force}
<1>1. PgPolicies(index, q, country, day, FALSE) = Rank(listed, Limit)
  BY DEF PgPolicies
<1>2. FilePolicies(PolicyRows, q, country, day, Limit) = Rank(read, Limit)
  BY DEF FilePolicies
<1>3. in_force = found /\ \A i \in found : PolicyRows[i] = index[i].row
  BY SamePoliciesFound
<1>4. listed = read
  BY <1>3
<1> QED
  BY <1>1, <1>2, <1>4

\* With vectors it finds only ones tied at the best keyword score, when there is
\* one.
LEMMA OnlyTiedWithVectors ==
  ASSUME IndexTypeOK, RowsTyped(index), NEW q, NEW country, NEW day \in Int,
         FilePolicies(PolicyRows, q, country, day, Cardinality(PolicyId)) # {}
  PROVE  PgPolicies(index, q, country, day, TRUE)
           \subseteq FilePolicies(PolicyRows, q, country, day, Cardinality(PolicyId))
<1> DEFINE found == {i \in PolicyId : index[i] # Null /\ index[i].row.country = country /\ Governs(index[i].row, day)}
           in_force == {i \in DOMAIN PolicyRows : PolicyRows[i].country = country /\ InForceOn(PolicyRows[i], day)}
           score == [i \in found |-> KeywordScore(q, index[i].row)]
           Cosine(i) == IF ~TRUE \/ index[i].vector = Null THEN Null ELSE Similar[q][index[i].vector]
           listed == {Candidate(i, KeywordScore(q, index[i].row), Cosine(i)) : i \in found}
           read == {Candidate(i, KeywordScore(q, PolicyRows[i]), Null) : i \in in_force}
           tied == FilePolicies(PolicyRows, q, country, day, Cardinality(PolicyId))
<1>1. PgPolicies(index, q, country, day, TRUE) = Rank(listed, Limit)
  BY DEF PgPolicies
<1>2. tied = Rank(read, Cardinality(PolicyId))
  BY DEF FilePolicies
<1>3. in_force = found /\ \A i \in found : PolicyRows[i] = index[i].row /\ index[i].row \in Policy
  BY SamePoliciesFound
<1>4. score \in [found -> Int]
  BY <1>3, ScoreIsNumber
<1>5. read = {Candidate(i, score[i], Null) : i \in found}
  BY <1>3
<1>6. listed = {Candidate(i, score[i], Cosine(i)) : i \in found}
  OBVIOUS
<1>0. tied # {}
  OBVIOUS
<1> HIDE DEF listed, read, score, tied, Cosine, in_force
<1>7. PICK j \in found : score[j] > 0
  <2>1. Pool(read) # {}
    BY <1>0, <1>2 DEF Rank
  <2>2. \A c \in read : c.cosine = Null
    BY <1>5 DEF Candidate
  <2>3. \E c \in read : c.keyword > 0
    BY <2>1, <2>2 DEF Pool
  <2>4. \A c \in read : \E i \in found : c.keyword = score[i]
    BY <1>5 DEF Candidate
  <2> QED
    BY <2>3, <2>4
<1>8. ASSUME NEW id \in Rank(listed, Limit) PROVE id \in tied
  <2>1. PICK c \in Pool(listed) : id = c.id
    BY <1>8 DEF Rank
  <2>2. /\ Candidate(j, score[j], Cosine(j)) \in listed
        /\ Candidate(j, score[j], Cosine(j)).keyword > 0
    BY <1>6, <1>7 DEF Candidate
  <2>3. c \in listed /\ \A d \in listed : d.keyword <= c.keyword
    BY <2>1, <2>2 DEF Pool
  <2>4. PICK i \in found : c = Candidate(i, score[i], Cosine(i))
    BY <1>6, <2>3
  <2>5. c.id = i /\ c.keyword = score[i]
    BY <2>4 DEF Candidate
  <2>6. ASSUME NEW k \in found PROVE score[k] <= score[i]
    <3>1. Candidate(k, score[k], Cosine(k)) \in listed
      BY <1>6
    <3>2. Candidate(k, score[k], Cosine(k)).keyword = score[k]
      BY DEF Candidate
    <3> QED
      BY <3>1, <3>2, <2>3, <2>5
  <2> DEFINE e == Candidate(i, score[i], Null)
  <2>7. e \in read /\ e.keyword = score[i] /\ e.id = i
    BY <1>5 DEF Candidate
  <2>8. \A d \in read : d.keyword <= e.keyword
    <3>1. \A d \in read : \E k \in found : d.keyword = score[k]
      BY <1>5 DEF Candidate
    <3> QED
      BY <3>1, <2>6, <2>7
  <2>9. \E d \in read : d.keyword > 0
    <3>1. Candidate(j, score[j], Null) \in read /\ Candidate(j, score[j], Null).keyword = score[j]
      BY <1>5 DEF Candidate
    <3> QED
      BY <3>1, <1>7
  <2>10. e \in Pool(read)
    BY <2>7, <2>8, <2>9 DEF Pool
  <2>11. e.id \in Rank(read, Cardinality(PolicyId))
    BY <2>10, <1>4, <1>5, RankKeepsAll
  <2> QED
    BY <1>2, <2>1, <2>5, <2>7, <2>11
<1> QED
  BY <1>1, <1>8 DEF tied

\* The database's programmes are the files' that the filters keep, and all of
\* those when they are no more than the limit.
LEMMA SameProgrammes ==
  ASSUME IndexTypeOK, RowsTyped(index), NEW f \in Filters, NEW q \in Query \cup {Null}
  PROVE  LET all == FilePrograms(ProgramRows, f)
             some == PgPrograms(index, f, q) IN
         /\ some \subseteq all
         /\ Cardinality(all) <= RowLimit => some = all
<1> DEFINE all == FilePrograms(ProgramRows, f)
           Row(i) == index[i].row
           where == {i \in ProgramId :
                       /\ index[i] # Null
                       /\ f.country # Null => Row(i).country = f.country
                       /\ f.levels \in {Null, {}} \/ Row(i).level \in f.levels
                       /\ f.field # Null => f.field \in Row(i).field
                       /\ f.city # Null => f.city \in Row(i).city
                       /\ f.english # Null => AtMost(Row(i).english, f.english)
                       /\ f.tuition # Null => AtMost(Row(i).tuition, f.tuition)
                       /\ f.gpa # Null => Row(i).gpa = Null \/ AtMost(Row(i).gpa, f.gpa)}
<1>0. Null \notin Int /\ ProgramId \subseteq Int /\ IsFiniteSet(ProgramId) /\ RowLimit \in Nat
  BY IndexAssumption DEF IndexAssumption
<1>1. PgPrograms(index, f, q) =
        {i \in where : Cardinality({j \in where : Precedes(index, q, j, i)}) < RowLimit}
  BY DEF PgPrograms
<1>2. DOMAIN ProgramRows = {i \in ProgramId : index[i] # Null}
  BY DEF ProgramRows
<1>3. ASSUME NEW i \in ProgramId, index[i] # Null
      PROVE  i \in all <=> i \in where
  <2>1. ProgramRows[i] = index[i].row /\ i \in DOMAIN ProgramRows
    BY <1>3 DEF ProgramRows
  <2>2. i \notin PolicyId
    BY IndexAssumption DEF IndexAssumption
  <2>3. index[i].row \in Program
    BY <1>3, <2>2 DEF RowsTyped, Id
  <2> DEFINE p == index[i].row
  <2>4. p.english \in Int /\ p.tuition \in Optional /\ p.gpa \in Optional
    BY <2>3 DEF Program
  <2>5. f.english \in Optional /\ f.tuition \in Optional /\ f.gpa \in Optional
    BY DEF Filters
  <2> HIDE DEF p
  <2>6. f.english # Null => (p.english <= f.english <=> AtMost(p.english, f.english))
    BY <1>0, <2>4 DEF AtMost
  <2>7. (p.tuition # Null /\ p.tuition <= f.tuition) <=> AtMost(p.tuition, f.tuition)
    BY DEF AtMost
  <2>8. ~(f.gpa # Null /\ p.gpa # Null /\ p.gpa > f.gpa)
          <=> (f.gpa # Null => p.gpa = Null \/ AtMost(p.gpa, f.gpa))
    BY <1>0, <2>4, <2>5 DEF AtMost, Optional
  <2>9. i \in all <=>
          /\ f.country # Null => p.country = f.country
          /\ f.levels \notin {Null, {}} => p.level \in f.levels
          /\ f.field # Null => f.field \in p.field
          /\ f.city # Null => f.city \in p.city
          /\ f.english # Null => p.english <= f.english
          /\ f.tuition # Null => p.tuition # Null /\ p.tuition <= f.tuition
          /\ ~(f.gpa # Null /\ p.gpa # Null /\ p.gpa > f.gpa)
    BY <2>1 DEF FilePrograms, p
  <2>10. i \in where <=>
          /\ f.country # Null => p.country = f.country
          /\ f.levels \in {Null, {}} \/ p.level \in f.levels
          /\ f.field # Null => f.field \in p.field
          /\ f.city # Null => f.city \in p.city
          /\ f.english # Null => AtMost(p.english, f.english)
          /\ f.tuition # Null => AtMost(p.tuition, f.tuition)
          /\ f.gpa # Null => p.gpa = Null \/ AtMost(p.gpa, f.gpa)
    BY <1>3 DEF p
  <2> HIDE DEF all, where
  <2> QED
    BY <2>6, <2>7, <2>8, <2>9, <2>10
<1>4. all = where
  <2>1. \A i \in all : i \in ProgramId /\ index[i] # Null
    BY <1>2 DEF FilePrograms
  <2>2. \A i \in where : i \in ProgramId /\ index[i] # Null
    OBVIOUS
  <2> HIDE DEF all, where
  <2> QED
    BY <2>1, <2>2, <1>3
<1>5. where \in SUBSET ProgramId
  OBVIOUS
<1>05. \A i \in where : ~Precedes(index, q, i, i)
  <2> SUFFICES ASSUME NEW i \in where PROVE ~Precedes(index, q, i, i)
    OBVIOUS
  <2> DEFINE cosine == IF q = Null \/ index[i].vector = Null THEN Null
                       ELSE Similar[q][index[i].vector]
  <2>1. index[i] \in Entry /\ i \in Int
    BY <1>0 DEF IndexTypeOK, Id
  <2>2. index[i].vector \in Text \cup {Null}
    BY <2>1 DEF Entry
  <2>3. cosine \in Int \cup {Null}
    BY <2>2, IndexAssumption DEF IndexAssumption
  <2>4. Precedes(index, q, i, i) <=>
          \/ cosine = cosine /\ i < i
          \/ cosine # Null /\ (cosine = Null \/ cosine > cosine)
    BY DEF Precedes
  <2> HIDE DEF cosine
  <2> QED
    BY <2>1, <2>3, <2>4
<1> HIDE DEF all, where
<1>6. IsFiniteSet(where) /\ Cardinality(where) \in Nat
  BY <1>0, <1>5, FS_Subset, FS_CardinalityType
<1>7. ASSUME Cardinality(where) <= RowLimit, NEW i \in where
      PROVE  Cardinality({j \in where : Precedes(index, q, j, i)}) < RowLimit
  <2> DEFINE before == {j \in where : Precedes(index, q, j, i)}
  <2>1. before \in SUBSET (where \ {i})
    BY <1>05
  <2> HIDE DEF before
  <2>2. IsFiniteSet(where \ {i}) /\ Cardinality(where \ {i}) = Cardinality(where) - 1
    BY <1>6, FS_RemoveElement
  <2>3. IsFiniteSet(before) /\ Cardinality(before) <= Cardinality(where \ {i})
    BY <2>1, <2>2, FS_Subset
  <2>4. Cardinality(before) \in Nat
    BY <2>3, FS_CardinalityType
  <2>5. Cardinality(before) < RowLimit
    BY <1>0, <1>6, <1>7, <2>2, <2>3, <2>4
  <2> QED
    BY <2>5 DEF before
<1>8. PgPrograms(index, f, q) \subseteq all
  BY <1>1, <1>4
<1>9. Cardinality(all) <= RowLimit => PgPrograms(index, f, q) = all
  BY <1>1, <1>4, <1>7
<1> QED
  BY <1>8, <1>9 DEF all

\* Whatever the index holds, both ways to search it agree, for any filters and
\* on any days.
LEMMA IndexSearchedAlike ==
  ASSUME IndexTypeOK, RowsTyped(index), NEW filters \in SUBSET Filters, NEW days \in SUBSET Int
  PROVE  StoresAgree(filters, days)
<1>1. ASSUME NEW q \in Query, NEW c \in Country, NEW d \in days
      PROVE  LET tied == FilePolicies(PolicyRows, q, c, d, Cardinality(PolicyId)) IN
             /\ PgPolicies(index, q, c, d, FALSE) = FilePolicies(PolicyRows, q, c, d, Limit)
             /\ tied # {} => PgPolicies(index, q, c, d, TRUE) \subseteq tied
  <2>1. d \in Int
    OBVIOUS
  <2> QED
    BY <2>1, SameWithoutVectors, OnlyTiedWithVectors
<1>2. ASSUME NEW f \in filters, NEW q \in Query \cup {Null}
      PROVE  LET all == FilePrograms(ProgramRows, f)
                 some == PgPrograms(index, f, q) IN
             /\ some \subseteq all
             /\ Cardinality(all) <= RowLimit => some = all
  <2>1. f \in Filters
    OBVIOUS
  <2> QED
    BY <2>1, SameProgrammes
<1> QED
  BY <1>1, <1>2 DEF StoresAgree

-----------------------------------------------------------------------------
(* Theorems.                                                                *)

\* All three together.
ReadsInv == StoreInv /\ IndexInv /\ GatherInv

\* The inductive invariant holds, whatever the web tier and seed runs do between
\* the reads of a question.
THEOREM AlwaysInductive == Spec => []ReadsInv
<1>1. Init => ReadsInv
  <2> SUFFICES ASSUME Init PROVE ReadsInv
    OBVIOUS
  <2>1. PICK s \in Starts : docs = s.docs /\ cases = s.cases
    BY DEF Init
  <2>2. StoreTypeOK
    BY <2>1, StoreAssumption, ReadsAssumption DEF Init, StoreTypeOK, StoreAssumption, ReadsAssumption
  <2>3. Successors
    BY <2>1, ReadsAssumption DEF Init, Successors, Succeeds, ReadsAssumption
  <2>4. IndexInv
    BY IndexStarts DEF Init
  <2>5. GatherInv
    BY DEF Init, GatherInv, Holding, ProceedIsSignedOff, CitedInForce, OneCaseThroughout
  <2> QED
    BY <2>2, <2>3, <2>4, <2>5 DEF ReadsInv, StoreInv
<1>2. ReadsInv /\ [Next]_vars => ReadsInv'
  <2> SUFFICES ASSUME ReadsInv, [Next]_vars PROVE ReadsInv'
    OBVIOUS
  <2>0. StoreInv /\ IndexInv /\ GatherInv
    BY DEF ReadsInv
  <2>1. UNCHANGED storeVars => StoreInv' /\ RowsKept
    BY <2>0 DEF storeVars, StoreInv, StoreTypeOK, Successors, Succeeds, RowsKept
  <2>2. UNCHANGED indexVars => IndexInv'
    BY <2>0 DEF indexVars, IndexInv, IndexTypeOK, RowsTyped, SeedInv, IndexIsWhole, Holds, VectorFits
  <2>3. CASE GatherNext /\ UNCHANGED <<storeVars, indexVars>>
    BY <2>0, <2>1, <2>2, <2>3, StepsKeepQuestion DEF ReadsInv
  <2>4. CASE StoreNext /\ UNCHANGED <<indexVars, gather>>
    BY <2>0, <2>2, <2>4, WritesKeepRows, WritesKeepQuestion DEF ReadsInv
  <2>5. CASE IndexNext /\ UNCHANGED <<storeVars, gather>>
    BY <2>0, <2>1, <2>5, SeedsKeepIndex, WritesKeepQuestion DEF ReadsInv
  <2>6. CASE UNCHANGED vars
    BY <2>0, <2>1, <2>2, <2>6, WritesKeepQuestion DEF ReadsInv, vars
  <2> QED
    BY <2>3, <2>4, <2>5, <2>6 DEF Next
<1> QED
  BY <1>1, <1>2, PTL DEF Spec

\* The rows, the index and what the node holds are always well typed.
THEOREM TypeCorrect == Spec => []TypeOK
<1>1. ReadsInv => TypeOK
  BY DEF ReadsInv, StoreInv, IndexInv, GatherInv, TypeOK
<1> QED
  BY <1>1, AlwaysInductive, PTL

\* When the checks a run gathered let a case through, a reviewer had completed a
\* document of each of the four types for it (rules.go CanProceed,
\* services.py build_rules_payload).
THEOREM ProceedAlwaysSignedOff == Spec => []ProceedIsSignedOff
<1>1. ReadsInv => ProceedIsSignedOff
  BY DEF ReadsInv, GatherInv
<1> QED
  BY <1>1, AlwaysInductive, PTL

\* Every policy cited was in force for the country and on the date shown with
\* it (graph.py gather_case, pg.py PostgresPolicyStore.search).
THEOREM CitationsInForce == Spec => []CitedInForce
<1>1. ReadsInv => CitedInForce
  BY DEF ReadsInv, GatherInv
<1> QED
  BY <1>1, AlwaysInductive, PTL

\* A run never loses the case it found (services.py get_case, graph.py
\* gather_case).
THEOREM CaseNeverLost == Spec => []OneCaseThroughout
<1>1. ReadsInv => OneCaseThroughout
  BY DEF ReadsInv, GatherInv
<1> QED
  BY <1>1, AlwaysInductive, PTL

\* The index holds all rows of one release, and vectors of their rows' texts
\* unless a run without embedding replaced one (seed.py).
THEOREM IndexAlwaysWhole == Spec => []IndexIsWhole
<1>1. ReadsInv => IndexIsWhole
  BY DEF ReadsInv, IndexInv
<1> QED
  BY <1>1, AlwaysInductive, PTL

\* Whatever the rows are, the agent gives the rules service the web tier's case:
\* from the tables always, from the files when the latest signed-off document of
\* every type has the last file name; and its two stores return the same
\* documents (checks.ts buildCase, services.py build_rules_payload, pg.py).
THEOREM TiersAlwaysAgree == Spec => []WebAndAgentAgree
<1>1. ReadsInv => WebAndAgentAgree
  <2> SUFFICES ASSUME ReadsInv, NEW c \in CaseId
               PROVE  LET pg == PgRecord(cases, docs, c)
                          file == FileRecord(cases, docs, c) IN
                      /\ BuildRulesPayload(pg) = BuildCase(cases, docs, c)
                      /\ LatestNamedLast(c) => BuildRulesPayload(file) = BuildCase(cases, docs, c)
                      /\ DOMAIN file.documents = {IdOrder[i] : i \in DOMAIN pg.documents}
                      /\ \A i \in DOMAIN pg.documents : file.documents[IdOrder[i]] = pg.documents[i]
    BY DEF WebAndAgentAgree
  <2>1. docs \in Seq(Document) /\ Len(docs) <= MaxDocuments
    BY DEF ReadsInv, StoreInv, StoreTypeOK
  <2>2. \A t : SignedOff(c, t) = Hits(docs, c, t)
    BY DEF SignedOff, Hits, Standing, Listed
  <2>3. LatestNamedLast(c) => BuildRulesPayload(FileRecord(cases, docs, c)) = BuildCase(cases, docs, c)
    BY <2>1, <2>2, SamePayloadByName DEF LatestNamedLast
  <2> QED
    BY <2>1, <2>3, SamePayload, SameDocuments
<1> QED
  BY <1>1, AlwaysInductive, PTL

\* Whatever seed runs leave in the index, the database's searches answer like
\* the files': the same policies without vectors, only ones tied at the best
\* keyword score with them, the same programmes up to the limit (ranking.py
\* rank, pg.py PostgresPolicyStore.search, PostgresProgramCatalogue.search).
THEOREM SearchesAlwaysAgree == Spec => SearchesAgree
<1>1. ReadsInv' => StoresAgree(AskedFilters, AskedDays)'
  <2>1. AskedFilters \in SUBSET Filters /\ AskedDays \in SUBSET Int
    BY ReadsAssumption DEF ReadsAssumption
  <2>2. ReadsInv => StoresAgree(AskedFilters, AskedDays)
    BY <2>1, IndexSearchedAlike DEF ReadsInv, IndexInv
  <2> QED
    BY <2>2, PTL
<1> QED
  BY <1>1, AlwaysInductive, PTL DEF SearchesAgree
=============================================================================
