---------------------------- MODULE KnowledgeIndex ----------------------------
(***************************************************************************)
(* The policies and programmes the agent may cite: the JSON files that     *)
(* come with a release, the tables a seed run fills from them, and the     *)
(* two ways to search (agent/agent/seed.py, pg.py, services.py,            *)
(* ranking.py).  Days are numbers; a vector is named by the text it was    *)
(* made from, a content hash by the text it was taken of.                  *)
(***************************************************************************)
EXTENDS Integers, FiniteSets, Sequences, Shared

CONSTANTS
  Level, Word, Text,
  PolicyId, ProgramId, \* numbers, in the order of the ids
  Query,
  Words,      \* Words[q]: the keywords that occur in query q
  Similar,    \* Similar[q][x]: cosine of query q and text x, in percent
  MinCosine,  \* MIN_COSINE, in percent
  RowLimit,   \* LIMIT of the programme query
  Editions,   \* Editions[e]: the rows of both files in release e, by id
  MaxSeeds    \* bound on the seed runs

\* None is an optional column without a value.
Optional == Int \cup {Null}

\* Policy and Program, as far as searches look at them.
Policy  == [country : Country, from : Int, to : Optional, keywords : SUBSET Word, text : Text]
Program == [country : Country, level : Level, field : SUBSET Word, city : SUBSET Word,
            english : Int, band : Int, tuition : Optional, gpa : Optional, text : Text]

Id == PolicyId \cup ProgramId

\* A row: the columns of the file, content_hash, embedding.
Entry == [row : Policy \cup Program, hash : Text, vector : Text \cup {Null}]

Table(name) == IF name = "policies" THEN PolicyId ELSE ProgramId

\* A seed run: which table is next, whether it embeds, the file it read, and
\* the rows as its transaction sees them.
Seed == [at : {"policies", "programs", "commit"}, embed : BOOLEAN,
         file : DOMAIN Editions, rows : [Id -> Entry \cup {Null}]]

ASSUME IndexAssumption ==
  /\ Null \notin Int /\ Null \notin Text /\ Null \notin Country /\ Null \notin Word
  /\ Null \notin Entry /\ Null \notin Seed
  /\ PolicyId \subseteq Int /\ ProgramId \subseteq Int /\ PolicyId \cap ProgramId = {}
  /\ IsFiniteSet(PolicyId) /\ IsFiniteSet(ProgramId) /\ IsFiniteSet(Word)
  /\ DOMAIN Words = Query
  /\ Null \notin Query /\ Similar \in [Query -> [Text -> Int]]
  /\ \A e \in DOMAIN Editions :
       /\ DOMAIN Editions[e] \subseteq PolicyId \cup ProgramId
       /\ \A i \in DOMAIN Editions[e] : Editions[e][i] \in IF i \in PolicyId THEN Policy ELSE Program
  /\ DOMAIN Editions = 1 .. Len(Editions) /\ Len(Editions) \in Nat \ {0}
  /\ MaxSeeds \in Nat /\ RowLimit \in Nat \ {0}

VARIABLES
  edition, \* the release that is deployed
  index,   \* index[i]: the row of both tables under id i, or Null
  seed,    \* the seed run at work, or Null
  seeds,   \* how many ran
  blind    \* history: ids whose text a run without embedding replaced

indexVars == <<edition, index, seed, seeds, blind>>

IndexTypeOK ==
  /\ edition \in DOMAIN Editions
  /\ index \in [Id -> Entry \cup {Null}]
  /\ seed \in Seed \cup {Null}
  /\ seeds \in 0 .. MaxSeeds
  /\ blind \subseteq Id

IndexInit ==
  /\ edition = 1
  /\ index = [i \in Id |-> Null]
  /\ seed = Null /\ seeds = 0 /\ blind = {}

-----------------------------------------------------------------------------
(* Ranking.                                                                 *)

Candidate(i, keyword, cosine) == [id |-> i, keyword |-> keyword, cosine |-> cosine]

KeywordScore(q, row) == Cardinality(Words[q] \cap row.keywords)

HybridScore(c) == 100 * c.keyword + (IF c.cosine = Null THEN 0 ELSE c.cosine)

\* Mutant of Pool: a policy that is similar joins those with a keyword.
PoolWithSimilar(cands) ==
  {c \in cands : \/ c.keyword > 0 /\ \A d \in cands : d.keyword <= c.keyword
                 \/ c.cosine # Null /\ c.cosine >= MinCosine}

\* Those tied at the best keyword score; without any keyword, the similar ones.
Pool(cands) ==
  IF \E c \in cands : c.keyword > 0
  THEN {c \in cands : \A d \in cands : d.keyword <= c.keyword}
  ELSE {c \in cands : c.cosine # Null /\ c.cosine >= MinCosine}

Before(c, d) ==
  \/ HybridScore(c) > HybridScore(d)
  \/ HybridScore(c) = HybridScore(d) /\ c.id < d.id

\* The first limit of the pool; the order of the answer is left out.
Rank(cands, limit) ==
  {c.id : c \in {c \in Pool(cands) : Cardinality({d \in Pool(cands) : Before(d, c)}) < limit}}

-----------------------------------------------------------------------------
(* Policy search.                                                           *)

Limit == 3

\* Policy.in_force_on.
InForceOn(row, day) == row.from <= day /\ (row.to = Null \/ day < row.to)

\* PolicyStore.search over the rows of the file.
FilePolicies(rows, q, country, day, limit) ==
  LET in_force == {i \in DOMAIN rows : rows[i].country = country /\ InForceOn(rows[i], day)} IN
  Rank({Candidate(i, KeywordScore(q, rows[i]), Null) : i \in in_force}, limit)

\* Mutant of Governs: the last day of a version is still its own.
GovernsToTheEnd(row, day) == row.from <= day /\ (row.to # Null => day <= row.to)

\* The WHERE clause of the query, NULL being no date.
Governs(row, day) == row.from <= day /\ (row.to # Null => day < row.to)

\* PostgresPolicyStore.search; embedded is FALSE without an embedder, or when
\* /embed fails.
PgPolicies(rows, q, country, day, embedded) ==
  LET Row(i) == rows[i].row
      Cosine(i) == IF ~embedded \/ rows[i].vector = Null THEN Null ELSE Similar[q][rows[i].vector]
      found == {i \in PolicyId : rows[i] # Null /\ Row(i).country = country /\ Governs(Row(i), day)} IN
  Rank({Candidate(i, KeywordScore(q, Row(i)), Cosine(i)) : i \in found}, Limit)

-----------------------------------------------------------------------------
(* Programme search.                                                        *)

\* What a caller may filter by, Null where it does not.
Filters ==
  [country : Country \cup {Null}, levels : (SUBSET Level) \cup {Null},
   field : Word \cup {Null}, city : Word \cup {Null},
   english : Optional, tuition : Optional, gpa : Optional]

\* ProgramCatalogue.search: what the loop does not skip.
FilePrograms(rows, f) ==
  {i \in DOMAIN rows :
     LET p == rows[i] IN
     /\ f.country # Null => p.country = f.country
     /\ f.levels \notin {Null, {}} => p.level \in f.levels
     /\ f.field # Null => f.field \in p.field
     /\ f.city # Null => f.city \in p.city
     /\ f.english # Null => p.english <= f.english
     /\ f.tuition # Null => p.tuition # Null /\ p.tuition <= f.tuition
     /\ ~(f.gpa # Null /\ p.gpa # Null /\ p.gpa > f.gpa)}

\* The columns the query compares: a comparison with NULL is not true.
AtMost(column, bound) == column # Null /\ column <= bound

\* The ORDER BY: with the question's vector the nearest rows come first and those
\* without a vector last, and then it is by id.
Precedes(rows, q, i, j) ==
  LET Cosine(k) == IF q = Null \/ rows[k].vector = Null THEN Null
                   ELSE Similar[q][rows[k].vector] IN
  \/ Cosine(i) = Cosine(j) /\ i < j
  \/ Cosine(i) # Null /\ (Cosine(j) = Null \/ Cosine(i) > Cosine(j))

\* build_query and PostgresProgramCatalogue.search: the first rows; q is Null
\* without an embedder, or when /embed fails.
PgPrograms(rows, f, q) ==
  LET Row(i) == rows[i].row
      where == {i \in ProgramId :
                  /\ rows[i] # Null
                  /\ f.country # Null => Row(i).country = f.country
                  /\ f.levels \in {Null, {}} \/ Row(i).level \in f.levels
                  /\ f.field # Null => f.field \in Row(i).field
                  /\ f.city # Null => f.city \in Row(i).city
                  /\ f.english # Null => AtMost(Row(i).english, f.english)
                  /\ f.tuition # Null => AtMost(Row(i).tuition, f.tuition)
                  /\ f.gpa # Null => Row(i).gpa = Null \/ AtMost(Row(i).gpa, f.gpa)} IN
  {i \in where : Cardinality({j \in where : Precedes(rows, q, j, i)}) < RowLimit}

-----------------------------------------------------------------------------
(* A seed run: one transaction over both tables.                            *)

\* A release with other files is deployed.
Release ==
  /\ edition + 1 \in DOMAIN Editions
  /\ edition' = edition + 1
  /\ UNCHANGED <<index, seed, seeds, blind>>

\* Runs are started by hand, one after the other.
StartSeed(embed) ==
  /\ seed = Null /\ seeds < MaxSeeds
  /\ seed' = [at |-> "policies", embed |-> embed, file |-> edition, rows |-> index]
  /\ seeds' = seeds + 1
  /\ UNCHANGED <<edition, index, blind>>

\* Mutant of Needs: a row that has a vector keeps it.
NeedsAnyVector(rows, i, text) == rows[i] = Null \/ rows[i].vector = Null

\* Whether an embedding run asks for a vector: existing.get(id) # (hash, True).
Needs(rows, i, text) == rows[i] = Null \/ rows[i].hash # text \/ rows[i].vector = Null

\* upsert: every row of the file, the new vector or else the old one.
Upserted(s) ==
  LET file == Editions[s.file]
      Old(i) == IF s.rows[i] = Null THEN Null ELSE s.rows[i].vector
      New(i) == [row |-> file[i], hash |-> file[i].text,
                 vector |-> IF s.embed /\ Needs(s.rows, i, file[i].text) THEN file[i].text ELSE Old(i)] IN
  [i \in Id |-> IF i \in DOMAIN file \cap Table(s.at) THEN New(i) ELSE s.rows[i]]

Upsert ==
  /\ seed # Null /\ seed.at \in {"policies", "programs"}
  /\ seed' = [seed EXCEPT !.rows = Upserted(seed),
                          !.at = IF @ = "policies" THEN "programs" ELSE "commit"]
  /\ UNCHANGED <<edition, index, seeds, blind>>

\* /embed refuses or does not answer, a statement fails, the run is killed: the
\* transaction is rolled back.
SeedFails ==
  /\ seed # Null
  /\ seed' = Null
  /\ UNCHANGED <<edition, index, seeds, blind>>

Commit ==
  /\ seed # Null /\ seed.at = "commit"
  /\ index' = seed.rows
  /\ blind' = blind \cup {i \in Id : /\ ~seed.embed /\ index[i] # Null
                                     /\ index[i].hash # seed.rows[i].hash}
  /\ seed' = Null
  /\ UNCHANGED <<edition, seeds>>

IndexNext ==
  \/ Release
  \/ \E embed \in BOOLEAN : StartSeed(embed)
  \/ Upsert \/ SeedFails \/ Commit
=============================================================================
