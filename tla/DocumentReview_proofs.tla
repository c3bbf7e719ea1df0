------------------------ MODULE DocumentReview_proofs ------------------------
(* What one record goes through: facts about the operators of DocumentReview, *)
(* for every set of types, fields, values and extractions.                    *)
EXTENDS DocumentReview, TLAPS, SequenceTheorems

\* A new record is a review of the extraction's type with nothing confirmed
\* (the columns createDocument writes).
LEMMA NewReviewFacts ==
  ASSUME NEW x \in Extractions
  PROVE  /\ NewReview(x) \in Review
         /\ NewReview(x).type = x.type
         /\ NewReview(x).extracted = x
         /\ NewReview(x).confirmed = Null
         /\ \A f \in Field : NewReview(x).confirmations[f] = Null
<1>1. x.type \in DocType
  BY ExtractionsAssumption DEF Extraction
<1>2. <<>> \in Seq(Request)
  BY EmptySeq
<1>3. QED
  BY <1>1, <1>2 DEF NewReview, Review

\* Merging an accepted post keeps the record of confirmations well formed, takes
\* no sign-off away and leaves at least one (the merge in applyConfirmations).
LEMMA MergeFacts ==
  ASSUME NEW doc \in Review, NEW post \in Posts, Accepts(doc, post)
  PROVE  LET c == Merge(doc.confirmations, post) IN
         /\ c \in [Field -> Value \cup {Null}]
         /\ \A f \in Field : doc.confirmations[f] # Null => c[f] # Null
         /\ \E f \in Field : c[f] # Null
<1>1. PICK S \in (SUBSET Field) \ {{}} : post \in [S -> Value \cup {Null}]
  BY DEF Posts
<1>2. \A f \in S : post[f] \in Value
  BY <1>1, FieldsAssumption DEF Accepts
<1>3. PICK g \in S : TRUE
  BY <1>1
<1>4. doc.confirmations \in [Field -> Value \cup {Null}]
  BY DEF Review
<1>5. Merge(doc.confirmations, post) \in [Field -> Value \cup {Null}]
  BY <1>1, <1>2, <1>4 DEF Merge
<1>6. \A f \in Field : doc.confirmations[f] # Null
                         => Merge(doc.confirmations, post)[f] # Null
  BY <1>1, <1>2, <1>4, NullAssumption DEF Merge
<1>7. Merge(doc.confirmations, post)[g] # Null
  BY <1>1, <1>2, <1>3, NullAssumption DEF Merge
<1>8. QED
  BY <1>1, <1>3, <1>5, <1>6, <1>7

\* confirmed_json is null or of the confirmed shape, and complete confirmations
\* give a record, never null.
LEMMA ConfirmedOfFacts ==
  ASSUME NEW doc \in Review, NEW c \in [Field -> Value \cup {Null}]
  PROVE  /\ ConfirmedOf(doc, c) \in Confirmed \cup {Null}
         /\ ConfirmedOf(doc, c) # Null <=> IsComplete(doc.extracted, c)
<1>1. [type   |-> doc.type,
       fields |-> [f \in Field |-> IF f \in FieldsFor[doc.type] THEN c[f] ELSE Null]]
        \in Confirmed
  BY DEF Review, Confirmed
<1>2. QED
  BY <1>1, NullAssumption DEF ConfirmedOf

\* A confirmation accepted by applyConfirmations changes nothing but what is
\* confirmed, and once confirmed_json is there it stays.
LEMMA ApplyFacts ==
  ASSUME NEW doc \in Review, NEW post \in Posts, Accepts(doc, post)
  PROVE  LET new == ApplyConfirmations(doc, post) IN
         /\ new \in Review
         /\ new.type = doc.type
         /\ new.extracted = doc.extracted
         /\ new.requests = doc.requests
         /\ \E f \in Field : new.confirmations[f] # Null
         /\ \A f \in Field : doc.confirmations[f] # Null => new.confirmations[f] # Null
         /\ new.confirmed = ConfirmedOf(new, new.confirmations)
         /\ IsComplete(doc.extracted, doc.confirmations) => new.confirmed # Null
<1> DEFINE c == Merge(doc.confirmations, post)
           new == ApplyConfirmations(doc, post)
<1>1. /\ c \in [Field -> Value \cup {Null}]
      /\ \A f \in Field : doc.confirmations[f] # Null => c[f] # Null
      /\ \E f \in Field : c[f] # Null
  BY MergeFacts
<1>2. ConfirmedOf(doc, c) \in Confirmed \cup {Null}
  BY <1>1, ConfirmedOfFacts
<1>3. /\ new.type = doc.type /\ new.extracted = doc.extracted
      /\ new.requests = doc.requests /\ new.confirmations = c
      /\ new.confirmed = ConfirmedOf(doc, c)
  BY DEF ApplyConfirmations, Review
<1>4. new \in Review
  BY <1>1, <1>2 DEF ApplyConfirmations, Review
<1>5. new.confirmed = ConfirmedOf(new, new.confirmations)
  BY <1>3 DEF ConfirmedOf
<1>6. ASSUME IsComplete(doc.extracted, doc.confirmations)
      PROVE  new.confirmed # Null
  <2>1. doc.extracted \in Extraction
    BY ExtractionsAssumption DEF Review
  <2>2. RequiredFields(doc.extracted) \subseteq Field
    BY <2>1, FieldsAssumption DEF RequiredFields, Extraction
  <2>3. IsComplete(doc.extracted, c)
    BY <1>1, <1>6, <2>2 DEF IsComplete
  <2>4. QED
    BY <1>1, <1>3, <2>3, ConfirmedOfFacts
<1>7. QED
  BY <1>1, <1>3, <1>4, <1>5, <1>6

\* A request to the student is added to the record and changes nothing else.
LEMMA AppendRequestFacts ==
  ASSUME NEW doc \in Review, NEW r \in Request
  PROVE  LET new == AppendRequest(doc, r) IN
         /\ new \in Review
         /\ new.type = doc.type
         /\ new.extracted = doc.extracted
         /\ new.confirmations = doc.confirmations
         /\ new.confirmed = doc.confirmed
<1>1. Append(doc.requests, r) \in Seq(Request)
  BY DEF Review
<1>2. QED
  BY <1>1 DEF AppendRequest, Review
=============================================================================
