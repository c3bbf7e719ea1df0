--------------------------- MODULE DocumentReview ---------------------------
(***************************************************************************)
(* What one document record is and what a confirmation does to it          *)
(* (web/app/types.ts, web/app/lib/review.ts).                              *)
(*                                                                         *)
(* A field's content is a member of Value; Valid says which contents       *)
(* validateValue accepts for a field's kind.  validateValue refuses null   *)
(* for every kind, so a field is in `confirmations` exactly when its       *)
(* confirmation is not Null, and the record of confirmations is a total    *)
(* function into Value \cup {Null}.                                        *)
(***************************************************************************)
EXTENDS Naturals, Sequences

CONSTANTS
  DocType,     \* the document types the sorter and the extractor know
  Field,       \* names of value-carrying fields, over all types
  FieldsFor,   \* FieldsFor[t]: the fields of a document of type t
  Value,       \* contents a field may have
  Valid,       \* Valid[f]: the contents validateValue accepts for f
  Extractions, \* what the extractor may answer
  Null         \* JSON null: absent, or not there yet

Confidence == {"high", "medium", "low"}
Unrated    == "unrated"
Kinds      == {"new_photo", "new_document"}

\* Model output: a content or null for each field, a rating for some, and the
\* fields the model says it could not read.
Extraction ==
  [type : DocType, value : [Field -> Value \cup {Null}],
   rating : [Field -> Confidence \cup {Unrated}], unreadable : SUBSET Field]

ASSUME FieldsAssumption ==
  /\ FieldsFor \in [DocType -> SUBSET Field]
  /\ Valid \in [Field -> SUBSET Value]
ASSUME ExtractionsAssumption == Extractions \subseteq Extraction
\* confirmed_json: the only shape downstream is allowed to read.
Confirmed == [type : DocType, fields : [Field -> Value \cup {Null}]]

ASSUME NullAssumption == Null \notin Value \cup Confirmed

Request == [kind : Kinds, field : Field \cup {Null}]

\* What createDocument stores besides the pages: nothing confirmed, nothing
\* asked for.
NewReview(x) ==
  [type |-> x.type, extracted |-> x, confirmations |-> [f \in Field |-> Null],
   requests |-> <<>>, confirmed |-> Null]

Review ==
  [type : DocType, extracted : Extractions,
   confirmations : [Field -> Value \cup {Null}],
   requests : Seq(Request), confirmed : Confirmed \cup {Null}]

-----------------------------------------------------------------------------
\* Everything a person has to sign off before the document counts as confirmed.
RequiredFields(x) ==
  {f \in FieldsFor[x.type] : x.value[f] # Null \/ f \in x.unreadable}

\* Mutant of FieldStatus: no rating counts as certain.
FieldStatusTrusting(doc, f) ==
  LET x == doc.extracted IN
  CASE doc.confirmations[f] # Null -> "confirmed"
    [] doc.confirmations[f] = Null /\ f \in x.unreadable -> "unreadable"
    [] doc.confirmations[f] = Null /\ f \notin x.unreadable /\ x.value[f] = Null
         -> "absent"
    [] OTHER -> IF x.rating[f] = Unrated THEN "high" ELSE x.rating[f]

\* Mutant of FieldStatus: a missing value is tested before unreadable.
FieldStatusAbsentFirst(doc, f) ==
  LET x == doc.extracted IN
  CASE doc.confirmations[f] # Null -> "confirmed"
    [] doc.confirmations[f] = Null /\ x.value[f] = Null -> "absent"
    [] doc.confirmations[f] = Null /\ x.value[f] # Null /\ f \in x.unreadable
         -> "unreadable"
    [] OTHER -> IF x.rating[f] = Unrated THEN "low" ELSE x.rating[f]

\* How the review screen shows a field.  A content the model did not rate is
\* treated as low so that it does not slip into the batch.
FieldStatus(doc, f) ==
  LET x == doc.extracted IN
  CASE doc.confirmations[f] # Null -> "confirmed"
    [] doc.confirmations[f] = Null /\ f \in x.unreadable -> "unreadable"
    [] doc.confirmations[f] = Null /\ f \notin x.unreadable /\ x.value[f] = Null
         -> "absent"
    [] OTHER -> IF x.rating[f] = Unrated THEN "low" ELSE x.rating[f]

\* The body of a confirm request (parseBody): at least one field, each with a
\* value, null included.
Posts == UNION {[S -> Value \cup {Null}] : S \in (SUBSET Field) \ {{}}}

\* applyConfirmations throws, and the transaction rolls back, as soon as one
\* of the fields is not the document's or its value does not fit.
Accepts(doc, post) ==
  \A f \in DOMAIN post : f \in FieldsFor[doc.type] /\ post[f] \in Valid[f]

\* Mutant of Merge: the post replaces what was confirmed before it.
MergeReplaces(confirmations, post) ==
  [f \in Field |-> IF f \in DOMAIN post THEN post[f] ELSE Null]

\* Earlier sign-offs stay; a field confirmed again takes the new value.
Merge(confirmations, post) ==
  [f \in Field |-> IF f \in DOMAIN post THEN post[f] ELSE confirmations[f]]

\* Mutant of IsComplete: unreadable fields are not waited for.
IsCompleteAsRead(x, confirmations) ==
  \A f \in FieldsFor[x.type] : x.value[f] # Null => confirmations[f] # Null

IsComplete(x, confirmations) ==
  \A f \in RequiredFields(x) : confirmations[f] # Null

ConfirmedOf(doc, confirmations) ==
  IF IsComplete(doc.extracted, confirmations)
    THEN [type   |-> doc.type,
          fields |-> [f \in Field |-> IF f \in FieldsFor[doc.type]
                                        THEN confirmations[f] ELSE Null]]
    ELSE Null

\* Mutant of ApplyConfirmations: whether the document is complete is judged by
\* what was posted last.
ApplyConfirmationsPosted(doc, post) ==
  [doc EXCEPT !.confirmations = Merge(@, post),
              !.confirmed     = ConfirmedOf(doc, MergeReplaces(doc.confirmations, post))]

ApplyConfirmations(doc, post) ==
  LET confirmations == Merge(doc.confirmations, post) IN
  [doc EXCEPT !.confirmations = confirmations,
              !.confirmed     = ConfirmedOf(doc, confirmations)]

\* A request names a field of the document, or none.
AcceptsRequest(doc, r) == r.field = Null \/ r.field \in FieldsFor[doc.type]

AppendRequest(doc, r) == [doc EXCEPT !.requests = Append(@, r)]
=============================================================================
