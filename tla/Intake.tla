-------------------------------- MODULE Intake --------------------------------
(***************************************************************************)
(* The intake of one case: how photos become uploads and documents, and    *)
(* what reviewers do to them, as the web tier runs it                      *)
(* (web/app/lib/intake.ts, web/app/lib/store.ts, web/app/api/documents,    *)
(* web/app/api/uploads).                                                   *)
(*                                                                         *)
(* Each request runs in a handler.  Between two awaits a handler holds     *)
(* what it has read and the others run; each statement or transaction on   *)
(* Postgres is one step.  Uploads and documents are never deleted, so an   *)
(* id is a position in the order of creation, and NoId is SQL's NULL.      *)
(***************************************************************************)
EXTENDS DocumentReview, FiniteSetsExt

INSTANCE Sorting WITH ClassifiedType <- DocType \cup {"other"}

CONSTANTS
  Handler,      \* requests the web tier serves at the same time
  MaxFiles,     \* the most files of one batch
  Batches,      \* what the extractor may say of the files of one batch
  MaxUploads,   \* bound on the uploads of the case
  MaxDocuments, \* bound on the documents of the case
  MaxRequests,  \* bound on the requests recorded on one document
  Faults        \* TRUE when handlers may die and the database may refuse

VARIABLES
  uploads, \* rows of the uploads table
  docs,    \* rows of the documents table
  handler  \* handler[h]: where h is and what it holds

vars == <<uploads, docs, handler>>

NoId == 0

\* Why an upload is held: for no reason, for one of the sorter's, because the
\* extraction of its batch failed, or because a reviewer dismissed it.
Reasons == {NoReason, Unknown, Unsure, "failed", "reviewer"}

ASSUME IntakeAssumption ==
  /\ MaxFiles \in Nat
  /\ \A cs \in Batches : cs \in Seq(Classification) /\ Len(cs) \in 1 .. MaxFiles
  /\ Other \notin DocType /\ Null \notin DocType
  /\ Null \notin Extractions
  /\ MaxUploads \in Nat /\ MaxDocuments \in Nat /\ MaxRequests \in Nat
  /\ Faults \in BOOLEAN

UploadRow ==
  [type : DocType \cup {Other}, status : {"held", "extracted", "dismissed"},
   reason : Reasons, document : Nat]

DocumentRow == [review : Review, upload : Nat, superseded : Nat]

Ops    == {"idle", "batch", "one page", "pages", "extract", "retype", "dismiss"}
Points == {"idle", "next group", "extract", "keep pages", "create", "link",
           "supersede", "relink", "hold", "dismiss"}

HandlerState ==
  [op : Ops, at : Points, upload : Nat, type : DocType \cup {Null},
   x : Extractions \cup {Null}, old : Nat, new : Nat, rest : Seq(PageGroup)]

Idle ==
  [op |-> "idle", at |-> "idle", upload |-> NoId, type |-> Null, x |-> Null,
   old |-> NoId, new |-> NoId, rest |-> <<>>]

TypeOK ==
  /\ uploads \in Seq(UploadRow)
  /\ docs \in Seq(DocumentRow)
  /\ handler \in [Handler -> HandlerState]

Init == uploads = <<>> /\ docs = <<>> /\ handler = [h \in Handler |-> Idle]

-----------------------------------------------------------------------------
(* The statements of the store.                                            *)

\* Mutant of NewUpload: the missing link is not the NULL the rest tests for.
NewUploadUnset(t, reason) ==
  [type |-> t, status |-> "held", reason |-> reason, document |-> Null]

\* createUpload: always "held"; the caller says why.
NewUpload(t, reason) ==
  [type |-> t, status |-> "held", reason |-> reason, document |-> NoId]

\* createDocument: the pages are upload u's, or the document's own image.
NewDocument(x, u) == [review |-> NewReview(x), upload |-> u, superseded |-> NoId]

\* Mutants of LinkDocument: the document, or the status, is not written.
LinkDocumentUnnamed(up, d, op) ==
  [up EXCEPT !.status = "extracted", !.reason = IF op = "pages" THEN @ ELSE NoReason]

LinkDocumentHeld(up, d, op) ==
  [up EXCEPT !.document = d, !.reason = IF op = "pages" THEN @ ELSE NoReason]

\* updateUpload and updateDocument write the row they locked; the columns the
\* mutator does not name keep what the row holds at that moment.
LinkDocument(up, d, op) ==
  [up EXCEPT !.status = "extracted", !.document = d,
             !.reason = IF op = "pages" THEN @ ELSE NoReason]

MarkDismissed(up) == [up EXCEPT !.status = "dismissed", !.reason = "reviewer"]

\* Mutants of MarkFailed: the link is cleared too, or the write is forgotten.
MarkFailedUnlinks(up) == [up EXCEPT !.reason = "failed", !.document = NoId]

MarkFailedSilently(up) == up

MarkFailed(up) == [up EXCEPT !.reason = "failed"]

-----------------------------------------------------------------------------
(* Handlers.                                                               *)

Becomes(h, s) == handler' = [handler EXCEPT ![h] = s]

\* A bound on the model, kept where requests begin so that a request under way
\* always has room to finish: n rows more, besides those already under way.
Claims(h) ==
  Len(handler[h].rest)
    + IF handler[h].at \in {"extract", "keep pages", "create"} THEN 1 ELSE 0

Room(n) ==
  LET claimed == MapThenSumSet(Claims, Handler) IN
  /\ Len(uploads) + claimed + n <= MaxUploads
  /\ Len(docs) + claimed + n <= MaxDocuments

\* The next group of the batch, or the response.
Done(h) ==
  IF handler[h].rest = <<>> THEN Idle
  ELSE [Idle EXCEPT !.op = "batch", !.at = "next group", !.rest = handler[h].rest]

\* POST /api/documents/batch, once the files are rendered, classified and
\* grouped; nothing is stored before that.
StartBatch(h) ==
  /\ handler[h].at = "idle"
  /\ \E cs \in Batches :
       /\ Room(Len(GroupPages(cs)))
       /\ Becomes(h, [Idle EXCEPT !.op = "batch", !.at = "next group",
                                  !.rest = GroupPages(cs)])
  /\ UNCHANGED <<uploads, docs>>

\* The loop of intakeBatch: the group's pages are stored, held, before any
\* extraction; only a confident group goes on to the extractor.
NextGroup(h) ==
  /\ handler[h].at = "next group"
  /\ LET g == Head(handler[h].rest)
         after == [handler[h] EXCEPT !.rest = Tail(@)] IN
       /\ uploads' = Append(uploads, NewUpload(g.type, g.held_reason))
       /\ \/ /\ g.status = "extract" /\ g.type # Other
             /\ Becomes(h, [after EXCEPT !.at = "extract", !.upload = Len(uploads) + 1,
                                         !.type = g.type])
          \/ /\ g.status # "extract" \/ g.type = Other
             /\ Becomes(h, IF after.rest = <<>> THEN Idle ELSE after)
  /\ UNCHANGED docs

\* POST /api/documents: one page, kept as the document's own image, or several.
StartManual(h) ==
  /\ handler[h].at = "idle"
  /\ Room(1)
  /\ \E t \in DocType, op \in {"one page", "pages"} :
       Becomes(h, [Idle EXCEPT !.op = op, !.at = "extract", !.type = t])
  /\ UNCHANGED <<uploads, docs>>

\* POST /api/uploads/[id]/extract: refused only for an extracted upload.
StartExtract(h) ==
  /\ handler[h].at = "idle"
  /\ Room(1)
  /\ \E u \in DOMAIN uploads, t \in DocType :
       /\ uploads[u].status # "extracted"
       /\ Becomes(h, [Idle EXCEPT !.op = "extract", !.at = "extract",
                                  !.upload = u, !.type = t])
  /\ UNCHANGED <<uploads, docs>>

\* Mutant of StartRetype: the type is not compared.
StartRetypeSameType(h) ==
  /\ handler[h].at = "idle"
  /\ Room(1)
  /\ \E d \in DOMAIN docs, t \in DocType :
       /\ docs[d].superseded = NoId
       /\ Becomes(h, [Idle EXCEPT !.op = "retype", !.at = "extract", !.type = t,
                                  !.upload = docs[d].upload, !.old = d])
  /\ UNCHANGED <<uploads, docs>>

\* POST /api/documents/[id]/retype: refused for a superseded document or the
\* type it already has.
StartRetype(h) ==
  /\ handler[h].at = "idle"
  /\ Room(1)
  /\ \E d \in DOMAIN docs, t \in DocType :
       /\ docs[d].superseded = NoId
       /\ docs[d].review.type # t
       /\ Becomes(h, [Idle EXCEPT !.op = "retype", !.at = "extract", !.type = t,
                                  !.upload = docs[d].upload, !.old = d])
  /\ UNCHANGED <<uploads, docs>>

\* POST /api/uploads/[id]/dismiss: refused only for an extracted upload.
StartDismiss(h) ==
  /\ handler[h].at = "idle"
  /\ \E u \in DOMAIN uploads :
       /\ uploads[u].status # "extracted"
       /\ Becomes(h, [Idle EXCEPT !.op = "dismiss", !.at = "dismiss", !.upload = u])
  /\ UNCHANGED <<uploads, docs>>

\* The extractor answers with a document of the type it was asked for.
Extracted(h) ==
  /\ handler[h].at = "extract"
  /\ \E x \in Extractions :
       /\ x.type = handler[h].type
       /\ Becomes(h, [handler[h] EXCEPT
            !.x = x, !.at = IF handler[h].op = "pages" THEN "keep pages" ELSE "create"])
  /\ UNCHANGED <<uploads, docs>>

\* It fails, is over budget or answers something else: the batch keeps the
\* group and says why, any other request ends with an error.
ExtractionFails(h) ==
  /\ handler[h].at = "extract"
  /\ Becomes(h, IF handler[h].op = "batch" THEN [handler[h] EXCEPT !.at = "hold"]
                                           ELSE Idle)
  /\ UNCHANGED <<uploads, docs>>

\* Several pages sent by hand are kept on an upload, held for no reason until
\* the document is linked.
KeepPages(h) ==
  /\ handler[h].at = "keep pages"
  /\ uploads' = Append(uploads, NewUpload(handler[h].type, NoReason))
  /\ Becomes(h, [handler[h] EXCEPT !.at = "create", !.upload = Len(uploads) + 1])
  /\ UNCHANGED docs

CreateDocument(h) ==
  /\ handler[h].at = "create"
  /\ docs' = Append(docs, NewDocument(handler[h].x, handler[h].upload))
  /\ Becomes(h, CASE handler[h].op = "one page" -> Idle
                  [] handler[h].op = "retype" ->
                       [handler[h] EXCEPT !.at = "supersede", !.new = Len(docs) + 1]
                  [] OTHER -> [handler[h] EXCEPT !.at = "link", !.new = Len(docs) + 1])
  /\ UNCHANGED uploads

LinkUpload(h) ==
  /\ handler[h].at = "link"
  /\ uploads' = [uploads EXCEPT ![handler[h].upload] =
                   LinkDocument(@, handler[h].new, handler[h].op)]
  /\ Becomes(h, Done(h))
  /\ UNCHANGED docs

\* The catch of intakeBatch: only the reason is written.
HoldUpload(h) ==
  /\ handler[h].at = "hold"
  /\ uploads' = [uploads EXCEPT ![handler[h].upload] = MarkFailed(@)]
  /\ Becomes(h, Done(h))
  /\ UNCHANGED docs

\* Mutant of Supersede: every document of the upload, the new one included.
SupersedeAll(h) ==
  /\ handler[h].at = "supersede"
  /\ docs' = [d \in DOMAIN docs |->
                IF docs[d].upload = handler[h].upload
                  THEN [docs[d] EXCEPT !.superseded = handler[h].new] ELSE docs[d]]
  /\ Becomes(h, IF handler[h].upload = NoId THEN Idle
                ELSE [handler[h] EXCEPT !.at = "relink"])
  /\ UNCHANGED uploads

\* Mutant of Supersede: the two documents are swapped.
SupersedeSwapped(h) ==
  /\ handler[h].at = "supersede"
  /\ docs' = [docs EXCEPT ![handler[h].new].superseded = handler[h].old]
  /\ Becomes(h, IF handler[h].upload = NoId THEN Idle
                ELSE [handler[h] EXCEPT !.at = "relink"])
  /\ UNCHANGED uploads

Supersede(h) ==
  /\ handler[h].at = "supersede"
  /\ docs' = [docs EXCEPT ![handler[h].old].superseded = handler[h].new]
  /\ Becomes(h, IF handler[h].upload = NoId THEN Idle
                ELSE [handler[h] EXCEPT !.at = "relink"])
  /\ UNCHANGED uploads

Relink(h) ==
  /\ handler[h].at = "relink"
  /\ uploads' = [uploads EXCEPT ![handler[h].upload].document = handler[h].new]
  /\ Becomes(h, Idle)
  /\ UNCHANGED docs

Dismiss(h) ==
  /\ handler[h].at = "dismiss"
  /\ uploads' = [uploads EXCEPT ![handler[h].upload] = MarkDismissed(@)]
  /\ Becomes(h, Idle)
  /\ UNCHANGED docs

\* The process is restarted or the platform ends the request: what the handler
\* holds is gone, what it stored stays.
Die(h) ==
  /\ Faults
  /\ handler[h].at # "idle"
  /\ Becomes(h, Idle)
  /\ UNCHANGED <<uploads, docs>>

\* Inside the try of intakeBatch a refused statement counts as a failed
\* extraction; anywhere else it ends the request like Die.
StoreRefuses(h) ==
  /\ Faults
  /\ handler[h].op = "batch" /\ handler[h].at \in {"create", "link"}
  /\ Becomes(h, [handler[h] EXCEPT !.at = "hold"])
  /\ UNCHANGED <<uploads, docs>>

-----------------------------------------------------------------------------
(* Requests that are one transaction.  Neither looks at superseded_by.      *)

Confirm(d) ==
  /\ \E post \in Posts :
       /\ Accepts(docs[d].review, post)
       /\ docs' = [docs EXCEPT ![d].review = ApplyConfirmations(@, post)]
  /\ UNCHANGED <<uploads, handler>>

AskStudent(d) ==
  /\ Len(docs[d].review.requests) < MaxRequests
  /\ \E r \in Request :
       /\ AcceptsRequest(docs[d].review, r)
       /\ docs' = [docs EXCEPT ![d].review = AppendRequest(@, r)]
  /\ UNCHANGED <<uploads, handler>>

-----------------------------------------------------------------------------
Begin(h) ==
  StartBatch(h) \/ StartManual(h) \/ StartExtract(h) \/ StartRetype(h) \/ StartDismiss(h)

\* What the web tier does by itself once a request has begun.
Step(h) ==
  \/ NextGroup(h) \/ Extracted(h) \/ ExtractionFails(h) \/ KeepPages(h)
  \/ CreateDocument(h) \/ LinkUpload(h) \/ HoldUpload(h)
  \/ Supersede(h) \/ Relink(h) \/ Dismiss(h)

Fault(h) == Die(h) \/ StoreRefuses(h)

Next ==
  \/ \E h \in Handler : Begin(h) \/ Step(h) \/ Fault(h)
  \/ \E d \in DOMAIN docs : Confirm(d) \/ AskStudent(d)

Spec == Init /\ [][Next]_vars

\* Node runs a pending continuation, and a call that hangs ends in an error.
FairSpec == Spec /\ \A h \in Handler : WF_vars(Step(h))

-----------------------------------------------------------------------------
DocumentsOf(u) == {d \in DOMAIN docs : docs[d].upload = u}
Live(d)        == docs[d].superseded = NoId
Working(u)     == \E h \in Handler : handler[h].upload = u

\* Whatever the interleaving and wherever a handler died, the rows agree on
\* whose pages are whose: the document an upload names was extracted from that
\* upload's pages, an extracted upload names one, and every upload a document
\* names exists (no foreign key says the first two).
LinksAgree ==
  /\ \A u \in DOMAIN uploads :
       /\ uploads[u].document # NoId => uploads[u].document \in DocumentsOf(u)
       /\ uploads[u].status = "extracted" => uploads[u].document # NoId
  /\ \A d \in DOMAIN docs : docs[d].upload \in DOMAIN uploads \cup {NoId}

\* A document is superseded by a later one, of another type and from the same
\* pages, also when several reviewers retype it at once: following
\* superseded_by never goes round in circles and never leaves the pages.
SupersededByLater ==
  \A d \in DOMAIN docs : LET e == docs[d].superseded IN
    e # NoId => /\ e \in DOMAIN docs /\ e > d
                /\ docs[e].upload = docs[d].upload
                /\ docs[e].review.type # docs[d].review.type

\* Retyping never makes pages vanish from the case: an upload that was ever
\* read has a document that is not superseded.
ReadPagesStayVisible ==
  \A u \in DOMAIN uploads :
    DocumentsOf(u) # {} => \E d \in DocumentsOf(u) : Live(d)

\* What a sign-off that is kept rests on: confirmed_json of every document is
\* what its own confirmations complete to.
OnlyCompleteIsConfirmed ==
  \A d \in DOMAIN docs : LET r == docs[d].review IN
    r.confirmed = IF \A f \in Field : r.confirmations[f] = Null THEN Null
                  ELSE ConfirmedOf(r, r.confirmations)

\* History is kept: rows are never dropped, a document's model output, type and
\* pages never change, a sign-off and a supersession are never undone, and an
\* upload never goes back to being held or to naming no document.
KeepsHistory ==
  /\ Len(docs) <= Len(docs') /\ Len(uploads) <= Len(uploads')
  /\ \A d \in DOMAIN docs :
       /\ docs'[d].review.extracted = docs[d].review.extracted
       /\ docs'[d].review.type = docs[d].review.type
       /\ docs'[d].upload = docs[d].upload
       /\ docs[d].review.confirmed # Null => docs'[d].review.confirmed # Null
       /\ docs[d].superseded # NoId => docs'[d].superseded # NoId
  /\ \A u \in DOMAIN uploads :
       /\ uploads[u].status # "held" => uploads'[u].status # "held"
       /\ uploads[u].document # NoId => uploads'[u].document # NoId

HistoryIsKept == [][KeepsHistory]_vars

\* What a handler holds across its awaits is still true of the rows when it
\* uses it, whatever the other handlers did meanwhile: its upload exists, the
\* document it created read that upload's pages, and the document a retype is
\* to supersede reads the same pages as another type.
Sound(s, us, ds) ==
  /\ s.upload \in DOMAIN us \cup {NoId}
  /\ s.at = "next group" => s.op = "batch" /\ s.rest # <<>>
  /\ s.at = "keep pages" => s.op = "pages"
  /\ s.at = "extract" => s.type \in DocType
  /\ s.at \in {"keep pages", "create"} => s.x \in Extractions /\ s.x.type = s.type
  /\ s.at \in {"extract", "create"} /\ s.upload = NoId =>
       \/ s.op \in {"one page", "retype"}
       \/ s.at = "extract" /\ s.op = "pages"
  /\ s.at \in {"hold", "link", "relink", "dismiss"} => s.upload # NoId
  /\ s.at \in {"link", "supersede", "relink"} =>
       s.new \in DOMAIN ds /\ ds[s.new].upload = s.upload
  /\ s.op = "retype" =>
       /\ s.old \in DOMAIN ds
       /\ ds[s.old].upload = s.upload
       /\ ds[s.old].review.type # s.type
  /\ s.at = "supersede" =>
       s.op = "retype" /\ s.old < s.new /\ ds[s.new].review.type = s.type

HandlersSound == \A h \in Handler : Sound(handler[h], uploads, docs)

TypeIsTheModels ==
  \A d \in DOMAIN docs : docs[d].review.type = docs[d].review.extracted.type

\* The invariant that is inductive: with what each handler holds, the links and
\* the supersessions stay right however the awaits interleave.
Inductive ==
  /\ TypeOK /\ TypeIsTheModels /\ LinksAgree /\ SupersededByLater
  /\ OnlyCompleteIsConfirmed /\ HandlersSound

\* When nothing fails half-way, a held upload nobody is working on has no
\* document and says why it is held: a reviewer who sorts it does not read
\* pages a second time.
HeldIsUnreadAndExplained ==
  \A u \in DOMAIN uploads :
    uploads[u].status = "held" /\ ~Working(u) =>
      DocumentsOf(u) = {} /\ uploads[u].reason # NoReason

\* Before anything is uploaded: whatever the extractor will say of the files of a
\* batch, their groups follow the rule (sorting.ts:24).
SortingFollowsTheRule ==
  Init => \A n \in 0 .. MaxFiles : \A cs \in [1 .. n -> Classification] : FollowsTheRule(cs)

\* A request that began ends, and the group it stored is then read, dismissed
\* or says why it is held: the classify page never shows it for ever as held
\* for no reason.
HeldForNoReason(u) ==
  u \in DOMAIN uploads /\ uploads[u].status = "held" /\ uploads[u].reason = NoReason

HeldIsSettled ==
  \A u \in 1 .. MaxUploads : HeldForNoReason(u) ~> ~HeldForNoReason(u)

-----------------------------------------------------------------------------
(* What a message of the code says, and concurrency refutes.                 *)

\* extract/route.ts: "This upload was already extracted; change the type from
\* the review screen instead": extracted pages are not read again by sorting.
ExtractedIsNotSortedAgain ==
  [][ \A h \in Handler :
        handler[h].op \in {"extract", "batch"} /\ Len(docs') > Len(docs)
          /\ handler[h].at = "create" /\ handler'[h].at # "create"
          => uploads[handler[h].upload].status # "extracted" ]_vars

-----------------------------------------------------------------------------
\* The promise to everything downstream, stated without handlers or uploads.
ViewOf(ds) ==
  [d \in DOMAIN ds |->
     [extraction |-> ds[d].review.extracted, source |-> ds[d].upload,
      signedOff |-> ds[d].review.confirmed # Null, replacedBy |-> ds[d].superseded]]

LedgerView == ViewOf(docs)

Ledger == INSTANCE ReviewLedger WITH ledger <- LedgerView

ImplementsLedger == Ledger!Spec
=============================================================================
