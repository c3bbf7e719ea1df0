----------------------------- MODULE ReviewScreen -----------------------------
(***************************************************************************)
(* Reviewers confirming one document, each from a browser screen holding a *)
(* copy of the record that may be stale                                    *)
(* (web/app/cases/[id]/review/[docId]/review-screen.tsx), against the      *)
(* confirm and requests routes, whose effect is one row-locked transaction *)
(* (updateDocument in web/app/lib/store.ts).                               *)
(*                                                                         *)
(* A screen sends one request at a time and waits (`busy`).  The answer is *)
(* the record as the transaction left it.  A lost connection frees the     *)
(* screen without an answer; the request may still reach the store later.  *)
(***************************************************************************)
EXTENDS DocumentReview, FiniteSets

CONSTANTS
  Reviewer,    \* people with the document open
  MaxRequests, \* bound on the requests recorded on the document
  MaxOrphans   \* bound on the requests under way that nobody waits for

VARIABLES
  doc,      \* the stored record
  screen,   \* screen[r]: the copy r's browser shows, Null before it is opened
  pending,  \* pending[r]: the request r's browser waits on, or Null
  orphans,  \* requests still under way whose browser gave up waiting
  how       \* history: how[f] is the kind of post that last wrote field f

vars == <<doc, screen, pending, orphans, how>>

ASSUME ReviewerAssumption == Null \notin Reviewer /\ MaxRequests \in Nat /\ MaxOrphans \in Nat

Hows == {"none", "batch", "single"}

\* A request on the wire.
Message ==
  [kind : {"batch", "single"}, post : Posts] \cup [kind : {"ask"}, ask : Request]

\* What a waiting browser may see: nothing yet, a refusal, or the new record.
Waiting == [msg : Message, state : {"sent", "refused", "written"},
            answer : Review \cup {Null}]

ASSUME RecordAssumption == Null \notin Review /\ Null \notin Waiting

TypeOK ==
  /\ doc \in Review
  /\ screen \in [Reviewer -> Review \cup {Null}]
  /\ pending \in [Reviewer -> Waiting \cup {Null}]
  /\ orphans \subseteq Message
  /\ how \in [Field -> Hows]

Init ==
  /\ \E x \in Extractions : doc = NewReview(x)
  /\ screen = [r \in Reviewer |-> Null]
  /\ pending = [r \in Reviewer |-> Null]
  /\ orphans = {}
  /\ how = [f \in Field |-> "none"]

-----------------------------------------------------------------------------
\* The page is rendered on the server from the stored record.
Open(r) ==
  /\ pending[r] = Null
  /\ screen' = [screen EXCEPT ![r] = doc]
  /\ UNCHANGED <<doc, pending, orphans, how>>

Idle(r) == screen[r] # Null /\ pending[r] = Null

Send(r, msg) ==
  /\ pending' = [pending EXCEPT ![r] = [msg |-> msg, state |-> "sent", answer |-> Null]]
  /\ UNCHANGED <<doc, screen, orphans, how>>

Shown(r, statuses) ==
  {f \in FieldsFor[screen[r].type] : FieldStatus(screen[r], f) \in statuses}

\* The high-confidence fields the reviewer is not editing, as extracted.
ConfirmBatch(r) ==
  /\ Idle(r)
  /\ \E S \in (SUBSET Shown(r, {"high"})) \ {{}} :
       Send(r, [kind |-> "batch",
                post |-> [f \in S |-> screen[r].extracted.value[f]]])

\* One field: as extracted from its own card, or a typed value, which the
\* editor checks before it is sent.
ConfirmOne(r) ==
  /\ Idle(r)
  /\ \E f \in Shown(r, Confidence \cup {"unreadable", "confirmed"}) :
     \E v \in Value :
       /\ \/ v \in Valid[f]
          \/ f \in Shown(r, {"low", "medium"}) /\ v = screen[r].extracted.value[f]
       /\ Send(r, [kind |-> "single", post |-> [g \in {f} |-> v]])

\* Ask the student for a clearer photo or a reissued document.
Ask(r) ==
  /\ Idle(r)
  /\ \E f \in Shown(r, {"low", "unreadable"}), k \in Kinds :
       Send(r, [kind |-> "ask", ask |-> [kind |-> k, field |-> f]])

\* The transaction of the confirm or the requests route: read the row under
\* its lock, apply, write; a refusal rolls it back.
Accepted(msg) ==
  IF msg.kind = "ask" THEN AcceptsRequest(doc, msg.ask) ELSE Accepts(doc, msg.post)

Written(msg) ==
  IF msg.kind = "ask" THEN AppendRequest(doc, msg.ask)
                      ELSE ApplyConfirmations(doc, msg.post)

\* At most MaxRequests asks are recorded: a bound on the model.
WithinBound(msg) == msg.kind = "ask" => Len(doc.requests) < MaxRequests

Transaction(msg) ==
  /\ WithinBound(msg)
  /\ doc' = IF Accepted(msg) THEN Written(msg) ELSE doc
  /\ how' = [f \in Field |->
               IF msg.kind # "ask" /\ Accepted(msg) /\ f \in DOMAIN msg.post
                 THEN msg.kind ELSE how[f]]

\* Mutant of Commit: the route answers without waiting for the transaction.
CommitUnawaited(r) ==
  /\ pending[r] # Null
  /\ pending[r].state = "sent"
  /\ pending[r].msg.kind # "ask"
  /\ Accepted(pending[r].msg)
  /\ pending' = [pending EXCEPT ![r].state = "written", ![r].answer = Written(pending[r].msg)]
  /\ UNCHANGED <<doc, how, screen, orphans>>

Commit(r) ==
  /\ pending[r] # Null
  /\ pending[r].state = "sent"
  /\ LET msg == pending[r].msg IN
       /\ Transaction(msg)
       /\ pending' = [pending EXCEPT ![r] =
                        IF Accepted(msg)
                          THEN [@ EXCEPT !.state = "written", !.answer = doc']
                          ELSE [@ EXCEPT !.state = "refused"]]
  /\ UNCHANGED <<screen, orphans>>

CommitOrphan(msg) ==
  /\ msg \in orphans
  /\ Transaction(msg)
  /\ orphans' = orphans \ {msg}
  /\ UNCHANGED <<screen, pending>>

\* The answer arrives: the screen shows the record it carries.
Answer(r) ==
  /\ pending[r] # Null
  /\ pending[r].state # "sent"
  /\ screen' = IF pending[r].state = "refused" THEN screen
               ELSE [screen EXCEPT ![r] = pending[r].answer]
  /\ pending' = [pending EXCEPT ![r] = Null]
  /\ UNCHANGED <<doc, orphans, how>>

\* An answer whose body cannot be parsed: the screen is left without a record
\* until the page is opened again (setDoc).
AnswerUnread(r) ==
  /\ pending[r] # Null
  /\ pending[r].state = "written"
  /\ screen' = [screen EXCEPT ![r] = Null]
  /\ pending' = [pending EXCEPT ![r] = Null]
  /\ UNCHANGED <<doc, orphans, how>>

\* "Could not reach the server": the request or its answer is lost.
GiveUp(r) ==
  /\ pending[r] # Null
  /\ pending[r].state = "sent" => Cardinality(orphans) < MaxOrphans
  /\ orphans' = IF pending[r].state = "sent" THEN orphans \cup {pending[r].msg}
                                             ELSE orphans
  /\ pending' = [pending EXCEPT ![r] = Null]
  /\ UNCHANGED <<doc, screen, how>>

Next ==
  \/ \E r \in Reviewer :
       \/ Open(r) \/ ConfirmBatch(r) \/ ConfirmOne(r) \/ Ask(r)
       \/ Commit(r) \/ Answer(r) \/ AnswerUnread(r) \/ GiveUp(r)
  \/ \E msg \in orphans : CommitOrphan(msg)

Spec == Init /\ [][Next]_vars

-----------------------------------------------------------------------------
\* confirmed_json is there exactly when a person has signed off every required
\* field, in whatever order and by however many people, and it carries those
\* values (applyConfirmations): "a half-reviewed document can never be mistaken
\* for a reviewed one downstream".  A document nobody confirmed anything on has
\* none, even when nothing on it is required.
ConfirmedIffSignedOff ==
  LET signed == {f \in Field : how[f] # "none"} IN
  /\ doc.confirmed # Null <=> signed # {} /\ RequiredFields(doc.extracted) \subseteq signed
  /\ doc.confirmed # Null =>
       \A f \in RequiredFields(doc.extracted) :
         doc.confirmed.fields[f] = doc.confirmations[f] /\ doc.confirmed.fields[f] \in Valid[f]

\* Reviewers working at once never undo each other's sign-offs: a field some
\* committed post named stays confirmed (the row lock and the merge into the
\* stored confirmations, not into the sender's copy).
NoSignOffLost ==
  \A f \in Field : how[f] # "none" <=> doc.confirmations[f] # Null

\* The one batch action holds high-confidence values exactly as extracted: a
\* field last written by a batch was rated high, was readable, and has the
\* extracted value.  Low, medium, unrated and unreadable fields are confirmed
\* one at a time whatever stale copy the batch was sent from.
BatchIsHighAsExtracted ==
  \A f \in Field : how[f] = "batch" =>
    /\ doc.extracted.rating[f] = "high"
    /\ f \notin doc.extracted.unreadable
    /\ doc.confirmations[f] = doc.extracted.value[f]

\* A screen is never ahead of the store: what it shows as confirmed is
\* confirmed there, however answers were lost or delayed.
ScreenNeverAhead ==
  \A r \in Reviewer : screen[r] # Null =>
    /\ \A f \in Field : screen[r].confirmations[f] # Null => doc.confirmations[f] # Null
    /\ screen[r].confirmed # Null => doc.confirmed # Null
    /\ Len(screen[r].requests) <= Len(doc.requests)

\* No dead end: a required field that is not confirmed yet is shown with a
\* control that confirms it (never as "Not on this document").
NoDeadEnd ==
  \A f \in RequiredFields(doc.extracted) :
    doc.confirmations[f] = Null =>
      FieldStatus(doc, f) \in Confidence \cup {"unreadable"}

\* Review only goes forward: the model output is never edited, a sign-off may
\* change its value but is never withdrawn, a confirmed document never goes
\* back to unconfirmed, and requests are never dropped or reordered.
ReviewMovesForward ==
  [][ /\ doc'.extracted = doc.extracted
      /\ \A f \in Field : doc.confirmations[f] # Null => doc'.confirmations[f] # Null
      /\ doc.confirmed # Null => doc'.confirmed # Null
      /\ SubSeq(doc'.requests, 1, Len(doc.requests)) = doc.requests ]_vars
=============================================================================
