------------------------- MODULE ReviewScreen_proofs -------------------------
(* What the review of one document promises, for any number of reviewers and *)
(* any number of requests that nobody waits for any more.                    *)
EXTENDS ReviewScreen, DocumentReview_proofs

-----------------------------------------------------------------------------
(* The inductive invariant.                                                 *)

\* The record d agrees with the history h of its confirmations.
Signed(d, h) ==
  /\ d.type = d.extracted.type
  /\ \A f \in Field : h[f] # "none" <=> d.confirmations[f] # Null
  /\ \A f \in Field : h[f] = "batch" =>
       /\ d.extracted.rating[f] = "high" /\ f \notin d.extracted.unreadable
       /\ d.confirmations[f] = d.extracted.value[f]
  /\ \A f \in Field : d.confirmations[f] # Null => d.confirmations[f] \in Valid[f]
  /\ d.confirmed = IF \E f \in Field : d.confirmations[f] # Null
                     THEN ConfirmedOf(d, d.confirmations) ELSE Null

\* The copy s is d as it was earlier.
Behind(s, d) ==
  /\ s.type = d.type /\ s.extracted = d.extracted
  /\ \A f \in Field : s.confirmations[f] # Null => d.confirmations[f] # Null
  /\ s.confirmed # Null => d.confirmed # Null
  /\ Len(s.requests) <= Len(d.requests)

\* A batch on its way to d holds high-confidence values as extracted: they do
\* not change while it is under way, whatever else does.
Fits(msg, d) ==
  msg.kind = "batch" => \A f \in DOMAIN msg.post :
    /\ d.extracted.rating[f] = "high" /\ f \notin d.extracted.unreadable
    /\ msg.post[f] = d.extracted.value[f]

Inv ==
  /\ TypeOK
  /\ Signed(doc, how)
  /\ \A r \in Reviewer : screen[r] # Null => Behind(screen[r], doc)
  /\ \A r \in Reviewer : pending[r] # Null =>
       /\ Fits(pending[r].msg, doc)
       /\ pending[r].state = "written" => pending[r].answer # Null
       /\ pending[r].answer # Null => Behind(pending[r].answer, doc)
  /\ \A msg \in orphans : Fits(msg, doc)

-----------------------------------------------------------------------------
(* One transaction.                                                         *)

LEMMA BehindItself ==
  ASSUME NEW d \in Review
  PROVE  Behind(d, d)
<1>1. Len(d.requests) \in Nat
  BY DEF Review
<1>2. QED
  BY <1>1 DEF Behind

LEMMA BehindTransitive ==
  ASSUME NEW s \in Review, NEW d \in Review, NEW e \in Review, Behind(s, d), Behind(d, e)
  PROVE  Behind(s, e)
<1>1. Len(s.requests) \in Nat /\ Len(d.requests) \in Nat /\ Len(e.requests) \in Nat
  BY DEF Review
<1>2. QED
  BY <1>1 DEF Behind

LEMMA FitsLater ==
  ASSUME NEW msg, NEW d, NEW e, Behind(d, e), Fits(msg, d)
  PROVE  Fits(msg, e)
BY DEF Behind, Fits

\* What a transaction leaves: a record that agrees with its history and
\* continues the one before.
Kept ==
  /\ doc' \in Review /\ how' \in [Field -> Hows]
  /\ Signed(doc', how') /\ Behind(doc, doc')
  /\ SubSeq(doc'.requests, 1, Len(doc.requests)) = doc.requests

LEMMA SameRequests ==
  ASSUME NEW d \in Review
  PROVE  SubSeq(d.requests, 1, Len(d.requests)) = d.requests
<1>1. d.requests \in Seq(Request)
  BY DEF Review
<1>2. QED
  BY <1>1, SubSeqFull

\* An accepted post (the confirm route).
LEMMA PostKeeps ==
  ASSUME doc \in Review, how \in [Field -> Hows], Signed(doc, how),
         NEW kind \in {"batch", "single"}, NEW post \in Posts, Accepts(doc, post),
         Fits([kind |-> kind, post |-> post], doc),
         doc' = ApplyConfirmations(doc, post),
         how' = [f \in Field |-> IF f \in DOMAIN post THEN kind ELSE how[f]]
  PROVE  Kept
<1>1. /\ doc' \in Review
      /\ doc'.type = doc.type /\ doc'.extracted = doc.extracted
      /\ doc'.requests = doc.requests
      /\ \E f \in Field : doc'.confirmations[f] # Null
      /\ \A f \in Field : doc.confirmations[f] # Null => doc'.confirmations[f] # Null
      /\ doc'.confirmed = ConfirmedOf(doc', doc'.confirmations)
      /\ IsComplete(doc.extracted, doc.confirmations) => doc'.confirmed # Null
  BY ApplyFacts
<1>2. doc'.confirmations = Merge(doc.confirmations, post)
  BY DEF ApplyConfirmations, Review
<1>3. \A f \in Field : doc'.confirmations[f] = IF f \in DOMAIN post THEN post[f]
                                                ELSE doc.confirmations[f]
  BY <1>2 DEF Merge
<1>4. \A f \in DOMAIN post : post[f] \in Valid[f] /\ f \in Field /\ post[f] # Null
  <2>1. DOMAIN post \subseteq Field
    BY DEF Posts
  <2>2. \A f \in Field : Null \notin Valid[f]
    BY FieldsAssumption, NullAssumption
  <2>3. QED
    BY <2>1, <2>2 DEF Accepts
<1>5. how' \in [Field -> Hows]
  BY DEF Hows
<1>6. \A f \in Field : how'[f] = IF f \in DOMAIN post THEN kind ELSE how[f]
  OBVIOUS
<1>7. Signed(doc', how')
  <2>1. \A f \in Field : how'[f] # "none" <=> doc'.confirmations[f] # Null
    BY <1>3, <1>4, <1>6 DEF Signed
  <2>2. \A f \in Field : how'[f] = "batch" =>
          /\ doc'.extracted.rating[f] = "high" /\ f \notin doc'.extracted.unreadable
          /\ doc'.confirmations[f] = doc'.extracted.value[f]
    BY <1>1, <1>3, <1>6 DEF Signed, Fits
  <2>3. \A f \in Field : doc'.confirmations[f] # Null => doc'.confirmations[f] \in Valid[f]
    BY <1>3, <1>4 DEF Signed
  <2>4. QED
    BY <1>1, <2>1, <2>2, <2>3 DEF Signed
<1>8. Behind(doc, doc')
  <2>1. doc.confirmed # Null => doc'.confirmed # Null
    <3>1. SUFFICES ASSUME doc.confirmed # Null PROVE IsComplete(doc.extracted, doc.confirmations)
      BY <1>1
    <3>2. QED
      BY <3>1 DEF Signed, ConfirmedOf
  <2>2. Len(doc.requests) \in Nat
    BY DEF Review
  <2>3. QED
    BY <1>1, <2>1, <2>2 DEF Behind
<1>9. QED
  BY <1>1, <1>5, <1>7, <1>8, SameRequests DEF Kept

\* A request to the student (the requests route).
LEMMA AskKeeps ==
  ASSUME doc \in Review, how \in [Field -> Hows], Signed(doc, how), NEW q \in Request,
         doc' = AppendRequest(doc, q), how' = how
  PROVE  Kept
<1>1. /\ doc' \in Review /\ doc'.type = doc.type /\ doc'.extracted = doc.extracted
      /\ doc'.confirmations = doc.confirmations /\ doc'.confirmed = doc.confirmed
  BY AppendRequestFacts
<1>2. doc'.requests = Append(doc.requests, q) /\ doc.requests \in Seq(Request)
  BY DEF AppendRequest, Review
<1>3. Len(doc'.requests) = Len(doc.requests) + 1 /\ Len(doc.requests) \in Nat
      /\ doc'.requests \in Seq(Request)
  BY <1>2, AppendProperties, LenProperties
<1>4. \A i \in 1 .. Len(doc.requests) : doc'.requests[i] = doc.requests[i]
  BY <1>2, AppendProperties
<1>5. SubSeq(doc'.requests, 1, Len(doc.requests)) = doc.requests
  <2> DEFINE n == Len(doc.requests)
             t == SubSeq(doc'.requests, 1, n)
  <2>1. \A i \in 1 .. n : doc'.requests[i] \in Request
    BY <1>3, ElementOfSeq
  <2>2. n \in Int /\ 1 \in Int /\ n >= 0
    BY <1>3
  <2>3. t \in Seq(Request) /\ Len(t) = (IF 1 <= n THEN n - 1 + 1 ELSE 0)
        /\ \A i \in 1 .. n - 1 + 1 : t[i] = doc'.requests[1 + i - 1]
    BY <2>1, <2>2, SubSeqProperties
  <2>4. Len(t) = n
    BY <2>2, <2>3
  <2>5. \A i \in 1 .. Len(t) : t[i] = doc.requests[i]
    <3>1. SUFFICES ASSUME NEW i \in 1 .. n PROVE t[i] = doc.requests[i]
      BY <2>4
    <3>2. i \in 1 .. n - 1 + 1 /\ 1 + i - 1 = i
      BY <2>2
    <3>3. QED
      BY <1>4, <2>3, <3>2
  <2> HIDE DEF t
  <2>6. QED
    BY <1>2, <2>3, <2>4, <2>5, SeqEqual DEF t
<1>6. Signed(doc', how')
  BY <1>1 DEF Signed, ConfirmedOf
<1>7. Behind(doc, doc')
  BY <1>1, <1>3 DEF Behind
<1>8. QED
  BY <1>1, <1>5, <1>6, <1>7 DEF Kept

LEMMA TransactionKeeps ==
  ASSUME doc \in Review, how \in [Field -> Hows], Signed(doc, how),
         NEW msg \in Message, Fits(msg, doc), Transaction(msg)
  PROVE  Kept
<1>1. CASE ~Accepted(msg)
  <2>1. doc' = doc
    BY <1>1 DEF Transaction
  <2>2. how' = how
    BY <1>1 DEF Transaction
  <2>3. QED
    BY <2>1, <2>2, BehindItself, SameRequests DEF Kept
<1>2. CASE Accepted(msg) /\ msg.kind = "ask"
  <2>1. msg.ask \in Request
    BY <1>2 DEF Message
  <2>2. doc' = AppendRequest(doc, msg.ask)
    BY <1>2 DEF Transaction, Written
  <2>3. how' = how
    BY <1>2 DEF Transaction
  <2>4. QED
    BY <2>1, <2>2, <2>3, AskKeeps
<1>3. CASE Accepted(msg) /\ msg.kind # "ask"
  <2>1. msg = [kind |-> msg.kind, post |-> msg.post] /\ msg.kind \in {"batch", "single"}
        /\ msg.post \in Posts
    BY <1>3 DEF Message
  <2>2. Accepts(doc, msg.post)
    BY <1>3 DEF Accepted
  <2>3. doc' = ApplyConfirmations(doc, msg.post)
    BY <1>3 DEF Transaction, Written
  <2>4. how' = [f \in Field |-> IF f \in DOMAIN msg.post THEN msg.kind ELSE how[f]]
    BY <1>3 DEF Transaction
  <2>5. QED
    BY <2>1, <2>2, <2>3, <2>4, PostKeeps
<1>4. QED
  BY <1>1, <1>2, <1>3

-----------------------------------------------------------------------------
(* The steps.                                                               *)

\* After a transaction every copy and every request under way is still sound.
LEMMA OthersKept ==
  ASSUME Inv, Kept
  PROVE  /\ \A s \in Review : Behind(s, doc) => Behind(s, doc')
         /\ \A msg : Fits(msg, doc) => Fits(msg, doc')
         /\ \A r \in Reviewer : screen[r] # Null => Behind(screen[r], doc')
         /\ \A r \in Reviewer : pending[r] # Null =>
              /\ Fits(pending[r].msg, doc')
              /\ pending[r].answer # Null => Behind(pending[r].answer, doc')
         /\ \A msg \in orphans : Fits(msg, doc')
<1>1. doc \in Review /\ doc' \in Review /\ Behind(doc, doc')
  BY DEF Inv, TypeOK, Kept
<1>2. \A s \in Review : Behind(s, doc) => Behind(s, doc')
  BY <1>1, BehindTransitive
<1>3. \A msg : Fits(msg, doc) => Fits(msg, doc')
  BY <1>1, FitsLater
<1>4. \A r \in Reviewer : screen[r] # Null => Behind(screen[r], doc')
  <2>1. \A r \in Reviewer : screen[r] # Null => screen[r] \in Review /\ Behind(screen[r], doc)
    BY DEF Inv, TypeOK
  <2>2. QED
    BY <1>2, <2>1
<1>5. \A r \in Reviewer : pending[r] # Null =>
        /\ Fits(pending[r].msg, doc')
        /\ pending[r].answer # Null => Behind(pending[r].answer, doc')
  <2>1. SUFFICES ASSUME NEW r \in Reviewer, pending[r] # Null
                 PROVE  /\ Fits(pending[r].msg, doc')
                        /\ pending[r].answer # Null => Behind(pending[r].answer, doc')
    OBVIOUS
  <2>2. pending[r] \in Waiting
    BY <2>1 DEF Inv, TypeOK
  <2>3. pending[r].answer # Null => pending[r].answer \in Review
    BY <2>2 DEF Waiting
  <2>4. QED
    BY <1>2, <1>3, <2>1, <2>3 DEF Inv
<1>6. \A msg \in orphans : Fits(msg, doc')
  BY <1>3 DEF Inv
<1>7. QED
  BY <1>2, <1>3, <1>4, <1>5, <1>6

LEMMA OpenKeeps ==
  ASSUME Inv, NEW r \in Reviewer, Open(r)
  PROVE  Inv'
<1>1. UNCHANGED <<doc, pending, orphans, how>> /\ screen' = [screen EXCEPT ![r] = doc]
  BY DEF Open
<1>2. screen \in [Reviewer -> Review \cup {Null}] /\ doc \in Review
  BY DEF Inv, TypeOK
<1>3. \A p \in Reviewer : screen'[p] # Null => Behind(screen'[p], doc)
  BY <1>1, <1>2, BehindItself DEF Inv
<1>4. TypeOK'
  BY <1>1, <1>2 DEF Inv, TypeOK
<1>5. QED
  BY <1>1, <1>3, <1>4 DEF Inv

\* A request put on the wire.
LEMMA SendKeeps ==
  ASSUME Inv, NEW r \in Reviewer, NEW msg \in Message, Fits(msg, doc), Send(r, msg)
  PROVE  Inv'
<1> DEFINE w == [msg |-> msg, state |-> "sent", answer |-> Null]
<1>1. w \in Waiting
  BY DEF Waiting
<1>2. UNCHANGED <<doc, screen, orphans, how>> /\ pending' = [pending EXCEPT ![r] = w]
  BY DEF Send
<1>3. pending \in [Reviewer -> Waiting \cup {Null}]
  BY DEF Inv, TypeOK
<1>4. w.msg = msg /\ w.state = "sent" /\ w.answer = Null
  OBVIOUS
<1> HIDE DEF w
<1>5. \A p \in Reviewer : pending'[p] = IF p = r THEN w ELSE pending[p]
  BY <1>2, <1>3
<1>6. TypeOK'
  BY <1>1, <1>2, <1>3 DEF Inv, TypeOK
<1>7. \A p \in Reviewer : pending'[p] # Null =>
        /\ Fits(pending'[p].msg, doc)
        /\ pending'[p].state = "written" => pending'[p].answer # Null
        /\ pending'[p].answer # Null => Behind(pending'[p].answer, doc)
  BY <1>4, <1>5 DEF Inv
<1>8. QED
  BY <1>2, <1>6, <1>7 DEF Inv

LEMMA ConfirmBatchKeeps ==
  ASSUME Inv, NEW r \in Reviewer, ConfirmBatch(r)
  PROVE  Inv'
<1>1. PICK S \in (SUBSET Shown(r, {"high"})) \ {{}} :
        Send(r, [kind |-> "batch", post |-> [f \in S |-> screen[r].extracted.value[f]]])
  BY DEF ConfirmBatch
<1> DEFINE post == [f \in S |-> screen[r].extracted.value[f]]
           msg == [kind |-> "batch", post |-> post]
<1>2. screen[r] \in Review /\ Behind(screen[r], doc)
  BY DEF ConfirmBatch, Idle, Inv, TypeOK
<1>3. screen[r].extracted \in Extraction /\ screen[r].type \in DocType
      /\ screen[r].extracted = doc.extracted
  BY <1>2, ExtractionsAssumption DEF Review, Behind
<1>4. S \subseteq Field /\ S # {}
  BY <1>3, FieldsAssumption DEF Shown
<1>5. post \in Posts
  <2>1. post \in [S -> Value \cup {Null}]
    BY <1>3, <1>4 DEF Extraction
  <2>2. QED
    BY <1>4, <2>1 DEF Posts
<1>6. msg \in Message
  BY <1>5 DEF Message
<1>7. \A f \in S : screen[r].extracted.rating[f] = "high"
                   /\ f \notin screen[r].extracted.unreadable
  <2>1. SUFFICES ASSUME NEW f \in S
                 PROVE  screen[r].extracted.rating[f] = "high"
                        /\ f \notin screen[r].extracted.unreadable
    OBVIOUS
  <2>2. FieldStatus(screen[r], f) = "high"
    BY DEF Shown
  <2>3. QED
    BY <2>2 DEF FieldStatus, Unrated
<1>8. Fits(msg, doc)
  BY <1>3, <1>7 DEF Fits
<1> HIDE DEF msg
<1>9. QED
  BY <1>1, <1>6, <1>8, SendKeeps DEF msg

LEMMA ConfirmOneKeeps ==
  ASSUME Inv, NEW r \in Reviewer, ConfirmOne(r)
  PROVE  Inv'
<1>1. PICK f \in Shown(r, Confidence \cup {"unreadable", "confirmed"}), v \in Value :
        Send(r, [kind |-> "single", post |-> [g \in {f} |-> v]])
  BY DEF ConfirmOne
<1> DEFINE post == [g \in {f} |-> v]
           msg == [kind |-> "single", post |-> post]
<1>2. screen[r] \in Review
  BY DEF ConfirmOne, Idle, Inv, TypeOK
<1>3. f \in Field
  BY <1>2, FieldsAssumption DEF Shown, Review
<1>4. post \in Posts
  <2>1. post \in [{f} -> Value \cup {Null}] /\ {f} \in (SUBSET Field) \ {{}}
    BY <1>3
  <2>2. QED
    BY <2>1 DEF Posts
<1>5. msg \in Message /\ Fits(msg, doc)
  BY <1>4 DEF Message, Fits
<1> HIDE DEF msg
<1>6. QED
  BY <1>1, <1>5, SendKeeps DEF msg

LEMMA AskingKeeps ==
  ASSUME Inv, NEW r \in Reviewer, Ask(r)
  PROVE  Inv'
<1>1. PICK f \in Shown(r, {"low", "unreadable"}), k \in Kinds :
        Send(r, [kind |-> "ask", ask |-> [kind |-> k, field |-> f]])
  BY DEF Ask
<1> DEFINE msg == [kind |-> "ask", ask |-> [kind |-> k, field |-> f]]
<1>2. screen[r] \in Review
  BY DEF Ask, Idle, Inv, TypeOK
<1>3. f \in Field
  BY <1>2, FieldsAssumption DEF Shown, Review
<1>4. msg \in Message /\ Fits(msg, doc)
  BY <1>3 DEF Message, Request, Fits
<1> HIDE DEF msg
<1>5. QED
  BY <1>1, <1>4, SendKeeps DEF msg

LEMMA CommitKeeps ==
  ASSUME Inv, NEW r \in Reviewer, Commit(r)
  PROVE  Inv' /\ Kept
<1> DEFINE old == pending[r]
           w == IF Accepted(old.msg)
                  THEN [old EXCEPT !.state = "written", !.answer = doc']
                  ELSE [old EXCEPT !.state = "refused"]
<1>1. old # Null /\ old \in Waiting /\ old.state = "sent" /\ Transaction(old.msg)
      /\ UNCHANGED <<screen, orphans>>
  BY DEF Commit, Inv, TypeOK
<1>2. old.msg \in Message /\ Fits(old.msg, doc)
      /\ (old.answer # Null => Behind(old.answer, doc) /\ old.answer \in Review)
  BY <1>1 DEF Inv, Waiting
<1>3. Kept
  BY <1>1, <1>2, TransactionKeeps DEF Inv, TypeOK
<1>4. pending' = [pending EXCEPT ![r] = w] /\ pending \in [Reviewer -> Waiting \cup {Null}]
  BY DEF Commit, Inv, TypeOK
<1>5. w \in Waiting /\ w.msg = old.msg
      /\ (w.state = "written" => w.answer = doc')
      /\ (w.answer = doc' \/ w.answer = old.answer)
  BY <1>1, <1>3 DEF Waiting, Kept
<1>6. doc' \in Review /\ Null # doc'
  BY <1>3, RecordAssumption DEF Kept
<1> HIDE DEF w, old
<1>7. \A p \in Reviewer : pending'[p] = IF p = r THEN w ELSE pending[p]
  BY <1>4
<1>8. TypeOK'
  BY <1>1, <1>3, <1>4, <1>5 DEF Inv, TypeOK, Kept
<1>9. Fits(w.msg, doc') /\ (w.state = "written" => w.answer # Null)
      /\ (w.answer # Null => Behind(w.answer, doc'))
  BY <1>2, <1>3, <1>5, <1>6, OthersKept, BehindItself
<1>10. \A p \in Reviewer : pending'[p] # Null =>
        /\ Fits(pending'[p].msg, doc')
        /\ pending'[p].state = "written" => pending'[p].answer # Null
        /\ pending'[p].answer # Null => Behind(pending'[p].answer, doc')
  BY <1>3, <1>7, <1>9, OthersKept DEF Inv
<1>11. QED
  BY <1>1, <1>3, <1>8, <1>10, OthersKept DEF Inv, Kept

LEMMA CommitOrphanKeeps ==
  ASSUME Inv, NEW msg \in orphans, CommitOrphan(msg)
  PROVE  Inv' /\ Kept
<1>1. msg \in Message /\ Fits(msg, doc) /\ Transaction(msg)
      /\ orphans' = orphans \ {msg} /\ UNCHANGED <<screen, pending>>
  BY DEF CommitOrphan, Inv, TypeOK
<1>2. Kept
  BY <1>1, TransactionKeeps DEF Inv, TypeOK
<1>3. TypeOK'
  BY <1>1, <1>2 DEF Inv, TypeOK, Kept
<1>4. QED
  BY <1>1, <1>2, <1>3, OthersKept DEF Inv, Kept

LEMMA AnswerKeeps ==
  ASSUME Inv, NEW r \in Reviewer, Answer(r) \/ AnswerUnread(r)
  PROVE  Inv'
<1>1. pending[r] # Null /\ pending[r].state # "sent" /\ pending[r] \in Waiting
      /\ UNCHANGED <<doc, orphans, how>> /\ pending' = [pending EXCEPT ![r] = Null]
  BY DEF Answer, AnswerUnread, Inv, TypeOK
<1>2. \/ screen' = screen
      \/ screen' = [screen EXCEPT ![r] = Null]
      \/ /\ screen' = [screen EXCEPT ![r] = pending[r].answer]
         /\ pending[r].answer \in Review /\ Behind(pending[r].answer, doc)
  BY <1>1 DEF Answer, AnswerUnread, Inv, Waiting
<1>3. screen \in [Reviewer -> Review \cup {Null}] /\ pending \in [Reviewer -> Waiting \cup {Null}]
  BY DEF Inv, TypeOK
<1>4. TypeOK'
  BY <1>1, <1>2, <1>3 DEF Inv, TypeOK
<1>5. \A p \in Reviewer : screen'[p] # Null => Behind(screen'[p], doc)
  BY <1>2, <1>3 DEF Inv
<1>6. \A p \in Reviewer : pending'[p] # Null => pending'[p] = pending[p]
  BY <1>1, <1>3
<1>7. QED
  BY <1>1, <1>4, <1>5, <1>6 DEF Inv

LEMMA GiveUpKeeps ==
  ASSUME Inv, NEW r \in Reviewer, GiveUp(r)
  PROVE  Inv'
<1>1. pending[r] # Null /\ pending[r] \in Waiting
      /\ UNCHANGED <<doc, screen, how>> /\ pending' = [pending EXCEPT ![r] = Null]
      /\ orphans' \subseteq orphans \cup {pending[r].msg}
  BY DEF GiveUp, Inv, TypeOK
<1>2. pending[r].msg \in Message /\ Fits(pending[r].msg, doc)
  BY <1>1 DEF Inv, Waiting
<1>3. pending \in [Reviewer -> Waiting \cup {Null}]
  BY DEF Inv, TypeOK
<1>4. TypeOK'
  BY <1>1, <1>2, <1>3 DEF Inv, TypeOK
<1>5. \A msg \in orphans' : Fits(msg, doc)
  BY <1>1, <1>2 DEF Inv
<1>6. \A p \in Reviewer : pending'[p] # Null => pending'[p] = pending[p]
  BY <1>1, <1>3
<1>7. QED
  BY <1>1, <1>4, <1>5, <1>6 DEF Inv

-----------------------------------------------------------------------------
(* The theorems.                                                            *)

LEMMA InitInv == Init => Inv
<1> SUFFICES ASSUME Init PROVE Inv
  OBVIOUS
<1>1. PICK x \in Extractions : doc = NewReview(x)
  BY DEF Init
<1>2. doc \in Review /\ doc.type = x.type /\ doc.extracted = x
      /\ \A f \in Field : doc.confirmations[f] = Null
  BY <1>1, NewReviewFacts
<1>3. doc.confirmed = Null
  BY <1>1 DEF NewReview
<1>4. TypeOK
  BY <1>2 DEF Init, TypeOK, Hows
<1>5. Signed(doc, how)
  BY <1>2, <1>3 DEF Init, Signed
<1>6. QED
  BY <1>4, <1>5 DEF Init, Inv

LEMMA NextInv == Inv /\ [Next]_vars => Inv'
<1> SUFFICES ASSUME Inv, [Next]_vars PROVE Inv'
  OBVIOUS
<1>1. CASE UNCHANGED vars
  BY <1>1 DEF Inv, TypeOK, vars
<1>2. CASE Next
  BY <1>2, OpenKeeps, ConfirmBatchKeeps, ConfirmOneKeeps, AskingKeeps, CommitKeeps,
     CommitOrphanKeeps, AnswerKeeps, GiveUpKeeps DEF Next
<1>3. QED
  BY <1>1, <1>2

LEMMA SpecInv == Spec => []Inv
BY InitInv, NextInv, PTL DEF Spec

\* The records, copies and requests under way keep their types.
THEOREM TypeCorrect == Spec => []TypeOK
<1>1. Inv => TypeOK
  BY DEF Inv
<1>2. QED
  BY <1>1, SpecInv, PTL

\* No number of reviewers undoes a sign-off (updateDocument's row lock and the
\* merge in applyConfirmations).
THEOREM SignOffsKept == Spec => []NoSignOffLost
<1>1. Inv => NoSignOffLost
  BY DEF Inv, Signed, NoSignOffLost
<1>2. QED
  BY <1>1, SpecInv, PTL

\* The batch action only ever signs off high-confidence values as extracted
\* (confirmBatch, from however stale a copy).
THEOREM BatchesAreHigh == Spec => []BatchIsHighAsExtracted
<1>1. Inv => BatchIsHighAsExtracted
  BY DEF Inv, Signed, BatchIsHighAsExtracted
<1>2. QED
  BY <1>1, SpecInv, PTL

\* A document counts as confirmed exactly when people have signed off every
\* required field (applyConfirmations).
THEOREM ConfirmedWhenSigned == Spec => []ConfirmedIffSignedOff
<1>1. ASSUME Inv PROVE ConfirmedIffSignedOff
  <2> DEFINE signed == {f \in Field : how[f] # "none"}
  <2>1. doc \in Review /\ Signed(doc, how)
    BY <1>1 DEF Inv, TypeOK
  <2>2. doc.extracted \in Extraction /\ doc.extracted.type = doc.type
        /\ doc.confirmations \in [Field -> Value \cup {Null}]
    BY <2>1, ExtractionsAssumption DEF Review, Signed
  <2>3. RequiredFields(doc.extracted) \subseteq Field
        /\ RequiredFields(doc.extracted) \subseteq FieldsFor[doc.type]
    BY <2>2, FieldsAssumption DEF RequiredFields, Extraction
  <2>4. signed = {f \in Field : doc.confirmations[f] # Null}
    BY <2>1 DEF Signed
  <2>5. ConfirmedOf(doc, doc.confirmations) # Null <=> IsComplete(doc.extracted, doc.confirmations)
    BY <2>1, <2>2, ConfirmedOfFacts
  <2>6. IsComplete(doc.extracted, doc.confirmations) <=> RequiredFields(doc.extracted) \subseteq signed
    BY <2>3, <2>4 DEF IsComplete
  <2>7. doc.confirmed # Null <=> signed # {} /\ RequiredFields(doc.extracted) \subseteq signed
    BY <2>1, <2>4, <2>5, <2>6 DEF Signed
  <2>8. ASSUME doc.confirmed # Null, NEW f \in RequiredFields(doc.extracted)
        PROVE  doc.confirmed.fields[f] = doc.confirmations[f]
               /\ doc.confirmed.fields[f] \in Valid[f]
    <3>1. doc.confirmed = ConfirmedOf(doc, doc.confirmations) /\ f \in Field
          /\ f \in FieldsFor[doc.type]
      BY <2>1, <2>3, <2>8 DEF Signed
    <3>2. doc.confirmed.fields[f] = doc.confirmations[f]
      BY <2>8, <3>1 DEF ConfirmedOf
    <3>3. doc.confirmations[f] # Null
      BY <2>4, <2>7, <2>8
    <3>4. QED
      BY <2>1, <3>1, <3>2, <3>3 DEF Signed
  <2>9. QED
    BY <2>7, <2>8 DEF ConfirmedIffSignedOff
<1>2. QED
  BY <1>1, SpecInv, PTL

\* No screen shows more than is stored, whatever answers were lost or late.
THEOREM ScreensFollow == Spec => []ScreenNeverAhead
<1>1. Inv => ScreenNeverAhead
  BY DEF Inv, Behind, ScreenNeverAhead
<1>2. QED
  BY <1>1, SpecInv, PTL

\* Every required field that is not confirmed has a control that confirms it
\* (fieldViews and the cards of the review screen).
THEOREM AlwaysAWayOn == Spec => []NoDeadEnd
<1>1. ASSUME Inv PROVE NoDeadEnd
  <2>1. SUFFICES ASSUME NEW f \in RequiredFields(doc.extracted), doc.confirmations[f] = Null
                 PROVE  FieldStatus(doc, f) \in Confidence \cup {"unreadable"}
    BY DEF NoDeadEnd
  <2>2. doc.extracted \in Extraction
    BY <1>1, ExtractionsAssumption DEF Inv, TypeOK, Review
  <2>3. f \in Field /\ (doc.extracted.value[f] # Null \/ f \in doc.extracted.unreadable)
    BY <2>2, FieldsAssumption DEF RequiredFields, Extraction
  <2>4. doc.extracted.rating[f] \in Confidence \cup {Unrated}
    BY <2>2, <2>3 DEF Extraction
  <2>5. CASE f \in doc.extracted.unreadable
    BY <2>1, <2>5 DEF FieldStatus
  <2>6. CASE f \notin doc.extracted.unreadable
    BY <2>1, <2>3, <2>4, <2>6 DEF FieldStatus, Confidence, Unrated
  <2>7. QED
    BY <2>5, <2>6
<1>2. QED
  BY <1>1, SpecInv, PTL

\* Review only moves forward: every step leaves a record that continues the
\* one before (updateDocument).
THEOREM MovesForward == Spec => ReviewMovesForward
<1> DEFINE Forward ==
      /\ doc'.extracted = doc.extracted
      /\ \A f \in Field : doc.confirmations[f] # Null => doc'.confirmations[f] # Null
      /\ doc.confirmed # Null => doc'.confirmed # Null
      /\ SubSeq(doc'.requests, 1, Len(doc.requests)) = doc.requests
<1>1. ASSUME Inv, Next PROVE Forward
  <2>1. ASSUME NEW r \in Reviewer, Commit(r) PROVE Forward
    BY <1>1, <2>1, CommitKeeps DEF Kept, Behind
  <2>2. ASSUME NEW msg \in orphans, CommitOrphan(msg) PROVE Forward
    BY <1>1, <2>2, CommitOrphanKeeps DEF Kept, Behind
  <2>3. ASSUME doc' = doc PROVE Forward
    BY <1>1, <2>3, SameRequests DEF Inv, TypeOK
  <2>4. ASSUME NEW r \in Reviewer,
               \/ Open(r) \/ ConfirmBatch(r) \/ ConfirmOne(r) \/ Ask(r)
               \/ Answer(r) \/ AnswerUnread(r) \/ GiveUp(r)
        PROVE  doc' = doc
    BY <2>4 DEF Open, ConfirmBatch, ConfirmOne, Ask, Send, Answer, AnswerUnread, GiveUp
  <2> HIDE DEF Forward
  <2>5. QED
    BY <1>1, <2>1, <2>2, <2>3, <2>4 DEF Next
<1>2. Inv /\ [Next]_vars => [Forward]_vars
  BY <1>1
<1>3. QED
  BY <1>2, SpecInv, PTL DEF Spec, ReviewMovesForward
=============================================================================
