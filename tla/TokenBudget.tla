----------------------------- MODULE TokenBudget -----------------------------
(***************************************************************************)
(* The extractor service: its five routes that do work and the daily token *)
(* budget they share (extractor/app/main.py, guards.py, client.py,         *)
(* embeddings.py, images.py).                                              *)
(*                                                                         *)
(* One process serves the requests.  An `async def` route runs on the      *)
(* event loop and gives it up only where it awaits: while it reads an      *)
(* upload or calls the rules engine, never while it waits for the model.   *)
(* /embed is a plain `def` and runs in a thread beside the loop.  The      *)
(* budget is a small JSON file, read without a lock by the test before a   *)
(* call, and read, emptied and written under one when a call is charged.   *)
(***************************************************************************)
EXTENDS Naturals, FiniteSets

CONSTANTS
  Slot,        \* requests served at the same time
  Limit,       \* DAILY_TOKEN_BUDGET
  MaxPages,    \* bound on the pages of a request and the texts of a batch
  MaxCost,     \* bound on the tokens of one call of a provider
  MaxDay,      \* bound on the days
  MaxAsked,    \* bound on the requests
  MaxRestarts, \* bound on the crashes
  Absent,      \* budget.json before the first charge
  Torn,        \* budget.json emptied and not yet written
  Nobody

VARIABLES
  file,     \* budget.json
  day,      \* today
  call,     \* call[c]: the request c serves, or Nobody
  lock,     \* who holds the lock of the budget, or Nobody
  asked,    \* how many requests came
  restarts, \* how often the process died
  charged   \* history: charged[d], the tokens written down for day d

vars == <<file, day, call, lock, asked, restarts, charged>>

ASSUME BudgetAssumption ==
  /\ IsFiniteSet(Slot) /\ Nobody \notin Slot
  /\ Limit \in Nat \ {0} /\ MaxPages \in Nat \ {0} /\ MaxCost \in Nat
  /\ MaxDay \in Nat \ {0} /\ MaxAsked \in Nat /\ MaxRestarts \in Nat

Day  == 1 .. MaxDay

\* Budget: what the file holds.
Count == [date : Day, used : Nat]

\* The routes.  Those on the event loop, and those that spend tokens.
Route   == {"extract", "classify", "embed", "render", "check"}
OnLoop  == Route \ {"embed"}
Metered == {"extract", "classify", "embed"}

\* The most one request is charged: a call for each page or text.
MaxCharge == MaxPages * MaxCost

Stage == {"called", "proxied", "reading", "model", "record", "loaded", "emptied"}

Request == [route : Route, at : Stage, left : 0 .. MaxPages, spent : Nat,
            got : Count \cup {Nobody}]

ASSUME FileAssumption ==
  /\ Absent # Torn /\ Absent \notin Count /\ Torn \notin Count
  /\ Nobody \notin Request /\ Nobody \notin Count

TypeOK ==
  /\ file \in Count \cup {Absent, Torn}
  /\ day \in Day
  /\ call \in [Slot -> Request \cup {Nobody}]
  /\ lock \in Slot \cup {Nobody}
  /\ asked \in 0 .. MaxAsked /\ restarts \in 0 .. MaxRestarts
  /\ charged \in [Day -> Nat]

Init ==
  /\ file = Absent
  /\ day = 1
  /\ call = [c \in Slot |-> Nobody]
  /\ lock = Nobody
  /\ asked = 0 /\ restarts = 0
  /\ charged = [d \in Day |-> 0]

-----------------------------------------------------------------------------
(* The budget.                                                              *)

\* Budget._load, of a file that can be parsed: a count of another day is
\* none at all.
Load(f) ==
  IF f # Absent /\ f.date = day THEN f ELSE [date |-> day, used |-> 0]

\* Mutant of Admits: an unreadable file counts as no count.
AdmitsUnreadable(f) ==
  IF f = Torn THEN TRUE ELSE Load(f).used < Limit

\* Mutant of Admits: the limit is never looked at.
AdmitsAll(f) == f # Torn

\* Mutant of Admits: a day may be used up to the last token and one more request.
AdmitsAtLimit(f) == f # Torn /\ Load(f).used <= Limit

\* Budget.remaining and check: json.loads raises on an emptied file, and the
\* request ends with it.
Admits(f) ==
  f # Torn /\ Load(f).used < Limit

-----------------------------------------------------------------------------
(* The life of a request.                                                   *)

Serves(c, at) == call[c] # Nobody /\ call[c].at = at

\* c runs on the event loop and will not give it up before it has answered.
Holds(c) ==
  call[c] # Nobody /\ call[c].route \in OnLoop
    /\ call[c].at \in {"model", "record", "loaded", "emptied"}

\* A thread of its own, or the event loop when no other request holds it.
MayRun(c) ==
  call[c].route \in OnLoop => \A d \in Slot \ {c} : ~Holds(d)

Move(c, at) ==
  call' = [call EXCEPT ![c].at = at]

\* The request is answered: a result, or one of the errors the handlers make.
End(c) ==
  call' = [call EXCEPT ![c] = Nobody]

Arrive(c, route) ==
  /\ call[c] = Nobody /\ asked < MaxAsked
  /\ asked' = asked + 1
  /\ call' = [call EXCEPT ![c] =
                [route |-> route, at |-> IF route = "render" THEN "reading" ELSE "called",
                 left |-> 0, spent |-> 0, got |-> Nobody]]
  /\ UNCHANGED <<file, day, lock, restarts, charged>>

\* The guards of /extract and /classify: the type is known, the budget is not
\* used up.  The budget is tested now and charged at the end.
Guard(c) ==
  /\ Serves(c, "called") /\ call[c].route \in {"extract", "classify"} /\ MayRun(c)
  /\ (Admits(file) /\ Move(c, "reading")) \/ End(c)
  /\ UNCHANGED <<file, day, lock, asked, restarts, charged>>

\* How many calls of a provider a request makes: one for all pages of a
\* document, one for each page of a batch, one for each text or for all.
Calls(route) ==
  IF route = "extract" THEN {1} ELSE 1 .. MaxPages

\* The guards of /embed: no text is too long either.
GuardEmbed(c) ==
  /\ Serves(c, "called") /\ call[c].route = "embed"
  /\ \/ /\ Admits(file)
        /\ \E n \in Calls("embed") :
             call' = [call EXCEPT ![c].at = "model", ![c].left = n]
     \/ End(c)
  /\ UNCHANGED <<file, day, lock, asked, restarts, charged>>

\* read_pages: other requests run while an upload is read.
ReadPages(c) ==
  /\ Serves(c, "reading") /\ call[c].route # "render" /\ MayRun(c)
  /\ \E n \in Calls(call[c].route) :
       call' = [call EXCEPT ![c].at = "model", ![c].left = n]
  /\ UNCHANGED <<file, day, lock, asked, restarts, charged>>

\* /render ends with the pages: no model, and no budget.
Rendered(c) ==
  /\ Serves(c, "reading") /\ call[c].route = "render" /\ MayRun(c) /\ End(c)
  /\ UNCHANGED <<file, day, lock, asked, restarts, charged>>

\* assert_demo_safe: a document the demo does not accept.
RefuseUpload(c) ==
  /\ Serves(c, "reading") /\ MayRun(c) /\ End(c)
  /\ UNCHANGED <<file, day, lock, asked, restarts, charged>>

\* to_pages of a file that is no PDF and no image, or of a kind the process
\* cannot open.
UnsupportedFile(c) ==
  /\ Serves(c, "reading") /\ MayRun(c) /\ End(c)
  /\ UNCHANGED <<file, day, lock, asked, restarts, charged>>

\* What a call of a provider reports as used; nothing reported is 0.
Billable == 0 .. MaxCost

\* A call of a provider that came back as it should.
Called(c, tokens) ==
  /\ call' = [call EXCEPT ![c].at = IF call[c].left = 1 THEN "record" ELSE "model",
                          ![c].left = @ - 1, ![c].spent = @ + tokens]
  /\ UNCHANGED <<file, day, lock, asked, restarts, charged>>

\* client.extract: the pages of a document, in one call.
ExtractDocument(c) ==
  Serves(c, "model") /\ call[c].route = "extract" /\ \E n \in Billable : Called(c, n)

\* client.classify: a page of a batch.
ClassifyPage(c) ==
  Serves(c, "model") /\ call[c].route = "classify" /\ \E n \in Billable : Called(c, n)

\* embeddings.embed: a text, or a batch of texts.
EmbedTexts(c) ==
  Serves(c, "model") /\ call[c].route = "embed" /\ \E n \in Billable : Called(c, n)

\* A provider without credentials or out of reach.
Unavailable(c) ==
  /\ Serves(c, "model") /\ End(c)
  /\ UNCHANGED <<file, day, lock, asked, restarts, charged>>

\* An answer that is not of the schema, or vectors of another width: the
\* request ends, and what it spent is charged to nobody.
Malformed(c) ==
  /\ Serves(c, "model") /\ End(c)
  /\ UNCHANGED <<file, day, lock, asked, restarts, charged>>

\* Mutant of RecordLoad: the count is read without the lock.
RecordLoadUnlocked(c) ==
  /\ Serves(c, "record") /\ file # Torn
  /\ call' = [call EXCEPT ![c].at = "loaded", ![c].got = Load(file)]
  /\ UNCHANGED <<file, day, lock, asked, restarts, charged>>

\* Budget.record, in its three steps.  Under the lock the file is read ...
RecordLoad(c) ==
  /\ Serves(c, "record") /\ lock = Nobody /\ file # Torn
  /\ lock' = c
  /\ call' = [call EXCEPT ![c].at = "loaded", ![c].got = Load(file)]
  /\ UNCHANGED <<file, day, asked, restarts, charged>>

\* ... which raises when a charge before it was cut short: the lock is freed, and
\* the request ends and is charged to nobody.
RecordUnreadable(c) ==
  /\ Serves(c, "record") /\ lock = Nobody /\ file = Torn
  /\ End(c)
  /\ UNCHANGED <<file, day, lock, asked, restarts, charged>>

\* The file cannot be opened for writing: it stays as it was.
RecordFails(c) ==
  /\ Serves(c, "loaded")
  /\ lock' = Nobody
  /\ End(c)
  /\ UNCHANGED <<file, day, asked, restarts, charged>>

\* ... opened for writing, which empties it ...
Empty(c) ==
  /\ Serves(c, "loaded")
  /\ file' = Torn /\ Move(c, "emptied")
  /\ UNCHANGED <<day, lock, asked, restarts, charged>>

\* Mutant of Write: the lock is kept.
WriteKeepsLock(c) ==
  /\ Serves(c, "emptied")
  /\ file' = [call[c].got EXCEPT !.used = @ + call[c].spent]
  /\ charged' = [charged EXCEPT ![call[c].got.date] = @ + call[c].spent]
  /\ End(c)
  /\ UNCHANGED <<day, lock, asked, restarts>>

\* ... and written; the lock is free and the request answered.
Write(c) ==
  /\ Serves(c, "emptied")
  /\ file' = [call[c].got EXCEPT !.used = @ + call[c].spent]
  /\ charged' = [charged EXCEPT ![call[c].got.date] = @ + call[c].spent]
  /\ lock' = Nobody
  /\ End(c)
  /\ UNCHANGED <<day, asked, restarts>>

\* The write raises, on a full disk say: the lock is freed and the request ends,
\* but the file stays empty or cut short.
WriteFails(c) ==
  /\ Serves(c, "emptied")
  /\ lock' = Nobody
  /\ End(c)
  /\ UNCHANGED <<file, day, asked, restarts, charged>>

\* /check: passed on to the rules engine, without a look at the budget.
Proxy(c) ==
  /\ Serves(c, "called") /\ call[c].route = "check" /\ MayRun(c)
  /\ Move(c, "proxied")
  /\ UNCHANGED <<file, day, lock, asked, restarts, charged>>

\* Its answer, its error, or nothing for ten seconds.
Checked(c) ==
  /\ Serves(c, "proxied") /\ MayRun(c) /\ End(c)
  /\ UNCHANGED <<file, day, lock, asked, restarts, charged>>

-----------------------------------------------------------------------------
NextDay ==
  /\ day < MaxDay /\ day' = day + 1
  /\ UNCHANGED <<file, call, lock, asked, restarts, charged>>

\* The process dies: its requests and its lock with it.  The file stays as it is.
Restart ==
  /\ restarts < MaxRestarts /\ restarts' = restarts + 1
  /\ call' = [c \in Slot |-> Nobody] /\ lock' = Nobody
  /\ UNCHANGED <<file, day, asked, charged>>

Step(c) ==
  \/ Guard(c) \/ GuardEmbed(c) \/ ReadPages(c) \/ Rendered(c)
  \/ RefuseUpload(c) \/ UnsupportedFile(c)
  \/ ExtractDocument(c) \/ ClassifyPage(c) \/ EmbedTexts(c)
  \/ Unavailable(c) \/ Malformed(c)
  \/ RecordLoad(c) \/ RecordUnreadable(c) \/ RecordFails(c)
  \/ Empty(c) \/ Write(c) \/ WriteFails(c) \/ Proxy(c) \/ Checked(c)

Next ==
  \/ \E c \in Slot : Step(c) \/ \E route \in Route : Arrive(c, route)
  \/ NextDay \/ Restart

Spec == Init /\ [][Next]_vars

\* A request is not left alone: the process runs, and a provider or the rules
\* engine answers or runs into its timeout.
FairSpec == Spec /\ \A c \in Slot : WF_vars(Step(c))

-----------------------------------------------------------------------------
(* What the budget promises.                                                *)

\* Requests that were let in and are not charged yet.
Admitted ==
  {c \in Slot : call[c] # Nobody /\ call[c].route \in Metered /\ call[c].at # "called"}

\* "The public demo caps daily spend" (guards.py:52).  A request is tested
\* against a count that the requests before it have not been charged to yet,
\* so the limit is overrun, but by no more than what the requests served at
\* the same time can cost, however many come in a day.
OverdraftBounded ==
  \A d \in Day : charged[d] < Limit + MaxCharge * Cardinality(Slot)

\* "persisted so a restart does not reset the counter" (guards.py:29), and no
\* charge overwrites another: whenever the file can be read it holds all that
\* was ever written down for its day.
NoChargeLost ==
  file \notin {Absent, Torn} => file.used = charged[file.date]

\* A crash or a failed write after the emptying leaves a file that no request
\* can read.  The service then fails closed, with other requests still at work:
\* nothing starts the count again, nothing more is let in or charged, on that
\* day or on any other (guards.py:43, :61).
UnreadableStaysClosed ==
  [][file = Torn /\ lock = Nobody =>
       file' = Torn /\ charged' = charged /\ Admitted' \subseteq Admitted]_vars

\* What whoever pays may know of it.
Meter == INSTANCE DailyMeter
           WITH admitted <- Admitted, broken <- file = Torn /\ lock = Nobody

\* The budget is a daily meter (DailyMeter): although the test reads the file
\* without the lock, beside a charge at any of its steps, nobody is let in but
\* while all that was charged to the day is below the limit (guards.py:46-54);
\* and a charge is one request's, no more than a request can cost, and never to
\* a day before another that has been charged (guards.py:44, :56-61).
ImplementsMeter == Meter!Spec

\* Every request is answered, those for the rules engine while the budget is
\* used up or cannot be read too.
EveryRequestEnds ==
  \A c \in Slot : call[c] # Nobody ~> call[c] = Nobody
=============================================================================
