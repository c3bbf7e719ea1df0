# A verification of the sales tool

The repository is a tool for an agency that places students at universities.
Counsellors photograph a student's papers; a language model sorts and reads
them; people sign off what it read; rules say whether the case can proceed; an
agent gathers documents, takes in enquiries and sends things only after a
person approves. The model's output is never to be mistaken for what a person
confirmed, nothing a student sent is to get lost, and nothing is to reach the
student that no person approved. Those promises are
kept by bookkeeping that several requests, several people and unreliable calls
touch at once, and that bookkeeping is what this project models, checks with
TLC and proves with TLAPS.

## 1. Inventory

`PROJECT.json` lists every component with its sources and status, and every
hazard with its line. In short:

| Component | State | Operations | Hard about it | What makes it correct |
|---|---|---|---|---|
| Document review record (`web/app/types.ts`, `lib/review.ts`, confirm and requests routes) | one `documents` row: model output, confirmations, requests, `confirmed_json` | `applyConfirmations`, appending a request, `fieldStatus`, `requiredFields` | order of partial sign-offs, values their kind refuses, fields the model did not rate | `confirmed_json` exists exactly when people signed off everything required |
| Review screen (`review-screen.tsx`) | a copy of the record per browser, one request in flight | batch confirm, confirm one, ask the student | stale copies, lost and late answers | no sign-off lost, the batch only ever takes high-confidence values as read |
| Page sorting (`lib/sorting.ts`) | none | `groupPages` | continuation pages with nothing to continue | every page once, in order, grouped by the rule |
| Document intake (`lib/intake.ts`, `lib/store.ts`, upload and document routes) | `uploads` and `documents` rows | batch, manual upload, extract, retype, dismiss | a minute-long extractor call between a check and the write that relies on it; handlers that die between statements | rows agree on whose pages are whose, no pages vanish, history is kept |
| Extractor client (`lib/extractor.ts`) | none | one HTTP call | failure | answers with a document of the asked type or fails |
| Case metadata (`lib/cases.ts`, case routes) | `cases` row | `upsertCaseMeta`, acknowledgements | a lock on a row that may not exist, a column read before the lock | a save keeps what other saves wrote |
| Case status (`lib/case-status.ts`, `lib/checks.ts`) | none; reads the rows | `summarize`, `loadCaseSummary` | three reads that are three snapshots | a case called ready is signed off |
| Case profiles (`lib/similar.ts`, `lib/profile.ts`) | `case_profiles` row | `refreshCaseProfile` after a response | refreshes in any order, lost refreshes | the profile catches up with the case |
| Rules service (`rules/*.go`) | none | five checks, `can_proceed` | numeric edges, folding of names | a verdict only from confirmed values |
| Agent (`agent/agent/graph.py`, `risk.py`, `tools.py`, `api.py`, `__main__.py`) | a checkpoint per thread, in memory | `/ask`, seven graph nodes, `/resume`; or one run on the command line | a resume that overlaps another, a failure after the decision, a restart with cards still open, whatever the model answers | nothing outward without approval of this very call; every request ends |
| Reads of a question (`graph.py` `gather_case`) | what the node holds between calls | up to six tools, each with reads of its own | rows and index change between the calls | one case throughout, cited as in force |
| Assistant screen (`web/app/assistant`, `web/app/api/assistant`) | cards, one request in flight | ask, approve, discard | answers that never come | a card says what happened |
| Agent services (`services.py`, `pg.py`) | case stores, policy and programme stores | tools' handlers, the rules payload | two implementations of each store | they agree, and agree with the web tier |
| Policy and programme index (`seed.py`) | two tables with vectors | a seed run per deployment | runs without embedding, failing runs, a new release | never half a release |
| Token budget and extractor service (`extractor/app`) | `budget.json`, a lock | `/extract`, `/classify`, `/embed`, `/render`, `/check` | tested before, charged after; a file emptied before it is written; one event loop | bounded overspend, no charge lost, fails closed, every request ends |
| Blobs, dashboards and forms, guardrail and prompts, corpus and evals, design system, deployment | | | | not modelled: see section 7 |

The components meet in the rows. A browser calls a route; the route may call
the extractor and then writes `uploads` and `documents` through `store.ts`
(Postgres: one statement, or one `SELECT ... FOR UPDATE` transaction, at a
time) or `cases` through `cases.ts`, and may leave a refresh of the profile to
run after its response; the queue and the case page read those rows and call the
rules service; the agent reads the same rows and the index, calls the same rules
service, and the assistant screen reaches it over HTTP or as a child process.

## 2. Modules

| Module | Models | Composes |
|---|---|---|
| `Shared` | constants that several modules declare | |
| `DocumentReview` | the record and the pure functions on it | |
| `ReviewScreen` | reviewers with stale copies against the row-locked transaction | extends `DocumentReview` |
| `Sorting` | `groupPages`, and the joining rule stated on its input | |
| `Intake` | every route that writes uploads or documents | extends `DocumentReview`, an instance of `Sorting` with the document types |
| `ReviewLedger` | abstract: what the document store promises its readers | implemented by `Intake` |
| `Proposals` | what the agent asks of a student by itself, from a rules result | |
| `Agent` | the graph run by run, `/ask` and `/resume`, the assistant screen and its route | extends `Proposals` |
| `ApprovalGate` | abstract: what the agent promises the person at the screen | implemented by `Agent` as a service |
| `Rules` | the five checks and `can_proceed` | extends `Proposals` |
| `Tools` | the registry, `execute`, the fit of a programme | |
| `KnowledgeIndex` | seed runs, both searches, ranking | |
| `CaseStore` | the rows as the web tier writes and the agent's two stores read them, and the rules payload of either | extends `Rules` |
| `CaseReads` | `gather_case`, call by call | extends `CaseStore`, `KnowledgeIndex`, `Tools` |
| `CaseRecord` | saves of a case row, refreshes of its profile, a page's summary | extends `CaseStore` |
| `TokenBudget` | the extractor's routes and the budget they share | |
| `DailyMeter` | abstract: what the budget promises whoever pays | implemented by `TokenBudget` |
| `MCReviewScreen`, `MCIntake`, `MCAgent`, `MCCaseReads`, `MCCaseRecord`, `MCTokenBudget` | small instances | |
| `DocumentReview_proofs`, `ReviewScreen_proofs`, `Intake_proofs`, `Agent_proofs`, `CaseStore_proofs`, `CaseReads_proofs`, `CaseRecord_proofs`, `TokenBudget_proofs` | lemmas and theorems | each extends its module; those of `CaseReads` and `CaseRecord` share `CaseStore_proofs` |

### How state and actions correspond to the code

**DocumentReview.** A document's content is `extracted` (a value or `Null` per
field, a rating for some, a set of unreadable fields), `confirmations` (a total
function, `Null` for a field not confirmed: `validateValue` refuses null for
every kind, so the two are the same), `requests` and `confirmed`. `Valid[f]` is
the set of contents `validateValue` accepts for the kind of `f`; what those
formats look like is left out. `Accepts` and `ApplyConfirmations` are the two
outcomes of `applyConfirmations`.

**ReviewScreen.** `screen[r]` is the React state, `pending[r]` is `busy` with
the request it stands for, `Commit` is `updateDocument`'s transaction, `Answer`
is `setDoc` with the response's body, `AnswerUnread` with a body that cannot be
parsed (the screen is left without a record), `GiveUp` is the catch around `fetch`; a
request whose browser gave up stays in `orphans` and may still be written, in
any order. `how` is a history variable: which kind of post last wrote a field.

**Intake.** `uploads` and `docs` are the tables of one case. Rows are never
deleted, so an id is the position in the order of creation; `NoId` is NULL.
`handler[h]` is what a request holds across its awaits: which operation, where
it stands, the upload, the asked type, the extractor's answer, the document to
supersede, the document it created and the rest of the batch. Each statement
or transaction is one action (`NextGroup` and `KeepPages` are `createUpload`,
`CreateDocument` is `createDocument`, `LinkUpload`, `HoldUpload`, `Relink` and
`Dismiss` are `updateUpload`, `Supersede` is `updateDocument`), so other
handlers run between any two of them; the guards a route tests before the
extractor call are in the `Start...` actions and are not tested again, as in
the code. `Die` is a process that ends or a statement that fails outside a
`try`; `StoreRefuses` is one that fails inside the `try` of `intakeBatch`.
A batch is what the extractor says of its files, and `StartBatch` stores what
`GroupPages` makes of that. `Confirm` and `AskStudent` are the transactions `ReviewScreen` looks at from
the browser's side.

**Agent.** `thread[t]` is the checkpoint LangGraph's `InMemorySaver` holds: the
state and the node that comes next. `run[r]` is one request in the agent
process: where it stands, and the state it carries from node to node. Each node
is one action that computes the whole update (`Gather`, `Investigate`,
`Propose` are the nodes as functions of the state) and writes the checkpoint
(`Advance`); the one node that acts on the world before its checkpoint is
written is `human_interrupt`, and two runs of one thread may both be in it.
`Interrupt` is `interrupt()`: the request answers "pending" and the checkpoint
stays before the node. `CheckResume` and `Load` are the two statements of
`/resume`, so another request may run in between. `Fail` is a call that raises
(the rules service, a store, the model), `Restart` the end of the process.
`State` keeps of `AgentState` what the properties tell apart: texts, messages
and trajectories are out, a document is the best standing of its type (absent,
uploaded, confirmed), a rules result is one outcome per rule, a model's turn a
sequence of calls by their effect. `card`, `waits` and `Receive` are
`assistant-thread.tsx`, `GiveUp` the route's 110-second timeout. With `Cli` the
route starts a child process per question, so a thread is used by one request
and an approval is a new question (`ApproveCli`). `sent` and `approved` are
history variables: what `execute` ran under an approval, and what a person was
looking at when they clicked.

**Rules, CaseStore.** A case's documents are rows in the order of creation:
type, the case, what was signed off (`confirmed`, `Null` before), the later row
that replaced it. `CaseStore` changes them the way `Intake` shows the routes do:
a document is added, a complete one is signed off, and a retype is the two
statements `Retype` and `Supersede`, with anything in between. `LatestConfirmed`
and `BuildCase` are the web tier's, `PgRecord`, `FileRecord` and
`BuildRulesPayload` the agent's; `Evaluate` is the rules service. A date is a day
number and a period so many days, a name is a model value and `Fold` says which
names `Normalise` and `FoldRomanisation` make equal, so every comparison, every
missing value and the boundary day of each check are there, and the spelling of
names and the calendar are not.

**KnowledgeIndex.** `Editions` are the JSON files of successive releases. A seed
run is one transaction: it works on its own copy of the rows, table by table,
and commits or fails. A vector is named by the text it was made of, so a vector
of another text can be told apart. `Similar` and `Words` are the cosine and the
keyword hits of a query: inputs.

**CaseReads.** `gather` is what the node holds. A tool of `gather_case` reads a
case in two statements, first the row and then the documents: `LoadCases` is
the first, `AtLoaded(tool)` guards the second, and any write or seed run may
come in between. `OneCaseThroughout` and `ProceedIsSignedOff` are about what that
leaves in the state, which is what `Agent` takes as found.

**CaseRecord.** Each statement on Postgres is a step and the last of a
transaction includes its commit. `SelectRow` locks a row that exists and nothing
otherwise, so `Locked` looks at transactions that selected a row; an
acknowledgement reads its column before that (`ReadAcknowledged`). A refresh
runs after the response that asked for it: `due` counts those not begun,
`ReadParts` and `ReadCountry` come back in either order, and `Compare`, `Embed`
and `WriteProfile` are its other steps. A page reads documents, uploads and row
in any order and then asks the rules service, which may not answer (`Show`). The
history variables `raced` and `missed` name exactly the saves and refreshes
nothing in the code protects; `want` is the row all saves add up to.

**TokenBudget.** `call[c]` is one request. An `async def` route holds the event
loop from the moment it has its pages to its answer (`Holds`); `/embed` is a plain
`def` and runs in a thread beside it. The test of the budget reads the file
without the lock; `RecordLoad`, `Empty` and `Write` are the three file operations
of a charge under it, and a `Restart` may come between any two. Each may raise
instead: `RecordUnreadable` (a charge before it was cut short), `RecordFails` (the
file cannot be opened, and stays) and `WriteFails` (it stays emptied); the lock is
freed, the request ends uncharged, and the others go on. A provider's
call ends in a result with any number of tokens, in an error, or in an answer
that cannot be used, which was paid for and is charged to nobody (`Malformed`).

Every definition that stands for code has its file and lines in `PROJECT.json`
under `map`. Operators that begin with "Mutant of" in their comment are
plausible bugs, each of which breaks a property; they are no part of any
specification.

## 3. Runs

| Run | Expect | Checks | Shows |
|---|---|---|---|
| `ReviewScreens` (`MCReviewScreen`, `ReviewScreens.cfg`) | pass | `ConfirmedIffSignedOff`, `BatchIsHighAsExtracted`, `NoDeadEnd`, `NoSignOffLost`, `ScreenNeverAhead`, `ReviewMovesForward` | Two reviewers with stale copies of one document, whose requests are given up on, late and reordered: what is confirmed is what they signed off, no sign-off is lost, a screen never shows more than is stored, and every required field can be signed off. |
| `IntakeInterleaved` (`MCIntake`, `IntakeInterleaved.cfg`) | pass | `TypeOK`, `LinksAgree`, `SupersededByLater`, `ReadPagesStayVisible`, `HistoryIsKept`, `ImplementsLedger` | Two requests at once, each of which may die or meet a refused statement anywhere: rows agree, history is kept, and readers see the append-only ledger. |
| `IntakeNoFaults` (`MCIntake`, `IntakeNoFaults.cfg`) | pass | `HeldIsUnreadAndExplained`, `SortingFollowsTheRule`, `HeldIsSettled` | Two requests at once without faults: the groups of up to four files are those the rule says, held uploads were not read and say why, and no group stays held for no reason. |
| `IntakeSortedTwice` (`MCIntake`, `IntakeSortedTwice.cfg`) | violation | `ExtractedIsNotSortedAgain` | Two extractions of one upload both pass the status check and both create a document. |
| `AgentServed` (`MCAgent`, `AgentServed.cfg`) | pass | `OnlyApprovedIsSent`, `InjectedDraftNeverPut`, `OnlyBlocksAskForAwaited`, `SentOnceIfAnswered`, `ImplementsGate`, `EveryRequestEnds` | Two requests on one thread, with lost answers, failing calls and restarts: the agent is an approval gate (ApprovalGate), only what a person approved is sent, no draft written beside an injection is shown, an upload in review is asked for only when a check blocks, an approved call runs once unless an answer was lost, and every request ends. |
| `AgentCommandLine` (`MCAgent`, `AgentCommandLine.cfg`) | pass | `NothingSentUnasked` | The agent as a child process without a terminal: a question nobody approved sends nothing. |
| `AgentReads` (`MCCaseReads`, `AgentReads.cfg`) | pass | `TypeOK`, `ProceedIsSignedOff`, `CitedInForce`, `OneCaseThroughout`, `WebAndAgentAgree`, `IndexIsWhole`, `SearchesAgree` | One question about a case, read call by call while the web tier writes and seed runs fill the index or fail: a case let through was signed off, citations are in force, the case is not lost, both tiers give the rules the same case as far as the order of file names allows, the index is never half a release, and the database searches like the files. |
| `TokenBudget` (`MCTokenBudget`, `TokenBudget.cfg`) | pass | `OverdraftBounded`, `NoChargeLost`, `UnreadableStaysClosed`, `ImplementsMeter`, `EveryRequestEnds` | Two requests at a time of any route, charges that fail, a day that ends and a process that dies anywhere: the budget is a daily meter (DailyMeter), overrun by a bounded amount, no charge is lost, a torn file lets nothing more in, and every request is answered. |
| `CaseRecord` (`MCCaseRecord`, `CaseRecord.cfg`) | pass | `TypeOK`, `SavesAreKept`, `ReadyIsBacked`, `VectorIsOfItsText`, `ProfileIsCurrent` | Two saves, two refreshes of the profile and a page at once, beside confirmations, retypes and uploads: saves keep each other's columns, a case is shown as ready only on signed-off documents the rules were asked about, and a profile that met no other refresh is that of what is signed off. |
| `AgentSentTwice` (`MCAgent`, `AgentSentTwice.cfg`) | violation | `SentOnce` | The answer to an approval is lost, the person approves again, both requests pass the check and both execute the call. |
| `AgentCardWrong` (`MCAgent`, `AgentCardWrong.cfg`) | violation | `CardTellsWhatWasDone` | A rejection is recorded, the final model call fails, the card stays open; approving it then finishes the run and the card says approved although nothing was sent. |
| `AgentApprovedOther` (`MCAgent`, `AgentApprovedOther.cfg`) | violation | `OnlyApprovedIsSent` | On the command line an approval asks the question again and approves whatever that run proposes. |


### Bounds

ReviewScreens: one document of two fields, one with two values to type and one
with one, seven extractions that between them give each field every status, and
two reviewers: enough for every pairwise race on a single row. One of their
requests may be given up on and be written late, in any order with what its
sender does next. 1.8 million states.

The two runs of `Intake`: two handlers at once, two uploads, three documents.
`Room` keeps the rows of requests under way reserved, so a request that has begun
is never blocked by a bound: the bound only limits which requests begin. Three
documents let one upload be read, retyped and retyped again, or be read and
retyped beside a second upload. One field and one valid content suffice for a
document to be confirmed or not; partial sign-offs are `ReviewScreen`'s.
`SortingFollowsTheRule` is evaluated in the initial states of `IntakeNoFaults`
over every batch of up to `MaxFiles`, four, files: the rule looks at a page's
class, its rating and whether a group is open, and four pages show a group, what
ends it and what follows. `GroupsAlwaysFollow` proves it for any number.

The runs of `Agent`: one thread and two requests that overlap on it, with every
kind of case and turn, or, on the command line, two threads with the few that
tell two proposals apart; a thread is started once, so two requests on one
thread are a question and a decision, or two decisions. One lost answer lets a
decision overlap the one given up on. That one conversation does not touch
another is proved, for any number of them. `MaxIterations` is 1 or 2 (the default
is 6): the loop only compares the count with its bound, and 2 shows a turn
before the last and the last. The six cases are no such case, one that passes, an
English test that expired with the policy found and not, a name that differs on
the English test while the transcript waits for review, and the same with names
that agree.

AgentReads: one question beside one write and one seed run, or two seed runs, so
every read meets a change before and after it; 228,878 states. `AskedFilters` and
`AskedDays` bound what `SearchesAgree` compares after each seed run: the filters of
a programme question, and a day on each side of the one a version ends on. Two cases, one of
them known by an ending the other may come to share; three policies, two of them
versions of each other; two programmes and a limit of one. With two writes the
same properties hold over 1.1 million states, which takes too long to be kept as
a run.

CaseRecord: one case, two saves, two refreshes and a page at a time, and two
writes or saves in all beside them, from a case that is complete but for a second
English test to review and from a passport and a transcript without a row;
573,072 states. Two saves are enough for each race of two; the third write that a
retype needs is its second statement, which is not counted. Arriving types and
confirmable warnings are the ones that matter to those two cases; with all of them
the properties hold over 1.4 million states. The theorems are for any number of
all of these.

TokenBudget: two requests at a time out of four, a limit of two tokens that one
request reaches and two overrun, at most two calls of two tokens each, one
midnight, one crash; 228,004 states.

`CHECK_DEADLOCK FALSE` is in every configuration whose system stops when its
bounds are used up and every handler is idle.

### Fairness

Three properties are liveness. `HeldIsSettled` assumes weak fairness of
`Step(h)` for each handler. A handler is a continuation Node runs once its
promise settles, and each promise does: a query or a request to the extractor
ends with an answer or, when it hangs, an error by timeout. Nothing makes a
person act, so `Begin`, `Confirm` and `AskStudent` have no fairness.

The agent's `EveryRequestEnds` assumes weak fairness of `AgentStep(r)` and of the
answer's delivery (`Receive` or `Drop`) for each request: a thread of the server
runs its request to the end, every call in a node returns or raises, and a
response is delivered or thrown away. Clicks, failures and restarts have no
fairness.

The extractor's `EveryRequestEnds` assumes weak fairness of `Step(c)` for each
request: the process runs, and a provider or the rules engine answers or runs
into its timeout. Requests, midnight and crashes have none. Weak fairness is
enough although the loop and the lock are shared: a request that waits for
either is not enabled, and whoever has it gives it up for good by answering;
requests are bounded in number, so one is not overtaken for ever.

### Disagreements found

Four runs end in a counterexample. Each refutes something a comment, a message
or a test of the code says:

* `IntakeSortedTwice`: two extractions of one upload both pass the status test
  and create a document each.
* `AgentSentTwice`: the answer to an approval is lost, the person approves
  again, and both requests find the interrupt pending: the call runs twice.
* `AgentCardWrong`: the decision is checkpointed before the last model call; if
  that fails, the card is still open, and a second, different decision only
  finishes the run and then labels the card. `/resume` goes on with a thread
  that waits for nobody.
* `AgentApprovedOther`: on the command line an approval runs the question again
  and approves whatever comes out.

What still holds in all these cases is worth as much: as a service the agent
never executes a call nobody approved, links agree, chains of
`superseded_by` stay acyclic and on the same pages, no pages vanish, and a
reader sees an append-only ledger.

### Also noticed

These are behaviours the models contain, or that were met while reading. Nothing
in the repository promises otherwise, so no run refutes anything; a property
that would be false because of one says so, by excepting exactly that case.

Documents and cases:

* A dismissal tested before a running extraction linked its document leaves
  pages dismissed and read; a second retype of one document replaces the first
  one's `superseded_by`; a link statement that fails inside `intakeBatch`'s
  `try` is stored as a failed extraction of pages that were read.
* Two acknowledgements of one case at once: one is lost, or one just taken back
  returns (`acknowledge/route.ts:22`). Two first saves of a case at once: the
  second starts from defaults (`cases.ts:76`). When that puts back the country the
  first one chose, nothing asks for the profile to be rebuilt, since the patch of
  the second names no country (`api/cases/route.ts:68`).
* An acknowledgement outlives the documents it was given for
  (`case-status.ts:139`).
* A page may show a case as ready that never was, since it reads documents,
  uploads and row one after the other (`checks.ts:35`).
* A case may need review, or be blocked, with nothing listed as open: a check
  that is pending, blocked or could not be asked for has no item.
* A document whose remaining fields were all read with high confidence has no
  row in the queue (`case-status.ts:200`), although it waits for a reviewer.
* Two refreshes of a profile that overlap may leave the vector of another text
  (`similar.ts:33`); a refresh that fails, or a restart, leaves the profile as it
  was until something else asks; whether a retype asks is decided from the
  document as read before the extraction (`retype/route.ts:50`).

Extractor:

* An answer that cannot be used is paid for and not charged (`client.py:34`,
  `:84`).
* A crash or a full disk while `budget.json` is written leaves a file that cannot be parsed, and
  the service answers nothing that costs tokens until somebody removes it, on the
  next day either (`guards.py:61`).

Rules and agent:

* R1 passes when the transcript's or the test's name is absent (`rules.go:70`).
* A blocked check asks for a document that is uploaded and awaits review, beside
  a note that says not to (`graph.py:444`, `:506`).
* The model's own `search_policy` with another date is merged under the same "in
  force" list, and a date that is none raises and ends the run.
* The file store takes the latest signed-off document by file name, which is a
  random id, the database by time of creation (`services.py:116`, `:166`), although
  the one is called the "same view of the world" as the other (`pg.py:205`). With two
  signed-off documents of a type the rules may judge another one; without a
  database only (`wiring.py`).
* After a seed run without embedding a changed text keeps the old vector until it
  changes again (`seed.py:57`); rows dropped from the files stay in the tables.
* A seed run between two searches of one question may have it cite two versions.
* The graph's recursion limit of 60 counts every node, so `max_iterations` near
  28 makes a run fail (`graph.py:676`); the ledger is in memory and lost with the
  process (`services.py:461`).

## 4. Proofs

`tlapm` checks every leaf of the eight proof modules. The theorems hold for any
number of handlers, uploads, documents, reviewers, fields, values and types, of
threads, requests, cases and model answers, of policies, programmes and releases,
of requests and days, with or without faults; they assume only the `ASSUME`s of
the modules (the extractor answers with an `Extraction`, inputs have the types
their producers give them, the constants are distinct where JSON null, SQL NULL
and "other" are). `OnlyApprovedIsEverSent` and `AgentImplementsGate` are for the agent as a
service and say so in their statements (`~Cli`): `AgentApprovedOther` shows that
they are false otherwise. `HeldAlwaysExplained` is for an intake in which no handler dies and no
statement fails (`~Faults`), as its run is: a handler that dies leaves its upload
held for no reason. The type invariants of `ReviewScreen`, `Agent` and
`TokenBudget` are proved and not run.

| Theorem | Establishes |
|---|---|
| `AlwaysInductive` (`Intake_proofs`) | For any number of handlers, uploads and documents the inductive invariant holds: what each handler holds across its awaits stays true of the rows. |
| `TypeCorrect` (`Intake_proofs`) | Rows and handlers are always well typed; it needs the inductive invariant, not only itself. |
| `LinksAlwaysAgree` (`Intake_proofs`) | Uploads and documents always agree on whose pages are whose. |
| `SupersededAlwaysByLater` (`Intake_proofs`) | superseded_by always leads to a later document of the same pages and another type, so no chain is circular. |
| `ReadPagesAlwaysVisible` (`Intake_proofs`) | Pages that were read always have a document that stands, by taking the latest one. |
| `HistoryAlwaysKept` (`Intake_proofs`) | No step drops a row, edits a model output or undoes a sign-off, a supersession or a link. |
| `IntakeImplementsLedger` (`Intake_proofs`) | The intake implements the append-only ledger ReviewLedger under the mapping LedgerView. |
| `HeldAlwaysExplained` (`Intake_proofs`) | Without faults a held upload that nobody is working on was not read and says why; every other one has a handler that will settle it. |
| `GroupsAlwaysFollow` (`Intake_proofs`) | For any number of files, groupPages makes exactly the groups the joining rule states, by induction over the pages. |
| `SortingAlwaysFollowsTheRule` (`Intake_proofs`) | The batches of up to MaxFiles files, for any MaxFiles, are grouped by the rule. |
| `AgentImplementsGate` (`Agent_proofs`) | As a service, for any number of threads and requests, lost answers, failures and restarts, the agent implements ApprovalGate under the mapping GateView: only the call that was shown and approved is executed, and its conversation shows no other. |
| `OnlyApprovedIsEverSent` (`Agent_proofs`) | With the agent as a service, for any number of threads and requests: no outward call is executed that a person was not shown and did not approve for that very thread. |
| `NothingEverSentUnasked` (`Agent_proofs`) | Served or on the command line, nothing is sent in a thread without a click for it. |
| `AnsweredIsSentOnce` (`Agent_proofs`) | Served or on the command line, an approved call runs at most once as long as no answer was lost, whatever fails or restarts. |
| `InjectedDraftIsNeverPut` (`Agent_proofs`) | No draft that the model wrote beside an instruction found in a document is proposed, whatever the order of its calls. |
| `AwaitedIsNeverAskedFor` (`Agent_proofs`) | The agent asks by itself for an upload that awaits review only when a check is blocked. |
| `AgentAlwaysInductive` (`Agent_proofs`) | The approval gate's inductive invariant: requests, checkpoints, cards and clicks agree on the proposal across restarts, failures and overlapping resumes. |
| `AgentTypeCorrect` (`Agent_proofs`) | The agent's threads, requests and cards are always well typed. |
| `TypeCorrect` (`ReviewScreen_proofs`) | The record, the screens and the requests under way are always well typed, for any number of reviewers, fields and lost requests. |
| `SignOffsKept` (`ReviewScreen_proofs`) | No accepted sign-off is ever lost, however requests are delayed, repeated or reordered. |
| `BatchesAreHigh` (`ReviewScreen_proofs`) | What a batch signed off is a high-confidence value exactly as it was read. |
| `ConfirmedWhenSigned` (`ReviewScreen_proofs`) | A document counts as confirmed exactly when every required field was signed off. |
| `ScreensFollow` (`ReviewScreen_proofs`) | No browser ever shows a sign-off or a request that is not stored. |
| `AlwaysAWayOn` (`ReviewScreen_proofs`) | A document that is not complete always has a required field that a reviewer can sign off. |
| `MovesForward` (`ReviewScreen_proofs`) | No step takes back a sign-off, a completion or a request to the student. |
| `TypeCorrect` (`TokenBudget_proofs`) | Requests, the file and the lock of the budget are always well typed. |
| `OverdraftIsBounded` (`TokenBudget_proofs`) | For any number of requests served at once, of any cost, what is charged to a day stays below the limit plus what those requests can cost. |
| `ChargesAreKept` (`TokenBudget_proofs`) | Whenever the budget file can be read it holds all that was charged to its day. |
| `UnreadableClosed` (`TokenBudget_proofs`) | After a crash or a failure in the middle of a write the file stays unreadable, and nothing that spends tokens is let in or charged any more. |
| `BudgetImplementsMeter` (`TokenBudget_proofs`) | For any number of requests served at once, failing charges, midnights and restarts, the budget implements DailyMeter: a request is let in only while all that was charged to the day is below the limit, charges are one request's each, and a meter that broke lets nobody in. |
| `AlwaysInductive` (`CaseReads_proofs`) | The invariant of the reads: the tables, the seed run's view of the index, and what a question holds of them. |
| `TypeCorrect` (`CaseReads_proofs`) | The tables, the index and what a question gathered are always well typed. |
| `ProceedAlwaysSignedOff` (`CaseReads_proofs`) | A case whose checks let it through had a signed-off document of each type, whatever the web tier writes between the reads. |
| `CitationsInForce` (`CaseReads_proofs`) | Every cited policy was in force for the country and on the submission target shown with it, whatever releases are seeded meanwhile. |
| `CaseNeverLost` (`CaseReads_proofs`) | A case that was found stays found until the question has all its reads. |
| `TiersAlwaysAgree` (`CaseReads_proofs`) | For every case and any rows, the agent's Postgres store gives the rules service the web tier's case; its file store holds the same documents and gives the same case when the latest signed-off document of each type has the last file name too. |
| `SearchesAlwaysAgree` (`CaseReads_proofs`) | For any releases, queries, days and filters, each seed run leaves an index that the database searches like the files, up to the ties vectors break. |
| `IndexAlwaysWhole` (`CaseReads_proofs`) | The index holds all rows of one release or none, and a vector is of its row's text unless a run without embedding replaced it. |
| `TypeCorrect` (`CaseRecord_proofs`) | The case's row, its saves, the refreshes of its profile and the page are always well typed. |
| `SavesAlwaysKept` (`CaseRecord_proofs`) | A save keeps every column another save wrote, for any number of saves, cases and patches, except a first save and an acknowledgement that raced another. |
| `ReadyAlwaysBacked` (`CaseRecord_proofs`) | A page that shows a case as ready read a signed-off document of each type and nothing to review, whatever was written between its reads. |
| `VectorsAlwaysFit` (`CaseRecord_proofs`) | A profile's vector is the one of its text unless a refresh of the case overlapped another, failed or was not asked for. |
| `ProfilesCatchUp` (`CaseRecord_proofs`) | A profile with no refresh due or at work is the one its case gives now, unless a refresh was lost, overlapped or never asked for. |


**The intake's argument.** `TypeOK` is not inductive: `NextGroup` takes the head of
`rest` and writes at an index the handler kept from an earlier step. Nor are
`LinksAgree` and `SupersededByLater`: `LinkUpload` writes a document id into a
row of an upload it read long ago. `Inductive` adds what every handler still
knows after its awaits (`HandlersSound`: its upload exists, the document it
created read that upload's pages, the document a retype is to supersede reads
the same pages as another type), and that a document's type is its model
output's. Preservation is proved once for the tables and once for the
handlers: `DocsStep` and `UploadsStep` say that each action writes one of the
store's statements or nothing, `DocsAfter` and `UploadsAfter` what a row is
after it, and `StaysSound` that what a handler knows survives any such step by
another, which is the interference-freedom argument; `MoverSuffices` leaves the
handler that moved to be looked at action by action. That read pages stay
visible then follows without another induction: of the documents of an upload
take the latest (`GreatestExists`); it cannot be superseded, since that would
be by a later one. `HistoryAlwaysKept` and the refinement `IntakeImplementsLedger`
use the same classification of steps.

`HeldIsUnreadAndExplained` speaks of handlers by their absence, so it needs to
know which of them is to do what: in `UnderWay` a held upload without a reason has
a handler that will settle it, and one that documents were made of has the
handler about to link them. Only a step of that very handler can end either, and
`MoverLeavesNone` reduces each action to the handler that moved.

**Sorting, by induction.** `GroupPages` is a recursive function of the pages, and
the induction theorems of the library cannot be instantiated. `PassSorts` does
without: of the page numbers after which the groups so far do not follow the rule
take the least (`LeastNatural`, from well-foundedness of the naturals). It is not
zero, and the pass before it followed. A page that continues leaves all groups
but the last as they were (`JoiningFollows`); any other starts a group, closes the
one before it and is the rule's first page (`StartingFollows`). What makes this
inductive is in `SortedUpTo`: a group is open exactly when the rule, which looks at
pages only, would let another page join. `GroupsAlwaysFollow` is then true of any
batch, and `SortingAlwaysFollowsTheRule` for any `MaxFiles`.

**The agent's argument.** What is executed is the proposal in a run's own copy
of the state, what was approved is the proposal on a card, and nothing in the
code compares the two. `Gate` is why they agree. A question has its thread to
itself until it is answered, so the checkpoint it stops at is its own
(`QuestionsAreAlone`); a card is created from that checkpoint, and from then on
the thread only moves on through `human_interrupt`, `respond_and_record` and the
end, none of which changes the proposal, so as long as the checkpoint exists the
card shows its proposal (`CardsAgree`), however many resumes overlap; a resumed
run loads the checkpoint as it is (`ResumedAgree`), and the click that started
it approved that proposal (`ApprovedAgree`). A restart drops checkpoints and
runs together, which is why every part is stated for threads that exist. The
proof goes by `MoveKeepsGate`, `AdvanceKeepsGate`, `EndKeepsGate` and
`PostKeepsGate`, one for each way an action may touch a run; `Typed`
(`RunsHaveState` and `ApproveIsClicked` with the type invariant) is proved
first and holds on the command line too, which gives `NothingEverSentUnasked`.

`AnsweredIsSentOnce` rests on `SentBefore`: while no answer is lost the browser
waits for the only request at work, so nothing was executed on a thread still on
its way to the decision, and a checkpoint of one that executed something is past
it. The two properties about what is proposed need no such exclusion. `AllFit`
says of the states what the nodes leave: from `propose_action` on, a proposal is
no draft if an injection was found, and one of the rules is for a missing document
or beside a block; `Agreed` says that a card and what was sent are the proposal of
the checkpoint (`PutIsTheProposal`). What a draft and an injection do in either
order within one turn, or over several, is a lemma about `Investigate` and
`Propose` alone (`NodesLeaveFit`).

**The agent as an approval gate.** `ApprovalGate` knows conversations only: a call
is put to a person, approved, executed, the card closed or all cards withdrawn.
`GateView` leaves requests, checkpoints and the process out, so a step of the graph
is a stutter except in four places, and each needs something that was true long
before. `Settle` is `Execute` because of `Gate`. An answer is `Put` only if nothing
was approved or executed in its conversation: `AskingAlone` (in `Agreed`) has the
card and what was sent, `NothingApproved` the rest, and it is what a request to
`/ask` on a thread of its own buys. An answer is `Close` only if the card is still
open: `DecidedIsOpen` says that the one the browser waits for was started from it
and that nothing closed it since. `Decide` is `Approve` and `Forget` is `Withdraw`
by what they write. The gate allows `Execute` more than once after one approval,
as the code does (`AgentSentTwice`); that it happens once while no answer is lost is
`AnsweredIsSentOnce`.

**The review screen's argument.** A screen shows a former state of the record and
a post was computed from a screen, so neither is worth anything by itself. The
invariant orders them: a record only moves forward (`ReviewMovesForward`: sign-offs
and the reading stay, the log grows), every screen is behind the record, and a
post that once fitted a record fits every later one, in flight, given up on, or
answered. From that a commit of an old post is as good as one of a fresh one,
which is what `NoSignOffLost`, `BatchIsHighAsExtracted` and `ScreenNeverAhead`
need, for any number of reviewers and lost requests.

**The budget's argument.** What was charged says nothing about what was let in,
so `OverdraftBounded` is not inductive. `Inv` bounds the sum: today's
charges and what everybody who was let in may still be charged, and, for a day that
is over, its charges and those of the one who loaded the count before midnight.
The steps are of two kinds: quiet ones, which leave file, lock and charges alone,
and those of the one who holds the lock, for whom the file is what was loaded.
The same invariant says that a file is emptied exactly while its writer is about to
write it, or when nobody holds the lock: then a charge was cut short.

**The budget as a meter.** `DailyMeter` knows what each day was charged, who was let
in, and whether it is broken (the file is emptied and nobody holds the lock). A
quiet step is `Admit`, `Leave` or a stutter. It is `Admit` only below the limit
because a file that can be read says what was charged to its day, and no later day
was charged anything (`AdmitsBelowLimit`); that is so beside every step of somebody
else's charge. Of the steps under the lock only the last is seen: `Write` is
`Charge`, `RecordFails` is `Leave`, `WriteFails` and a crash before the write are
`Break`.

**The reads' argument.** `ReadsInv` has three parts that do not know each other's
steps: the rows (a successor is a later row of the same case; documents are only
added and what was signed off stays), the index (`IndexInv`: rows are typed, a
seed run's copy is the old rows up to a table and the new ones from it on, so that
a commit leaves a whole release), and the question (`GatherInv`: the case found
stays known, and what was gathered is backed by rows that are still there).
`WritesKeepRows` and `WritesKeepQuestion` say that the other two parts survive a
write; with them each tool is looked at alone.

`TiersAlwaysAgree` needs of the rows only their types. From Postgres both tiers take
the last signed-off document of a type in the order the rows were made
(`SameLatest`), so their cases are the same, always. What the file store reads is
what Postgres reads in the order of file names (`SameDocuments`, since `IdOrder` is
injective), so its case is the same if the latest signed-off document of each type
has the last name as well (`SameLatestByName`); nothing in the code sees to that, and
the theorem says nothing of its case otherwise.
`SearchesAlwaysAgree` compares two rankings that sort by different keys.
A ranking with room for every row keeps its whole pool (`RankKeepsAll`);
`SameWithoutVectors` and
`OnlyTiedWithVectors` that the database's pool holds the rows with the best
keyword score, so that a vector decides between those and nothing else, and
`SameProgrammes` that a limit not reached drops nothing.

**The record's argument.** `CaseRecord`'s invariant has a part for the row, one for
the profile and one for the page. None of the properties is inductive. `SavesAreKept`
needs `LockedRowsStay`: what a transaction selected under its lock is the row until
it writes. `ProfileIsCurrent` speaks of a moment when no refresh is due or at
work, so the invariant says what one at work has: outside `missed` there is one at
most (`OneAtATime`), and unless another is still to come what it read is what is
there now (`UpToDate`); whoever changes what a profile is made of asks for another
(`WritesKeepProfile`). A refresh that left its vector out did so because the row
has that of the same text (`Carries`), and alone at work it still does when it
writes. `ReadyIsBacked` is about snapshots of different moments: `PageFollows`
says that rows only gain, so that what a page read signed off still is.
Writing this proof showed that two racing first saves may change the country
without a refresh to follow; the model had counted that profile as current, and
no run met it until a case without a row and with a document was among its
starts.

**Only model-checked.** `HeldIsSettled` and both `EveryRequestEnds` are liveness,
which needs ENABLED and is out of the prover's reach. The four refuted claims are
refuted by TLC. Every other property a run checks is a theorem.

## 5. Abstractions

* A blob is written under a fresh id before the row that names it; one that no
  row names is never read, so blobs are left out.
* The extractor is an input of `Intake`: any member of `Extractions` of the asked
  type, or a failure (HTTP error, budget, invalid answer, timeout).
* The language model, the rules service and the stores are inputs of `Agent`:
  any turn of `Turns`, any case of `Gathered`. That a call to them may fail is
  modelled, and what the stores and the rules service answer is in `CaseReads`.
* The ledger's rows and the audit log are not read by anything modelled; the
  calls that would write them are `sent`.
* Dates are day numbers, scores hundredths, names classes under folding. A score
  band is in the same hundredths. The hash of an identity stands for the identity,
  which needs the salt to be set.
* Columns of a case that are saved like the ones modelled and read by nothing
  modelled (intake, programme, assignee, archive flag) are left out.
* Seed runs come one at a time, as deployments do; two at once, of different
  releases, could leave vectors of the other's text. Answers of searches are sets:
  their order is left out.
* The budget estimates an embedding's cost where a provider reports none; both
  are any number up to `MaxCost`. A file without pages is left out, and so are
  `/healthz` and `/readyz`, which change nothing.
* Authentication, page rendering, HTTP status codes and wording are left out.

## 6. Plan

Done, in this order: the review record and its screen, sorting, intake with its
ledger, the agent with its gate, the token budget, the reads of a question with
rules, stores and index, the case record with profile and status; then the
proofs, until every safety property a run checks was a theorem.

Proved beside them: three refinements. `ReviewLedger`, `ApprovalGate` and
`DailyMeter` say what the intake, the agent and the budget promise.

Left to model: the rows of the queue and their order (`case-status.ts`), the two
searches over profiles (`similar.ts`), the agent's ledger and audit log as state of
their own. Each changes no row that anything modelled reads.


## 7. Not modelled

* **Extractor client** (partly): Only what intake sees of it: a document of the asked type, or a failure. HTTP, JSON parsing and classification answers are inputs.
* **Case status and queue** (partly): The three reads of a page, the checks, the status of a case and what it lists as open. The queue's rows and their order, the names shown and the time of the last change are left out.
* **Case profiles** (partly): Who asks for a refresh, the refresh step by step, and what it reads, builds and stores. The two searches over the profiles and the rebuild of all of them after an import are left out: they change nothing, or are refreshes one after the other.
* **Rules service** (partly): All five checks and can_proceed. Dates are day numbers, so the calendar (months of unequal length, the Buddhist-era note) is left out, and names are classes under Normalise and FoldRomanisation, whose rewriting is left out.
* **Agent graph and approval gate** (partly): Every node, the interrupt, /ask and /resume, the command line, failing calls and restarts, interleaved. What the rules service, the stores and the model answer are inputs; the texts of answers, the tools' own results and the audit lines are left out; what gather_case reads, and when, is modelled in CaseReads.
* **Agent services and stores** (partly): Both case stores, both searches of policies and programmes, the rules payload, the study profile and the fit of a programme. The ledger appears in Agent as sent; the audit log, get_extraction and the order programmes are listed in are left out.
* **Policy, risk and ranking** (partly): rank and its scores, the registry and execute, the filters of a programme question. Which words make a question one about programmes is an input.
* **Extractor service** (partly): Every route that works, on the event loop or beside it, call by call of the provider. What is rendered, read or embedded is left out, and so are /healthz and /readyz, which change nothing.
* **Blob storage** (not modelled): Write-once objects in S3 under fresh ids; no state the rows do not have.
* **Dashboards and forms** (not modelled): Rendering of the summaries, and forms that call the routes.
* **Guardrail and prompts** (not modelled): Regular expressions and prompt text: nothing but characters to model.
* **Synthetic corpus and evals** (not modelled): Offline tools, not part of the running system.
* **Design system** (not modelled): Static page generator.
* **Deployment** (not modelled): Scripts around the system.

