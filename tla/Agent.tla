--------------------------------- MODULE Agent ---------------------------------
(***************************************************************************)
(* The agent: a graph run per question, stopped for a person before        *)
(* anything reaches the student (agent/agent/graph.py, risk.py, api.py),   *)
(* and the browser that asks and decides (web/app/assistant,               *)
(* web/app/api/assistant).                                                 *)
(*                                                                         *)
(* A run of the graph executes one node after the other and writes the     *)
(* thread's checkpoint after each.  Requests for one thread may be served  *)
(* at the same time: a browser that gave up waiting does not stop the run  *)
(* it started.  A browser does not see the threads of another, so one is   *)
(* enough.                                                                 *)
(***************************************************************************)
EXTENDS Proposals

CONSTANTS
  Thread,        \* conversations the agent process may hold
  Run,           \* requests it serves or queues at the same time
  Gathered,      \* what gather_case may find
  Message,       \* arguments the model may make up
  Turns,         \* what the model may answer while it investigates
  MaxIterations, \* max_iterations of the settings
  MaxLost,       \* bound on the answers that never reach the browser
  Cli,           \* TRUE when the web tier runs the agent as a child process
  Faults         \* TRUE when calls may fail and the process may restart

VARIABLES
  thread,   \* thread[t]: its checkpoint, Null before it exists
  run,      \* run[r]: the request r serves, or Null
  card,     \* card[t]: the proposal the browser shows for t, or Null
  waits,    \* the request the browser waits for, or Null
  lost,     \* how many answers never came
  approved, \* history: what a person approved, as <<thread, proposal>>
  sent      \* history: sent[t], the external calls executed for t

vars == <<thread, run, card, waits, lost, approved, sent>>

Tools    == {"request_document", "draft_student_message"}
Proposal == [tool : Tools, args : DocType \cup Message, source : {"rules", "model"}]

\* One tool call of a model's turn, by what it changes in the state.
Call == [kind : {"cite", "search", "suspicious", "other"}]
          \cup [kind : {"external"}, proposal : {p \in Proposal : p.source = "model"}]

\* What gather_case reads: is there such a case, its documents, its rules
\* result (Null when the call reports an error), any policy in force.
Found == [known : BOOLEAN, docs : [DocType -> Held],
          checks : [Rule -> Outcome] \cup {Null}, cited : BOOLEAN]

ASSUME AgentAssumption ==
  /\ Gathered \subseteq Found
  /\ Turns \subseteq Seq(Call)
  /\ MaxIterations \in Nat \ {0} /\ MaxLost \in Nat
  /\ Cli \in BOOLEAN /\ Faults \in BOOLEAN

Nodes == {"guardrail", "gather_case", "investigate", "sufficiency",
          "propose_action", "human_interrupt", "respond_and_record"}

Decision == {"approve", "reject"}

\* AgentState, without the texts.
State ==
  [blocked : BOOLEAN, programme : BOOLEAN, found : Gathered \cup {Null},
   cited : BOOLEAN, searched : BOOLEAN, injected : BOOLEAN,
   iterations : 0 .. MaxIterations, silent : BOOLEAN,
   proposal : Proposal \cup {Null}, dropped : BOOLEAN,
   awaiting : SUBSET DocType, decision : Decision \cup {Null}]

Checkpoint == [st : State, next : Nodes \cup {"end"}]

\* How a request ends.
Replied == {"answered", "pending", "expired", "failed"}

\* A request at the agent.  decision is what the person clicked, Null for a
\* question; about is the thread whose card they clicked.
Request_ ==
  [thread : Thread, about : Thread, decision : Decision \cup {Null},
   at : Nodes \cup {"check", "load"} \cup Replied, st : State \cup {Null}]

Card == [proposal : Proposal, done : Decision \cup {"open"}]

ASSUME NullAssumption ==
  /\ Null \notin Proposal /\ Null \notin [Rule -> Outcome]
  /\ Null \notin Run /\ Null \notin Gathered
  /\ Null \notin State /\ Null \notin Checkpoint
  /\ Null \notin Decision /\ Null \notin Card

TypeOK ==
  /\ thread \in [Thread -> Checkpoint \cup {Null}]
  /\ run \in [Run -> Request_ \cup {Null}]
  /\ card \in [Thread -> Card \cup {Null}]
  /\ waits \in Run \cup {Null}
  /\ lost \in 0 .. MaxLost
  /\ approved \subseteq Thread \X Proposal
  /\ sent \in [Thread -> Seq(Proposal)]

Init ==
  /\ thread = [t \in Thread |-> Null]
  /\ run = [r \in Run |-> Null]
  /\ card = [t \in Thread |-> Null]
  /\ waits = Null
  /\ lost = 0
  /\ approved = {}
  /\ sent = [t \in Thread |-> <<>>]

-----------------------------------------------------------------------------
(* The nodes, as functions of the state.                                    *)

\* initial_state and the verdict of the guardrail.
Begun(blocked, programme) ==
  [blocked |-> blocked, programme |-> programme, found |-> Null, cited |-> FALSE,
   searched |-> FALSE, injected |-> FALSE, iterations |-> 0, silent |-> FALSE,
   proposal |-> Null, dropped |-> FALSE, awaiting |-> {}, decision |-> Null]

Gather(st, found) ==
  [st EXCEPT !.found = found, !.cited = found.cited,
             !.searched = found.known /\ st.programme]

\* A turn of the model and its tool calls, ToolRegistry.execute without an
\* approval: an external tool does not run, the first ask becomes the proposal;
\* a document with instruction-like text is flagged.  The count stops at its
\* bound: it is only ever compared with it.
Investigate(st, turn) ==
  LET Called(k) == \E i \in DOMAIN turn : turn[i].kind = k
      asks == {i \in DOMAIN turn : turn[i].kind = "external"} IN
  [st EXCEPT !.cited = @ \/ Called("cite"),
             !.searched = @ \/ Called("search"),
             !.injected = @ \/ Called("suspicious"),
             !.proposal = IF @ = Null /\ asks # {} THEN turn[Min(asks)].proposal ELSE @,
             !.iterations = IF @ < MaxIterations THEN @ + 1 ELSE @,
             !.silent = turn = <<>>]

Checks(st) == IF st.found.known THEN st.found.checks ELSE Null

Shortfall(st) ==
  \/ st.found.known /\ Checks(st) = Null
  \/ /\ Checks(st) # Null
     /\ \E r \in Rule : Checks(st)[r] # "pass"
     /\ ~st.cited
  \/ st.programme /\ ~st.searched

\* Mutant of Sufficient: no bound on the iterations.
SufficientUnbounded(st) == st.proposal # Null \/ (st.silent /\ ~Shortfall(st))

Sufficient(st) ==
  \/ st.proposal # Null
  \/ st.iterations >= MaxIterations
  \/ st.silent /\ ~Shortfall(st)

\* Mutant of Drops: a draft is kept.
DropsNothing(st) == FALSE

\* A message drafted while a document was feeding the model instructions.
Drops(st) ==
  st.proposal # Null /\ st.injected /\ st.proposal.tool = "draft_student_message"

\* The draft goes first; then the rules may ask.
Propose(st) ==
  LET kept == IF Drops(st) THEN Null ELSE st.proposal
      checks == Checks(st) IN
  [st EXCEPT !.dropped = Drops(st),
             !.proposal = IF checks = Null THEN kept
                          ELSE FirstAsk(checks, st.found.docs, kept),
             !.awaiting = IF checks = Null THEN {}
                          ELSE AwaitingReview(checks, st.found.docs)]

-----------------------------------------------------------------------------
(* The browser and the web tier's route.                                    *)

Free(r) == run[r] = Null

At(r, place) == ~Free(r) /\ run[r].at = place

\* Mutant of Unstarted: ids are taken from the case, and return with its next
\* question.
UnstartedSince(t) ==
  /\ thread[t] = Null
  /\ \A r \in Run : ~Free(r) => run[r].thread # t

\* An id no thread has had.
Unstarted(t) ==
  /\ thread[t] = Null /\ card[t] = Null /\ sent[t] = <<>>
  /\ \A p \in approved : p[1] # t
  /\ \A r \in Run : ~Free(r) => run[r].thread # t

Post(r, t, about, decision, at, st) ==
  /\ waits = Null /\ Free(r)
  /\ run' = [run EXCEPT ![r] =
               [thread |-> t, about |-> about, decision |-> decision, at |-> at, st |-> st]]
  /\ waits' = r

\* POST /ask: a thread of its own.
Ask(r, t) ==
  /\ Unstarted(t)
  /\ \E blocked, programme \in BOOLEAN :
       Post(r, t, t, Null, "guardrail", Begun(blocked, programme))
  /\ UNCHANGED <<thread, card, lost, approved, sent>>

Open(t) == card[t] # Null /\ card[t].done = "open"

\* "Approve and run" or "Discard" on a card: POST /resume with its thread.
Decide(r, t) ==
  /\ ~Cli /\ Open(t)
  /\ \E d \in Decision :
       /\ Post(r, t, t, d, "check", Null)
       /\ approved' = IF d = "approve" THEN approved \cup {<<t, card[t].proposal>>}
                      ELSE approved
  /\ UNCHANGED <<thread, card, lost, sent>>

\* Without the service a proposal is approved by asking the same question again
\* with --yes: a new run, whose proposal is approved whatever it is.
ApproveCli(r, t, again) ==
  /\ Cli /\ Open(t) /\ Unstarted(again)
  /\ \E blocked, programme \in BOOLEAN :
       Post(r, again, t, "approve", "guardrail", Begun(blocked, programme))
  /\ approved' = approved \cup {<<again, card[t].proposal>>}
  /\ UNCHANGED <<thread, card, lost, sent>>

\* "Discard" without a thread id, or another case chosen: the cards go.
Forget ==
  /\ waits = Null
  /\ \E gone \in SUBSET {t \in Thread : card[t] # Null} :
       /\ gone # {}
       /\ Cli \/ gone = {t \in Thread : card[t] # Null}
       /\ card' = [t \in Thread |-> IF t \in gone THEN Null ELSE card[t]]
  /\ UNCHANGED <<thread, run, waits, lost, approved, sent>>

\* The answer reaches the browser: a proposal gets a card, a decision that was
\* answered marks its card, anything else only shows a notice.
Receive(r) ==
  /\ waits = r /\ ~Free(r) /\ run[r].at \in Replied
  /\ LET t == run[r].thread
         about == run[r].about IN
       card' = CASE run[r].at = "pending" ->
                      [card EXCEPT ![t] = [proposal |-> run[r].st.proposal, done |-> "open"]]
                 [] run[r].at = "answered" /\ run[r].decision # Null /\ card[about] # Null ->
                      [card EXCEPT ![about].done = run[r].decision]
                 [] OTHER -> card
  /\ run' = [run EXCEPT ![r] = Null]
  /\ waits' = Null
  /\ UNCHANGED <<thread, lost, approved, sent>>

\* The route gives up after 110 seconds, or the connection breaks: the card
\* stays open and the run goes on.
GiveUp(r) ==
  /\ waits = r
  /\ lost < MaxLost
  /\ lost' = lost + 1
  /\ waits' = Null
  /\ UNCHANGED <<thread, run, card, approved, sent>>

\* The answer of a request nobody waits for is dropped.
Drop(r) ==
  /\ waits # r /\ ~Free(r) /\ run[r].at \in Replied
  /\ run' = [run EXCEPT ![r] = Null]
  /\ UNCHANGED <<thread, card, waits, lost, approved, sent>>

-----------------------------------------------------------------------------
(* The agent process.                                                       *)

Ends(r, how) ==
  run' = [run EXCEPT ![r].at = how, ![r].st = IF how = "pending" THEN @ ELSE Null]

\* What /resume asks get_state: is there a thread, and is its run unfinished.
CheckResume(r) ==
  /\ At(r, "check")
  /\ LET cp == thread[run[r].thread] IN
       IF cp = Null \/ (cp # Null /\ cp.next = "end") THEN Ends(r, "expired")
       ELSE run' = [run EXCEPT ![r].at = "load"]
  /\ UNCHANGED <<thread, card, waits, lost, approved, sent>>

\* The graph is invoked with the decision: it goes on from the checkpoint as it
\* is now.  A run that has ended meanwhile answers what it answered before.
Load(r) ==
  /\ At(r, "load")
  /\ LET cp == thread[run[r].thread] IN
       IF cp.next = "end" THEN Ends(r, "answered")
       ELSE run' = [run EXCEPT ![r].at = cp.next, ![r].st = cp.st]
  /\ UNCHANGED <<thread, card, waits, lost, approved, sent>>

\* A node is done: its update goes to the checkpoint, the next node follows.
Advance(r, st, next) ==
  /\ thread' = [thread EXCEPT ![run[r].thread] = [st |-> st, next |-> next]]
  /\ IF next = "end" THEN Ends(r, "answered")
     ELSE run' = [run EXCEPT ![r].at = next, ![r].st = st]

Browser == <<card, waits, lost, approved>>

\* The handler of an external tool: a request or a draft more in the ledger.
Logged(t, proposal) == [sent EXCEPT ![t] = Append(@, proposal)]

Guardrail(r) ==
  /\ At(r, "guardrail")
  /\ Advance(r, run[r].st, IF run[r].st.blocked THEN "respond_and_record" ELSE "gather_case")
  /\ UNCHANGED <<Browser, sent>>

GatherCase(r) ==
  /\ At(r, "gather_case")
  /\ \E found \in Gathered : Advance(r, Gather(run[r].st, found), "investigate")
  /\ UNCHANGED <<Browser, sent>>

ModelTurn(r) ==
  /\ At(r, "investigate")
  /\ \E turn \in Turns : Advance(r, Investigate(run[r].st, turn), "sufficiency")
  /\ UNCHANGED <<Browser, sent>>

Sufficiency(r) ==
  /\ At(r, "sufficiency")
  /\ Advance(r, run[r].st, IF Sufficient(run[r].st) THEN "propose_action" ELSE "investigate")
  /\ UNCHANGED <<Browser, sent>>

ProposeAction(r) ==
  /\ At(r, "propose_action")
  /\ Advance(r, Propose(run[r].st), "human_interrupt")
  /\ UNCHANGED <<Browser, sent>>

\* human_interrupt with nothing to decide.
NoProposal(r) ==
  /\ At(r, "human_interrupt") /\ run[r].st.proposal = Null
  /\ Advance(r, [run[r].st EXCEPT !.decision = Null], "respond_and_record")
  /\ UNCHANGED <<Browser, sent>>

\* Mutant of Interrupt: the tool is run before the person is asked, and again
\* when the node is entered with the answer.
InterruptAfter(r) ==
  /\ At(r, "human_interrupt") /\ run[r].st.proposal # Null
  /\ ~Cli /\ run[r].decision = Null
  /\ Ends(r, "pending")
  /\ sent' = Logged(run[r].thread, run[r].st.proposal)
  /\ UNCHANGED <<thread, Browser>>

\* interrupt(): the run stops, its checkpoint stays before this node.
Interrupt(r) ==
  /\ At(r, "human_interrupt") /\ run[r].st.proposal # Null
  /\ ~Cli /\ run[r].decision = Null
  /\ Ends(r, "pending")
  /\ UNCHANGED <<thread, Browser, sent>>

\* Mutant of Verdict: nobody at the keyboard is taken for a yes.
VerdictYes(r) == IF run[r].decision = "reject" THEN "reject" ELSE "approve"

\* What the run was resumed with; the command line approves with --yes and
\* otherwise, nobody being at the keyboard, does not.
Verdict(r) == IF run[r].decision = "approve" THEN "approve" ELSE "reject"

\* Mutant of Settle: whatever the decision, the tool runs.
SettleAlways(r) ==
  /\ At(r, "human_interrupt") /\ run[r].st.proposal # Null
  /\ Cli \/ run[r].decision # Null
  /\ sent' = Logged(run[r].thread, run[r].st.proposal)
  /\ Advance(r, [run[r].st EXCEPT !.decision = Verdict(r)], "respond_and_record")
  /\ UNCHANGED Browser

\* human_interrupt with a decision: the approval is bound to the proposal of
\* this run, so the call goes through.
Settle(r) ==
  /\ At(r, "human_interrupt") /\ run[r].st.proposal # Null
  /\ Cli \/ run[r].decision # Null
  /\ sent' = IF Verdict(r) = "approve"
             THEN Logged(run[r].thread, run[r].st.proposal)
             ELSE sent
  /\ Advance(r, [run[r].st EXCEPT !.decision = Verdict(r)], "respond_and_record")
  /\ UNCHANGED Browser

\* The summary is written and recorded.  A question asked on the command line
\* shows its unapproved proposal beside the answer.
Respond(r) ==
  /\ At(r, "respond_and_record")
  /\ IF Cli /\ run[r].decision = Null /\ run[r].st.proposal # Null
     THEN /\ thread' = [thread EXCEPT ![run[r].thread] = [st |-> run[r].st, next |-> "end"]]
          /\ Ends(r, "pending")
     ELSE Advance(r, run[r].st, "end")
  /\ UNCHANGED <<Browser, sent>>

\* Nodes that call the rules service, a store or the model.
MayFail == {"gather_case", "investigate", "respond_and_record"}

\* The call raises: an error for the client, the checkpoint stays before the
\* node.  A child process may be killed anywhere.
Fail(r) ==
  /\ Faults
  /\ ~Free(r) /\ run[r].at \in IF Cli THEN Nodes ELSE MayFail
  /\ Ends(r, "failed")
  /\ UNCHANGED <<thread, Browser, sent>>

\* The agent's process ends and comes back: the checkpoints were in its memory.
Restart ==
  /\ Faults /\ ~Cli
  /\ \E t \in Thread : thread[t] # Null
  /\ thread' = [t \in Thread |-> Null]
  /\ run' = [r \in Run |-> Null]
  /\ waits' = Null
  /\ UNCHANGED <<card, lost, approved, sent>>

AgentStep(r) ==
  \/ CheckResume(r) \/ Load(r) \/ Guardrail(r) \/ GatherCase(r) \/ ModelTurn(r)
  \/ Sufficiency(r) \/ ProposeAction(r) \/ NoProposal(r) \/ Interrupt(r)
  \/ Settle(r) \/ Respond(r)

Next ==
  \/ \E r \in Run :
       \/ AgentStep(r) \/ Fail(r) \/ Receive(r) \/ GiveUp(r) \/ Drop(r)
       \/ \E t \in Thread :
            \/ Ask(r, t) \/ Decide(r, t)
            \/ \E again \in Thread : ApproveCli(r, t, again)
  \/ Forget \/ Restart

Spec == Init /\ [][Next]_vars

\* The process serves what it has, and answers arrive or are dropped.
Fairness == \A r \in Run : WF_vars(AgentStep(r)) /\ WF_vars(Receive(r) \/ Drop(r))

FairSpec == Spec /\ Fairness

-----------------------------------------------------------------------------
(* What every state satisfies, and the properties.                          *)

\* A run that executes a node has a state, one that waits for a person a
\* proposal, and one about to be invoked a checkpoint to go on from.
RunsHaveState ==
  \A r \in Run : run[r] # Null =>
    /\ run[r].at \in Nodes \cup {"pending"} => run[r].st # Null
    /\ run[r].at = "pending" => run[r].st.proposal # Null
    /\ run[r].at = "load" => thread[run[r].thread] # Null

\* An approving request comes of a click for its thread.
ApproveIsClicked ==
  \A r \in Run : (run[r] # Null /\ run[r].decision = "approve") =>
    \E p \in approved : p[1] = run[r].thread

\* Where a thread stands once its proposal was shown.
Shown == {"human_interrupt", "respond_and_record", "end"}

\* A question has its thread to itself; the proposal it may put to a person is
\* the one in the checkpoint.
QuestionsAreAlone ==
  \A r \in Run : (run[r] # Null /\ run[r].decision = Null) =>
    /\ run[r].at \notin {"check", "load"}
    /\ card[run[r].thread] = Null
    /\ \A q \in Run : (q # r /\ run[q] # Null) => run[q].thread # run[r].thread
    /\ run[r].at \in {"human_interrupt", "pending"} =>
         /\ thread[run[r].thread] # Null
         /\ thread[run[r].thread].next = "human_interrupt"
         /\ thread[run[r].thread].st.proposal = run[r].st.proposal

\* A resumed run works on the proposal of the checkpoint.
ResumedAgree ==
  \A r \in Run : (run[r] # Null /\ run[r].decision # Null) =>
    /\ run[r].at \in {"check", "load", "human_interrupt", "respond_and_record",
                      "answered", "expired", "failed"}
    /\ thread[run[r].thread] # Null => thread[run[r].thread].next \in Shown
    /\ run[r].at \in {"human_interrupt", "respond_and_record"} =>
         /\ thread[run[r].thread] # Null
         /\ run[r].st.proposal = thread[run[r].thread].st.proposal

\* A card shows the proposal of the checkpoint, as long as there is one.
CardsAgree ==
  \A t \in Thread : (card[t] # Null /\ thread[t] # Null) =>
    /\ thread[t].next \in Shown
    /\ thread[t].st.proposal = card[t].proposal

\* What was approved for a thread is the proposal of its checkpoint.
ApprovedAgree ==
  \A r \in Run : (run[r] # Null /\ run[r].decision = "approve"
                    /\ thread[run[r].thread] # Null) =>
    <<run[r].thread, thread[run[r].thread].st.proposal>> \in approved

\* The approval gate of the service, as an invariant of its steps.
Gate == QuestionsAreAlone /\ ResumedAgree /\ CardsAgree /\ ApprovedAgree

\* What each request holds stays true of the checkpoint, the cards and the
\* clicks while other requests, lost answers and restarts interleave with it:
\* the invariant the approval properties follow from.
Inductive == RunsHaveState /\ ApproveIsClicked /\ (~Cli => Gate)

\* Nothing runs that reaches the student unless a person was shown this very
\* call, for this question, and approved it: not after a restart, not from
\* another thread, not when the answer to the click was lost
\* (human_interrupt, Approval).
OnlyApprovedIsSent ==
  \A t \in Thread : \A i \in DOMAIN sent[t] : <<t, sent[t][i]>> \in approved

\* On the command line nothing runs in a run nobody clicked for.
NothingSentUnasked ==
  \A t \in Thread : sent[t] # <<>> => \E p \in approved : p[1] = t

\* A message drafted on a thread where a document was found to carry
\* instructions is neither shown for approval nor sent, whichever came first,
\* the draft or the document (propose_action).
InjectedDraftNeverPut ==
  \A t \in Thread :
    (thread[t] # Null /\ thread[t].st.injected) =>
      /\ card[t] # Null => card[t].proposal.tool # "draft_student_message"
      /\ \A i \in DOMAIN sent[t] : sent[t][i].tool # "draft_student_message"

\* A request always comes to an end: the loop between the model and the
\* sufficiency check is bounded, whatever the model answers.
EveryRequestEnds == \A r \in Run : (run[r] # Null) ~> (run[r] = Null)

\* An approved call is executed once.
SentOnce == \A t \in Thread : Len(sent[t]) <= 1

\* As long as every answer reached the browser, an approved call is executed
\* once, although calls fail, restarts drop threads and an open card may be
\* decided again (the checkpoint after human_interrupt).
SentOnceIfAnswered == lost = 0 => SentOnce

\* What the person at the screen may know of requests, checkpoints and restarts.
GateView ==
  [t \in Thread |-> [card     |-> card[t],
                     approved |-> {p \in Proposal : <<t, p>> \in approved},
                     executed |-> sent[t]]]

Approval == INSTANCE ApprovalGate WITH gate <- GateView

\* With the agent as a service, that is an approval gate: nothing is executed but
\* the very call that was approved where it was shown, in a conversation that never
\* shows another one (assistant-thread.tsx:206, "the approval is bound to exactly
\* this tool and these arguments").
ImplementsGate == Approval!Spec

\* A card says what happened: "Approved, action recorded" when exactly its call
\* was executed, "Rejected, nothing sent" when none was.
CardTellsWhatWasDone ==
  \A t \in Thread : card[t] # Null =>
    /\ card[t].done = "approve" => sent[t] # <<>> /\ sent[t][1] = card[t].proposal
    /\ card[t].done = "reject"  => sent[t] = <<>>

\* As long as no check is blocked, the student is only asked for what they have
\* not uploaded: a document that waits for a reviewer is not asked for.
OnlyBlocksAskForAwaited ==
  \A t \in Thread :
    (card[t] # Null /\ thread[t] # Null /\ card[t].proposal.source = "rules") =>
      \/ thread[t].st.found.docs[card[t].proposal.args] = "none"
      \/ \E r \in Rule : thread[t].st.found.checks[r] = "block"
=============================================================================
