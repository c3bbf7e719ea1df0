----------------------------- MODULE Agent_proofs -----------------------------
(***************************************************************************)
(* The approval gate of the agent, for any number of threads and requests, *)
(* whatever the case holds and the model answers, with lost answers,       *)
(* failing nodes and restarts.                                             *)
(***************************************************************************)
EXTENDS Agent, TLAPS, WellFoundedInduction, SequenceTheorems

\* Min picks a member of a nonempty set of numbers.
LEMMA MinIsMember ==
  ASSUME NEW S, S \subseteq Nat, S # {}
  PROVE  Min(S) \in S
<1>1. \E x \in S : \A y \in S : ~(<<y, x>> \in OpToRel(<, Nat))
  BY NatLessThanWellFounded, WFMin, Zenon
<1>2. PICK x \in S : \A y \in S : ~(<<y, x>> \in OpToRel(<, Nat))
  BY <1>1
<1>3. \A y \in S : ~(y < x)
  BY <1>2 DEF OpToRel
<1>4. \A y \in S : x <= y
  BY <1>3
<1>5. QED
  BY <1>2, <1>4 DEF Min

\* A rule asks for one of the four documents, or for nothing (RULE_INPUTS,
\* RULE_REISSUE).
LEMMA AskIsOfADocument ==
  ASSUME NEW checks, NEW docs, NEW r \in Rule
  PROVE  AskOf(checks, docs, r) \in DocType \cup {Null}
<1>1. CASE checks[r] = "pending" /\ Missing(docs, r) # {}
  <2>1. Missing(docs, r) \subseteq DOMAIN RuleInputs(r)
    BY DEF Missing
  <2>2. DOMAIN RuleInputs(r) \subseteq Nat
    BY DEF RuleInputs, Rule
  <2>3. Min(Missing(docs, r)) \in DOMAIN RuleInputs(r)
    BY <1>1, <2>1, <2>2, MinIsMember
  <2>4. \A i \in DOMAIN RuleInputs(r) : RuleInputs(r)[i] \in DocType
    BY DEF RuleInputs, Rule, DocType
  <2>5. QED
    BY <1>1, <2>3, <2>4 DEF AskOf
<1>2. CASE ~(checks[r] = "pending" /\ Missing(docs, r) # {}) /\ checks[r] = "block"
  BY <1>2 DEF AskOf, RuleReissue, Rule, DocType
<1>3. CASE ~(checks[r] = "pending" /\ Missing(docs, r) # {}) /\ checks[r] # "block"
  BY <1>3 DEF AskOf
<1>4. QED
  BY <1>1, <1>2, <1>3

\* The first ask is the proposal it was given, or a request.
LEMMA FirstAskIsAProposal ==
  ASSUME NEW checks, NEW docs, NEW p \in Proposal \cup {Null}
  PROVE  FirstAsk(checks, docs, p) \in Proposal \cup {Null}
<1> DEFINE asking == {i \in DOMAIN Rules : AskOf(checks, docs, Rules[i]) # Null}
<1>1. CASE p = Null /\ ~CanProceed(checks) /\ asking # {}
  <2>1. asking \subseteq Nat /\ asking \subseteq DOMAIN Rules
    BY DEF Rules
  <2>2. Min(asking) \in asking
    BY <1>1, <2>1, MinIsMember
  <2>3. Rules[Min(asking)] \in Rule
    BY <2>1, <2>2 DEF Rules, Rule
  <2>4. AskOf(checks, docs, Rules[Min(asking)]) \in DocType
    BY <2>2, <2>3, AskIsOfADocument
  <2>5. Request(AskOf(checks, docs, Rules[Min(asking)])) \in Proposal
    <3> DEFINE t == AskOf(checks, docs, Rules[Min(asking)])
    <3>1. t \in DocType
      BY <2>4
    <3> HIDE DEF t
    <3>2. [tool |-> "request_document", args |-> t, source |-> "rules"] \in Proposal
      BY <3>1 DEF Proposal, Tools
    <3>3. QED
      BY <3>2 DEF Request, t
  <2>6. QED
    BY <1>1, <2>5 DEF FirstAsk
<1>2. CASE ~(p = Null /\ ~CanProceed(checks) /\ asking # {})
  BY <1>2 DEF FirstAsk
<1>3. QED
  BY <1>1, <1>2

\* Each node keeps the state a state.
LEMMA NodesKeepState ==
  ASSUME NEW st \in State
  PROVE  /\ \A found \in Gathered : Gather(st, found) \in State
         /\ \A turn \in Turns : Investigate(st, turn) \in State
         /\ Propose(st) \in State
         /\ \A d \in Decision \cup {Null} :
              /\ [st EXCEPT !.decision = d] \in State
              /\ [st EXCEPT !.decision = d].proposal = st.proposal
<1>1. ASSUME NEW found \in Gathered PROVE Gather(st, found) \in State
  BY AgentAssumption DEF Gather, State, Found
<1>2. ASSUME NEW turn \in Turns PROVE Investigate(st, turn) \in State
  <2> DEFINE asks == {i \in DOMAIN turn : turn[i].kind = "external"}
  <2>1. turn \in Seq(Call)
    BY AgentAssumption
  <2>2. asks # {} => turn[Min(asks)].proposal \in Proposal
    <3>1. asks \subseteq Nat
      BY <2>1
    <3>2. asks # {} => Min(asks) \in asks
      BY <3>1, MinIsMember
    <3>3. \A i \in asks : turn[i].proposal \in Proposal
      BY <2>1 DEF Call
    <3>4. QED
      BY <3>2, <3>3
  <2>3. (IF st.iterations < MaxIterations THEN st.iterations + 1 ELSE st.iterations)
          \in 0 .. MaxIterations
    BY AgentAssumption DEF State
  <2>4. (IF st.proposal = Null /\ asks # {} THEN turn[Min(asks)].proposal ELSE st.proposal)
          \in Proposal \cup {Null}
    BY <2>2 DEF State
  <2> DEFINE Called(k) == \E i \in DOMAIN turn : turn[i].kind = k
             iterations == IF st.iterations < MaxIterations THEN st.iterations + 1
                           ELSE st.iterations
             proposal == IF st.proposal = Null /\ asks # {} THEN turn[Min(asks)].proposal
                         ELSE st.proposal
             cited == st.cited \/ Called("cite")
             searched == st.searched \/ Called("search")
             injected == st.injected \/ Called("suspicious")
             silent == turn = <<>>
  <2>5. /\ cited \in BOOLEAN /\ searched \in BOOLEAN
        /\ injected \in BOOLEAN /\ silent \in BOOLEAN
    BY Zenon
  <2>6. iterations \in 0 .. MaxIterations /\ proposal \in Proposal \cup {Null}
    BY <2>3, <2>4
  <2>7. Investigate(st, turn) =
          [st EXCEPT !.cited = cited, !.searched = searched, !.injected = injected,
                     !.proposal = proposal, !.iterations = iterations, !.silent = silent]
    BY DEF Investigate
  <2> HIDE DEF cited, searched, injected, silent, iterations, proposal
  <2>8. QED
    BY <2>5, <2>6, <2>7 DEF State
<1>3. Propose(st) \in State
  <2> DEFINE kept == IF Drops(st) THEN Null ELSE st.proposal
             checks == Checks(st)
  <2>1. kept \in Proposal \cup {Null}
    BY DEF State
  <2>2. FirstAsk(checks, st.found.docs, kept) \in Proposal \cup {Null}
    BY <2>1, FirstAskIsAProposal
  <2>3. AwaitingReview(checks, st.found.docs) \subseteq DocType
    BY DEF AwaitingReview
  <2>4. Drops(st) \in BOOLEAN
    BY DEF Drops, State
  <2>5. QED
    BY <2>1, <2>2, <2>3, <2>4 DEF Propose, State
<1>4. ASSUME NEW d \in Decision \cup {Null}
      PROVE  /\ [st EXCEPT !.decision = d] \in State
             /\ [st EXCEPT !.decision = d].proposal = st.proposal
  BY DEF State
<1>5. QED
  BY <1>1, <1>2, <1>3, <1>4

LEMMA BegunIsAState ==
  ASSUME NEW blocked \in BOOLEAN, NEW programme \in BOOLEAN
  PROVE  Begun(blocked, programme) \in State
BY AgentAssumption DEF Begun, State

-----------------------------------------------------------------------------
(* Types, and what a request holds.                                         *)

LEMMA InitTyped == Init => TypeOK /\ RunsHaveState /\ ApproveIsClicked
<1> SUFFICES ASSUME Init PROVE TypeOK /\ RunsHaveState /\ ApproveIsClicked
  OBVIOUS
<1>1. <<>> \in Seq(Proposal)
  BY EmptySeq
<1>2. 0 \in 0 .. MaxLost
  BY AgentAssumption
<1>3. QED
  BY <1>1, <1>2 DEF Init, TypeOK, RunsHaveState, ApproveIsClicked

\* A finished node leaves everything typed, and the run where a state is known.
LEMMA AdvanceTyped ==
  ASSUME TypeOK, RunsHaveState, NEW r \in Run, run[r] # Null,
         NEW st \in State, NEW next \in Nodes \cup {"end"}, Advance(r, st, next)
  PROVE  /\ thread' \in [Thread -> Checkpoint \cup {Null}]
         /\ run' \in [Run -> Request_ \cup {Null}]
         /\ RunsHaveState'
         /\ \A q \in Run : run'[q] # Null =>
              run[q] # Null /\ run'[q].decision = run[q].decision
                            /\ run'[q].thread = run[q].thread
                            /\ run'[q].about = run[q].about
<1>1. run[r] \in Request_ /\ run[r].thread \in Thread
  BY DEF TypeOK, Request_
<1>2. [st |-> st, next |-> next] \in Checkpoint
  BY DEF Checkpoint
<1>3. thread' \in [Thread -> Checkpoint \cup {Null}] /\ thread'[run[r].thread] # Null
  BY <1>1, <1>2, NullAssumption DEF Advance, TypeOK
<1>4. \A t \in Thread : thread[t] # Null => thread'[t] # Null
  BY <1>1, <1>2, NullAssumption DEF Advance, TypeOK
<1>5. PICK x \in Request_ :
        /\ run' = [run EXCEPT ![r] = x]
        /\ x.thread = run[r].thread /\ x.about = run[r].about
        /\ x.decision = run[r].decision
        /\ x.at # "load" /\ x.at # "pending" /\ (x.at \in Nodes => x.st # Null)
  <2>1. CASE next = "end"
    <3> DEFINE x == [run[r] EXCEPT !.at = "answered", !.st = Null]
    <3>1. run' = [run EXCEPT ![r] = x]
      BY <1>1, <2>1 DEF Advance, Ends, TypeOK, Request_
    <3>2. x \in Request_ /\ x.thread = run[r].thread /\ x.about = run[r].about
            /\ x.decision = run[r].decision /\ x.at = "answered"
      BY <1>1 DEF Request_, Replied
    <3>3. QED
      BY <3>1, <3>2 DEF Nodes
  <2>2. CASE next # "end"
    <3> DEFINE x == [run[r] EXCEPT !.at = next, !.st = st]
    <3>1. run' = [run EXCEPT ![r] = x]
      BY <1>1, <2>2 DEF Advance, TypeOK, Request_
    <3>2. x \in Request_ /\ x.thread = run[r].thread /\ x.about = run[r].about
            /\ x.decision = run[r].decision /\ x.at = next /\ x.st = st
      BY <1>1, <2>2 DEF Request_, Nodes
    <3>3. QED
      BY <2>2, <3>1, <3>2, NullAssumption DEF Nodes
  <2>3. QED
    BY <2>1, <2>2
<1>6. run' \in [Run -> Request_ \cup {Null}]
  BY <1>5 DEF TypeOK
<1>7. RunsHaveState'
  BY <1>4, <1>5, <1>6 DEF RunsHaveState, TypeOK, Request_
<1>8. \A q \in Run : run'[q] # Null =>
        run[q] # Null /\ run'[q].decision = run[q].decision
                      /\ run'[q].thread = run[q].thread
                      /\ run'[q].about = run[q].about
  BY <1>5 DEF TypeOK
<1>9. QED
  BY <1>3, <1>6, <1>7, <1>8

\* The same of a request that ends with its thread left as it is.
LEMMA EndsTyped ==
  ASSUME TypeOK, RunsHaveState, NEW r \in Run, run[r] # Null,
         NEW how \in Replied, Ends(r, how), \A t \in Thread : thread[t] # Null => thread'[t] # Null,
         how = "pending" => run[r].st # Null /\ run[r].st.proposal # Null
  PROVE  /\ run' \in [Run -> Request_ \cup {Null}]
         /\ RunsHaveState'
         /\ \A q \in Run : run'[q] # Null =>
              run[q] # Null /\ run'[q].decision = run[q].decision
                            /\ run'[q].thread = run[q].thread
                            /\ run'[q].about = run[q].about
<1> DEFINE x == [run[r] EXCEPT !.at = how, !.st = IF how = "pending" THEN run[r].st ELSE Null]
<1>1. run[r] \in Request_
  BY DEF TypeOK
<1>2. run' = [run EXCEPT ![r] = x]
  BY <1>1 DEF Ends, TypeOK, Request_
<1>3. x \in Request_ /\ x.thread = run[r].thread /\ x.about = run[r].about
        /\ x.decision = run[r].decision /\ x.at = how
        /\ (how = "pending" => x.st = run[r].st)
  BY <1>1 DEF Request_, Replied
<1> HIDE DEF x
<1>4. run' \in [Run -> Request_ \cup {Null}]
  BY <1>2, <1>3 DEF TypeOK
<1>5. RunsHaveState'
  BY <1>2, <1>3, <1>4 DEF RunsHaveState, TypeOK, Request_, Replied, Nodes
<1>6. QED
  BY <1>2, <1>3, <1>4, <1>5 DEF TypeOK

Typed == TypeOK /\ RunsHaveState /\ ApproveIsClicked

\* Requests that only move on keep the clicks they came of.
LEMMA ClicksStay ==
  ASSUME ApproveIsClicked, approved \subseteq approved',
         \A q \in Run : run'[q] # Null =>
           run[q] # Null /\ run'[q].decision = run[q].decision
                         /\ run'[q].thread = run[q].thread
  PROVE  ApproveIsClicked'
BY DEF ApproveIsClicked

\* The agent's side.
LEMMA AgentStepTyped ==
  ASSUME Typed, NEW r \in Run, AgentStep(r) \/ Fail(r)
  PROVE  Typed'
<1> USE DEF Typed
<1>1. run[r] # Null
  BY DEF AgentStep, CheckResume, Load, Guardrail, GatherCase, ModelTurn, Sufficiency,
         ProposeAction, NoProposal, Interrupt, Settle, Respond, Fail, At, Free
<1>2. run[r] \in Request_ /\ run[r].thread \in Thread
  BY <1>1 DEF TypeOK, Request_
<1>3. run[r].at \in Nodes => run[r].st \in State
  BY <1>1, <1>2 DEF RunsHaveState, Request_
<1>4. ASSUME NEW st \in State, NEW next \in Nodes \cup {"end"}, Advance(r, st, next),
             UNCHANGED Browser, sent' \in [Thread -> Seq(Proposal)]
      PROVE  Typed'
  <2>1. /\ thread' \in [Thread -> Checkpoint \cup {Null}]
        /\ run' \in [Run -> Request_ \cup {Null}]
        /\ RunsHaveState'
        /\ \A q \in Run : run'[q] # Null =>
             run[q] # Null /\ run'[q].decision = run[q].decision
                           /\ run'[q].thread = run[q].thread
    BY <1>1, <1>4, AdvanceTyped
  <2>2. ApproveIsClicked'
    BY <1>4, <2>1, ClicksStay DEF Browser
  <2>3. QED
    BY <1>4, <2>1, <2>2 DEF TypeOK, Browser
<1>5. ASSUME NEW how \in Replied, Ends(r, how), UNCHANGED <<Browser, sent>>,
             thread' \in [Thread -> Checkpoint \cup {Null}],
             \A t \in Thread : thread[t] # Null => thread'[t] # Null,
             how = "pending" => run[r].st # Null /\ run[r].st.proposal # Null
      PROVE  Typed'
  <2>1. /\ run' \in [Run -> Request_ \cup {Null}]
        /\ RunsHaveState'
        /\ \A q \in Run : run'[q] # Null =>
             run[q] # Null /\ run'[q].decision = run[q].decision
                           /\ run'[q].thread = run[q].thread
    BY <1>1, <1>5, EndsTyped
  <2>2. ApproveIsClicked'
    BY <1>5, <2>1, ClicksStay DEF Browser
  <2>3. QED
    BY <1>5, <2>1, <2>2 DEF TypeOK, Browser
<1>6. ASSUME NEW x \in Request_, run' = [run EXCEPT ![r] = x],
             x.thread = run[r].thread, x.decision = run[r].decision,
             x.at \in Nodes => x.st # Null, x.at # "pending",
             x.at = "load" => thread[x.thread] # Null,
             UNCHANGED <<thread, Browser, sent>>
      PROVE  Typed'
  <2>1. run' \in [Run -> Request_ \cup {Null}]
    BY <1>6 DEF TypeOK
  <2>2. RunsHaveState'
    BY <1>6, <2>1 DEF RunsHaveState, TypeOK
  <2>3. ApproveIsClicked'
    BY <1>1, <1>6 DEF Browser, ApproveIsClicked, TypeOK
  <2>4. QED
    BY <1>6, <2>1, <2>2, <2>3 DEF TypeOK, Browser
<1>7. CASE CheckResume(r)
  <2> DEFINE cp == thread[run[r].thread]
  <2>1. CASE cp = Null \/ (cp # Null /\ cp.next = "end")
    BY <1>5, <1>7, <2>1 DEF CheckResume, Replied, Browser, TypeOK
  <2>2. CASE ~(cp = Null \/ (cp # Null /\ cp.next = "end"))
    <3> DEFINE x == [run[r] EXCEPT !.at = "load"]
    <3>1. x \in Request_ /\ x.thread = run[r].thread /\ x.decision = run[r].decision
            /\ x.at = "load"
      BY <1>2 DEF Request_
    <3>2. run' = [run EXCEPT ![r] = x]
      BY <1>2, <1>7, <2>2 DEF CheckResume, TypeOK, Request_
    <3>3. QED
      BY <1>6, <1>7, <2>2, <3>1, <3>2 DEF CheckResume, Browser, Nodes
  <2>3. QED
    BY <2>1, <2>2
<1>8. CASE Load(r)
  <2> DEFINE cp == thread[run[r].thread]
  <2>1. cp \in Checkpoint
    BY <1>2, <1>8 DEF Load, At, Free, RunsHaveState, TypeOK
  <2>2. CASE cp.next = "end"
    BY <1>5, <1>8, <2>2 DEF Load, Replied, Browser, TypeOK
  <2>3. CASE cp.next # "end"
    <3> DEFINE x == [run[r] EXCEPT !.at = cp.next, !.st = cp.st]
    <3>1. cp.next \in Nodes /\ cp.st \in State
      BY <2>1, <2>3 DEF Checkpoint
    <3>2. x \in Request_ /\ x.thread = run[r].thread /\ x.decision = run[r].decision
            /\ x.at = cp.next /\ x.st = cp.st
      BY <1>2, <3>1 DEF Request_
    <3>3. run' = [run EXCEPT ![r] = x]
      BY <1>2, <1>8, <2>3 DEF Load, TypeOK, Request_
    <3> HIDE DEF x, cp
    <3>4. x.st # Null /\ x.at \notin {"load", "pending"}
      BY <3>1, <3>2, NullAssumption DEF Nodes
    <3>5. UNCHANGED <<thread, Browser, sent>>
      BY <1>8 DEF Load, Browser
    <3>6. QED
      BY <1>6, <3>2, <3>3, <3>4, <3>5
  <2>4. QED
    BY <2>2, <2>3
<1>9. CASE Guardrail(r)
  BY <1>3, <1>4, <1>9 DEF Guardrail, At, Browser, Nodes, TypeOK
<1>10. CASE GatherCase(r)
  BY <1>3, <1>4, <1>10, NodesKeepState DEF GatherCase, At, Browser, Nodes, TypeOK
<1>11. CASE ModelTurn(r)
  BY <1>3, <1>4, <1>11, NodesKeepState DEF ModelTurn, At, Browser, Nodes, TypeOK
<1>12. CASE Sufficiency(r)
  BY <1>3, <1>4, <1>12 DEF Sufficiency, At, Browser, Nodes, TypeOK
<1>13. CASE ProposeAction(r)
  BY <1>3, <1>4, <1>13, NodesKeepState DEF ProposeAction, At, Browser, Nodes, TypeOK
<1>14. CASE NoProposal(r)
  BY <1>3, <1>4, <1>14, NodesKeepState DEF NoProposal, At, Browser, Nodes, TypeOK
<1>15. CASE Interrupt(r)
  <2>1. run[r].st # Null /\ run[r].st.proposal # Null
    BY <1>1, <1>15 DEF Interrupt, At, RunsHaveState, Nodes
  <2>2. QED
    BY <1>5, <1>15, <2>1 DEF Interrupt, Browser, Replied, TypeOK
<1>16. CASE Settle(r)
  <2>1. run[r].st \in State /\ run[r].st.proposal \in Proposal
    BY <1>3, <1>16 DEF Settle, At, Nodes, State
  <2>2. Append(sent[run[r].thread], run[r].st.proposal) \in Seq(Proposal)
    BY <1>2, <2>1 DEF TypeOK
  <2>3. sent' \in [Thread -> Seq(Proposal)]
    BY <1>2, <1>16, <2>2 DEF Settle, Logged, TypeOK
  <2>4. Verdict(r) \in Decision
    BY DEF Verdict, Decision
  <2>5. [run[r].st EXCEPT !.decision = Verdict(r)] \in State
    BY <2>1, <2>4, NodesKeepState
  <2>6. QED
    BY <1>4, <1>16, <2>3, <2>5 DEF Settle, Nodes
<1>17. CASE Respond(r)
  <2>1. run[r].st \in State /\ run[r].st # Null
    BY <1>1, <1>3, <1>17 DEF Respond, At, Nodes, RunsHaveState
  <2>2. CASE Cli /\ run[r].decision = Null /\ run[r].st.proposal # Null
    <3>1. [st |-> run[r].st, next |-> "end"] \in Checkpoint
      BY <2>1 DEF Checkpoint
    <3>2. /\ thread' \in [Thread -> Checkpoint \cup {Null}]
          /\ \A t \in Thread : thread[t] # Null => thread'[t] # Null
      BY <1>2, <1>17, <2>2, <3>1, NullAssumption DEF Respond, TypeOK
    <3>3. QED
      BY <1>5, <1>17, <2>1, <2>2, <3>2 DEF Respond, Replied
  <2>3. CASE ~(Cli /\ run[r].decision = Null /\ run[r].st.proposal # Null)
    BY <1>4, <1>17, <2>1, <2>3 DEF Respond, Browser, TypeOK
  <2>4. QED
    BY <2>2, <2>3
<1>18. CASE Fail(r)
  BY <1>5, <1>18 DEF Fail, Replied, Browser, TypeOK
<1>19. QED
  BY <1>7, <1>8, <1>9, <1>10, <1>11, <1>12, <1>13, <1>14, <1>15, <1>16, <1>17, <1>18
     DEF AgentStep

\* A request sent to the agent.
LEMMA PostTyped ==
  ASSUME Typed, NEW r \in Run, NEW t \in Thread, NEW about \in Thread,
         NEW d \in Decision \cup {Null}, NEW at, NEW st,
         Post(r, t, about, d, at, st),
         (at = "guardrail" /\ st \in State) \/ (at = "check" /\ st = Null),
         UNCHANGED <<thread, card, lost, sent>>,
         approved' \subseteq Thread \X Proposal, approved \subseteq approved',
         d = "approve" => \E p \in approved' : p[1] = t
  PROVE  Typed'
<1> USE DEF Typed
<1> DEFINE x == [thread |-> t, about |-> about, decision |-> d, at |-> at, st |-> st]
<1>1. x \in Request_ /\ x.at \in {"guardrail", "check"}
        /\ (x.at = "guardrail" => x.st # Null)
        /\ x.decision = d /\ x.thread = t
  BY NullAssumption DEF Request_, Nodes
<1>2. run' = [run EXCEPT ![r] = x] /\ waits' = r
  BY DEF Post
<1> HIDE DEF x
<1>3. run' \in [Run -> Request_ \cup {Null}]
  BY <1>1, <1>2 DEF TypeOK
<1>4. RunsHaveState'
  BY <1>1, <1>2, <1>3 DEF RunsHaveState, TypeOK, Nodes
<1>5. ApproveIsClicked'
  BY <1>1, <1>2 DEF ApproveIsClicked, TypeOK
<1>6. QED
  BY <1>2, <1>3, <1>4, <1>5 DEF TypeOK

\* A request that leaves.
LEMMA LeaveTyped ==
  ASSUME Typed, NEW r \in Run, run' = [run EXCEPT ![r] = Null],
         UNCHANGED <<thread, lost, approved, sent>>, waits' \in Run \cup {Null},
         card' \in [Thread -> Card \cup {Null}]
  PROVE  Typed'
<1> USE DEF Typed
<1>1. RunsHaveState' /\ ApproveIsClicked'
  BY DEF RunsHaveState, ApproveIsClicked, TypeOK
<1>2. QED
  BY <1>1 DEF TypeOK

LEMMA NextTyped == Typed /\ [Next]_vars => Typed'
<1> SUFFICES ASSUME Typed, [Next]_vars PROVE Typed'
  OBVIOUS
<1> USE DEF Typed
<1>1. ASSUME NEW r \in Run, AgentStep(r) \/ Fail(r) PROVE Typed'
  BY <1>1, AgentStepTyped
<1>2. ASSUME NEW r \in Run, Receive(r) PROVE Typed'
  <2>1. run[r] \in Request_ /\ run[r].thread \in Thread /\ run[r].about \in Thread
          /\ run[r].decision \in Decision \cup {Null}
    BY <1>2 DEF Receive, Free, TypeOK, Request_
  <2>2. card' \in [Thread -> Card \cup {Null}]
    <3>1. CASE run[r].at = "pending"
      <4>1. run[r].st \in State /\ run[r].st.proposal \in Proposal
        BY <1>2, <2>1, <3>1 DEF Receive, Free, RunsHaveState, Request_, State
      <4>2. [proposal |-> run[r].st.proposal, done |-> "open"] \in Card
        BY <4>1 DEF Card
      <4>3. QED
        BY <1>2, <2>1, <3>1, <4>2 DEF Receive, TypeOK
    <3>2. CASE run[r].at = "answered" /\ run[r].decision # Null /\ card[run[r].about] # Null
      <4>1. card[run[r].about] \in Card
        BY <2>1, <3>2 DEF TypeOK
      <4>2. [card[run[r].about] EXCEPT !.done = run[r].decision] \in Card
        BY <2>1, <3>2, <4>1 DEF Card
      <4>3. card' = [card EXCEPT ![run[r].about] =
                       [card[run[r].about] EXCEPT !.done = run[r].decision]]
        BY <1>2, <3>2 DEF Receive
      <4>4. QED
        BY <2>1, <4>2, <4>3 DEF TypeOK
    <3>3. CASE run[r].at # "pending"
               /\ ~(run[r].at = "answered" /\ run[r].decision # Null
                     /\ card[run[r].about] # Null)
      BY <1>2, <3>3 DEF Receive, TypeOK
    <3>4. QED
      BY <3>1, <3>2, <3>3
  <2>3. QED
    BY <1>2, <2>2, LeaveTyped DEF Receive
<1>3. ASSUME NEW r \in Run, GiveUp(r) PROVE Typed'
  <2>1. lost' \in 0 .. MaxLost
    BY <1>3, AgentAssumption DEF GiveUp, TypeOK
  <2>2. RunsHaveState' /\ ApproveIsClicked'
    BY <1>3 DEF GiveUp, RunsHaveState, ApproveIsClicked
  <2>3. QED
    BY <1>3, <2>1, <2>2 DEF GiveUp, TypeOK
<1>4. ASSUME NEW r \in Run, Drop(r) PROVE Typed'
  BY <1>4, LeaveTyped DEF Drop, TypeOK
<1>5. ASSUME NEW r \in Run, NEW t \in Thread, Ask(r, t) PROVE Typed'
  <2>1. PICK blocked \in BOOLEAN, programme \in BOOLEAN :
          Post(r, t, t, Null, "guardrail", Begun(blocked, programme))
    BY <1>5 DEF Ask
  <2>2. UNCHANGED <<thread, card, lost, approved, sent>>
    BY <1>5 DEF Ask
  <2>3. Begun(blocked, programme) \in State
    BY BegunIsAState
  <2>4. Null # "approve"
    BY NullAssumption DEF Decision
  <2>5. approved' \subseteq Thread \X Proposal /\ approved \subseteq approved'
    BY <2>2 DEF TypeOK
  <2>6. UNCHANGED <<thread, card, lost, sent>>
    BY <2>2
  <2>7. QED
    BY <2>1, <2>3, <2>4, <2>5, <2>6, PostTyped
<1>6. ASSUME NEW r \in Run, NEW t \in Thread, Decide(r, t) PROVE Typed'
  <2>1. PICK d \in Decision :
          /\ Post(r, t, t, d, "check", Null)
          /\ approved' = IF d = "approve" THEN approved \cup {<<t, card[t].proposal>>}
                         ELSE approved
    BY <1>6 DEF Decide
  <2>2. card[t].proposal \in Proposal
    BY <1>6 DEF Decide, Open, TypeOK, Card
  <2>3. /\ approved' \subseteq Thread \X Proposal /\ approved \subseteq approved'
        /\ d = "approve" => \E p \in approved' : p[1] = t
    <3> DEFINE p == <<t, card[t].proposal>>
    <3>1. p \in Thread \X Proposal /\ p[1] = t
      BY <2>2
    <3>2. approved' = IF d = "approve" THEN approved \cup {p} ELSE approved
      BY <2>1
    <3> HIDE DEF p
    <3>3. QED
      BY <3>1, <3>2 DEF TypeOK
  <2>4. UNCHANGED <<thread, card, lost, sent>>
    BY <1>6 DEF Decide
  <2>5. QED
    BY <2>1, <2>3, <2>4, PostTyped
<1>7. ASSUME NEW r \in Run, NEW t \in Thread, NEW again \in Thread, ApproveCli(r, t, again)
      PROVE  Typed'
  <2>1. PICK blocked \in BOOLEAN, programme \in BOOLEAN :
          Post(r, again, t, "approve", "guardrail", Begun(blocked, programme))
    BY <1>7 DEF ApproveCli
  <2>2. card[t].proposal \in Proposal
    BY <1>7 DEF ApproveCli, Open, TypeOK, Card
  <2>3. /\ approved' \subseteq Thread \X Proposal /\ approved \subseteq approved'
        /\ \E p \in approved' : p[1] = again
    <3> DEFINE p == <<again, card[t].proposal>>
    <3>1. p \in Thread \X Proposal /\ p[1] = again
      BY <2>2
    <3>2. approved' = approved \cup {p}
      BY <1>7 DEF ApproveCli
    <3> HIDE DEF p
    <3>3. QED
      BY <3>1, <3>2 DEF TypeOK
  <2>4. Begun(blocked, programme) \in State
    BY BegunIsAState
  <2>5. UNCHANGED <<thread, card, lost, sent>>
    BY <1>7 DEF ApproveCli
  <2>6. "approve" \in Decision
    BY DEF Decision
  <2>7. QED
    BY <2>1, <2>3, <2>4, <2>5, <2>6, PostTyped
<1>8. CASE Forget
  BY <1>8 DEF Forget, TypeOK, RunsHaveState, ApproveIsClicked
<1>9. CASE Restart
  BY <1>9 DEF Restart, TypeOK, RunsHaveState, ApproveIsClicked
<1>10. CASE UNCHANGED vars
  BY <1>10 DEF vars, TypeOK, RunsHaveState, ApproveIsClicked
<1>11. QED
  BY <1>1, <1>2, <1>3, <1>4, <1>5, <1>6, <1>7, <1>8, <1>9, <1>10 DEF Next

\* The checkpoints, requests and cards of the agent are always well typed:
\* every node the code runs finds the state it expects.
THEOREM AgentTypeCorrect == Spec => []TypeOK
<1>1. Init => Typed
  BY InitTyped DEF Typed
<1>2. Typed => TypeOK
  BY DEF Typed
<1>3. QED
  BY <1>1, <1>2, NextTyped, PTL DEF Spec

LEMMA AlwaysTyped == Spec => []Typed
<1>1. Init => Typed
  BY InitTyped DEF Typed
<1>2. QED
  BY <1>1, NextTyped, PTL DEF Spec

\* Nothing is sent on a thread nobody clicked "approve" for, through the service
\* or the command line (human_interrupt, main).
THEOREM NothingEverSentUnasked == Spec => []NothingSentUnasked
<1>1. Init => NothingSentUnasked
  BY DEF Init, NothingSentUnasked
<1>2. Typed /\ NothingSentUnasked /\ [Next]_vars => NothingSentUnasked'
  <2> SUFFICES ASSUME Typed, NothingSentUnasked, [Next]_vars PROVE NothingSentUnasked'
    OBVIOUS
  <2>1. ASSUME NEW r \in Run, Settle(r) PROVE NothingSentUnasked'
    <3>1. run[r] \in Request_ /\ run[r].thread \in Thread
      BY <2>1 DEF Settle, At, Free, Typed, TypeOK, Request_
    <3>2. run[r].decision = "approve" => \E p \in approved : p[1] = run[r].thread
      BY <2>1 DEF Settle, At, Free, Typed, ApproveIsClicked
    <3>3. approved' = approved
      BY <2>1 DEF Settle, Browser
    <3>4. \A t \in Thread : t # run[r].thread => sent'[t] = sent[t]
      BY <2>1, <3>1 DEF Settle, Logged, Typed, TypeOK
    <3>5. run[r].decision # "approve" => sent' = sent
      BY <2>1 DEF Settle, Logged, Verdict
    <3>6. QED
      BY <3>2, <3>3, <3>4, <3>5 DEF NothingSentUnasked
  <2>2. CASE sent' = sent /\ approved \subseteq approved'
    BY <2>2 DEF NothingSentUnasked
  <2>3. QED
    BY <2>1, <2>2 DEF Next, AgentStep, CheckResume, Load, Guardrail, GatherCase, ModelTurn,
       Sufficiency, ProposeAction, NoProposal, Interrupt, Respond, Fail, Receive, GiveUp,
       Drop, Ask, Decide, ApproveCli, Forget, Restart, Browser, vars
<1>3. QED
  BY <1>1, <1>2, AlwaysTyped, PTL DEF Spec

-----------------------------------------------------------------------------
(* The approval gate of the service.                                        *)

\* A request that moves on without writing the checkpoint keeps the gate.
LEMMA MoveKeepsGate ==
  ASSUME Typed, Gate, NEW r \in Run, run[r] # Null, NEW x \in Request_,
         run' = [run EXCEPT ![r] = x], UNCHANGED <<thread, card, approved>>,
         x.thread = run[r].thread, x.decision = run[r].decision,
         x.decision = Null =>
           /\ x.at \notin {"check", "load"}
           /\ x.at \in {"human_interrupt", "pending"} =>
                run[r].at = "human_interrupt" /\ x.st = run[r].st,
         x.decision # Null =>
           /\ x.at \in {"load", "human_interrupt", "respond_and_record",
                        "answered", "expired", "failed"}
           /\ x.at \in {"human_interrupt", "respond_and_record"} =>
                thread[x.thread] # Null /\ x.st.proposal = thread[x.thread].st.proposal
  PROVE  Gate'
<1> USE DEF Typed, Gate
<1>1. /\ run \in [Run -> Request_ \cup {Null}]
      /\ run' \in [Run -> Request_ \cup {Null}]
      /\ run'[r] = x
      /\ \A q \in Run : q # r => run'[q] = run[q]
  BY DEF TypeOK
<1>2. \A q \in Run : run'[q] # Null =>
        run[q] # Null /\ run'[q].thread = run[q].thread /\ run'[q].decision = run[q].decision
  BY <1>1
<1>3. QuestionsAreAlone'
  <2> SUFFICES ASSUME NEW q \in Run, run'[q] # Null, run'[q].decision = Null
               PROVE  /\ run'[q].at \notin {"check", "load"}
                      /\ card[run'[q].thread] = Null
                      /\ \A o \in Run : (o # q /\ run'[o] # Null) =>
                           run'[o].thread # run'[q].thread
                      /\ run'[q].at \in {"human_interrupt", "pending"} =>
                           /\ thread[run'[q].thread] # Null
                           /\ thread[run'[q].thread].next = "human_interrupt"
                           /\ thread[run'[q].thread].st.proposal = run'[q].st.proposal
    BY DEF QuestionsAreAlone
  <2>1. CASE q = r
    BY <1>1, <1>2, <2>1 DEF QuestionsAreAlone
  <2>2. CASE q # r
    BY <1>1, <1>2, <2>2 DEF QuestionsAreAlone
  <2>3. QED
    BY <2>1, <2>2
<1>4. ResumedAgree'
  <2> SUFFICES ASSUME NEW q \in Run, run'[q] # Null, run'[q].decision # Null
               PROVE  /\ run'[q].at \in {"check", "load", "human_interrupt", "respond_and_record",
                                         "answered", "expired", "failed"}
                      /\ thread[run'[q].thread] # Null => thread[run'[q].thread].next \in Shown
                      /\ run'[q].at \in {"human_interrupt", "respond_and_record"} =>
                           /\ thread[run'[q].thread] # Null
                           /\ run'[q].st.proposal = thread[run'[q].thread].st.proposal
    BY DEF ResumedAgree
  <2>1. CASE q = r
    BY <1>1, <1>2, <2>1 DEF ResumedAgree
  <2>2. CASE q # r
    BY <1>1, <1>2, <2>2 DEF ResumedAgree
  <2>3. QED
    BY <2>1, <2>2
<1>5. CardsAgree'
  BY DEF CardsAgree
<1>6. ApprovedAgree'
  BY <1>2 DEF ApprovedAgree
<1>7. QED
  BY <1>3, <1>4, <1>5, <1>6

\* The same of a request that ends and leaves the checkpoint alone.
LEMMA EndKeepsGate ==
  ASSUME Typed, Gate, NEW r \in Run, run[r] # Null, NEW how \in Replied, Ends(r, how),
         UNCHANGED <<thread, card, approved>>,
         run[r].decision = Null => (how = "pending" => run[r].at = "human_interrupt"),
         run[r].decision # Null => how # "pending"
  PROVE  Gate'
<1> DEFINE x == [run[r] EXCEPT !.at = how, !.st = IF how = "pending" THEN run[r].st ELSE Null]
<1>1. run[r] \in Request_
  BY DEF Typed, TypeOK
<1>2. run' = [run EXCEPT ![r] = x]
  BY <1>1 DEF Ends, Typed, TypeOK, Request_
<1>3. x \in Request_ /\ x.thread = run[r].thread /\ x.decision = run[r].decision
        /\ x.at = how /\ (how = "pending" => x.st = run[r].st)
  BY <1>1 DEF Request_, Replied
<1> HIDE DEF x
<1>4. x.at \in {"answered", "pending", "expired", "failed"}
  BY <1>3 DEF Replied
<1>5. QED
  BY <1>2, <1>3, <1>4, MoveKeepsGate

\* A node that is done keeps the gate: a question may do what it likes with its
\* own thread, a resumed run only goes on with the proposal it has.
LEMMA AdvanceKeepsGate ==
  ASSUME Typed, Gate, NEW r \in Run, run[r] # Null,
         NEW st \in State, NEW next \in Nodes \cup {"end"}, Advance(r, st, next),
         UNCHANGED <<card, approved>>,
         run[r].decision # Null =>
           /\ run[r].at \in {"human_interrupt", "respond_and_record"}
           /\ st.proposal = run[r].st.proposal
           /\ next \in {"respond_and_record", "end"}
  PROVE  Gate'
<1> USE DEF Typed, Gate
<1> DEFINE t == run[r].thread
           cp == [st |-> st, next |-> next]
<1>1. run[r] \in Request_ /\ t \in Thread /\ cp \in Checkpoint /\ cp # Null
  BY NullAssumption DEF TypeOK, Request_, Checkpoint
<1>2. /\ thread' = [thread EXCEPT ![t] = cp] /\ thread'[t] = cp
      /\ \A u \in Thread : u # t => thread'[u] = thread[u]
  BY <1>1 DEF Advance, TypeOK
<1>3. cp.st = st /\ cp.next = next
  OBVIOUS
<1>4. PICK x \in Request_ :
        /\ run' = [run EXCEPT ![r] = x]
        /\ x.thread = t /\ x.decision = run[r].decision
        /\ x.at = IF next = "end" THEN "answered" ELSE next
        /\ next # "end" => x.st = st
  <2>1. CASE next = "end"
    <3> DEFINE x == [run[r] EXCEPT !.at = "answered", !.st = Null]
    <3>1. run' = [run EXCEPT ![r] = x]
      BY <1>1, <2>1 DEF Advance, Ends, TypeOK, Request_
    <3>2. x \in Request_ /\ x.thread = t /\ x.decision = run[r].decision /\ x.at = "answered"
      BY <1>1 DEF Request_, Replied
    <3>3. QED
      BY <2>1, <3>1, <3>2
  <2>2. CASE next # "end"
    <3> DEFINE x == [run[r] EXCEPT !.at = next, !.st = st]
    <3>1. run' = [run EXCEPT ![r] = x]
      BY <1>1, <2>2 DEF Advance, TypeOK, Request_
    <3>2. x \in Request_ /\ x.thread = t /\ x.decision = run[r].decision
            /\ x.at = next /\ x.st = st
      BY <1>1, <2>2 DEF Request_, Nodes
    <3>3. QED
      BY <2>2, <3>1, <3>2
  <2>3. QED
    BY <2>1, <2>2
<1>5. /\ run'[r] = x
      /\ \A q \in Run : q # r => run'[q] = run[q]
      /\ \A q \in Run : run[q] # Null => run[q].thread \in Thread
  BY <1>4 DEF TypeOK, Request_
<1>6. \A q \in Run : run'[q] # Null =>
        run[q] # Null /\ run'[q].thread = run[q].thread /\ run'[q].decision = run[q].decision
  BY <1>4, <1>5
<1> HIDE DEF cp
<1>7. CASE run[r].decision = Null
  <2>1. \A q \in Run : (q # r /\ run[q] # Null) => run[q].thread # t
    BY <1>7 DEF QuestionsAreAlone
  <2>2. card[t] = Null
    BY <1>7 DEF QuestionsAreAlone
  <2>3. x.at \in (Nodes \cup {"answered"})
    BY <1>4
  <2>4. QuestionsAreAlone'
    <3> SUFFICES ASSUME NEW q \in Run, run'[q] # Null, run'[q].decision = Null
                 PROVE  /\ run'[q].at \notin {"check", "load"}
                        /\ card[run'[q].thread] = Null
                        /\ \A o \in Run : (o # q /\ run'[o] # Null) =>
                             run'[o].thread # run'[q].thread
                        /\ run'[q].at \in {"human_interrupt", "pending"} =>
                             /\ thread'[run'[q].thread] # Null
                             /\ thread'[run'[q].thread].next = "human_interrupt"
                             /\ thread'[run'[q].thread].st.proposal = run'[q].st.proposal
      BY DEF QuestionsAreAlone
    <3>1. CASE q = r
      <4>1. x.at \notin {"check", "load", "pending"}
        BY <2>3 DEF Nodes
      <4>2. x.at = "human_interrupt" => next = "human_interrupt" /\ x.st = st
        BY <1>4
      <4>3. QED
        BY <1>1, <1>2, <1>3, <1>5, <1>6, <1>4, <2>1, <2>2, <3>1, <4>1, <4>2
    <3>2. CASE q # r
      BY <1>2, <1>5, <1>6, <2>1, <3>2 DEF QuestionsAreAlone
    <3>3. QED
      BY <3>1, <3>2
  <2>5. ResumedAgree'
    BY <1>2, <1>4, <1>5, <1>6, <1>7, <2>1 DEF ResumedAgree
  <2>6. CardsAgree'
    BY <1>2, <2>2 DEF CardsAgree
  <2>7. ApprovedAgree'
    <3>1. run'[r].decision # "approve"
      BY <1>4, <1>5, <1>7, NullAssumption DEF Decision
    <3>2. QED
      BY <1>2, <1>5, <1>6, <2>1, <3>1 DEF ApprovedAgree
  <2>8. QED
    BY <2>4, <2>5, <2>6, <2>7
<1>8. CASE run[r].decision # Null
  <2>1. /\ thread[t] # Null /\ st.proposal = thread[t].st.proposal
        /\ next \in {"respond_and_record", "end"}
    BY <1>8 DEF ResumedAgree
  <2>2. \A q \in Run : (run[q] # Null /\ run[q].decision = Null) => run[q].thread # t
    BY <1>8 DEF QuestionsAreAlone
  <2>3. QuestionsAreAlone'
    BY <1>2, <1>4, <1>5, <1>6, <1>8, <2>2 DEF QuestionsAreAlone
  <2>4. ResumedAgree'
    <3> SUFFICES ASSUME NEW q \in Run, run'[q] # Null, run'[q].decision # Null
                 PROVE  /\ run'[q].at \in {"check", "load", "human_interrupt",
                                           "respond_and_record", "answered", "expired", "failed"}
                        /\ thread'[run'[q].thread] # Null =>
                             thread'[run'[q].thread].next \in Shown
                        /\ run'[q].at \in {"human_interrupt", "respond_and_record"} =>
                             /\ thread'[run'[q].thread] # Null
                             /\ run'[q].st.proposal = thread'[run'[q].thread].st.proposal
      BY DEF ResumedAgree
    <3>1. CASE q = r
      BY <1>1, <1>2, <1>3, <1>4, <1>5, <2>1, <3>1 DEF Shown
    <3>2. CASE q # r /\ run[q].thread = t
      BY <1>1, <1>2, <1>3, <1>5, <1>6, <2>1, <3>2 DEF ResumedAgree, Shown
    <3>3. CASE q # r /\ run[q].thread # t
      BY <1>2, <1>5, <1>6, <3>3 DEF ResumedAgree
    <3>4. QED
      BY <3>1, <3>2, <3>3
  <2>5. CardsAgree'
    <3> SUFFICES ASSUME NEW u \in Thread, card[u] # Null, thread'[u] # Null
                 PROVE  /\ thread'[u].next \in Shown
                        /\ thread'[u].st.proposal = card[u].proposal
      BY DEF CardsAgree
    <3>1. CASE u = t
      BY <1>2, <1>3, <2>1, <3>1 DEF CardsAgree, Shown
    <3>2. CASE u # t
      BY <1>2, <3>2 DEF CardsAgree
    <3>3. QED
      BY <3>1, <3>2
  <2>6. ApprovedAgree'
    <3> SUFFICES ASSUME NEW q \in Run, run'[q] # Null, run'[q].decision = "approve",
                        thread'[run'[q].thread] # Null
                 PROVE  <<run'[q].thread, thread'[run'[q].thread].st.proposal>> \in approved
      BY DEF ApprovedAgree
    <3>1. run[q] # Null /\ run[q].decision = "approve" /\ run'[q].thread = run[q].thread
      BY <1>6
    <3>2. CASE run[q].thread = t
      BY <1>2, <1>3, <2>1, <3>1, <3>2 DEF ApprovedAgree
    <3>3. CASE run[q].thread # t
      BY <1>2, <1>5, <3>1, <3>3 DEF ApprovedAgree
    <3>4. QED
      BY <3>2, <3>3
  <2>7. QED
    BY <2>3, <2>4, <2>5, <2>6
<1>9. QED
  BY <1>7, <1>8

\* A new request keeps the gate: a question on a thread of its own, a decision
\* on a card that is open, recorded when it is an approval.
LEMMA PostKeepsGate ==
  ASSUME Typed, Gate, NEW r \in Run, NEW t \in Thread, NEW d \in Decision \cup {Null},
         NEW at, NEW st, Post(r, t, t, d, at, st), UNCHANGED <<thread, card>>,
         approved \subseteq approved',
         d = Null => at = "guardrail" /\ Unstarted(t),
         d # Null => at = "check" /\ card[t] # Null,
         d = "approve" => <<t, card[t].proposal>> \in approved'
  PROVE  Gate'
<1> USE DEF Typed, Gate
<1> DEFINE x == [thread |-> t, about |-> t, decision |-> d, at |-> at, st |-> st]
<1>1. run' = [run EXCEPT ![r] = x] /\ run[r] = Null
  BY DEF Post, Free
<1>2. x.thread = t /\ x.decision = d /\ x.at = at
  OBVIOUS
<1> HIDE DEF x
<1>3. run'[r] = x /\ \A q \in Run : q # r => run'[q] = run[q]
  BY <1>1 DEF TypeOK
<1>4. CASE d = Null
  <2>1. /\ card[t] = Null /\ thread[t] = Null
        /\ \A q \in Run : run[q] # Null => run[q].thread # t
    BY <1>4 DEF Unstarted, Free
  <2>2. QuestionsAreAlone'
    BY <1>1, <1>2, <1>3, <1>4, <2>1 DEF QuestionsAreAlone
  <2>3. ResumedAgree'
    BY <1>2, <1>3, <1>4 DEF ResumedAgree
  <2>4. CardsAgree'
    BY DEF CardsAgree
  <2>5. ApprovedAgree'
    BY <1>2, <1>3, <2>1 DEF ApprovedAgree
  <2>6. QED
    BY <2>2, <2>3, <2>4, <2>5
<1>5. CASE d # Null
  <2>1. \A q \in Run : (run[q] # Null /\ run[q].decision = Null) => run[q].thread # t
    BY <1>5 DEF QuestionsAreAlone
  <2>2. thread[t] # Null => thread[t].next \in Shown /\ thread[t].st.proposal = card[t].proposal
    BY <1>5 DEF CardsAgree
  <2>3. QuestionsAreAlone'
    BY <1>1, <1>2, <1>3, <1>5, <2>1 DEF QuestionsAreAlone
  <2>4. ResumedAgree'
    BY <1>2, <1>3, <1>5, <2>2 DEF ResumedAgree
  <2>5. CardsAgree'
    BY DEF CardsAgree
  <2>6. ApprovedAgree'
    BY <1>2, <1>3, <2>2 DEF ApprovedAgree
  <2>7. QED
    BY <2>3, <2>4, <2>5, <2>6
<1>6. QED
  BY <1>4, <1>5

LEMMA NextKeepsGate ==
  ASSUME Cli = FALSE, Typed, Gate, [Next]_vars
  PROVE  Gate'
<1> USE DEF Typed, Gate
<1>1. ASSUME NEW r \in Run, AgentStep(r) \/ Fail(r) PROVE Gate'
  <2>1. run[r] # Null
    BY <1>1 DEF AgentStep, CheckResume, Load, Guardrail, GatherCase, ModelTurn, Sufficiency,
           ProposeAction, NoProposal, Interrupt, Settle, Respond, Fail, At, Free
  <2>2. run[r] \in Request_ /\ run[r].thread \in Thread
    BY <2>1 DEF TypeOK, Request_
  <2>3. run[r].at \in Nodes => run[r].st \in State
    BY <2>1, <2>2 DEF RunsHaveState, Request_
  <2>4. run[r].decision # Null =>
          run[r].at \in {"check", "load", "human_interrupt", "respond_and_record",
                        "answered", "expired", "failed"}
    BY <2>1 DEF ResumedAgree
  <2>5. CASE CheckResume(r)
    <3>1. run[r].decision # Null
      BY <2>1, <2>5 DEF CheckResume, At, QuestionsAreAlone
    <3>2. CASE Ends(r, "expired")
      BY <2>1, <2>5, <3>1, <3>2, EndKeepsGate DEF CheckResume, Replied
    <3>3. CASE run' = [run EXCEPT ![r].at = "load"]
      <4> DEFINE x == [run[r] EXCEPT !.at = "load"]
      <4>1. x \in Request_ /\ x.thread = run[r].thread /\ x.decision = run[r].decision
              /\ x.at = "load"
        BY <2>2 DEF Request_
      <4>2. run' = [run EXCEPT ![r] = x]
        BY <2>2, <3>3 DEF TypeOK, Request_
      <4>3. UNCHANGED <<thread, card, approved>>
        BY <2>5 DEF CheckResume
      <4> HIDE DEF x
      <4>4. QED
        BY <2>1, <3>1, <4>1, <4>2, <4>3, MoveKeepsGate
    <3>4. QED
      BY <2>5, <3>2, <3>3 DEF CheckResume
  <2>6. CASE Load(r)
    <3> DEFINE cp == thread[run[r].thread]
    <3>1. run[r].decision # Null
      BY <2>1, <2>6 DEF Load, At, QuestionsAreAlone
    <3>2. cp # Null /\ cp \in Checkpoint /\ cp.next \in Shown
      BY <2>1, <2>2, <2>6, <3>1 DEF Load, At, RunsHaveState, TypeOK, ResumedAgree
    <3>3. CASE cp.next = "end"
      BY <2>1, <2>6, <3>1, <3>3, EndKeepsGate DEF Load, Replied
    <3>4. CASE cp.next # "end"
      <4> DEFINE x == [run[r] EXCEPT !.at = cp.next, !.st = cp.st]
      <4>1. cp.next \in {"human_interrupt", "respond_and_record"} /\ cp.st \in State
        BY <3>2, <3>4 DEF Checkpoint, Shown
      <4>2. x \in Request_ /\ x.thread = run[r].thread /\ x.decision = run[r].decision
              /\ x.at = cp.next /\ x.st = cp.st
        BY <2>2, <4>1 DEF Request_, Nodes
      <4>3. run' = [run EXCEPT ![r] = x]
        BY <2>2, <2>6, <3>4 DEF Load, TypeOK, Request_
      <4>4. UNCHANGED <<thread, card, approved>>
        BY <2>6 DEF Load
      <4>5. x.at \in {"load", "human_interrupt", "respond_and_record"}
              /\ thread[x.thread] # Null /\ x.st.proposal = thread[x.thread].st.proposal
        BY <3>2, <4>1, <4>2
      <4> HIDE DEF x
      <4>6. QED
        BY <2>1, <3>1, <4>2, <4>3, <4>4, <4>5, MoveKeepsGate
    <3>5. QED
      BY <3>3, <3>4
  <2>7. ASSUME NEW st \in State, NEW next \in Nodes \cup {"end"}, Advance(r, st, next),
               UNCHANGED Browser, run[r].decision = Null
        PROVE  Gate'
    BY <2>1, <2>7, AdvanceKeepsGate DEF Browser
  <2>8. CASE Guardrail(r)
    BY <2>3, <2>4, <2>7, <2>8 DEF Guardrail, At, Nodes
  <2>9. CASE GatherCase(r)
    BY <2>3, <2>4, <2>7, <2>9, NodesKeepState DEF GatherCase, At, Nodes
  <2>10. CASE ModelTurn(r)
    BY <2>3, <2>4, <2>7, <2>10, NodesKeepState DEF ModelTurn, At, Nodes
  <2>11. CASE Sufficiency(r)
    BY <2>3, <2>4, <2>7, <2>11 DEF Sufficiency, At, Nodes
  <2>12. CASE ProposeAction(r)
    BY <2>3, <2>4, <2>7, <2>12, NodesKeepState DEF ProposeAction, At, Nodes
  <2>13. CASE NoProposal(r)
    <3>1. [run[r].st EXCEPT !.decision = Null] \in State
            /\ [run[r].st EXCEPT !.decision = Null].proposal = run[r].st.proposal
      BY <2>3, <2>13, NodesKeepState DEF NoProposal, At, Nodes
    <3>2. QED
      BY <2>1, <2>13, <3>1, AdvanceKeepsGate DEF NoProposal, At, Browser, Nodes
  <2>14. CASE Interrupt(r)
    BY <2>1, <2>14, EndKeepsGate DEF Interrupt, At, Browser, Replied
  <2>15. CASE Settle(r)
    <3>1. Verdict(r) \in Decision
      BY DEF Verdict, Decision
    <3>2. [run[r].st EXCEPT !.decision = Verdict(r)] \in State
            /\ [run[r].st EXCEPT !.decision = Verdict(r)].proposal = run[r].st.proposal
      BY <2>3, <2>15, <3>1, NodesKeepState DEF Settle, At, Nodes
    <3>3. QED
      BY <2>1, <2>15, <3>2, AdvanceKeepsGate DEF Settle, At, Browser, Nodes
  <2>16. CASE Respond(r)
    <3>1. Advance(r, run[r].st, "end") /\ UNCHANGED Browser
      BY <2>16 DEF Respond
    <3>2. QED
      BY <2>1, <2>3, <2>16, <3>1, AdvanceKeepsGate DEF Respond, At, Browser, Nodes
  <2>17. CASE Fail(r)
    BY <2>1, <2>17, EndKeepsGate DEF Fail, Browser, Replied
  <2>18. QED
    BY <1>1, <2>5, <2>6, <2>8, <2>9, <2>10, <2>11, <2>12, <2>13, <2>14, <2>15, <2>16, <2>17
       DEF AgentStep
<1>2. ASSUME NEW r \in Run, run' = [run EXCEPT ![r] = Null],
             UNCHANGED <<thread, card, approved>>
      PROVE  Gate'
  BY <1>2 DEF TypeOK, QuestionsAreAlone, ResumedAgree, CardsAgree, ApprovedAgree
<1>3. ASSUME NEW r \in Run, Receive(r) PROVE Gate'
  <2> DEFINE t == run[r].thread
             about == run[r].about
  <2>1. run[r] \in Request_ /\ run[r] # Null /\ t \in Thread /\ about \in Thread
    BY <1>3 DEF Receive, Free, TypeOK, Request_
  <2>2. run'[r] = Null /\ \A q \in Run : q # r => run'[q] = run[q]
    BY <1>3 DEF Receive, TypeOK
  <2>3. UNCHANGED <<thread, approved>>
    BY <1>3 DEF Receive
  <2>4. CASE run[r].at = "pending"
    <3>1. run[r].decision = Null
      BY <2>1, <2>4 DEF ResumedAgree
    <3>2. /\ thread[t] # Null /\ thread[t].next = "human_interrupt"
          /\ thread[t].st.proposal = run[r].st.proposal
          /\ \A q \in Run : (q # r /\ run[q] # Null) => run[q].thread # t
      BY <2>1, <2>4, <3>1 DEF QuestionsAreAlone
    <3>3. /\ card'[t] = [proposal |-> run[r].st.proposal, done |-> "open"]
          /\ \A u \in Thread : u # t => card'[u] = card[u]
      BY <1>3, <2>1, <2>4 DEF Receive, TypeOK
    <3>4. card'[t].proposal = run[r].st.proposal
      BY <3>3
    <3>5. QuestionsAreAlone'
      <4>1. ASSUME NEW q \in Run, run'[q] # Null, run'[q].decision = Null
            PROVE  q # r /\ run'[q] = run[q] /\ card'[run[q].thread] = Null
        <5>1. q # r /\ run'[q] = run[q] /\ run[q] # Null
          BY <2>2, <4>1
        <5>2. run[q].thread \in Thread /\ run[q].thread # t
          BY <3>2, <5>1 DEF TypeOK, Request_
        <5>3. card[run[q].thread] = Null
          BY <4>1, <5>1 DEF QuestionsAreAlone
        <5>4. QED
          BY <3>3, <5>1, <5>2, <5>3
      <4>2. QED
        BY <2>2, <2>3, <4>1 DEF QuestionsAreAlone
    <3>6. ResumedAgree'
      BY <2>2, <2>3 DEF ResumedAgree
    <3>7. CardsAgree'
      BY <2>3, <3>2, <3>3, <3>4 DEF CardsAgree, Shown
    <3>8. ApprovedAgree'
      BY <2>2, <2>3 DEF ApprovedAgree
    <3>9. QED
      BY <3>5, <3>6, <3>7, <3>8
  <2>5. CASE run[r].at = "answered" /\ run[r].decision # Null /\ card[about] # Null
    <3>1. card[about] \in Card
      BY <2>1, <2>5 DEF TypeOK
    <3>2. card' = [card EXCEPT ![about] = [card[about] EXCEPT !.done = run[r].decision]]
      BY <1>3, <2>5 DEF Receive
    <3>3. [card[about] EXCEPT !.done = run[r].decision].proposal = card[about].proposal
      BY <3>1 DEF Card
    <3>4. \A u \in Thread : card[u] # Null =>  card'[u].proposal = card[u].proposal
      BY <2>1, <3>2, <3>3 DEF TypeOK
    <3>5. \A u \in Thread : card[u] = Null => card'[u] = Null
      BY <2>1, <2>5, <3>2 DEF TypeOK
    <3>6. QuestionsAreAlone'
      <4>1. ASSUME NEW q \in Run, run'[q] # Null, run'[q].decision = Null
            PROVE  run'[q] = run[q] /\ card'[run[q].thread] = Null
        <5>1. q # r /\ run'[q] = run[q] /\ run[q] # Null
          BY <2>2, <4>1
        <5>2. run[q].thread \in Thread
          BY <5>1 DEF TypeOK, Request_
        <5>3. card[run[q].thread] = Null
          BY <4>1, <5>1 DEF QuestionsAreAlone
        <5>4. QED
          BY <3>5, <5>1, <5>2, <5>3
      <4>2. QED
        BY <2>2, <2>3, <4>1 DEF QuestionsAreAlone
    <3>7. ResumedAgree'
      BY <2>2, <2>3 DEF ResumedAgree
    <3>8. CardsAgree'
      BY <2>3, <3>4, <3>5 DEF CardsAgree
    <3>9. ApprovedAgree'
      BY <2>2, <2>3 DEF ApprovedAgree
    <3>10. QED
      BY <3>6, <3>7, <3>8, <3>9
  <2>6. CASE card' = card
    BY <1>2, <1>3, <2>6 DEF Receive
  <2>7. QED
    BY <1>3, <2>4, <2>5, <2>6 DEF Receive
<1>4. ASSUME NEW r \in Run, Drop(r) PROVE Gate'
  BY <1>2, <1>4 DEF Drop
<1>5. CASE UNCHANGED <<thread, run, card, approved>>
  BY <1>5 DEF QuestionsAreAlone, ResumedAgree, CardsAgree, ApprovedAgree
<1>6. ASSUME NEW r \in Run, NEW t \in Thread, Ask(r, t) PROVE Gate'
  <2>1. PICK blocked \in BOOLEAN, programme \in BOOLEAN :
          Post(r, t, t, Null, "guardrail", Begun(blocked, programme))
    BY <1>6 DEF Ask
  <2>2. UNCHANGED <<thread, card>> /\ approved \subseteq approved' /\ Unstarted(t)
    BY <1>6 DEF Ask
  <2>3. Null # "approve"
    BY NullAssumption DEF Decision
  <2>4. QED
    BY <2>1, <2>2, <2>3, PostKeepsGate
<1>7. ASSUME NEW r \in Run, NEW t \in Thread, Decide(r, t) PROVE Gate'
  <2>1. PICK d \in Decision :
          /\ Post(r, t, t, d, "check", Null)
          /\ approved' = IF d = "approve" THEN approved \cup {<<t, card[t].proposal>>}
                         ELSE approved
    BY <1>7 DEF Decide
  <2>2. UNCHANGED <<thread, card>> /\ card[t] # Null /\ d # Null
    BY <1>7, NullAssumption DEF Decide, Open
  <2>3. approved \subseteq approved' /\ (d = "approve" => <<t, card[t].proposal>> \in approved')
    BY <2>1
  <2>4. QED
    BY <2>1, <2>2, <2>3, PostKeepsGate
<1>8. CASE Forget
  <2>1. \A t \in Thread : card'[t] # Null => card'[t] = card[t]
    BY <1>8 DEF Forget
  <2>2. UNCHANGED <<thread, run, approved>>
    BY <1>8 DEF Forget
  <2>3. QuestionsAreAlone'
    BY <2>1, <2>2 DEF QuestionsAreAlone, TypeOK, Request_
  <2>4. ResumedAgree' /\ CardsAgree' /\ ApprovedAgree'
    BY <2>1, <2>2 DEF ResumedAgree, CardsAgree, ApprovedAgree
  <2>5. QED
    BY <2>3, <2>4
<1>9. CASE Restart
  BY <1>9 DEF Restart, QuestionsAreAlone, ResumedAgree, CardsAgree, ApprovedAgree
<1>10. QED
  BY <1>1, <1>3, <1>4, <1>5, <1>6, <1>7, <1>8, <1>9 DEF Next, GiveUp, ApproveCli, vars

\* What requests hold stays true of checkpoints, cards and clicks, whatever
\* interleaves with them.
THEOREM AgentAlwaysInductive == Spec => []Inductive
<1>1. Init => Typed /\ (~Cli => Gate)
  <2>1. Init => Gate
    BY DEF Init, Gate, QuestionsAreAlone, ResumedAgree, CardsAgree, ApprovedAgree
  <2>2. QED
    BY <2>1, InitTyped DEF Typed
<1>2. Typed /\ (~Cli => Gate) /\ [Next]_vars => Typed' /\ (~Cli => Gate)'
  <2> SUFFICES ASSUME Typed, ~Cli => Gate, [Next]_vars PROVE Typed' /\ (~Cli => Gate)'
    OBVIOUS
  <2>1. Typed'
    BY NextTyped
  <2>2. ~Cli => Gate'
    BY NextKeepsGate, AgentAssumption
  <2>3. QED
    BY <2>1, <2>2
<1>3. Typed /\ (~Cli => Gate) => Inductive
  BY DEF Typed, Inductive
<1>4. QED
  BY <1>1, <1>2, <1>3, PTL DEF Spec

\* Behind the service nothing runs that reaches the student unless a person was
\* shown this very call on this thread and approved it: with any number of
\* conversations and requests, lost answers, failures and restarts, whatever the
\* model asks for (human_interrupt, Approval, /resume).
THEOREM OnlyApprovedIsEverSent ==
  ASSUME ~Cli
  PROVE  Spec => []OnlyApprovedIsSent
<1>1. Init => OnlyApprovedIsSent
  BY DEF Init, OnlyApprovedIsSent
<1>2. Typed /\ Inductive /\ OnlyApprovedIsSent /\ [Next]_vars => OnlyApprovedIsSent'
  <2> SUFFICES ASSUME Typed, Inductive, OnlyApprovedIsSent, [Next]_vars
               PROVE  OnlyApprovedIsSent'
    OBVIOUS
  <2>1. ASSUME NEW r \in Run, Settle(r) PROVE OnlyApprovedIsSent'
    <3> DEFINE t == run[r].thread
               p == run[r].st.proposal
    <3>1. run[r] \in Request_ /\ run[r] # Null /\ t \in Thread
      BY <2>1 DEF Settle, At, Free, Typed, TypeOK, Request_
    <3>2. run[r].st \in State /\ p \in Proposal
      BY <2>1, <3>1 DEF Settle, At, Typed, RunsHaveState, Nodes, Request_, State
    <3>3. approved' = approved
      BY <2>1 DEF Settle, Browser
    <3>4. CASE run[r].decision = "approve"
      <4>1. run[r].decision # Null
        BY <3>4, NullAssumption DEF Decision
      <4>2. thread[t] # Null /\ p = thread[t].st.proposal
        BY <2>1, <3>1, <4>1 DEF Settle, At, Inductive, Gate, ResumedAgree
      <4>3. <<t, p>> \in approved
        BY <3>1, <3>4, <4>2 DEF Inductive, Gate, ApprovedAgree
      <4>4. sent' = [sent EXCEPT ![t] = Append(sent[t], p)]
        BY <2>1, <3>4 DEF Settle, Logged, Verdict
      <4>5. sent[t] \in Seq(Proposal)
        BY <3>1 DEF Typed, TypeOK
      <4> HIDE DEF t, p
      <4>6. \A i \in DOMAIN Append(sent[t], p) :
              Append(sent[t], p)[i] = p \/ (i \in DOMAIN sent[t] /\ Append(sent[t], p)[i] = sent[t][i])
        BY <3>2, <4>5
      <4>7. \A u \in Thread : sent'[u] = IF u = t THEN Append(sent[t], p) ELSE sent[u]
        BY <3>1, <4>4 DEF Typed, TypeOK
      <4>8. QED
        BY <3>3, <4>3, <4>6, <4>7 DEF OnlyApprovedIsSent
    <3>5. CASE run[r].decision # "approve"
      BY <2>1, <3>3, <3>5 DEF Settle, Logged, Verdict, OnlyApprovedIsSent
    <3>6. QED
      BY <3>4, <3>5
  <2>2. CASE sent' = sent /\ approved \subseteq approved'
    BY <2>2 DEF OnlyApprovedIsSent
  <2>3. QED
    BY <2>1, <2>2 DEF Next, AgentStep, CheckResume, Load, Guardrail, GatherCase, ModelTurn,
       Sufficiency, ProposeAction, NoProposal, Interrupt, Respond, Fail, Receive, GiveUp,
       Drop, Ask, Decide, ApproveCli, Forget, Restart, Browser, vars
<1>3. QED
  BY <1>1, <1>2, AlwaysTyped, AgentAlwaysInductive, PTL DEF Spec

-----------------------------------------------------------------------------
(* One execution for each approval, while every answer arrives.             *)

\* The places of a run before the tool of its proposal may have run.
Before == {"guardrail", "gather_case", "investigate", "sufficiency",
           "propose_action", "human_interrupt"}

\* While no answer was lost the browser waits for the only request there is;
\* a thread nothing was executed for is the only kind that is still worked on
\* before the decision, and its checkpoint is past the decision once something
\* was.
SentBefore ==
  lost = 0 =>
    /\ \A r \in Run : run[r] # Null => waits = r
    /\ \A r \in Run : run[r] # Null /\ run[r].at \in Before => sent[run[r].thread] = <<>>
    /\ \A t \in Thread :
         /\ Len(sent[t]) <= 1
         /\ sent[t] # <<>> /\ thread[t] # Null =>
              thread[t].next \in {"respond_and_record", "end"}

\* What a step of one request may change: its own place, and its own thread.
LEMMA StepOfOne ==
  ASSUME Typed, NEW r \in Run, AgentStep(r) \/ Fail(r)
  PROVE  /\ run[r] \in Request_ /\ run[r] # Null /\ run[r].thread \in Thread
         /\ UNCHANGED Browser
         /\ \A q \in Run : q # r => run'[q] = run[q]
         /\ run'[r].thread = run[r].thread /\ run'[r].decision = run[r].decision
         /\ run'[r].about = run[r].about
         /\ \A t \in Thread : t # run[r].thread => thread'[t] = thread[t] /\ sent'[t] = sent[t]
<1> DEFINE t == run[r].thread
<1>1. run[r] \in Request_ /\ run[r] # Null /\ t \in Thread
  BY DEF AgentStep, CheckResume, Load, Guardrail, GatherCase, ModelTurn, Sufficiency,
         ProposeAction, NoProposal, Interrupt, Settle, Respond, Fail, At, Free,
         Typed, TypeOK, Request_
<1>2. UNCHANGED Browser
  BY DEF AgentStep, CheckResume, Load, Guardrail, GatherCase, ModelTurn, Sufficiency,
         ProposeAction, NoProposal, Interrupt, Settle, Respond, Fail, Browser
<1>3. /\ thread' = thread \/ \E cp : thread' = [thread EXCEPT ![t] = cp]
      /\ sent' = sent \/ \E s : sent' = [sent EXCEPT ![t] = s]
  BY DEF AgentStep, CheckResume, Load, Guardrail, GatherCase, ModelTurn, Sufficiency,
         ProposeAction, NoProposal, Interrupt, Settle, Respond, Fail, Advance, Logged
<1>4. \E at, st : run' = [run EXCEPT ![r] = [run[r] EXCEPT !.at = at, !.st = st]]
  <2>1. ASSUME NEW at, NEW st, run' = [run EXCEPT ![r].at = at, ![r].st = st]
        PROVE  run' = [run EXCEPT ![r] = [run[r] EXCEPT !.at = at, !.st = st]]
    BY <1>1, <2>1 DEF Typed, TypeOK, Request_
  <2>2. ASSUME NEW how, Ends(r, how)
        PROVE  \E at, st : run' = [run EXCEPT ![r] = [run[r] EXCEPT !.at = at, !.st = st]]
    <3>1. run' = [run EXCEPT ![r] = [run[r] EXCEPT !.at = how,
                                      !.st = IF how = "pending" THEN run[r].st ELSE Null]]
      BY <1>1, <2>2 DEF Ends, Typed, TypeOK, Request_
    <3>2. QED
      BY <3>1
  <2>3. ASSUME run' = [run EXCEPT ![r].at = "load"]
        PROVE  run' = [run EXCEPT ![r] = [run[r] EXCEPT !.at = "load", !.st = run[r].st]]
    BY <1>1, <2>3 DEF Typed, TypeOK, Request_
  <2>4. ASSUME NEW st, NEW next, Advance(r, st, next)
        PROVE  \E at, s : run' = [run EXCEPT ![r] = [run[r] EXCEPT !.at = at, !.st = s]]
    <3>1. CASE next = "end"
      BY <2>2, <2>4, <3>1 DEF Advance
    <3>2. CASE next # "end"
      <4>1. run' = [run EXCEPT ![r].at = next, ![r].st = st]
        BY <2>4, <3>2 DEF Advance
      <4>2. QED
        BY <2>1, <4>1
    <3>3. QED
      BY <3>1, <3>2
  <2>5. CASE CheckResume(r)
    BY <2>2, <2>3, <2>5 DEF CheckResume
  <2>6. CASE Load(r)
    <3> DEFINE cp == thread[run[r].thread]
    <3>1. CASE cp.next = "end"
      BY <2>2, <2>6, <3>1 DEF Load
    <3>2. CASE cp.next # "end"
      <4>1. run' = [run EXCEPT ![r].at = cp.next, ![r].st = cp.st]
        BY <2>6, <3>2 DEF Load
      <4> HIDE DEF cp
      <4>2. QED
        BY <2>1, <4>1
    <3>3. QED
      BY <3>1, <3>2
  <2>7. CASE Interrupt(r) \/ Respond(r) \/ Fail(r)
    BY <2>2, <2>4, <2>7 DEF Interrupt, Respond, Fail
  <2>8. QED
    BY <2>4, <2>5, <2>6, <2>7 DEF AgentStep, Guardrail, GatherCase, ModelTurn, Sufficiency,
       ProposeAction, NoProposal, Settle
<1>5. /\ \A q \in Run : q # r => run'[q] = run[q]
      /\ run'[r].thread = t /\ run'[r].decision = run[r].decision
      /\ run'[r].about = run[r].about
  <2>1. PICK at, st : run' = [run EXCEPT ![r] = [run[r] EXCEPT !.at = at, !.st = st]]
    BY <1>4
  <2> DEFINE x == [run[r] EXCEPT !.at = at, !.st = st]
  <2>2. x.thread = t /\ x.decision = run[r].decision /\ x.about = run[r].about
    BY <1>1 DEF Request_
  <2>3. run'[r] = x /\ \A q \in Run : q # r => run'[q] = run[q]
    BY <2>1 DEF Typed, TypeOK
  <2>4. QED
    BY <2>2, <2>3
<1>6. QED
  BY <1>1, <1>2, <1>3, <1>5 DEF Typed, TypeOK

\* Where a finished node leaves its run and its thread.
LEMMA AdvanceLeaves ==
  ASSUME Typed, NEW r \in Run, run[r] # Null, NEW st, NEW next, Advance(r, st, next)
  PROVE  /\ thread'[run[r].thread] = [st |-> st, next |-> next]
         /\ run'[r].at = IF next = "end" THEN "answered" ELSE next
         /\ next # "end" => run'[r].st = st
<1>1. run[r] \in Request_ /\ run[r].thread \in Thread
  BY DEF Typed, TypeOK, Request_
<1>2. thread'[run[r].thread] = [st |-> st, next |-> next]
  BY <1>1 DEF Advance, Typed, TypeOK
<1>3. CASE next = "end"
  <2> DEFINE x == [run[r] EXCEPT !.at = "answered", !.st = Null]
  <2>1. run' = [run EXCEPT ![r] = x]
    BY <1>1, <1>3 DEF Advance, Ends, Typed, TypeOK, Request_
  <2>2. x.at = "answered"
    BY <1>1 DEF Request_
  <2>3. QED
    BY <1>2, <1>3, <2>1, <2>2 DEF Typed, TypeOK
<1>4. CASE next # "end"
  <2> DEFINE x == [run[r] EXCEPT !.at = next, !.st = st]
  <2>1. run' = [run EXCEPT ![r] = x]
    BY <1>1, <1>4 DEF Advance, Typed, TypeOK, Request_
  <2>2. x.at = next /\ x.st = st
    BY <1>1 DEF Request_
  <2>3. QED
    BY <1>2, <1>4, <2>1, <2>2 DEF Typed, TypeOK
<1>5. QED
  BY <1>3, <1>4

\* Where an ended request is left.
LEMMA EndsLeaves ==
  ASSUME Typed, NEW r \in Run, run[r] # Null, NEW how, Ends(r, how)
  PROVE  run'[r].at = how /\ (how = "pending" => run'[r].st = run[r].st)
<1> DEFINE x == [run[r] EXCEPT !.at = how, !.st = IF how = "pending" THEN run[r].st ELSE Null]
<1>1. run[r] \in Request_
  BY DEF Typed, TypeOK
<1>2. run' = [run EXCEPT ![r] = x]
  BY <1>1 DEF Ends, Typed, TypeOK, Request_
<1>3. x.at = how /\ (how = "pending" => x.st = run[r].st)
  BY <1>1 DEF Request_
<1> HIDE DEF x
<1>4. QED
  BY <1>2, <1>3 DEF Typed, TypeOK

\* What a resumed request finds in its checkpoint.
LEMMA LoadLeaves ==
  ASSUME Typed, NEW r \in Run, Load(r)
  PROVE  LET cp == thread[run[r].thread] IN
         /\ cp # Null /\ cp \in Checkpoint
         /\ run'[r].at = IF cp.next = "end" THEN "answered" ELSE cp.next
         /\ cp.next # "end" => run'[r].st = cp.st
<1> DEFINE cp == thread[run[r].thread]
<1>1. run[r] \in Request_ /\ run[r] # Null /\ run[r].thread \in Thread
  BY DEF Load, At, Free, Typed, TypeOK, Request_
<1>2. cp # Null /\ cp \in Checkpoint
  BY <1>1 DEF Load, At, Typed, RunsHaveState, TypeOK
<1>3. CASE cp.next = "end"
  BY <1>1, <1>2, <1>3, EndsLeaves DEF Load
<1>4. CASE cp.next # "end"
  <2> DEFINE x == [run[r] EXCEPT !.at = cp.next, !.st = cp.st]
  <2>1. run' = [run EXCEPT ![r] = x]
    BY <1>1, <1>4 DEF Load, Typed, TypeOK, Request_
  <2>2. x.at = cp.next /\ x.st = cp.st
    BY <1>1 DEF Request_
  <2>3. QED
    BY <1>2, <1>4, <2>1, <2>2 DEF Typed, TypeOK
<1>5. QED
  BY <1>3, <1>4, <1>2

\* A step of a request while nothing was lost.
LEMMA AgentKeepsSentBefore ==
  ASSUME Typed, SentBefore, NEW r \in Run, AgentStep(r) \/ Fail(r)
  PROVE  SentBefore'
<1> DEFINE t == run[r].thread
<1>1. /\ run[r] \in Request_ /\ run[r] # Null /\ t \in Thread
      /\ waits' = waits /\ lost' = lost
      /\ \A q \in Run : q # r => run'[q] = run[q]
      /\ run'[r].thread = t
      /\ \A u \in Thread : u # t => thread'[u] = thread[u] /\ sent'[u] = sent[u]
  BY StepOfOne DEF Browser
<1> SUFFICES ASSUME lost = 0 PROVE SentBefore'
  BY <1>1 DEF SentBefore
<1>2. waits = r /\ \A q \in Run : q # r => run[q] = Null
  BY <1>1 DEF SentBefore
<1>3. /\ run[r].at \in Before => sent[t] = <<>>
      /\ Len(sent[t]) <= 1
      /\ sent[t] # <<>> /\ thread[t] # Null =>
           thread[t].next \in {"respond_and_record", "end"}
  BY <1>1 DEF SentBefore
<1>4. SUFFICES /\ run'[r].at \in Before => sent'[t] = <<>>
               /\ Len(sent'[t]) <= 1
               /\ sent'[t] # <<>> /\ thread'[t] # Null =>
                    thread'[t].next \in {"respond_and_record", "end"}
  BY <1>1, <1>2 DEF SentBefore
<1>5. ASSUME NEW st, NEW next, Advance(r, st, next), sent' = sent,
             \/ run[r].at \in Before
             \/ next = "end"
      PROVE  /\ run'[r].at \in Before => sent'[t] = <<>>
             /\ Len(sent'[t]) <= 1
             /\ sent'[t] # <<>> /\ thread'[t] # Null =>
                  thread'[t].next \in {"respond_and_record", "end"}
  <2>1. /\ thread'[t] = [st |-> st, next |-> next]
        /\ run'[r].at = IF next = "end" THEN "answered" ELSE next
    BY <1>1, <1>5, AdvanceLeaves
  <2>2. sent'[t] = sent[t]
    BY <1>5
  <2>3. CASE run[r].at \in Before
    BY <1>3, <2>2, <2>3
  <2>4. CASE next = "end"
    BY <1>3, <2>1, <2>2, <2>4 DEF Before
  <2>5. QED
    BY <1>5, <2>3, <2>4
<1>6. ASSUME NEW how \in Replied, Ends(r, how), sent' = sent,
             thread' = thread \/ thread'[t].next = "end"
      PROVE  /\ run'[r].at \in Before => sent'[t] = <<>>
             /\ Len(sent'[t]) <= 1
             /\ sent'[t] # <<>> /\ thread'[t] # Null =>
                  thread'[t].next \in {"respond_and_record", "end"}
  BY <1>1, <1>3, <1>6, EndsLeaves DEF Before, Replied
<1>7. CASE CheckResume(r)
  <2>1. CASE Ends(r, "expired")
    BY <1>6, <1>7, <2>1 DEF CheckResume, Replied
  <2>2. CASE run' = [run EXCEPT ![r].at = "load"]
    <3>1. run'[r].at = "load"
      BY <1>1, <2>2 DEF Typed, TypeOK, Request_
    <3>2. QED
      BY <1>3, <1>7, <3>1 DEF CheckResume, Before
  <2>3. QED
    BY <1>7, <2>1, <2>2 DEF CheckResume
<1>8. CASE Load(r)
  BY <1>3, <1>8, LoadLeaves DEF Load, Before
<1>9. CASE Settle(r)
  <2>1. sent[t] = <<>> /\ run[r].st.proposal \in Proposal
    BY <1>1, <1>3, <1>9 DEF Settle, At, Before, Typed, RunsHaveState, Nodes, Request_, State
  <2>2. thread'[t].next = "respond_and_record" /\ run'[r].at = "respond_and_record"
    <3> DEFINE st == [run[r].st EXCEPT !.decision = Verdict(r)]
               next == "respond_and_record"
    <3>1. Advance(r, st, next)
      BY <1>9 DEF Settle
    <3> HIDE DEF st, next
    <3>2. /\ thread'[t] = [st |-> st, next |-> next]
          /\ run'[r].at = IF next = "end" THEN "answered" ELSE next
      BY <1>1, <3>1, AdvanceLeaves
    <3>3. QED
      BY <3>2 DEF next
  <2>3. sent'[t] \in {<<>>, Append(<<>>, run[r].st.proposal)}
    BY <1>1, <1>9, <2>1 DEF Settle, Logged, Typed, TypeOK
  <2>4. Len(sent'[t]) <= 1
    <3>1. <<>> \in Seq(Proposal) /\ Len(<<>>) = 0
      OBVIOUS
    <3>2. Len(Append(<<>>, run[r].st.proposal)) = 1
      BY <2>1, <3>1
    <3>3. CASE sent'[t] = <<>>
      BY <3>1, <3>3
    <3>4. CASE sent'[t] = Append(<<>>, run[r].st.proposal)
      BY <3>2, <3>4
    <3>5. QED
      BY <2>3, <3>3, <3>4
  <2>5. QED
    BY <2>2, <2>4 DEF Before
<1>10. CASE Respond(r)
  <2>1. CASE Cli /\ run[r].decision = Null /\ run[r].st.proposal # Null
    <3>1. thread'[t].next = "end"
      BY <1>1, <1>10, <2>1 DEF Respond, Typed, TypeOK
    <3>2. QED
      BY <1>6, <1>10, <2>1, <3>1 DEF Respond, Replied
  <2>2. CASE ~(Cli /\ run[r].decision = Null /\ run[r].st.proposal # Null)
    BY <1>5, <1>10, <2>2 DEF Respond
  <2>3. QED
    BY <2>1, <2>2
<1>11. CASE Interrupt(r) \/ Fail(r)
  BY <1>6, <1>11 DEF Interrupt, Fail, Replied
<1>12. CASE \/ Guardrail(r) \/ GatherCase(r) \/ ModelTurn(r) \/ Sufficiency(r)
            \/ ProposeAction(r) \/ NoProposal(r)
  <2>1. run[r].at \in Before /\ sent' = sent
    BY <1>12 DEF Guardrail, GatherCase, ModelTurn, Sufficiency, ProposeAction, NoProposal,
                 At, Before
  <2>2. \E st, next : Advance(r, st, next)
    BY <1>12 DEF Guardrail, GatherCase, ModelTurn, Sufficiency, ProposeAction, NoProposal
  <2>3. QED
    BY <1>5, <2>1, <2>2
<1>13. QED
  BY <1>7, <1>8, <1>9, <1>10, <1>11, <1>12 DEF AgentStep

LEMMA NextKeepsSentBefore == Typed /\ SentBefore /\ [Next]_vars => SentBefore'
<1> SUFFICES ASSUME Typed, SentBefore, [Next]_vars PROVE SentBefore'
  OBVIOUS
<1>1. ASSUME NEW r \in Run, AgentStep(r) \/ Fail(r) PROVE SentBefore'
  BY <1>1, AgentKeepsSentBefore
<1>2. ASSUME NEW r \in Run, Receive(r) \/ Drop(r) PROVE SentBefore'
  <2>1. run' = [run EXCEPT ![r] = Null] /\ UNCHANGED <<thread, lost, sent>>
    BY <1>2 DEF Receive, Drop
  <2>2. run'[r] = Null /\ \A q \in Run : q # r => run'[q] = run[q]
    BY <2>1 DEF Typed, TypeOK
  <2>3. lost = 0 => \A q \in Run : q # r /\ run[q] # Null => waits' = q
    <3>1. CASE Receive(r)
      BY <3>1 DEF Receive, SentBefore
    <3>2. CASE Drop(r)
      BY <3>2 DEF Drop, SentBefore
    <3>3. QED
      BY <1>2, <3>1, <3>2
  <2>4. QED
    BY <2>1, <2>2, <2>3 DEF SentBefore
<1>3. ASSUME NEW r \in Run, GiveUp(r) PROVE SentBefore'
  BY <1>3 DEF GiveUp, SentBefore, Typed, TypeOK
<1>4. ASSUME NEW r \in Run, NEW t \in Thread, NEW about, NEW d, NEW at, NEW st,
             Post(r, t, about, d, at, st), UNCHANGED <<thread, lost, sent>>,
             at = "check" \/ sent[t] = <<>>
      PROVE  SentBefore'
  <2> DEFINE x == [thread |-> t, about |-> about, decision |-> d, at |-> at, st |-> st]
  <2>1. run' = [run EXCEPT ![r] = x] /\ waits' = r /\ waits = Null
    BY <1>4 DEF Post
  <2>2. x.thread = t /\ x.at = at
    OBVIOUS
  <2> HIDE DEF x
  <2>3. run'[r] = x /\ \A q \in Run : q # r => run'[q] = run[q]
    BY <2>1 DEF Typed, TypeOK
  <2>4. lost = 0 => \A q \in Run : run[q] = Null
    BY <2>1, NullAssumption DEF SentBefore
  <2>5. QED
    BY <1>4, <2>1, <2>2, <2>3, <2>4 DEF SentBefore, Before
<1>5. ASSUME NEW r \in Run, NEW t \in Thread, Ask(r, t) PROVE SentBefore'
  BY <1>4, <1>5 DEF Ask, Unstarted
<1>6. ASSUME NEW r \in Run, NEW t \in Thread, Decide(r, t) PROVE SentBefore'
  BY <1>4, <1>6 DEF Decide
<1>7. ASSUME NEW r \in Run, NEW t \in Thread, NEW again \in Thread, ApproveCli(r, t, again)
      PROVE  SentBefore'
  BY <1>4, <1>7 DEF ApproveCli, Unstarted
<1>8. CASE Forget \/ UNCHANGED vars
  BY <1>8 DEF Forget, vars, SentBefore
<1>9. CASE Restart
  BY <1>9 DEF Restart, SentBefore
<1>10. QED
  BY <1>1, <1>2, <1>3, <1>5, <1>6, <1>7, <1>8, <1>9 DEF Next

\* While every answer reached the browser, a call is executed at most once for
\* a thread: with failing nodes, restarts and cards decided again, through the
\* service or the command line (the checkpoint after human_interrupt, the
\* browser that waits for one request at a time).
THEOREM AnsweredIsSentOnce == Spec => []SentOnceIfAnswered
<1>1. Init => SentBefore
  <2>1. Len(<<>>) <= 1
    OBVIOUS
  <2>2. QED
    BY <2>1 DEF Init, SentBefore
<1>2. SentBefore => SentOnceIfAnswered
  BY DEF SentBefore, SentOnceIfAnswered, SentOnce
<1>3. QED
  BY <1>1, <1>2, NextKeepsSentBefore, AlwaysTyped, PTL DEF Spec

-----------------------------------------------------------------------------
(* What a card shows and what was executed is the checkpoint's proposal.    *)

\* A request that works on a question of its own: any on the command line.
Asking(r) == run[r] # Null /\ (Cli \/ run[r].decision = Null)

\* It has its thread to itself, nothing was executed on it before the decision,
\* and the proposal it puts or has put is the one in the checkpoint.
AskingAlone ==
  \A r \in Run : Asking(r) =>
    /\ run[r].at \notin {"check", "load"}
    /\ card[run[r].thread] = Null
    /\ \A q \in Run : q # r /\ run[q] # Null => run[q].thread # run[r].thread
    /\ ~Cli \/ run[r].at \in Before => sent[run[r].thread] = <<>>
    /\ run[r].at \in {"human_interrupt", "respond_and_record", "pending"} =>
         /\ thread[run[r].thread] # Null
         /\ thread[run[r].thread].next \in Shown
         /\ thread[run[r].thread].st.proposal = run[r].st.proposal

\* What was executed on a thread is the proposal of its checkpoint, as long as
\* there is one.
SentAgree ==
  \A t \in Thread : thread[t] # Null /\ sent[t] # <<>> =>
    /\ thread[t].next \in Shown
    /\ \A i \in DOMAIN sent[t] : sent[t][i] = thread[t].st.proposal

Agreed == AskingAlone /\ CardsAgree /\ SentAgree

\* A step of a request with a thread of its own.
LEMMA AskingStepAgrees ==
  ASSUME Typed, Agreed, NEW r \in Run, AgentStep(r) \/ Fail(r), Asking(r),
         LET t == run[r].thread IN
           /\ run'[r].at \notin {"check", "load"}
           /\ ~Cli \/ run'[r].at \in Before => sent'[t] = <<>>
           /\ run'[r].at \in {"human_interrupt", "respond_and_record", "pending"} =>
                /\ thread'[t] # Null /\ thread'[t].next \in Shown
                /\ thread'[t].st.proposal = run'[r].st.proposal
           /\ thread'[t] # Null /\ sent'[t] # <<>> =>
                /\ thread'[t].next \in Shown
                /\ \A i \in DOMAIN sent'[t] : sent'[t][i] = thread'[t].st.proposal
  PROVE  Agreed'
<1> DEFINE t == run[r].thread
<1>1. /\ run[r] \in Request_ /\ run[r] # Null /\ t \in Thread
      /\ card' = card
      /\ \A q \in Run : q # r => run'[q] = run[q]
      /\ run'[r].thread = t /\ run'[r].decision = run[r].decision
      /\ \A u \in Thread : u # t => thread'[u] = thread[u] /\ sent'[u] = sent[u]
  BY StepOfOne DEF Browser
<1>2. card[t] = Null /\ \A q \in Run : q # r /\ run[q] # Null => run[q].thread # t
  BY DEF Agreed, AskingAlone
<1>3. \A q \in Run : q # r /\ run[q] # Null => run[q].thread \in Thread
  BY DEF Typed, TypeOK, Request_
<1>4. AskingAlone'
  <2>1. ASSUME NEW q \in Run, Asking(q)'
        PROVE  /\ run'[q].at \notin {"check", "load"}
               /\ card'[run'[q].thread] = Null
               /\ \A p \in Run : p # q /\ run'[p] # Null => run'[p].thread # run'[q].thread
               /\ ~Cli \/ run'[q].at \in Before => sent'[run'[q].thread] = <<>>
               /\ run'[q].at \in {"human_interrupt", "respond_and_record", "pending"} =>
                    /\ thread'[run'[q].thread] # Null
                    /\ thread'[run'[q].thread].next \in Shown
                    /\ thread'[run'[q].thread].st.proposal = run'[q].st.proposal
    <3>1. CASE q = r
      BY <1>1, <1>2, <3>1
    <3>2. CASE q # r
      <4>1. run'[q] = run[q] /\ Asking(q) /\ run[q].thread # t /\ run[q].thread \in Thread
        BY <1>1, <1>2, <1>3, <2>1, <3>2, AgentAssumption DEF Asking
      <4>2. /\ thread'[run[q].thread] = thread[run[q].thread]
            /\ sent'[run[q].thread] = sent[run[q].thread]
        BY <1>1, <4>1
      <4>3. \A p \in Run : p # q /\ run'[p] # Null => run'[p].thread # run[q].thread
        BY <1>1, <4>1 DEF Agreed, AskingAlone
      <4>4. QED
        BY <1>1, <4>1, <4>2, <4>3 DEF Agreed, AskingAlone
    <3>3. QED
      BY <3>1, <3>2
  <2>2. QED
    BY <2>1 DEF AskingAlone
<1>5. CardsAgree'
  BY <1>1, <1>2 DEF Agreed, CardsAgree
<1>6. SentAgree'
  BY <1>1 DEF Agreed, SentAgree
<1>7. QED
  BY <1>4, <1>5, <1>6 DEF Agreed

\* A step of a request that was resumed: the proposal stays what it was.
LEMMA ResumedStepAgrees ==
  ASSUME Typed, Agreed, NEW r \in Run, AgentStep(r) \/ Fail(r), ~Asking(r),
         LET t == run[r].thread IN
           /\ thread'[t] = thread[t]
              \/ /\ thread[t] # Null /\ thread'[t].next \in Shown
                 /\ thread'[t].st.proposal = thread[t].st.proposal
           /\ sent'[t] = sent[t]
              \/ /\ thread[t] # Null /\ thread'[t].next \in Shown
                 /\ thread'[t].st.proposal = thread[t].st.proposal
                 /\ \A i \in DOMAIN sent'[t] : sent'[t][i] = thread[t].st.proposal
  PROVE  Agreed'
<1> DEFINE t == run[r].thread
<1>1. /\ run[r] \in Request_ /\ run[r] # Null /\ t \in Thread
      /\ card' = card
      /\ \A q \in Run : q # r => run'[q] = run[q]
      /\ run'[r].thread = t /\ run'[r].decision = run[r].decision
      /\ \A u \in Thread : u # t => thread'[u] = thread[u] /\ sent'[u] = sent[u]
  BY StepOfOne DEF Browser
<1>2. ~Asking(r)' /\ \A q \in Run : q # r /\ run[q] # Null => run[q].thread \in Thread
  BY <1>1, AgentAssumption DEF Asking, Typed, TypeOK, Request_
<1>3. AskingAlone'
  <2>1. ASSUME NEW q \in Run, Asking(q)'
        PROVE  /\ q # r /\ run'[q] = run[q] /\ Asking(q)
               /\ run[q].thread \in Thread /\ run[q].thread # t
    <3>1. q # r
      BY <1>2, <2>1
    <3>2. run'[q] = run[q] /\ Asking(q)
      BY <1>1, <2>1, <3>1, AgentAssumption DEF Asking
    <3>3. QED
      BY <1>1, <1>2, <3>1, <3>2 DEF Agreed, AskingAlone, Asking
  <2>2. ASSUME NEW q \in Run, Asking(q)'
        PROVE  /\ thread'[run[q].thread] = thread[run[q].thread]
               /\ sent'[run[q].thread] = sent[run[q].thread]
               /\ \A p \in Run : p # q /\ run'[p] # Null => run'[p].thread # run[q].thread
    BY <1>1, <2>1, <2>2 DEF Agreed, AskingAlone
  <2>3. QED
    BY <1>1, <2>1, <2>2 DEF Agreed, AskingAlone
<1>4. CardsAgree'
  <2>1. ASSUME NEW u \in Thread, card'[u] # Null, thread'[u] # Null
        PROVE  thread'[u].next \in Shown /\ thread'[u].st.proposal = card'[u].proposal
    <3>1. CASE u = t
      <4>1. thread[u] # Null => thread[u].next \in Shown /\ thread[u].st.proposal = card[u].proposal
        BY <1>1, <2>1 DEF Agreed, CardsAgree
      <4>2. QED
        BY <1>1, <2>1, <3>1, <4>1
    <3>2. CASE u # t
      BY <1>1, <2>1, <3>2 DEF Agreed, CardsAgree
    <3>3. QED
      BY <3>1, <3>2
  <2>2. QED
    BY <2>1 DEF CardsAgree
<1>5. SentAgree'
  <2>1. ASSUME NEW u \in Thread, thread'[u] # Null, sent'[u] # <<>>
        PROVE  /\ thread'[u].next \in Shown
               /\ \A i \in DOMAIN sent'[u] : sent'[u][i] = thread'[u].st.proposal
    <3>1. CASE u # t
      BY <1>1, <2>1, <3>1 DEF Agreed, SentAgree
    <3>2. CASE u = t /\ sent'[t] = sent[t] /\ thread'[t] = thread[t]
      BY <1>1, <2>1, <3>2 DEF Agreed, SentAgree
    <3>3. CASE u = t /\ sent'[t] = sent[t] /\ thread'[t] # thread[t]
      <4>1. /\ thread[t] # Null /\ thread'[t].next \in Shown
            /\ thread'[t].st.proposal = thread[t].st.proposal
        BY <3>3
      <4>2. \A i \in DOMAIN sent[t] : sent[t][i] = thread[t].st.proposal
        BY <1>1, <2>1, <3>3, <4>1 DEF Agreed, SentAgree
      <4>3. QED
        BY <3>3, <4>1, <4>2
    <3>4. CASE u = t /\ sent'[t] # sent[t]
      BY <3>4
    <3>5. QED
      BY <3>1, <3>2, <3>3, <3>4
  <2>2. QED
    BY <2>1 DEF SentAgree
<1>6. QED
  BY <1>3, <1>4, <1>5 DEF Agreed

LEMMA AgentKeepsAgreed ==
  ASSUME Typed, ~Cli => Gate, Agreed, NEW r \in Run, AgentStep(r) \/ Fail(r)
  PROVE  Agreed'
<1> DEFINE t == run[r].thread
           cp == thread[t]
<1>1. run[r] \in Request_ /\ run[r] # Null /\ t \in Thread
  BY StepOfOne
<1>2. run[r].at \in Nodes => run[r].st \in State
  BY <1>1 DEF Typed, RunsHaveState, Request_
<1>3. sent[t] \in Seq(Proposal)
  BY <1>1 DEF Typed, TypeOK
<1>4. CASE Asking(r)
  <2>1. /\ run[r].at \notin {"check", "load"}
        /\ ~Cli \/ run[r].at \in Before => sent[t] = <<>>
        /\ run[r].at \in {"human_interrupt", "respond_and_record", "pending"} =>
             /\ cp # Null /\ cp.next \in Shown
             /\ cp.st.proposal = run[r].st.proposal
    BY <1>4 DEF Agreed, AskingAlone
  <2>2. cp # Null /\ sent[t] # <<>> =>
          cp.next \in Shown /\ \A i \in DOMAIN sent[t] : sent[t][i] = cp.st.proposal
    BY <1>1 DEF Agreed, SentAgree
  <2>3. ASSUME NEW st \in State, NEW next \in Nodes \cup {"end"}, Advance(r, st, next),
               ~Cli \/ next \in Before => sent'[t] = <<>>,
               next \in {"human_interrupt", "respond_and_record"}
                 \/ (next = "end" /\ sent'[t] = sent[t]
                       /\ run[r].at = "respond_and_record" /\ st = run[r].st)
                 \/ sent'[t] = <<>>,
               \A i \in DOMAIN sent'[t] : sent'[t][i] = st.proposal
        PROVE  Agreed'
    <3>1. /\ thread'[t] = [st |-> st, next |-> next]
          /\ run'[r].at = IF next = "end" THEN "answered" ELSE next
          /\ next # "end" => run'[r].st = st
      BY <1>1, <2>3, AdvanceLeaves
    <3>2. thread'[t].st = st /\ thread'[t].next = next
      BY <3>1
    <3>3. thread'[t] # Null
      <4>1. thread'[t] \in Checkpoint
        BY <3>1 DEF Checkpoint
      <4>2. QED
        BY <4>1, NullAssumption
    <3>4. run'[r].at \notin {"check", "load"}
      BY <3>1 DEF Nodes
    <3>5. run'[r].at \in {"human_interrupt", "respond_and_record", "pending"} =>
            thread'[t].next \in Shown /\ thread'[t].st.proposal = run'[r].st.proposal
      BY <3>1, <3>2 DEF Shown, Nodes
    <3>6. sent'[t] # <<>> => thread'[t].next \in Shown
      BY <2>3, <3>2 DEF Shown
    <3>7. ~Cli \/ run'[r].at \in Before => sent'[t] = <<>>
      BY <2>3, <3>1 DEF Before
    <3>8. \A i \in DOMAIN sent'[t] : sent'[t][i] = thread'[t].st.proposal
      BY <2>3, <3>2
    <3>9. QED
      BY <1>4, <3>3, <3>4, <3>5, <3>6, <3>7, <3>8, AskingStepAgrees
  <2>4. ASSUME NEW how \in Replied, Ends(r, how), sent' = sent, thread' = thread,
               how = "pending" => run[r].at = "human_interrupt"
        PROVE  Agreed'
    <3>1. run'[r].at = how /\ (how = "pending" => run'[r].st = run[r].st)
      BY <1>1, <2>4, EndsLeaves
    <3>2. how \notin Before /\ how \notin {"check", "load", "human_interrupt", "respond_and_record"}
      BY DEF Replied, Before
    <3>3. ~Cli => sent'[t] = <<>>
      BY <2>1, <2>4
    <3>4. QED
      BY <1>4, <2>1, <2>2, <2>4, <3>1, <3>2, <3>3, AskingStepAgrees
  <2>5. ASSUME run[r].at \in Before, run[r].at # "human_interrupt", sent' = sent,
               NEW st \in State, NEW next \in Nodes \cup {"end"}, Advance(r, st, next)
        PROVE  Agreed'
    <3>1. sent'[t] = <<>>
      BY <2>1, <2>5
    <3>2. QED
      BY <2>3, <2>5, <3>1
  <2>6. CASE CheckResume(r) \/ Load(r)
    BY <2>1, <2>6 DEF CheckResume, Load, At
  <2>7. CASE Guardrail(r)
    BY <1>2, <2>5, <2>7 DEF Guardrail, At, Before, Nodes
  <2>8. CASE GatherCase(r)
    BY <1>2, <2>5, <2>8, NodesKeepState DEF GatherCase, At, Before, Nodes
  <2>9. CASE ModelTurn(r)
    BY <1>2, <2>5, <2>9, NodesKeepState DEF ModelTurn, At, Before, Nodes
  <2>10. CASE Sufficiency(r)
    BY <1>2, <2>5, <2>10 DEF Sufficiency, At, Before, Nodes
  <2>11. CASE ProposeAction(r)
    BY <1>2, <2>5, <2>11, NodesKeepState DEF ProposeAction, At, Before, Nodes
  <2>12. CASE NoProposal(r)
    <3>1. sent'[t] = <<>>
      BY <2>1, <2>12 DEF NoProposal, At, Before
    <3>2. [run[r].st EXCEPT !.decision = Null] \in State
      BY <1>2, <2>12, NodesKeepState DEF NoProposal, At, Nodes
    <3>3. QED
      BY <2>3, <2>12, <3>1, <3>2 DEF NoProposal, Nodes
  <2>13. CASE Interrupt(r) \/ Fail(r)
    BY <2>4, <2>13 DEF Interrupt, Fail, At, Replied
  <2>14. CASE Settle(r)
    <3> DEFINE st == [run[r].st EXCEPT !.decision = Verdict(r)]
    <3>1. Verdict(r) \in Decision
      BY DEF Verdict, Decision
    <3>2. /\ run[r].st \in State /\ run[r].st.proposal \in Proposal
          /\ st \in State /\ st.proposal = run[r].st.proposal
      BY <1>2, <2>14, <3>1, NodesKeepState DEF Settle, At, Nodes, State
    <3>3. Cli
      BY <1>4, <2>14 DEF Settle, Asking
    <3>4. sent[t] = <<>>
      BY <2>1, <2>14 DEF Settle, At, Before
    <3>5. Advance(r, st, "respond_and_record")
      BY <2>14 DEF Settle
    <3>6. sent'[t] \in {<<>>, Append(<<>>, run[r].st.proposal)}
      BY <1>1, <2>14, <3>4 DEF Settle, Logged, Typed, TypeOK
    <3> HIDE DEF st
    <3>7. \A i \in DOMAIN sent'[t] : sent'[t][i] = st.proposal
      <4>1. Append(<<>>, run[r].st.proposal) = <<run[r].st.proposal>>
        BY <3>2
      <4>2. CASE sent'[t] = <<>>
        BY <4>2
      <4>3. CASE sent'[t] = <<run[r].st.proposal>>
        BY <3>2, <4>3
      <4>4. QED
        BY <3>6, <4>1, <4>2, <4>3
    <3>8. "respond_and_record" \in Nodes /\ "respond_and_record" \notin Before
      BY DEF Nodes, Before
    <3>9. QED
      BY <2>3, <3>2, <3>3, <3>5, <3>7, <3>8
  <2>15. CASE Respond(r)
    <3>1. run[r].at = "respond_and_record" /\ run[r].st \in State /\ sent' = sent
      BY <1>2, <2>15 DEF Respond, At, Nodes
    <3>2. \A i \in DOMAIN sent[t] : sent[t][i] = run[r].st.proposal
      <4>1. sent[t] = <<>> => DOMAIN sent[t] = {}
        BY <1>3
      <4>2. QED
        BY <2>1, <2>2, <3>1, <4>1
    <3>3. CASE Cli /\ run[r].decision = Null /\ run[r].st.proposal # Null
      <4>1. thread'[t] = [st |-> run[r].st, next |-> "end"]
        BY <1>1, <2>15, <3>3 DEF Respond, Typed, TypeOK
      <4>2. run'[r].at = "pending" /\ run'[r].st = run[r].st
        BY <1>1, <2>15, <3>3, EndsLeaves DEF Respond
      <4>3. thread'[t] # Null
        <5>1. thread'[t] \in Checkpoint
          BY <3>1, <4>1 DEF Checkpoint
        <5>2. QED
          BY <5>1, NullAssumption
      <4>4. thread'[t].next \in Shown /\ thread'[t].st = run[r].st
        BY <4>1 DEF Shown
      <4>5. "pending" \notin Before
        BY DEF Before
      <4>6. QED
        BY <1>4, <3>1, <3>2, <3>3, <4>2, <4>3, <4>4, <4>5, AskingStepAgrees
    <3>4. CASE ~(Cli /\ run[r].decision = Null /\ run[r].st.proposal # Null)
      <4>1. Advance(r, run[r].st, "end")
        BY <2>15, <3>4 DEF Respond
      <4>2. "end" \notin Before /\ (~Cli => sent'[t] = <<>>)
        BY <2>1, <3>1 DEF Before
      <4>3. QED
        BY <2>3, <3>1, <3>2, <4>1, <4>2
    <3>5. QED
      BY <3>3, <3>4
  <2>16. QED
    BY <2>6, <2>7, <2>8, <2>9, <2>10, <2>11, <2>12, <2>13, <2>14, <2>15 DEF AgentStep
<1>5. CASE ~Asking(r)
  <2>1. ~Cli /\ run[r].decision # Null /\ Gate
    BY <1>1, <1>5, AgentAssumption DEF Asking
  <2>2. /\ run[r].at \in {"check", "load", "human_interrupt", "respond_and_record",
                          "answered", "expired", "failed"}
        /\ run[r].at \in {"human_interrupt", "respond_and_record"} =>
             cp # Null /\ run[r].st.proposal = cp.st.proposal
    BY <1>1, <2>1 DEF Gate, ResumedAgree
  <2>3. ASSUME NEW st \in State, NEW next \in Shown, Advance(r, st, next),
               cp # Null, st.proposal = cp.st.proposal, sent' = sent
        PROVE  Agreed'
    <3>1. thread'[t].next = next /\ thread'[t].st = st
      <4>1. thread'[t] = [st |-> st, next |-> next]
        BY <1>1, <2>3, AdvanceLeaves
      <4>2. QED
        BY <4>1
    <3>2. QED
      BY <1>5, <2>3, <3>1, ResumedStepAgrees
  <2>4. CASE CheckResume(r) \/ Load(r) \/ Interrupt(r) \/ Fail(r)
    BY <1>5, <2>4, ResumedStepAgrees DEF CheckResume, Load, Interrupt, Fail
  <2>5. CASE \/ Guardrail(r) \/ GatherCase(r) \/ ModelTurn(r) \/ Sufficiency(r)
             \/ ProposeAction(r)
    BY <2>2, <2>5 DEF Guardrail, GatherCase, ModelTurn, Sufficiency, ProposeAction, At
  <2>6. CASE NoProposal(r)
    <3>1. [run[r].st EXCEPT !.decision = Null] \in State
            /\ [run[r].st EXCEPT !.decision = Null].proposal = run[r].st.proposal
      BY <1>2, <2>6, NodesKeepState DEF NoProposal, At, Nodes
    <3>2. QED
      BY <2>2, <2>3, <2>6, <3>1 DEF NoProposal, At, Shown
  <2>7. CASE Settle(r)
    <3> DEFINE st == [run[r].st EXCEPT !.decision = Verdict(r)]
    <3>1. Verdict(r) \in Decision
      BY DEF Verdict, Decision
    <3>2. /\ run[r].st \in State /\ run[r].st.proposal \in Proposal
          /\ st \in State /\ st.proposal = run[r].st.proposal
      BY <1>2, <2>7, <3>1, NodesKeepState DEF Settle, At, Nodes, State
    <3>3. cp # Null /\ run[r].st.proposal = cp.st.proposal
      BY <2>2, <2>7 DEF Settle, At
    <3>4. Advance(r, st, "respond_and_record") /\ "respond_and_record" \in Shown
      BY <2>7 DEF Settle, Shown
    <3>5. CASE Verdict(r) # "approve"
      BY <2>3, <2>7, <3>2, <3>3, <3>4, <3>5 DEF Settle
    <3>6. CASE Verdict(r) = "approve"
      <4>1. sent'[t] = Append(sent[t], run[r].st.proposal)
        BY <1>1, <2>7, <3>6 DEF Settle, Logged, Typed, TypeOK
      <4> HIDE DEF st
      <4>2. thread'[t].next = "respond_and_record" /\ thread'[t].st = st
        <5>1. thread'[t] = [st |-> st, next |-> "respond_and_record"]
          BY <1>1, <3>4, AdvanceLeaves
        <5>2. QED
          BY <5>1
      <4>3. \A i \in DOMAIN sent[t] : sent[t][i] = cp.st.proposal
        <5>1. sent[t] = <<>> => DOMAIN sent[t] = {}
          BY <1>3
        <5>2. QED
          BY <1>1, <3>3, <5>1 DEF Agreed, SentAgree
      <4>4. \A i \in DOMAIN sent'[t] : sent'[t][i] = cp.st.proposal
        <5> DEFINE p == run[r].st.proposal
        <5>1. p \in Proposal
          BY <3>2
        <5> HIDE DEF p
        <5>2. \A i \in DOMAIN Append(sent[t], p) :
                Append(sent[t], p)[i] = p
                  \/ (i \in DOMAIN sent[t] /\ Append(sent[t], p)[i] = sent[t][i])
          BY <1>3, <5>1
        <5>3. sent'[t] = Append(sent[t], p)
          BY <4>1 DEF p
        <5>4. p = cp.st.proposal
          BY <3>3 DEF p
        <5>5. QED
          BY <4>3, <5>2, <5>3, <5>4
      <4>5. thread'[t].st.proposal = cp.st.proposal /\ thread'[t].next \in Shown
        BY <3>2, <3>3, <3>4, <4>2
      <4>6. QED
        BY <1>5, <3>3, <4>4, <4>5, ResumedStepAgrees
    <3>7. QED
      BY <3>5, <3>6
  <2>8. CASE Respond(r)
    <3>1. Advance(r, run[r].st, "end") /\ sent' = sent
      BY <2>1, <2>8 DEF Respond
    <3>2. QED
      BY <1>2, <2>2, <2>3, <2>8, <3>1 DEF Respond, At, Nodes, Shown
  <2>9. QED
    BY <2>4, <2>5, <2>6, <2>7, <2>8 DEF AgentStep
<1>6. QED
  BY <1>4, <1>5

\* A request that arrives: a question on a thread nobody used, or a decision on
\* a thread whose card is shown.
LEMMA PostAgrees ==
  ASSUME Typed, Agreed, NEW r \in Run, NEW t \in Thread, NEW about, NEW d, NEW at, NEW st,
         Post(r, t, about, d, at, st), UNCHANGED <<thread, card, sent>>,
         \/ Unstarted(t) /\ at = "guardrail"
         \/ ~Cli /\ d # Null /\ card[t] # Null
  PROVE  Agreed'
<1> DEFINE x == [thread |-> t, about |-> about, decision |-> d, at |-> at, st |-> st]
<1>1. run' = [run EXCEPT ![r] = x] /\ run[r] = Null
  BY DEF Post, Free
<1>2. x.thread = t /\ x.at = at /\ x.decision = d
  OBVIOUS
<1> HIDE DEF x
<1>3. run'[r] = x /\ \A q \in Run : q # r => run'[q] = run[q]
  BY <1>1 DEF Typed, TypeOK
<1>4. \A q \in Run : Asking(q) => q # r /\ run[q].thread # t
  BY <1>1 DEF Asking, Agreed, AskingAlone, Unstarted, Free
<1>5. Asking(r)' => Unstarted(t) /\ at = "guardrail"
  BY <1>2, <1>3 DEF Asking
<1>6. AskingAlone'
  <2>1. ASSUME NEW q \in Run, Asking(q)', q # r
        PROVE  /\ Asking(q) /\ run'[q] = run[q]
               /\ \A p \in Run : p # q /\ run'[p] # Null => run'[p].thread # run[q].thread
    <3>1. Asking(q) /\ run'[q] = run[q]
      BY <1>3, <2>1 DEF Asking
    <3>2. QED
      BY <1>2, <1>3, <1>4, <3>1 DEF Agreed, AskingAlone
  <2>2. ASSUME Asking(r)'
        PROVE  /\ at = "guardrail" /\ card[t] = Null /\ sent[t] = <<>>
               /\ \A p \in Run : p # r /\ run'[p] # Null => run'[p].thread # t
    BY <1>3, <1>5, <2>2 DEF Unstarted, Free
  <2>3. QED
    BY <1>2, <1>3, <2>1, <2>2 DEF Agreed, AskingAlone
<1>7. CardsAgree' /\ SentAgree'
  BY DEF Agreed, CardsAgree, SentAgree
<1>8. QED
  BY <1>6, <1>7 DEF Agreed

\* An answer the browser gets: the card it puts up shows the proposal of the
\* checkpoint.
LEMMA ReceiveAgrees ==
  ASSUME Typed, ~Cli => Gate, Agreed, NEW r \in Run, Receive(r)
  PROVE  Agreed'
<1> DEFINE t == run[r].thread
           about == run[r].about
<1>1. run[r] \in Request_ /\ run[r] # Null /\ t \in Thread /\ about \in Thread
  BY DEF Receive, Free, Typed, TypeOK, Request_
<1>2. run'[r] = Null /\ \A q \in Run : q # r => run'[q] = run[q]
  BY DEF Receive, Typed, TypeOK
<1>3. UNCHANGED <<thread, sent>>
  BY DEF Receive
<1>4. SentAgree'
  BY <1>3 DEF Agreed, SentAgree
<1>5. ASSUME \A q \in Run : q # r /\ Asking(q) => card'[run[q].thread] = Null
      PROVE  AskingAlone'
  <2>1. ASSUME NEW q \in Run, Asking(q)'
        PROVE  /\ q # r /\ Asking(q) /\ run'[q] = run[q]
               /\ \A p \in Run : p # q /\ run'[p] # Null => run'[p].thread # run[q].thread
    <3>1. q # r /\ Asking(q) /\ run'[q] = run[q]
      BY <1>2, <2>1, AgentAssumption DEF Asking
    <3>2. QED
      BY <1>2, <3>1 DEF Agreed, AskingAlone
  <2>2. QED
    BY <1>3, <1>5, <2>1 DEF Agreed, AskingAlone
<1>6. CASE run[r].at = "pending"
  <2>1. Asking(r)
    BY <1>1, <1>6, AgentAssumption DEF Asking, Gate, ResumedAgree
  <2>2. /\ thread[t] # Null /\ thread[t].next \in Shown
        /\ thread[t].st.proposal = run[r].st.proposal
        /\ \A q \in Run : q # r /\ run[q] # Null => run[q].thread # t
    BY <1>6, <2>1 DEF Agreed, AskingAlone
  <2>3. /\ card'[t] = [proposal |-> run[r].st.proposal, done |-> "open"]
        /\ \A u \in Thread : u # t => card'[u] = card[u]
    BY <1>1, <1>6 DEF Receive, Typed, TypeOK
  <2>4. card'[t].proposal = run[r].st.proposal
    BY <2>3
  <2>5. CardsAgree'
    BY <1>3, <2>2, <2>3, <2>4 DEF Agreed, CardsAgree
  <2>6. \A q \in Run : q # r /\ Asking(q) => card'[run[q].thread] = Null
    <3>1. ASSUME NEW q \in Run, q # r, Asking(q) PROVE card'[run[q].thread] = Null
      <4>1. run[q].thread \in Thread /\ run[q].thread # t
        BY <2>2, <3>1 DEF Asking, Typed, TypeOK, Request_
      <4>2. QED
        BY <2>3, <3>1, <4>1 DEF Agreed, AskingAlone
    <3>2. QED
      BY <3>1
  <2>7. QED
    BY <1>4, <1>5, <2>5, <2>6 DEF Agreed
<1>7. CASE run[r].at = "answered" /\ run[r].decision # Null /\ card[about] # Null
  <2>1. card' = [card EXCEPT ![about] = [card[about] EXCEPT !.done = run[r].decision]]
    BY <1>7 DEF Receive
  <2>2. [card[about] EXCEPT !.done = run[r].decision].proposal = card[about].proposal
    BY <1>1, <1>7 DEF Typed, TypeOK, Card
  <2>3. \A u \in Thread : /\ card[u] = Null => card'[u] = Null
                          /\ card[u] # Null => card'[u].proposal = card[u].proposal
    BY <1>1, <1>7, <2>1, <2>2 DEF Typed, TypeOK
  <2>4. CardsAgree'
    BY <1>3, <2>3 DEF Agreed, CardsAgree
  <2>5. \A q \in Run : q # r /\ Asking(q) => card'[run[q].thread] = Null
    <3>1. ASSUME NEW q \in Run, q # r, Asking(q) PROVE card'[run[q].thread] = Null
      <4>1. run[q].thread \in Thread
        BY <3>1 DEF Asking, Typed, TypeOK, Request_
      <4>2. QED
        BY <2>3, <3>1, <4>1 DEF Agreed, AskingAlone
    <3>2. QED
      BY <3>1
  <2>6. QED
    BY <1>4, <1>5, <2>4, <2>5 DEF Agreed
<1>8. CASE card' = card
  <2>1. CardsAgree'
    BY <1>3, <1>8 DEF Agreed, CardsAgree
  <2>2. \A q \in Run : q # r /\ Asking(q) => card'[run[q].thread] = Null
    BY <1>8 DEF Agreed, AskingAlone
  <2>3. QED
    BY <1>4, <1>5, <2>1, <2>2 DEF Agreed
<1>9. QED
  BY <1>6, <1>7, <1>8 DEF Receive

LEMMA NextKeepsAgreed ==
  Typed /\ (~Cli => Gate) /\ Agreed /\ [Next]_vars => Agreed'
<1> SUFFICES ASSUME Typed, ~Cli => Gate, Agreed, [Next]_vars PROVE Agreed'
  OBVIOUS
<1>1. ASSUME NEW r \in Run, AgentStep(r) \/ Fail(r) PROVE Agreed'
  BY <1>1, AgentKeepsAgreed
<1>2. ASSUME NEW r \in Run, Receive(r) PROVE Agreed'
  BY <1>2, ReceiveAgrees
<1>3. ASSUME NEW r \in Run, Drop(r) PROVE Agreed'
  <2>1. run'[r] = Null /\ \A q \in Run : q # r => run'[q] = run[q]
    BY <1>3 DEF Drop, Typed, TypeOK
  <2>2. UNCHANGED <<thread, card, sent>>
    BY <1>3 DEF Drop
  <2>3. \A q \in Run : Asking(q)' => q # r /\ Asking(q) /\ run'[q] = run[q]
    BY <2>1, AgentAssumption DEF Asking
  <2>4. AskingAlone'
    BY <2>1, <2>2, <2>3 DEF Agreed, AskingAlone
  <2>5. CardsAgree' /\ SentAgree'
    BY <2>2 DEF Agreed, CardsAgree, SentAgree
  <2>6. QED
    BY <2>4, <2>5 DEF Agreed
<1>4. CASE UNCHANGED <<thread, run, card, sent>>
  <2>1. \A q \in Run : Asking(q)' => Asking(q)
    BY <1>4, AgentAssumption DEF Asking
  <2>2. AskingAlone'
    BY <1>4, <2>1 DEF Agreed, AskingAlone
  <2>3. CardsAgree' /\ SentAgree'
    BY <1>4 DEF Agreed, CardsAgree, SentAgree
  <2>4. QED
    BY <2>2, <2>3 DEF Agreed
<1>5. ASSUME NEW r \in Run, NEW t \in Thread, Ask(r, t) PROVE Agreed'
  BY <1>5, PostAgrees DEF Ask
<1>6. ASSUME NEW r \in Run, NEW t \in Thread, Decide(r, t) PROVE Agreed'
  <2>1. PICK d \in Decision : Post(r, t, t, d, "check", Null)
    BY <1>6 DEF Decide
  <2>2. ~Cli /\ d # Null /\ card[t] # Null /\ UNCHANGED <<thread, card, sent>>
    BY <1>6, NullAssumption DEF Decide, Open
  <2>3. QED
    BY <2>1, <2>2, PostAgrees
<1>7. ASSUME NEW r \in Run, NEW t \in Thread, NEW again \in Thread, ApproveCli(r, t, again)
      PROVE  Agreed'
  BY <1>7, PostAgrees DEF ApproveCli
<1>8. CASE Forget
  <2>1. \A t \in Thread : card'[t] = Null \/ card'[t] = card[t]
    BY <1>8 DEF Forget
  <2>2. UNCHANGED <<thread, run, sent>>
    BY <1>8 DEF Forget
  <2>3. \A q \in Run : Asking(q)' => Asking(q) /\ run[q].thread \in Thread
    BY <2>2, AgentAssumption DEF Asking, Typed, TypeOK, Request_
  <2>4. AskingAlone'
    BY <2>1, <2>2, <2>3 DEF Agreed, AskingAlone
  <2>5. CardsAgree' /\ SentAgree'
    BY <2>1, <2>2 DEF Agreed, CardsAgree, SentAgree
  <2>6. QED
    BY <2>4, <2>5 DEF Agreed
<1>9. CASE Restart
  <2>1. \A r \in Run : ~Asking(r)'
    BY <1>9 DEF Restart, Asking
  <2>2. AskingAlone'
    BY <2>1 DEF AskingAlone
  <2>3. CardsAgree' /\ SentAgree'
    BY <1>9 DEF Restart, CardsAgree, SentAgree
  <2>4. QED
    BY <2>2, <2>3 DEF Agreed
<1>10. QED
  BY <1>1, <1>2, <1>3, <1>4, <1>5, <1>6, <1>7, <1>8, <1>9 DEF Next, GiveUp, vars

LEMMA AlwaysAgreed == Spec => []Agreed
<1>1. Init => Agreed
  BY DEF Init, Agreed, AskingAlone, CardsAgree, SentAgree, Asking
<1>2. Inductive => (~Cli => Gate)
  BY DEF Inductive
<1>3. QED
  BY <1>1, <1>2, NextKeepsAgreed, AlwaysTyped, AgentAlwaysInductive, PTL DEF Spec

-----------------------------------------------------------------------------
(* What may be proposed at all.                                             *)

\* The rules ask for a document nobody uploaded, unless a check is blocked.
LEMMA FirstAskHasReason ==
  ASSUME NEW checks, NEW docs, NEW p, FirstAsk(checks, docs, p) # p
  PROVE  LET ask == FirstAsk(checks, docs, p) IN
         /\ p = Null
         /\ ask.tool = "request_document" /\ ask.source = "rules"
         /\ docs[ask.args] = "none" \/ \E r \in Rule : checks[r] = "block"
<1> DEFINE asking == {i \in DOMAIN Rules : AskOf(checks, docs, Rules[i]) # Null}
           r == Rules[Min(asking)]
           t == AskOf(checks, docs, r)
<1>1. p = Null /\ asking # {} /\ FirstAsk(checks, docs, p) = Request(t)
  BY DEF FirstAsk
<1>2. asking \subseteq Nat /\ asking \subseteq DOMAIN Rules
  BY DEF Rules
<1>3. Min(asking) \in asking
  BY <1>1, <1>2, MinIsMember
<1>4. r \in Rule /\ t # Null
  BY <1>2, <1>3 DEF Rules, Rule
<1> HIDE DEF r, asking
<1>5. docs[t] = "none" \/ checks[r] = "block"
  <2>1. CASE checks[r] = "pending" /\ Missing(docs, r) # {}
    <3>1. Missing(docs, r) \subseteq DOMAIN RuleInputs(r) /\ DOMAIN RuleInputs(r) \subseteq Nat
      BY <1>4 DEF Missing, RuleInputs, Rule
    <3>2. Min(Missing(docs, r)) \in Missing(docs, r)
      BY <2>1, <3>1, MinIsMember
    <3>3. docs[RuleInputs(r)[Min(Missing(docs, r))]] = "none"
      BY <3>2 DEF Missing
    <3>4. t = RuleInputs(r)[Min(Missing(docs, r))]
      BY <2>1 DEF AskOf
    <3>5. QED
      BY <3>3, <3>4
  <2>2. CASE ~(checks[r] = "pending" /\ Missing(docs, r) # {}) /\ checks[r] # "block"
    BY <1>4, <2>2 DEF AskOf
  <2>3. QED
    BY <2>1, <2>2
<1> HIDE DEF t
<1>6. Request(t).tool = "request_document" /\ Request(t).source = "rules" /\ Request(t).args = t
  BY DEF Request
<1>7. QED
  BY <1>1, <1>4, <1>5, <1>6

\* Where nothing is proposed yet, where only the model can have, and what may
\* stand in a proposal that is shown or decided.
FitAt(at, st) ==
  /\ at = "guardrail" => st.proposal = Null
  /\ at \in {"gather_case", "investigate", "sufficiency", "propose_action"} =>
       (st.proposal # Null => st.proposal.source = "model")
  /\ at \in {"human_interrupt", "respond_and_record", "pending", "end"} /\ st.proposal # Null =>
       /\ st.injected => st.proposal.tool # "draft_student_message"
       /\ st.proposal.source = "rules" =>
            \/ st.found.docs[st.proposal.args] = "none"
            \/ \E r \in Rule : st.found.checks[r] = "block"

\* Every run that has a state and every checkpoint is fit for where it stands.
AllFit ==
  /\ \A r \in Run : run[r] # Null /\ run[r].at \in Nodes \cup {"pending"} =>
       FitAt(run[r].at, run[r].st)
  /\ \A t \in Thread : thread[t] # Null =>
       thread[t].next # "guardrail" /\ FitAt(thread[t].next, thread[t].st)

\* Each node leaves a state that is fit for the next.
LEMMA NodesLeaveFit ==
  ASSUME NEW st \in State
  PROVE  /\ FitAt("guardrail", st) =>
              FitAt("respond_and_record", st) /\ FitAt("gather_case", st)
         /\ FitAt("gather_case", st) =>
              \A found \in Gathered : FitAt("investigate", Gather(st, found))
         /\ FitAt("investigate", st) =>
              \A turn \in Turns : FitAt("sufficiency", Investigate(st, turn))
         /\ FitAt("sufficiency", st) => FitAt("propose_action", st) /\ FitAt("investigate", st)
         /\ FitAt("propose_action", st) => FitAt("human_interrupt", Propose(st))
         /\ FitAt("human_interrupt", st) =>
              /\ FitAt("pending", st)
              /\ \A d \in Decision \cup {Null} :
                   FitAt("respond_and_record", [st EXCEPT !.decision = d])
         /\ FitAt("respond_and_record", st) => FitAt("end", st) /\ FitAt("pending", st)
<1>1. FitAt("guardrail", st) => FitAt("respond_and_record", st) /\ FitAt("gather_case", st)
  BY DEF FitAt
<1>2. ASSUME NEW found \in Gathered, FitAt("gather_case", st)
      PROVE  FitAt("investigate", Gather(st, found))
  <2>1. Gather(st, found).proposal = st.proposal
    BY DEF Gather, State
  <2>2. QED
    BY <1>2, <2>1 DEF FitAt
<1>3. ASSUME NEW turn \in Turns, FitAt("investigate", st)
      PROVE  FitAt("sufficiency", Investigate(st, turn))
  <2> DEFINE asks == {i \in DOMAIN turn : turn[i].kind = "external"}
  <2>1. turn \in Seq(Call)
    BY AgentAssumption
  <2>2. asks # {} => turn[Min(asks)].proposal.source = "model"
    <3>1. asks \subseteq Nat
      BY <2>1
    <3>2. asks # {} => Min(asks) \in asks
      BY <3>1, MinIsMember
    <3>3. \A i \in asks : turn[i].proposal.source = "model"
      BY <2>1 DEF Call
    <3>4. QED
      BY <3>2, <3>3
  <2>3. Investigate(st, turn).proposal =
          IF st.proposal = Null /\ asks # {} THEN turn[Min(asks)].proposal ELSE st.proposal
    BY DEF Investigate, State
  <2>4. Investigate(st, turn).proposal # Null =>
          Investigate(st, turn).proposal.source = "model"
    BY <1>3, <2>2, <2>3 DEF FitAt
  <2>5. QED
    BY <2>4 DEF FitAt
<1>4. FitAt("sufficiency", st) => FitAt("propose_action", st) /\ FitAt("investigate", st)
  BY DEF FitAt
<1>5. ASSUME FitAt("propose_action", st) PROVE FitAt("human_interrupt", Propose(st))
  <2> DEFINE kept == IF Drops(st) THEN Null ELSE st.proposal
             checks == Checks(st)
             p == Propose(st).proposal
  <2>1. /\ p = IF checks = Null THEN kept ELSE FirstAsk(checks, st.found.docs, kept)
        /\ Propose(st).injected = st.injected
        /\ Propose(st).found = st.found
    BY DEF Propose, State
  <2>2. kept # Null =>
          /\ kept.source = "model"
          /\ st.injected => kept.tool # "draft_student_message"
    BY <1>5 DEF FitAt, Drops
  <2>3. CASE p = kept
    <3> HIDE DEF kept
    <3>1. "model" # "rules"
      OBVIOUS
    <3>2. QED
      BY <2>1, <2>2, <2>3, <3>1 DEF FitAt
  <2>4. CASE p # kept
    <3>1. checks # Null /\ p = FirstAsk(checks, st.found.docs, kept)
      BY <2>1, <2>4
    <3>2. checks = st.found.checks
      BY <3>1 DEF Checks
    <3> HIDE DEF kept, checks
    <3>3. p.tool = "request_document" /\ p.source = "rules"
          /\ (st.found.docs[p.args] = "none" \/ \E r \in Rule : checks[r] = "block")
      BY <2>4, <3>1, FirstAskHasReason
    <3>4. QED
      BY <2>1, <3>2, <3>3 DEF FitAt
  <2>5. QED
    BY <2>3, <2>4
<1>6. ASSUME FitAt("human_interrupt", st), NEW d \in Decision \cup {Null}
      PROVE  FitAt("pending", st) /\ FitAt("respond_and_record", [st EXCEPT !.decision = d])
  <2> DEFINE to == [st EXCEPT !.decision = d]
  <2>1. to.proposal = st.proposal /\ to.injected = st.injected /\ to.found = st.found
    BY DEF State
  <2> HIDE DEF to
  <2>2. FitAt("pending", st) /\ FitAt("respond_and_record", to)
    BY <1>6, <2>1 DEF FitAt
  <2>3. QED
    BY <2>2 DEF to
<1>7. FitAt("respond_and_record", st) => FitAt("end", st) /\ FitAt("pending", st)
  BY DEF FitAt
<1>8. QED
  BY <1>1, <1>2, <1>3, <1>4, <1>5, <1>6, <1>7

LEMMA AgentKeepsFit ==
  ASSUME Typed, AllFit, NEW r \in Run, AgentStep(r) \/ Fail(r)
  PROVE  AllFit'
<1> DEFINE t == run[r].thread
           st == run[r].st
<1>1. /\ run[r] \in Request_ /\ run[r] # Null /\ t \in Thread
      /\ \A q \in Run : q # r => run'[q] = run[q]
      /\ \A u \in Thread : u # t => thread'[u] = thread[u]
  BY StepOfOne
<1>2. run[r].at \in Nodes => st \in State /\ FitAt(run[r].at, st)
  BY <1>1 DEF Typed, RunsHaveState, Request_, AllFit
<1>3. SUFFICES /\ run'[r].at \in Nodes \cup {"pending"} => FitAt(run'[r].at, run'[r].st)
               /\ thread'[t] # Null =>
                    thread'[t].next # "guardrail" /\ FitAt(thread'[t].next, thread'[t].st)
  BY <1>1 DEF AllFit
<1>4. ASSUME NEW to \in State, NEW next \in (Nodes \cup {"end"}) \ {"guardrail"},
             Advance(r, to, next), FitAt(next, to)
      PROVE  /\ run'[r].at \in Nodes \cup {"pending"} => FitAt(run'[r].at, run'[r].st)
             /\ thread'[t] # Null =>
                  thread'[t].next # "guardrail" /\ FitAt(thread'[t].next, thread'[t].st)
  <2>1. /\ thread'[t] = [st |-> to, next |-> next]
        /\ run'[r].at = IF next = "end" THEN "answered" ELSE next
        /\ next # "end" => run'[r].st = to
    BY <1>1, <1>4, AdvanceLeaves
  <2>2. thread'[t].st = to /\ thread'[t].next = next
    BY <2>1
  <2>3. QED
    BY <1>4, <2>1, <2>2 DEF Nodes
<1>5. ASSUME NEW how \in Replied, Ends(r, how), thread' = thread,
             how = "pending" => FitAt("pending", st)
      PROVE  /\ run'[r].at \in Nodes \cup {"pending"} => FitAt(run'[r].at, run'[r].st)
             /\ thread'[t] # Null =>
                  thread'[t].next # "guardrail" /\ FitAt(thread'[t].next, thread'[t].st)
  <2>1. run'[r].at = how /\ (how = "pending" => run'[r].st = st)
    BY <1>1, <1>5, EndsLeaves
  <2>2. how \notin Nodes
    BY DEF Replied, Nodes
  <2>3. QED
    BY <1>1, <1>5, <2>1, <2>2 DEF AllFit
<1>6. CASE CheckResume(r)
  <2>1. CASE Ends(r, "expired")
    BY <1>5, <1>6, <2>1 DEF CheckResume, Replied
  <2>2. CASE run' = [run EXCEPT ![r].at = "load"]
    <3>1. run'[r].at = "load"
      BY <1>1, <2>2 DEF Typed, TypeOK, Request_
    <3>2. QED
      BY <1>1, <1>6, <3>1 DEF CheckResume, AllFit, Nodes
  <2>3. QED
    BY <1>6, <2>1, <2>2 DEF CheckResume
<1>7. CASE Load(r)
  <2> DEFINE cp == thread[t]
  <2>1. /\ cp # Null /\ thread' = thread
        /\ run'[r].at = IF cp.next = "end" THEN "answered" ELSE cp.next
        /\ cp.next # "end" => run'[r].st = cp.st
    BY <1>7, LoadLeaves DEF Load
  <2>2. cp.next # "guardrail" /\ FitAt(cp.next, cp.st)
    BY <1>1, <2>1 DEF AllFit
  <2>3. QED
    BY <2>1, <2>2 DEF Nodes
<1>8. CASE Guardrail(r)
  BY <1>2, <1>4, <1>8, NodesLeaveFit DEF Guardrail, At, Nodes
<1>9. CASE GatherCase(r)
  <2>1. PICK found \in Gathered : Advance(r, Gather(st, found), "investigate")
    BY <1>9 DEF GatherCase
  <2>2. Gather(st, found) \in State /\ FitAt("investigate", Gather(st, found))
    BY <1>2, <1>9, NodesKeepState, NodesLeaveFit DEF GatherCase, At, Nodes
  <2>3. QED
    BY <1>4, <2>1, <2>2 DEF Nodes
<1>10. CASE ModelTurn(r)
  BY <1>2, <1>4, <1>10, NodesKeepState, NodesLeaveFit DEF ModelTurn, At, Nodes
<1>11. CASE Sufficiency(r)
  BY <1>2, <1>4, <1>11, NodesLeaveFit DEF Sufficiency, At, Nodes
<1>12. CASE ProposeAction(r)
  BY <1>2, <1>4, <1>12, NodesKeepState, NodesLeaveFit DEF ProposeAction, At, Nodes
<1>13. CASE NoProposal(r)
  BY <1>2, <1>4, <1>13, NodesKeepState, NodesLeaveFit DEF NoProposal, At, Nodes
<1>14. CASE Interrupt(r)
  BY <1>2, <1>5, <1>14, NodesLeaveFit DEF Interrupt, At, Nodes, Replied
<1>15. CASE Settle(r)
  <2>1. Verdict(r) \in Decision
    BY DEF Verdict, Decision
  <2>2. QED
    BY <1>2, <1>4, <1>15, <2>1, NodesKeepState, NodesLeaveFit DEF Settle, At, Nodes
<1>16. CASE Respond(r)
  <2>1. st \in State /\ FitAt("end", st) /\ FitAt("pending", st)
    BY <1>2, <1>16, NodesLeaveFit DEF Respond, At, Nodes
  <2>2. CASE Cli /\ run[r].decision = Null /\ run[r].st.proposal # Null
    <3>1. thread'[t] = [st |-> st, next |-> "end"]
      BY <1>1, <1>16, <2>2 DEF Respond, Typed, TypeOK
    <3>2. run'[r].at = "pending" /\ run'[r].st = st
      BY <1>1, <1>16, <2>2, EndsLeaves DEF Respond
    <3> HIDE DEF st
    <3>3. thread'[t].st = st /\ thread'[t].next = "end"
      BY <3>1
    <3>4. QED
      BY <2>1, <3>2, <3>3
  <2>3. CASE ~(Cli /\ run[r].decision = Null /\ run[r].st.proposal # Null)
    BY <1>4, <1>16, <2>1, <2>3 DEF Respond, Nodes
  <2>4. QED
    BY <2>2, <2>3
<1>17. CASE Fail(r)
  BY <1>5, <1>17 DEF Fail, Replied
<1>18. QED
  BY <1>6, <1>7, <1>8, <1>9, <1>10, <1>11, <1>12, <1>13, <1>14, <1>15, <1>16, <1>17
     DEF AgentStep

LEMMA NextKeepsFit == Typed /\ AllFit /\ [Next]_vars => AllFit'
<1> SUFFICES ASSUME Typed, AllFit, [Next]_vars PROVE AllFit'
  OBVIOUS
<1>1. ASSUME NEW r \in Run, AgentStep(r) \/ Fail(r) PROVE AllFit'
  BY <1>1, AgentKeepsFit
<1>2. ASSUME NEW r \in Run, Receive(r) \/ Drop(r) PROVE AllFit'
  <2>1. run' = [run EXCEPT ![r] = Null] /\ thread' = thread
    BY <1>2 DEF Receive, Drop
  <2>2. QED
    BY <2>1 DEF AllFit, Typed, TypeOK
<1>3. ASSUME NEW r \in Run, NEW t, NEW about, NEW d, NEW at, NEW st,
             Post(r, t, about, d, at, st), thread' = thread,
             at \in Nodes \cup {"pending"} => FitAt(at, st)
      PROVE  AllFit'
  <2> DEFINE x == [thread |-> t, about |-> about, decision |-> d, at |-> at, st |-> st]
  <2>1. run' = [run EXCEPT ![r] = x]
    BY <1>3 DEF Post
  <2>2. x.at = at /\ x.st = st
    OBVIOUS
  <2> HIDE DEF x
  <2>3. QED
    BY <1>3, <2>1, <2>2 DEF AllFit, Typed, TypeOK
<1>4. \A blocked, programme \in BOOLEAN : FitAt("guardrail", Begun(blocked, programme))
  BY DEF FitAt, Begun
<1>5. ASSUME NEW r \in Run, NEW t \in Thread, Ask(r, t) PROVE AllFit'
  BY <1>3, <1>4, <1>5 DEF Ask
<1>6. ASSUME NEW r \in Run, NEW t \in Thread, Decide(r, t) PROVE AllFit'
  BY <1>3, <1>6 DEF Decide, Nodes
<1>7. ASSUME NEW r \in Run, NEW t \in Thread, NEW again \in Thread, ApproveCli(r, t, again)
      PROVE  AllFit'
  BY <1>3, <1>4, <1>7 DEF ApproveCli
<1>8. CASE UNCHANGED <<thread, run>>
  BY <1>8 DEF AllFit
<1>9. CASE Restart
  BY <1>9 DEF Restart, AllFit
<1>10. QED
  BY <1>1, <1>2, <1>5, <1>6, <1>7, <1>8, <1>9 DEF Next, GiveUp, Forget, vars

LEMMA AlwaysFit == Spec => []AllFit
<1>1. Init => AllFit
  BY DEF Init, AllFit
<1>2. QED
  BY <1>1, NextKeepsFit, AlwaysTyped, PTL DEF Spec

\* What a card shows or a thread executed is the checkpoint's proposal, past the
\* point where it was put.
LEMMA PutIsTheProposal ==
  ASSUME Typed, Agreed, AllFit, NEW t \in Thread, thread[t] # Null
  PROVE  LET cp == thread[t]
             p  == cp.st.proposal IN
         /\ card[t] # Null =>
              /\ card[t].proposal = p /\ p \in Proposal
              /\ cp.st.injected => p.tool # "draft_student_message"
              /\ p.source = "rules" =>
                   \/ cp.st.found.docs[p.args] = "none"
                   \/ \E r \in Rule : cp.st.found.checks[r] = "block"
         /\ \A i \in DOMAIN sent[t] :
              /\ sent[t][i] = p
              /\ cp.st.injected => p.tool # "draft_student_message"
<1> DEFINE cp == thread[t]
           p  == cp.st.proposal
<1>1. cp.next \in Shown /\ p # Null =>
        /\ cp.st.injected => p.tool # "draft_student_message"
        /\ p.source = "rules" =>
             \/ cp.st.found.docs[p.args] = "none"
             \/ \E r \in Rule : cp.st.found.checks[r] = "block"
  BY DEF AllFit, FitAt, Shown
<1>2. ASSUME card[t] # Null
      PROVE  cp.next \in Shown /\ card[t].proposal = p /\ p \in Proposal /\ p # Null
  <2>1. card[t] \in Card /\ cp.next \in Shown /\ p = card[t].proposal
    BY <1>2 DEF Typed, TypeOK, Agreed, CardsAgree
  <2>2. QED
    BY <2>1, NullAssumption DEF Card
<1>3. ASSUME NEW i \in DOMAIN sent[t]
      PROVE  cp.next \in Shown /\ sent[t][i] = p /\ p # Null
  <2>1. sent[t] \in Seq(Proposal)
    BY DEF Typed, TypeOK
  <2>2. sent[t] # <<>> /\ sent[t][i] \in Proposal
    BY <1>3, <2>1
  <2>3. cp.next \in Shown /\ sent[t][i] = p
    BY <1>3, <2>2 DEF Agreed, SentAgree
  <2>4. QED
    BY <2>2, <2>3, NullAssumption
<1> HIDE DEF cp, p
<1>4. QED
  BY <1>1, <1>2, <1>3 DEF cp, p

\* A message drafted while a document was feeding the model instructions is
\* neither shown for approval nor executed, whichever came first, whatever else
\* was asked, lost, restarted or decided meanwhile (propose_action drops it
\* before the rules may ask).
THEOREM InjectedDraftIsNeverPut == Spec => []InjectedDraftNeverPut
<1>1. Typed /\ Agreed /\ AllFit => InjectedDraftNeverPut
  BY PutIsTheProposal DEF InjectedDraftNeverPut
<1>2. QED
  BY <1>1, AlwaysTyped, AlwaysAgreed, AlwaysFit, PTL

\* Unless a check is blocked, a card of the rules asks for a document of which
\* nothing was uploaded: never for one that only waits for a reviewer
\* (RULE_INPUTS and missing_for in propose_action).
THEOREM AwaitedIsNeverAskedFor == Spec => []OnlyBlocksAskForAwaited
<1>1. Typed /\ Agreed /\ AllFit => OnlyBlocksAskForAwaited
  BY PutIsTheProposal DEF OnlyBlocksAskForAwaited
<1>2. QED
  BY <1>1, AlwaysTyped, AlwaysAgreed, AlwaysFit, PTL
-----------------------------------------------------------------------------
(* The agent as an approval gate.                                           *)

\* In the thread of a question nothing was approved yet.
NothingApproved ==
  \A r \in Run : run[r] # Null /\ run[r].decision = Null =>
    \A p \in approved : p[1] # run[r].thread

LEMMA NextKeepsNothingApproved ==
  ASSUME ~Cli, Typed, Gate, NothingApproved, [Next]_vars
  PROVE  NothingApproved'
<1>1. ASSUME NEW r \in Run, AgentStep(r) \/ Fail(r) PROVE NothingApproved'
  <2>1. /\ run[r] # Null /\ approved' = approved
        /\ \A q \in Run : q # r => run'[q] = run[q]
        /\ run'[r].thread = run[r].thread /\ run'[r].decision = run[r].decision
    BY <1>1, StepOfOne DEF Browser
  <2>2. QED
    BY <2>1 DEF NothingApproved
<1>2. ASSUME NEW r \in Run, Receive(r) \/ Drop(r) PROVE NothingApproved'
  <2>1. run' = [run EXCEPT ![r] = Null] /\ approved' = approved
    BY <1>2 DEF Receive, Drop
  <2>2. QED
    BY <2>1 DEF NothingApproved, Typed, TypeOK
<1>3. CASE UNCHANGED <<run, approved>>
  BY <1>3 DEF NothingApproved
<1>4. ASSUME NEW r \in Run, NEW t \in Thread, Ask(r, t) PROVE NothingApproved'
  <2>1. PICK blocked \in BOOLEAN, programme \in BOOLEAN :
          run' = [run EXCEPT ![r] =
                    [thread |-> t, about |-> t, decision |-> Null, at |-> "guardrail",
                     st |-> Begun(blocked, programme)]]
    BY <1>4 DEF Ask, Post
  <2>2. run'[r].thread = t /\ \A q \in Run : q # r => run'[q] = run[q]
    BY <2>1 DEF Typed, TypeOK
  <2>3. approved' = approved /\ \A p \in approved : p[1] # t
    BY <1>4 DEF Ask, Unstarted
  <2>4. QED
    BY <2>2, <2>3 DEF NothingApproved
<1>5. ASSUME NEW r \in Run, NEW t \in Thread, Decide(r, t) PROVE NothingApproved'
  <2>1. PICK d \in Decision :
          /\ run' = [run EXCEPT ![r] =
                       [thread |-> t, about |-> t, decision |-> d, at |-> "check", st |-> Null]]
          /\ approved' = IF d = "approve" THEN approved \cup {<<t, card[t].proposal>>}
                         ELSE approved
    BY <1>5 DEF Decide, Post
  <2>2. run'[r].decision # Null /\ \A q \in Run : q # r => run'[q] = run[q]
    BY <2>1, NullAssumption DEF Typed, TypeOK
  <2>3. \A q \in Run : run[q] # Null /\ run[q].decision = Null => run[q].thread # t
    BY <1>5 DEF Decide, Open, Gate, QuestionsAreAlone
  <2>4. \A p \in approved' : p \in approved \/ p[1] = t
    BY <2>1
  <2>5. QED
    BY <2>2, <2>3, <2>4 DEF NothingApproved
<1>6. CASE Restart
  BY <1>6 DEF Restart, NothingApproved
<1>7. QED
  BY <1>1, <1>2, <1>3, <1>4, <1>5, <1>6 DEF Next, GiveUp, ApproveCli, Forget, vars

\* The card a decision is awaited for stays open.
DecidedIsOpen ==
  \A r \in Run : waits = r /\ run[r] # Null /\ run[r].decision # Null => Open(run[r].about)

LEMMA NextKeepsDecidedIsOpen ==
  ASSUME ~Cli, Typed, DecidedIsOpen, [Next]_vars
  PROVE  DecidedIsOpen'
<1>1. ASSUME NEW r \in Run, AgentStep(r) \/ Fail(r) PROVE DecidedIsOpen'
  <2>1. /\ run[r] # Null /\ waits' = waits /\ card' = card
        /\ \A q \in Run : q # r => run'[q] = run[q]
        /\ run'[r].about = run[r].about /\ run'[r].decision = run[r].decision
    BY <1>1, StepOfOne DEF Browser
  <2>2. QED
    BY <2>1 DEF DecidedIsOpen, Open
<1>2. CASE waits' = Null
  BY <1>2, NullAssumption DEF DecidedIsOpen
<1>3. ASSUME NEW r \in Run, Drop(r) PROVE DecidedIsOpen'
  <2>1. run' = [run EXCEPT ![r] = Null] /\ waits # r /\ UNCHANGED <<waits, card>>
    BY <1>3 DEF Drop
  <2>2. QED
    BY <2>1 DEF DecidedIsOpen, Open, Typed, TypeOK
<1>4. ASSUME NEW r \in Run, NEW t \in Thread, Ask(r, t) PROVE DecidedIsOpen'
  <2>1. PICK blocked \in BOOLEAN, programme \in BOOLEAN :
          run' = [run EXCEPT ![r] =
                    [thread |-> t, about |-> t, decision |-> Null, at |-> "guardrail",
                     st |-> Begun(blocked, programme)]]
    BY <1>4 DEF Ask, Post
  <2>2. run'[r].decision = Null /\ waits' = r
    BY <1>4, <2>1 DEF Ask, Post, Typed, TypeOK
  <2>3. QED
    BY <2>2 DEF DecidedIsOpen
<1>5. ASSUME NEW r \in Run, NEW t \in Thread, Decide(r, t) PROVE DecidedIsOpen'
  <2>1. PICK d \in Decision :
          run' = [run EXCEPT ![r] =
                    [thread |-> t, about |-> t, decision |-> d, at |-> "check", st |-> Null]]
    BY <1>5 DEF Decide, Post
  <2>2. run'[r].about = t /\ waits' = r /\ card' = card /\ Open(t)
    BY <1>5, <2>1 DEF Decide, Post, Typed, TypeOK
  <2>3. QED
    BY <2>2 DEF DecidedIsOpen, Open
<1>6. CASE Forget
  BY <1>6, NullAssumption DEF Forget, DecidedIsOpen
<1>7. CASE UNCHANGED vars
  BY <1>7 DEF vars, DecidedIsOpen, Open
<1>8. QED
  BY <1>1, <1>2, <1>3, <1>4, <1>5, <1>6, <1>7 DEF Next, Receive, GiveUp, ApproveCli, Restart

\* What the person at the screen may know of one conversation.
LEMMA ViewAt ==
  \A t \in Thread :
    /\ GateView[t] = [card |-> card[t], approved |-> {p \in Proposal : <<t, p>> \in approved},
                      executed |-> sent[t]]
    /\ GateView'[t] = [card |-> card'[t], approved |-> {p \in Proposal : <<t, p>> \in approved'},
                       executed |-> sent'[t]]
BY DEF GateView

\* Its parts, and how one of them changes.
LEMMA ViewParts ==
  ASSUME NEW t \in Thread
  PROVE  /\ GateView[t].card = card[t] /\ GateView[t].executed = sent[t]
         /\ GateView[t].approved = {p \in Proposal : <<t, p>> \in approved}
         /\ GateView'[t].card = card'[t] /\ GateView'[t].executed = sent'[t]
         /\ GateView'[t].approved = {p \in Proposal : <<t, p>> \in approved'}
         /\ approved' = approved => GateView'[t].approved = GateView[t].approved
         /\ GateView'[t].approved = GateView[t].approved /\ sent'[t] = sent[t] =>
              GateView'[t] = [GateView[t] EXCEPT !.card = card'[t]]
         /\ GateView'[t].approved = GateView[t].approved /\ card'[t] = card[t] =>
              GateView'[t] = [GateView[t] EXCEPT !.executed = sent'[t]]
         /\ card'[t] = card[t] /\ sent'[t] = sent[t] =>
              GateView'[t] = [GateView[t] EXCEPT !.approved = GateView'[t].approved]
<1> DEFINE before == {p \in Proposal : <<t, p>> \in approved}
           after  == {p \in Proposal : <<t, p>> \in approved'}
<1>1. GateView[t] = [card |-> card[t], approved |-> before, executed |-> sent[t]]
  BY ViewAt
<1>2. GateView'[t] = [card |-> card'[t], approved |-> after, executed |-> sent'[t]]
  BY ViewAt
<1>3. before = {p \in Proposal : <<t, p>> \in approved}
      /\ after = {p \in Proposal : <<t, p>> \in approved'}
  OBVIOUS
<1>4. approved' = approved => after = before
  OBVIOUS
<1> HIDE DEF before, after
<1>5. GateView[t].card = card[t] /\ GateView[t].approved = before /\ GateView[t].executed = sent[t]
  BY <1>1
<1>6. GateView'[t].card = card'[t] /\ GateView'[t].approved = after /\ GateView'[t].executed = sent'[t]
  BY <1>2
<1>7. /\ [GateView[t] EXCEPT !.card = card'[t]]
           = [card |-> card'[t], approved |-> before, executed |-> sent[t]]
      /\ [GateView[t] EXCEPT !.executed = sent'[t]]
           = [card |-> card[t], approved |-> before, executed |-> sent'[t]]
      /\ [GateView[t] EXCEPT !.approved = after]
           = [card |-> card[t], approved |-> after, executed |-> sent[t]]
  BY <1>1
<1>8. /\ approved' = approved => GateView'[t].approved = GateView[t].approved
      /\ GateView'[t].approved = GateView[t].approved /\ sent'[t] = sent[t] =>
           GateView'[t] = [GateView[t] EXCEPT !.card = card'[t]]
      /\ GateView'[t].approved = GateView[t].approved /\ card'[t] = card[t] =>
           GateView'[t] = [GateView[t] EXCEPT !.executed = sent'[t]]
      /\ card'[t] = card[t] /\ sent'[t] = sent[t] =>
           GateView'[t] = [GateView[t] EXCEPT !.approved = GateView'[t].approved]
  BY <1>2, <1>4, <1>5, <1>6, <1>7
<1>9. /\ GateView[t].approved = {p \in Proposal : <<t, p>> \in approved}
      /\ GateView'[t].approved = {p \in Proposal : <<t, p>> \in approved'}
  BY <1>3, <1>5, <1>6
<1>10. QED
  BY <1>5, <1>6, <1>8, <1>9, Zenon

\* A step that shows in one conversation.
LEMMA OneViewChanges ==
  ASSUME NEW t \in Thread, NEW v, GateView'[t] = v,
         \A u \in Thread : u # t =>
           /\ card'[u] = card[u] /\ sent'[u] = sent[u]
           /\ \A p \in Proposal : <<u, p>> \in approved' <=> <<u, p>> \in approved
  PROVE  GateView' = [GateView EXCEPT ![t] = v]
<1>1. GateView = [u \in Thread |-> GateView[u]] /\ GateView' = [u \in Thread |-> GateView'[u]]
  BY DEF GateView
<1>2. ASSUME NEW u \in Thread, u # t PROVE GateView'[u] = GateView[u]
  <2>1. card'[u] = card[u] /\ sent'[u] = sent[u]
    BY <1>2
  <2>2. {p \in Proposal : <<u, p>> \in approved'} = {p \in Proposal : <<u, p>> \in approved}
    BY <1>2
  <2>3. QED
    BY <2>1, <2>2, ViewAt
<1>3. QED
  BY <1>1, <1>2

LEMMA SameView ==
  ASSUME UNCHANGED <<card, approved, sent>>
  PROVE  GateView' = GateView
BY DEF GateView

LEMMA GateInit == Init => Approval!Init
<1> SUFFICES ASSUME Init PROVE Approval!Init
  OBVIOUS
<1>1. ASSUME NEW t \in Thread PROVE GateView[t] = Approval!Blank
  <2>1. card[t] = Null /\ sent[t] = <<>> /\ {p \in Proposal : <<t, p>> \in approved} = {}
    BY DEF Init
  <2>2. QED
    BY <2>1, ViewAt DEF Approval!Blank
<1>2. GateView = [t \in Thread |-> GateView[t]]
  BY DEF GateView
<1>3. QED
  BY <1>1, <1>2 DEF Approval!Init

\* What is executed was approved: Settle is the gate's Execute.
LEMMA SettleIsExecute ==
  ASSUME ~Cli, Typed, Gate, NEW r \in Run, Settle(r)
  PROVE  [Approval!Next]_GateView
<1> DEFINE t == run[r].thread
           p == run[r].st.proposal
           out == Append(sent[t], p)
<1>1. run[r] \in Request_ /\ run[r] # Null /\ t \in Thread
  BY DEF Settle, At, Free, Typed, TypeOK, Request_
<1>2. p \in Proposal
  BY <1>1 DEF Settle, At, Typed, RunsHaveState, Nodes, Request_, State
<1>3. card' = card /\ approved' = approved
  BY DEF Settle, Browser
<1>4. CASE run[r].decision = "approve"
  <2>1. run[r].decision # Null
    BY <1>4, NullAssumption DEF Decision
  <2>2. thread[t] # Null /\ p = thread[t].st.proposal
    BY <1>1, <2>1 DEF Settle, At, Gate, ResumedAgree
  <2>3. <<t, p>> \in approved
    BY <1>1, <1>4, <2>2 DEF Gate, ApprovedAgree
  <2>4. sent' = [sent EXCEPT ![t] = out]
    BY <1>4 DEF Settle, Logged, Verdict
  <2>5. out = Append(sent[t], p)
    OBVIOUS
  <2> HIDE DEF t, p, out
  <2>6. sent'[t] = out /\ \A u \in Thread : u # t => sent'[u] = sent[u]
    BY <1>1, <2>4 DEF Typed, TypeOK
  <2>7. p \in GateView[t].approved /\ GateView[t].executed = sent[t]
    BY <1>1, <1>2, <2>3, ViewParts
  <2>8. GateView'[t] = [GateView[t] EXCEPT !.executed = out]
    <3>1. GateView'[t].approved = GateView[t].approved
      BY <1>1, <1>3, ViewParts
    <3>2. card'[t] = card[t] /\ sent'[t] = out
      BY <1>3, <2>6
    <3>3. QED
      BY <1>1, <3>1, <3>2, ViewParts
  <2>9. GateView' = [GateView EXCEPT ![t] = [GateView[t] EXCEPT !.executed = out]]
    BY <1>1, <1>3, <2>6, <2>8, OneViewChanges
  <2>10. out = Append(GateView[t].executed, p)
    BY <2>5, <2>7
  <2>11. Approval!Execute(t)
    BY <2>7, <2>9, <2>10 DEF Approval!Execute
  <2>12. QED
    BY <1>1, <2>11 DEF Approval!Next
<1>5. CASE run[r].decision # "approve"
  <2>1. sent' = sent
    BY <1>5 DEF Settle, Verdict
  <2>2. QED
    BY <1>3, <2>1, SameView
<1>6. QED
  BY <1>4, <1>5

\* An answer puts a call to the person where nothing happened yet, or closes a
\* card that was open.
LEMMA ReceiveIsPutOrClose ==
  ASSUME ~Cli, Typed, Gate, Agreed, NothingApproved, DecidedIsOpen, NEW r \in Run, Receive(r)
  PROVE  [Approval!Next]_GateView
<1>1. run[r] \in Request_ /\ run[r] # Null /\ approved' = approved /\ sent' = sent /\ waits = r
  BY DEF Receive, Free, Typed, TypeOK
<1>2. CASE run[r].at = "pending"
  <2> DEFINE t == run[r].thread
             p == run[r].st.proposal
             c == [proposal |-> p, done |-> "open"]
  <2>1. t \in Thread /\ p \in Proposal
    BY <1>1, <1>2 DEF Typed, RunsHaveState, Request_, State
  <2>2. run[r].decision = Null
    BY <1>1, <1>2 DEF Gate, ResumedAgree
  <2>3. card[t] = Null /\ sent[t] = <<>>
    BY <1>1, <2>2 DEF Agreed, AskingAlone, Asking
  <2>4. {q \in Proposal : <<t, q>> \in approved} = {}
    <3>1. \A x \in approved : x[1] # t
      BY <1>1, <2>2 DEF NothingApproved
    <3>2. \A q \in Proposal : <<t, q>>[1] = t
      OBVIOUS
    <3>3. QED
      BY <3>1, <3>2
  <2>5. card' = [card EXCEPT ![t] = c]
    BY <1>2 DEF Receive
  <2>6. c = [proposal |-> p, done |-> "open"]
    OBVIOUS
  <2> HIDE DEF t, p, c
  <2>7. card'[t] = c /\ \A u \in Thread : u # t => card'[u] = card[u]
    BY <2>1, <2>5 DEF Typed, TypeOK
  <2>8. GateView[t] = Approval!Blank
    BY <2>1, <2>3, <2>4, ViewAt DEF Approval!Blank
  <2>9. GateView'[t] = [Approval!Blank EXCEPT !.card = c]
    BY <1>1, <2>1, <2>3, <2>4, <2>7, ViewAt DEF Approval!Blank
  <2>10. GateView' = [GateView EXCEPT ![t] = [Approval!Blank EXCEPT !.card = c]]
    BY <1>1, <2>1, <2>7, <2>9, OneViewChanges
  <2>11. Approval!Put(t, p)
    BY <2>6, <2>8, <2>10 DEF Approval!Put
  <2>12. QED
    BY <2>1, <2>11 DEF Approval!Next
<1>3. CASE run[r].at = "answered" /\ run[r].decision # Null /\ card[run[r].about] # Null
  <2> DEFINE t == run[r].about
             d == run[r].decision
             c == [card[t] EXCEPT !.done = d]
  <2>1. t \in Thread /\ d \in {"approve", "reject"}
    BY <1>1, <1>3 DEF Request_, Decision
  <2>2. Open(t)
    BY <1>1, <1>3 DEF DecidedIsOpen
  <2>3. card' = [card EXCEPT ![t] = c]
    BY <1>3 DEF Receive
  <2>4. c = [card[t] EXCEPT !.done = d]
    OBVIOUS
  <2> HIDE DEF t, d, c
  <2>5. card'[t] = c /\ \A u \in Thread : u # t => card'[u] = card[u]
    BY <2>1, <2>3 DEF Typed, TypeOK
  <2>6. GateView[t].card = card[t]
    BY <2>1, ViewParts
  <2>7. GateView'[t] = [GateView[t] EXCEPT !.card = c]
    <3>1. GateView'[t].approved = GateView[t].approved
      BY <1>1, <2>1, ViewParts
    <3>2. sent'[t] = sent[t] /\ card'[t] = c
      BY <1>1, <2>5
    <3>3. QED
      BY <2>1, <3>1, <3>2, ViewParts
  <2>8. GateView' = [GateView EXCEPT ![t] = [GateView[t] EXCEPT !.card = c]]
    BY <1>1, <2>1, <2>5, <2>7, OneViewChanges
  <2>9. Approval!Close(t, d)
    BY <2>2, <2>4, <2>6, <2>8 DEF Approval!Close, Approval!IsOpen, Open
  <2>10. QED
    BY <2>1, <2>9 DEF Approval!Next
<1>4. CASE card' = card
  BY <1>1, <1>4, SameView
<1>5. QED
  BY <1>2, <1>3, <1>4 DEF Receive

\* A click on an open card approves what it shows.
LEMMA DecideIsApprove ==
  ASSUME Typed, NEW r \in Run, NEW t \in Thread, Decide(r, t)
  PROVE  [Approval!Next]_GateView
<1>1. PICK d \in Decision :
        approved' = IF d = "approve" THEN approved \cup {<<t, card[t].proposal>>} ELSE approved
  BY DEF Decide
<1>2. card' = card /\ sent' = sent /\ Open(t)
  BY DEF Decide
<1>3. CASE d = "approve"
  <2> DEFINE p == card[t].proposal
             these == {q \in Proposal : <<t, q>> \in approved} \cup {p}
  <2>1. p \in Proposal
    BY <1>2 DEF Open, Typed, TypeOK, Card
  <2>2. \A u \in Thread, q \in Proposal :
          <<u, q>> \in approved' <=> <<u, q>> \in approved \/ (u = t /\ q = p)
    BY <1>1, <1>3
  <2>3. p = card[t].proposal
    OBVIOUS
  <2> HIDE DEF p
  <2>4. {q \in Proposal : <<t, q>> \in approved'} = these
    BY <2>1, <2>2
  <2>5. GateView[t].card = card[t] /\ these = GateView[t].approved \cup {GateView[t].card.proposal}
    BY <2>3, ViewParts
  <2> HIDE DEF these
  <2>6. GateView'[t] = [GateView[t] EXCEPT !.approved = these]
    BY <1>2, <2>4, ViewParts
  <2>7. GateView' = [GateView EXCEPT ![t] = [GateView[t] EXCEPT !.approved = these]]
    BY <1>2, <2>2, <2>6, OneViewChanges
  <2>8. Approval!Approve(t)
    BY <1>2, <2>5, <2>7 DEF Approval!Approve, Approval!IsOpen, Open
  <2>9. QED
    BY <2>8 DEF Approval!Next
<1>4. CASE d # "approve"
  BY <1>1, <1>2, <1>4, SameView
<1>5. QED
  BY <1>3, <1>4

\* The cards of a service go all together.
LEMMA ForgetIsWithdraw ==
  ASSUME ~Cli, Forget
  PROVE  [Approval!Next]_GateView
<1>1. sent' = sent /\ approved' = approved /\ \A t \in Thread : card'[t] = Null
  BY DEF Forget
<1>2. ASSUME NEW t \in Thread PROVE GateView'[t] = [GateView[t] EXCEPT !.card = Null]
  <2>1. GateView'[t].approved = GateView[t].approved
    BY <1>1, ViewParts
  <2>2. sent'[t] = sent[t] /\ card'[t] = Null
    BY <1>1
  <2>3. QED
    BY <2>1, <2>2, ViewParts
<1>3. GateView' = [t \in Thread |-> GateView'[t]]
  BY DEF GateView
<1>4. GateView' = [t \in Thread |-> [GateView[t] EXCEPT !.card = Null]]
  BY <1>2, <1>3
<1>5. QED
  BY <1>4 DEF Approval!Next, Approval!Withdraw

\* Every step of the service is one of the gate's, or is not seen.
LEMMA GateStep ==
  ASSUME ~Cli, Typed, Gate, Agreed, NothingApproved, DecidedIsOpen, [Next]_vars
  PROVE  [Approval!Next]_GateView
<1>1. CASE UNCHANGED <<card, approved, sent>>
  BY <1>1, SameView
<1>2. QED
  BY <1>1, SettleIsExecute, ReceiveIsPutOrClose, DecideIsApprove, ForgetIsWithdraw
     DEF Next, AgentStep, CheckResume, Load, Guardrail, GatherCase, ModelTurn, Sufficiency,
         ProposeAction, NoProposal, Interrupt, Respond, Fail, GiveUp, Drop, Ask, ApproveCli,
         Restart, Browser, vars

\* Behind the service the agent is an approval gate: with any number of
\* conversations and requests, lost answers, failures and restarts, all that
\* happens to what a person is shown, approves and gets executed is what
\* ApprovalGate lets happen (human_interrupt, /resume, assistant-thread.tsx).
THEOREM AgentImplementsGate ==
  ASSUME ~Cli
  PROVE  Spec => ImplementsGate
<1> DEFINE GateHeld == NothingApproved /\ DecidedIsOpen
<1>1. Init => GateHeld
  BY NullAssumption DEF Init, NothingApproved, DecidedIsOpen
<1>2. Typed /\ Inductive /\ GateHeld /\ [Next]_vars => GateHeld'
  BY NextKeepsNothingApproved, NextKeepsDecidedIsOpen DEF Inductive
<1>3. Typed /\ Inductive /\ Agreed /\ GateHeld /\ [Next]_vars => [Approval!Next]_GateView
  BY GateStep DEF Inductive
<1> HIDE DEF GateHeld
<1>4. QED
  BY <1>1, <1>2, <1>3, GateInit, AlwaysTyped, AgentAlwaysInductive, AlwaysAgreed, PTL
     DEF Spec, ImplementsGate, Approval!Spec
=============================================================================
