----------------------------- MODULE ApprovalGate -----------------------------
(***************************************************************************)
(* What the agent promises the person at the screen                        *)
(* (assistant-thread.tsx:206, risk.py): a call is executed only after it   *)
(* was shown and approved, and the approval is for that call and no other. *)
(* A conversation in which anything was approved never shows another call, *)
(* and nothing that was approved or executed is ever undone, whatever      *)
(* happens to requests, checkpoints and processes, which are not seen here.*)
(***************************************************************************)
EXTENDS Sequences

CONSTANTS
  Thread,   \* conversations
  Proposal, \* calls that reach the student
  Null

VARIABLE gate \* gate[t]: what happened in conversation t

\* The card on the screen, what was approved, and what was executed, in order.
Blank == [card |-> Null, approved |-> {}, executed |-> <<>>]

Init == gate = [t \in Thread |-> Blank]

\* A call is put to the person, in a conversation where nothing happened yet.
Put(t, p) ==
  /\ gate[t] = Blank
  /\ gate' = [gate EXCEPT ![t] = [Blank EXCEPT !.card = [proposal |-> p, done |-> "open"]]]

IsOpen(t) == gate[t].card # Null /\ gate[t].card.done = "open"

Approve(t) ==
  /\ IsOpen(t)
  /\ gate' = [gate EXCEPT ![t].approved = @ \cup {gate[t].card.proposal}]

\* The person is told how it went, and can no longer decide.
Close(t, how) ==
  /\ IsOpen(t)
  /\ gate' = [gate EXCEPT ![t].card = [@ EXCEPT !.done = how]]

\* The screen is cleared.
Withdraw == gate' = [t \in Thread |-> [gate[t] EXCEPT !.card = Null]]

Execute(t) ==
  \E p \in gate[t].approved :
    gate' = [gate EXCEPT ![t].executed = Append(@, p)]

Next ==
  \/ \E t \in Thread :
       \/ \E p \in Proposal : Put(t, p)
       \/ \E how \in {"approve", "reject"} : Close(t, how)
       \/ Approve(t) \/ Execute(t)
  \/ Withdraw

Spec == Init /\ [][Next]_gate
=============================================================================
