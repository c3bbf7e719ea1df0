------------------------------ MODULE DailyMeter ------------------------------
(***************************************************************************)
(* What the budget promises whoever pays (guards.py:27-34, :51-54): a      *)
(* meter for each day.  A request is let in only while what was charged to *)
(* the day is below the limit, and is charged once or not at all.  The     *)
(* meter may break, and then lets nobody in and charges nothing, on this   *)
(* day and on every other.  The file, its lock, the steps of a charge, the *)
(* pages and the process are not seen here.                                *)
(***************************************************************************)
EXTENDS Naturals

CONSTANTS
  Slot,      \* requests served at the same time
  Limit,     \* what a day may have been charged when a request is let in
  MaxCharge, \* the most one request is charged
  MaxDay     \* the last day

VARIABLES
  charged,  \* charged[d]: what the meter of day d shows
  day,      \* today
  admitted, \* who was let in and is not charged yet
  broken    \* the meter is of no use any more

meter == <<charged, day, admitted, broken>>

Init ==
  /\ charged = [d \in 1 .. MaxDay |-> 0]
  /\ day = 1
  /\ admitted = {} /\ broken = FALSE

Admit(c) ==
  /\ ~broken /\ charged[day] < Limit
  /\ admitted' = admitted \cup {c}
  /\ UNCHANGED <<charged, day, broken>>

\* c is charged to today, or to the day on which its charge was begun, which is
\* the last one charged then.
Charge(c, d, tokens) ==
  /\ ~broken
  /\ \A later \in 1 .. MaxDay : later > d => charged[later] = 0
  /\ charged' = [charged EXCEPT ![d] = @ + tokens]
  /\ admitted' = admitted \ {c}
  /\ UNCHANGED <<day, broken>>

\* Requests end without a charge: a refused upload, a provider's error, a crash.
Leave(some) ==
  /\ admitted' = admitted \ some
  /\ UNCHANGED <<charged, day, broken>>

\* A charge is cut short, and whoever ended with it is gone as well.
Break(some) ==
  /\ ~broken /\ some # {}
  /\ broken' = TRUE
  /\ admitted' = admitted \ some
  /\ UNCHANGED <<charged, day>>

NextDay ==
  /\ day < MaxDay /\ day' = day + 1
  /\ UNCHANGED <<charged, admitted, broken>>

Next ==
  \/ \E c \in Slot : Admit(c)
  \/ \E c \in admitted, d \in 1 .. day, tokens \in 0 .. MaxCharge : Charge(c, d, tokens)
  \/ \E some \in SUBSET admitted : Leave(some) \/ Break(some)
  \/ NextDay

Spec == Init /\ [][Next]_meter
=============================================================================
