----------------------------- MODULE ReviewLedger -----------------------------
(***************************************************************************)
(* What the document store promises to whoever reads it: a ledger of model *)
(* outputs that only grows.  An entry never changes what the model said or *)
(* which pages it read; a person may sign it off, once and for all; and it *)
(* may be replaced by a later reading of the same pages as another type.   *)
(***************************************************************************)
EXTENDS Naturals, Sequences

CONSTANT Extractions \* what the extractor may answer

VARIABLE ledger

\* source is the upload the pages are on, 0 for a document with its own image;
\* replacedBy is 0 while the entry stands.
Entry ==
  [extraction : Extractions, source : Nat, signedOff : BOOLEAN, replacedBy : Nat]

TypeOK == ledger \in Seq(Entry)

Init == ledger = <<>>

\* An entry is added at the end, unsigned and standing.
Record ==
  LET n == Len(ledger) + 1 IN
  /\ Len(ledger') = n
  /\ ledger'[n] \in Entry
  /\ ~ledger'[n].signedOff
  /\ ledger'[n].replacedBy = 0
  /\ ledger' = Append(ledger, ledger'[n])

SignOff(e) ==
  /\ ~ledger[e].signedOff
  /\ ledger' = [ledger EXCEPT ![e].signedOff = TRUE]

Replace(e, by) ==
  /\ e < by
  /\ ledger[by].source = ledger[e].source
  /\ ledger[by].extraction.type # ledger[e].extraction.type
  /\ ledger' = [ledger EXCEPT ![e].replacedBy = by]

Next ==
  \/ Record
  \/ \E e \in DOMAIN ledger : SignOff(e)
  \/ \E e, by \in DOMAIN ledger : Replace(e, by)

Spec == Init /\ [][Next]_ledger
=============================================================================
