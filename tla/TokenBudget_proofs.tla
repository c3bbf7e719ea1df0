------------------------- MODULE TokenBudget_proofs -------------------------
(* The daily budget keeps its promises for every number of requests served   *)
(* at the same time, every limit and every price of a call.                  *)
EXTENDS TokenBudget, TLAPS, FiniteSetTheorems

-----------------------------------------------------------------------------
(* The inductive invariant.                                                 *)

\* The request q has been let in; it is inside the lock.
IsIn(q)   == q # Nobody /\ q.route \in Metered /\ q.at # "called"
Inside(q) == q # Nobody /\ q.at \in {"loaded", "emptied"}

\* What a request may be and cost at its stage.
Sound(q) ==
  q # Nobody =>
    /\ q.at \in {"model", "record", "loaded", "emptied"} => q.route \in Metered
    /\ q.at = "reading" => q.route \in {"extract", "classify", "render"}
    /\ q.at = "model" => q.left >= 1
    /\ q.at \in {"called", "reading", "proxied"} => q.spent = 0
    /\ q.spent + q.left * MaxCost <= MaxCharge

\* f says what is charged, and nothing is charged after its day.
Agrees(f) ==
  /\ f \in Count
  /\ f.date <= day /\ f.used = charged[f.date]
  /\ \A d \in Day : d > f.date => charged[d] = 0

\* The lock is held by the one request that is inside.
LockInv == \A c \in Slot : Inside(call[c]) <=> lock = c

\* The file is right; or it is emptied, and then whoever holds the lock has
\* emptied it.  Nothing is charged to a day to come.
FileInv ==
  /\ file \in Count => Agrees(file)
  /\ file = Absent => \A d \in Day : charged[d] = 0
  /\ lock # Nobody => /\ file = Torn <=> call[lock].at = "emptied"
                      /\ Agrees(call[lock].got)
  /\ \A d \in Day : d > day => charged[d] = 0

\* What is charged and what may be charged yet stays below the bound: today
\* by everybody that was let in, on a day that is over by the one that loaded
\* the count before midnight.
Bound == Limit + MaxCharge * Cardinality(Slot)

BoundInv ==
  /\ \A d \in Day : charged[d] < Bound
  /\ charged[day] + MaxCharge * Cardinality(Admitted) < Bound
  /\ lock # Nobody => charged[call[lock].got.date] + MaxCharge < Bound

Inv ==
  /\ TypeOK
  /\ \A c \in Slot : Sound(call[c])
  /\ LockInv /\ FileInv /\ BoundInv

-----------------------------------------------------------------------------
(* Arithmetic and the number of requests.                                   *)

LEMMA ChargeNat == MaxCharge \in Nat /\ Bound \in Nat /\ Cardinality(Slot) \in Nat
<1>1. MaxCharge \in Nat
  BY BudgetAssumption DEF MaxCharge
<1>2. Cardinality(Slot) \in Nat
  BY BudgetAssumption, FS_CardinalityType
<1>3. \A i, j \in Nat : i * j \in Nat
  OBVIOUS
<1>4. QED
  BY <1>1, <1>2, <1>3, BudgetAssumption DEF Bound

\* n calls cost no more than MaxPages of them.
LEMMA CostMonotone ==
  ASSUME NEW n \in 0 .. MaxPages
  PROVE  n * MaxCost \in Nat /\ n * MaxCost <= MaxCharge
<1>1. PICK k \in Nat : MaxPages = n + k
  BY BudgetAssumption
<1>2. MaxPages * MaxCost = n * MaxCost + k * MaxCost
  BY <1>1, BudgetAssumption
<1>3. n * MaxCost \in Nat /\ k * MaxCost \in Nat
  BY <1>1, BudgetAssumption
<1>4. QED
  BY <1>2, <1>3 DEF MaxCharge

\* Fewer requests, less to charge; one less, MaxCharge less.
LEMMA AdmittedCost ==
  ASSUME NEW S \in SUBSET Slot
  PROVE  /\ IsFiniteSet(S) /\ Cardinality(S) \in Nat
         /\ MaxCharge * Cardinality(S) \in Nat
         /\ \A T \in SUBSET S : /\ MaxCharge * Cardinality(T) \in Nat
                                /\ MaxCharge * Cardinality(T) <= MaxCharge * Cardinality(S)
         /\ \A c \in S : MaxCharge * Cardinality(S \ {c}) + MaxCharge = MaxCharge * Cardinality(S)
<1> DEFINE M == MaxCharge
<1>0. M \in Nat
  BY ChargeNat
<1>1. IsFiniteSet(S) /\ Cardinality(S) \in Nat
  BY BudgetAssumption, FS_Subset, FS_CardinalityType
<1>2. \A i, j \in Nat : i <= j => M * i \in Nat /\ M * i <= M * j
  <2>1. SUFFICES ASSUME NEW i \in Nat, NEW j \in Nat, i <= j
                 PROVE  M * i \in Nat /\ M * i <= M * j
    OBVIOUS
  <2>2. PICK k \in Nat : j = i + k
    BY <2>1
  <2>3. M * j = M * i + M * k /\ M * k \in Nat /\ M * i \in Nat
    BY <1>0, <2>2
  <2>4. QED
    BY <2>3
<1>3. ASSUME NEW T \in SUBSET S
      PROVE  M * Cardinality(T) \in Nat /\ M * Cardinality(T) <= M * Cardinality(S)
  <2>1. Cardinality(T) \in Nat /\ Cardinality(T) <= Cardinality(S)
    BY <1>1, FS_Subset, FS_CardinalityType
  <2>2. QED
    BY <1>1, <1>2, <2>1
<1>4. ASSUME NEW c \in S
      PROVE  M * Cardinality(S \ {c}) + M = M * Cardinality(S)
  <2>1. Cardinality(S \ {c}) \in Nat /\ Cardinality(S \ {c}) = Cardinality(S) - 1
    BY <1>1, FS_RemoveElement, FS_CardinalityType
  <2>2. QED
    BY <1>0, <1>1, <2>1
<1>5. M * Cardinality(S) \in Nat
  BY <1>1, <1>2
<1>6. QED
  BY <1>1, <1>3, <1>4, <1>5

\* With nothing charged on a day, nobody can have overrun it.
LEMMA NothingCharged ==
  ASSUME NEW S \in SUBSET Slot, NEW n \in Nat, n < Limit
  PROVE  n + MaxCharge * Cardinality(S) < Bound
<1>1. MaxCharge * Cardinality(S) <= MaxCharge * Cardinality(Slot)
  BY AdmittedCost
<1>2. MaxCharge * Cardinality(S) \in Nat /\ MaxCharge * Cardinality(Slot) \in Nat
  BY AdmittedCost
<1>3. QED
  BY <1>1, <1>2, BudgetAssumption DEF Bound

-----------------------------------------------------------------------------
(* The steps outside the lock.                                              *)

\* c's request becomes q, with no part of the budget touched, and is let in
\* only past the guard.
Quiet(c) ==
  /\ UNCHANGED <<file, day, lock, charged>>
  /\ asked' \in 0 .. MaxAsked /\ restarts' \in 0 .. MaxRestarts
  /\ \E q \in Request \cup {Nobody} :
       /\ call' = [call EXCEPT ![c] = q]
       /\ ~Inside(call[c]) /\ ~Inside(q)
       /\ Sound(q)
       /\ IsIn(q) => IsIn(call[c]) \/ Admits(file)

LEMMA EndIsQuiet ==
  ASSUME Inv, NEW c \in Slot, End(c), ~Inside(call[c]),
         UNCHANGED <<file, day, lock, asked, restarts, charged>>
  PROVE  Quiet(c)
BY DEF Inv, TypeOK, End, Quiet, Inside, Sound, IsIn

\* The calls of a provider: the price fits into what the request was let in
\* with.
LEMMA CalledIsQuiet ==
  ASSUME Inv, NEW c \in Slot, Serves(c, "model"), NEW tokens \in Billable,
         Called(c, tokens)
  PROVE  Quiet(c)
<1> DEFINE old == call[c]
           q == [old EXCEPT !.at = IF old.left = 1 THEN "record" ELSE "model",
                            !.left = @ - 1, !.spent = @ + tokens]
<1>1. old \in Request /\ old.at = "model" /\ old.left >= 1 /\ old.route \in Metered
      /\ old.spent + old.left * MaxCost <= MaxCharge
  BY DEF Inv, TypeOK, Serves, Sound
<1>2. old.left \in Nat /\ old.left <= MaxPages /\ old.spent \in Nat
      /\ tokens \in Nat /\ tokens <= MaxCost /\ MaxCost \in Nat
  BY <1>1, BudgetAssumption DEF Request, Billable
<1>3. q.left = old.left - 1 /\ q.spent = old.spent + tokens
      /\ q.at = (IF old.left = 1 THEN "record" ELSE "model") /\ q.route = old.route
  BY <1>1 DEF Request
<1>4. q.left \in 0 .. MaxPages /\ q.spent \in Nat
  BY <1>1, <1>2, <1>3, BudgetAssumption
<1>5. q \in Request
  BY <1>1, <1>4 DEF Request, Stage
<1>6. (old.left - 1) * MaxCost = old.left * MaxCost - MaxCost
  BY <1>2
<1>7. q.spent + q.left * MaxCost <= MaxCharge
  <2>1. old.left * MaxCost \in Nat /\ MaxCharge \in Nat
    BY <1>2, ChargeNat
  <2>2. q.spent + q.left * MaxCost = old.spent + tokens + old.left * MaxCost - MaxCost
    BY <1>2, <1>3, <1>6, <2>1
  <2>3. QED
    BY <1>1, <1>2, <2>1, <2>2
<1>8. Sound(q)
  <2>1. q.at = "model" => q.left >= 1
    BY <1>1, <1>2, <1>3
  <2>2. q.at \notin {"called", "reading", "proxied"}
    BY <1>3
  <2>3. QED
    BY <1>1, <1>3, <1>7, <2>1, <2>2 DEF Sound
<1>9. call' = [call EXCEPT ![c] = q] /\ UNCHANGED <<file, day, lock, asked, restarts, charged>>
  BY <1>1 DEF Called, Inv, TypeOK
<1>10. ~Inside(old) /\ ~Inside(q) /\ IsIn(old)
  BY <1>1, <1>3, <1>5, FileAssumption DEF Inside, IsIn
<1>11. asked' \in 0 .. MaxAsked /\ restarts' \in 0 .. MaxRestarts
  BY <1>9 DEF Inv, TypeOK
<1> HIDE DEF q, old
<1>12. QED
  BY <1>5, <1>8, <1>9, <1>10, <1>11 DEF Quiet, old

\* A request that starts its calls can afford them.
LEMMA StartIsQuiet ==
  ASSUME Inv, NEW c \in Slot, NEW n \in 1 .. MaxPages,
         call[c] # Nobody, call[c].at \in {"called", "reading"}, call[c].route \in Metered,
         call' = [call EXCEPT ![c].at = "model", ![c].left = n],
         UNCHANGED <<file, day, lock, asked, restarts, charged>>,
         IsIn(call[c]) \/ Admits(file)
  PROVE  Quiet(c)
<1> DEFINE old == call[c]
           q == [old EXCEPT !.at = "model", !.left = n]
<1>1. old \in Request /\ old.spent = 0
  BY DEF Inv, TypeOK, Sound
<1>2. q \in Request /\ q.at = "model" /\ q.left = n /\ q.spent = 0 /\ q.route = old.route
  <2>1. n \in 0 .. MaxPages /\ "model" \in Stage
    BY BudgetAssumption DEF Stage
  <2>2. q.at = "model" /\ q.left = n /\ q.spent = 0 /\ q.route = old.route
    BY <1>1 DEF Request
  <2>3. QED
    BY <1>1, <2>1, <2>2 DEF Request
<1>3. n * MaxCost \in Nat /\ n * MaxCost <= MaxCharge
  BY CostMonotone, BudgetAssumption
<1>4. Sound(q)
  <2>1. q.spent + q.left * MaxCost <= MaxCharge
    BY <1>2, <1>3, ChargeNat
  <2>2. q.left >= 1
    BY <1>2
  <2>3. QED
    BY <1>2, <2>1, <2>2 DEF Sound
<1>5. call' = [call EXCEPT ![c] = q]
  BY <1>1 DEF Inv, TypeOK
<1>6. ~Inside(old) /\ ~Inside(q)
  BY <1>2 DEF Inside
<1>7. asked' \in 0 .. MaxAsked /\ restarts' \in 0 .. MaxRestarts
  BY DEF Inv, TypeOK
<1> HIDE DEF q, old
<1>8. QED
  BY <1>2, <1>4, <1>5, <1>6, <1>7 DEF Quiet, old

\* Every step that does not hold the lock changes nothing but one request.
LEMMA QuietSteps ==
  ASSUME Inv, NEW c \in Slot,
         \/ \E route \in Route : Arrive(c, route)
         \/ Guard(c) \/ GuardEmbed(c) \/ ReadPages(c) \/ Rendered(c)
         \/ RefuseUpload(c) \/ UnsupportedFile(c)
         \/ ExtractDocument(c) \/ ClassifyPage(c) \/ EmbedTexts(c)
         \/ Unavailable(c) \/ Malformed(c) \/ RecordUnreadable(c) \/ Proxy(c) \/ Checked(c)
  PROVE  Quiet(c)
<1>1. ASSUME NEW route \in Route, Arrive(c, route) PROVE Quiet(c)
  <2> DEFINE q == [route |-> route, at |-> IF route = "render" THEN "reading" ELSE "called",
                   left |-> 0, spent |-> 0, got |-> Nobody]
  <2>1. q \in Request
    BY BudgetAssumption DEF Request, Stage
  <2>2. Sound(q)
    <3>1. 0 + 0 * MaxCost <= MaxCharge
      BY ChargeNat, BudgetAssumption
    <3>2. QED
      BY <3>1 DEF Sound
  <2>3. ~Inside(q) /\ ~IsIn(q)
    BY DEF Inside, IsIn, Metered
  <2>4. asked' \in 0 .. MaxAsked /\ restarts' \in 0 .. MaxRestarts
    BY <1>1, BudgetAssumption DEF Inv, TypeOK, Arrive
  <2>5. call' = [call EXCEPT ![c] = q] /\ ~Inside(call[c])
        /\ UNCHANGED <<file, day, lock, charged>>
    BY <1>1 DEF Arrive, Inside
  <2> HIDE DEF q
  <2>6. QED
    BY <2>1, <2>2, <2>3, <2>4, <2>5 DEF Quiet
<1>2. ASSUME Guard(c) PROVE Quiet(c)
  <2>1. CASE End(c)
    BY <1>2, <2>1, EndIsQuiet DEF Guard, Serves, Inside
  <2>2. CASE Admits(file) /\ Move(c, "reading")
    <3> DEFINE q == [call[c] EXCEPT !.at = "reading"]
    <3>1. call[c] \in Request /\ call[c].at = "called" /\ call[c].route \in {"extract", "classify"}
      BY <1>2 DEF Guard, Serves, Inv, TypeOK
    <3>2. q \in Request /\ q.at = "reading" /\ q.route = call[c].route
          /\ q.spent = call[c].spent /\ q.left = call[c].left
      BY <3>1 DEF Request, Stage
    <3>3. Sound(call[c]) /\ call[c] # Nobody
      BY <3>1, FileAssumption DEF Inv
    <3>4. Sound(q)
      BY <3>1, <3>2, <3>3 DEF Sound
    <3>5. call' = [call EXCEPT ![c] = q] /\ UNCHANGED <<file, day, lock, asked, restarts, charged>>
      BY <1>2, <2>2 DEF Guard, Move, Inv, TypeOK
    <3>6. ~Inside(call[c]) /\ ~Inside(q)
      BY <3>1, <3>2 DEF Inside
    <3>7. asked' \in 0 .. MaxAsked /\ restarts' \in 0 .. MaxRestarts
      BY <3>5 DEF Inv, TypeOK
    <3> HIDE DEF q
    <3>8. QED
      BY <2>2, <3>2, <3>4, <3>5, <3>6, <3>7 DEF Quiet
  <2>3. QED
    BY <1>2, <2>1, <2>2 DEF Guard
<1>3. ASSUME GuardEmbed(c) PROVE Quiet(c)
  <2>1. CASE End(c)
    BY <1>3, <2>1, EndIsQuiet DEF GuardEmbed, Serves, Inside
  <2>2. CASE Admits(file) /\ \E n \in Calls("embed") :
               call' = [call EXCEPT ![c].at = "model", ![c].left = n]
    BY <1>3, <2>2, StartIsQuiet DEF GuardEmbed, Serves, Calls, Metered
  <2>3. QED
    BY <1>3, <2>1, <2>2 DEF GuardEmbed
<1>4. ASSUME ReadPages(c) PROVE Quiet(c)
  <2>1. call[c] # Nobody /\ call[c].at = "reading" /\ call[c].route \in {"extract", "classify"}
    BY <1>4 DEF ReadPages, Serves, Inv, Sound
  <2>2. IsIn(call[c]) /\ call[c].route \in Metered
    BY <2>1 DEF IsIn, Metered
  <2>3. PICK n \in Calls(call[c].route) : call' = [call EXCEPT ![c].at = "model", ![c].left = n]
    BY <1>4 DEF ReadPages
  <2>4. n \in 1 .. MaxPages
    BY <2>3, BudgetAssumption DEF Calls
  <2>5. QED
    BY <1>4, <2>1, <2>2, <2>3, <2>4, StartIsQuiet DEF ReadPages
<1>5. ASSUME \/ Rendered(c) \/ RefuseUpload(c) \/ UnsupportedFile(c) \/ Unavailable(c)
             \/ Malformed(c) \/ RecordUnreadable(c) \/ Checked(c)
      PROVE  Quiet(c)
  BY <1>5, EndIsQuiet
  DEF Rendered, RefuseUpload, UnsupportedFile, Unavailable, Malformed, RecordUnreadable, Checked,
      Serves, Inside
<1>6. ASSUME ExtractDocument(c) \/ ClassifyPage(c) \/ EmbedTexts(c) PROVE Quiet(c)
  BY <1>6, CalledIsQuiet DEF ExtractDocument, ClassifyPage, EmbedTexts
<1>7. ASSUME Proxy(c) PROVE Quiet(c)
  <2> DEFINE q == [call[c] EXCEPT !.at = "proxied"]
  <2>1. call[c] \in Request /\ call[c].at = "called" /\ call[c].route = "check"
    BY <1>7 DEF Proxy, Serves, Inv, TypeOK
  <2>2. q \in Request /\ q.at = "proxied" /\ q.route = "check"
        /\ q.spent = call[c].spent /\ q.left = call[c].left
    BY <2>1 DEF Request, Stage
  <2>3. Sound(call[c]) /\ call[c] # Nobody
    BY <2>1, FileAssumption DEF Inv
  <2>4. Sound(q) /\ ~IsIn(q)
    BY <2>1, <2>2, <2>3 DEF Sound, IsIn, Metered
  <2>5. call' = [call EXCEPT ![c] = q] /\ UNCHANGED <<file, day, lock, asked, restarts, charged>>
    BY <1>7 DEF Proxy, Move, Inv, TypeOK
  <2>6. ~Inside(call[c]) /\ ~Inside(q)
    BY <2>1, <2>2 DEF Inside
  <2>7. asked' \in 0 .. MaxAsked /\ restarts' \in 0 .. MaxRestarts
    BY <2>5 DEF Inv, TypeOK
  <2> HIDE DEF q
  <2>8. QED
    BY <2>2, <2>4, <2>5, <2>6, <2>7 DEF Quiet
<1>8. QED
  BY <1>1, <1>2, <1>3, <1>4, <1>5, <1>6, <1>7

\* Who is admitted after c's request became q.
LEMMA AdmittedAfter ==
  ASSUME Inv, NEW c \in Slot, NEW q \in Request \cup {Nobody},
         call' = [call EXCEPT ![c] = q]
  PROVE  Admitted' = IF IsIn(q) THEN Admitted \cup {c} ELSE Admitted \ {c}
BY DEF Inv, TypeOK, Admitted, IsIn

\* Who is let in finds the day below its limit: the file says what was charged.
LEMMA AdmitsBelowLimit ==
  ASSUME Inv, Admits(file)
  PROVE  file # Torn /\ charged[day] < Limit
<1>1. day \in Day /\ file \in Count \cup {Absent} /\ file # Torn /\ Load(file).used < Limit
  BY DEF Inv, TypeOK, Admits
<1>2. CASE file = Absent
  BY <1>1, <1>2, BudgetAssumption DEF Inv, FileInv
<1>3. CASE file # Absent
  <2>1. Agrees(file)
    BY <1>1, <1>3 DEF Inv, FileInv
  <2>2. CASE file.date = day
    BY <1>1, <1>3, <2>1, <2>2 DEF Load, Agrees
  <2>3. CASE file.date # day
    <3>1. day > file.date
      BY <1>1, <2>1, <2>3, BudgetAssumption DEF Agrees, Count, Day
    <3>2. charged[day] = 0
      BY <1>1, <2>1, <3>1 DEF Agrees
    <3> QED
      BY <1>1, <3>2, BudgetAssumption
  <2> QED
    BY <2>2, <2>3
<1> QED
  BY <1>1, <1>2, <1>3

\* A quiet step keeps the invariant.
LEMMA QuietKeeps ==
  ASSUME Inv, NEW c \in Slot, Quiet(c)
  PROVE  Inv'
<1>1. PICK q \in Request \cup {Nobody} :
        /\ call' = [call EXCEPT ![c] = q]
        /\ ~Inside(call[c]) /\ ~Inside(q)
        /\ Sound(q)
        /\ IsIn(q) => IsIn(call[c]) \/ Admits(file)
  BY DEF Quiet
<1>2. UNCHANGED <<file, day, lock, charged>>
  BY DEF Quiet
<1>3. call \in [Slot -> Request \cup {Nobody}] /\ day \in Day /\ charged \in [Day -> Nat]
  BY DEF Inv, TypeOK
<1>4. \A d \in Slot : call'[d] = IF d = c THEN q ELSE call[d]
  BY <1>1, <1>3
<1>5. TypeOK'
  BY <1>1, <1>2, <1>3 DEF Inv, TypeOK, Quiet
<1>6. \A d \in Slot : Sound(call'[d])
  BY <1>1, <1>4 DEF Inv
<1>7. \A d \in Slot : Inside(call'[d]) <=> lock = d
  BY <1>1, <1>4 DEF Inv, LockInv
<1>8. lock # Nobody => lock \in Slot /\ lock # c /\ call'[lock] = call[lock]
  BY <1>1, <1>4 DEF Inv, TypeOK, LockInv
<1>9. \A f : Agrees(f) => (f \in Count /\ f.date <= day' /\ f.used = charged'[f.date]
                            /\ \A d \in Day : d > f.date => charged'[d] = 0)
  BY <1>2 DEF Agrees
<1>10. Admitted' = IF IsIn(q) THEN Admitted \cup {c} ELSE Admitted \ {c}
  BY <1>1, AdmittedAfter
<1>11. Admitted \in SUBSET Slot /\ (IsIn(call[c]) <=> c \in Admitted)
  BY DEF Admitted, IsIn
<1>12. ~Admits(file) => Admitted' \in SUBSET Admitted
  BY <1>1, <1>10, <1>11
<1>13. FileInv'
  <2>1. (file \in Count => Agrees(file))'
    BY <1>2, <1>9 DEF Inv, FileInv, Agrees
  <2>2. (file = Absent => \A d \in Day : charged[d] = 0)'
    BY <1>2 DEF Inv, FileInv
  <2>3. (lock # Nobody => (file = Torn <=> call[lock].at = "emptied"))'
    BY <1>2, <1>8 DEF Inv, FileInv
  <2>4. (lock # Nobody => Agrees(call[lock].got))'
    BY <1>2, <1>8, <1>9 DEF Inv, FileInv, Agrees
  <2>5. (\A d \in Day : d > day => charged[d] = 0)'
    BY <1>2 DEF Inv, FileInv
  <2>6. QED
    BY <2>1, <2>2, <2>3, <2>4, <2>5 DEF FileInv
<1>14. charged[day] + MaxCharge * Cardinality(Admitted') < Bound
  <2>1. CASE Admitted' \in SUBSET Admitted
    <3>1. MaxCharge * Cardinality(Admitted') <= MaxCharge * Cardinality(Admitted)
          /\ MaxCharge * Cardinality(Admitted') \in Nat /\ MaxCharge * Cardinality(Admitted) \in Nat
      BY <1>11, <2>1, AdmittedCost
    <3>2. charged[day] + MaxCharge * Cardinality(Admitted) < Bound /\ charged[day] \in Nat
      BY <1>3 DEF Inv, BoundInv
    <3>3. QED
      BY <3>1, <3>2, ChargeNat
  <2>2. CASE Admits(file)
    <3>1. charged[day] < Limit /\ charged[day] \in Nat
      BY <1>3, <2>2, AdmitsBelowLimit
    <3>2. Admitted' \in SUBSET Slot
      BY <1>10, <1>11
    <3>3. QED
      BY <3>1, <3>2, NothingCharged
  <2>3. QED
    BY <1>12, <2>1, <2>2
<1>15. BoundInv'
  <2>1. \A d \in Day : charged'[d] < Bound
    BY <1>2 DEF Inv, BoundInv
  <2>2. charged'[day'] + MaxCharge * Cardinality(Admitted') < Bound
    BY <1>2, <1>14
  <2>3. lock' # Nobody => charged'[call'[lock'].got.date] + MaxCharge < Bound
    BY <1>2, <1>8 DEF Inv, BoundInv
  <2>4. QED
    BY <2>1, <2>2, <2>3 DEF BoundInv, Bound, MaxCharge
<1>16. QED
  BY <1>5, <1>6, <1>7, <1>2, <1>13, <1>15 DEF Inv, LockInv

-----------------------------------------------------------------------------
(* Budget.record.                                                           *)

\* A request inside the lock is the holder, it has been let in, and its cost
\* is bounded.
LEMMA HolderFacts ==
  ASSUME Inv, NEW c \in Slot, call[c] # Nobody, call[c].at \in {"loaded", "emptied"}
  PROVE  /\ lock = c /\ lock # Nobody
         /\ call[c] \in Request /\ IsIn(call[c]) /\ c \in Admitted
         /\ Agrees(call[c].got)
         /\ call[c].spent \in Nat /\ call[c].spent <= MaxCharge
<1>1. lock = c /\ lock # Nobody
  BY BudgetAssumption DEF Inv, LockInv, Inside
<1>2. call[c] \in Request
  BY DEF Inv, TypeOK
<1>3. IsIn(call[c]) /\ c \in Admitted
  BY DEF Inv, Sound, IsIn, Admitted
<1>4. Agrees(call[c].got)
  BY <1>1 DEF Inv, FileInv
<1>5. call[c].spent \in Nat /\ call[c].left \in Nat /\ MaxCost \in Nat
  BY <1>2, BudgetAssumption DEF Request
<1>6. call[c].left * MaxCost \in Nat
  BY <1>5
<1>7. call[c].spent + call[c].left * MaxCost <= MaxCharge
  BY DEF Inv, Sound
<1>8. QED
  BY <1>1, <1>2, <1>3, <1>4, <1>5, <1>6, <1>7, ChargeNat

\* The count that is loaded is that of today, and it is what was charged
\* (Budget._load).
LEMMA LoadAgrees ==
  ASSUME Inv, file # Torn
  PROVE  Agrees(Load(file)) /\ Load(file).date = day
<1>1. day \in Day /\ charged \in [Day -> Nat] /\ file \in Count \cup {Absent}
  BY DEF Inv, TypeOK
<1>2. CASE file # Absent /\ file.date = day
  BY <1>1, <1>2 DEF Load, Inv, FileInv
<1>3. CASE ~(file # Absent /\ file.date = day)
  <2>1. Load(file) = [date |-> day, used |-> 0]
    BY <1>3 DEF Load
  <2>2. \A d \in Day : d >= day => charged[d] = 0
    <3>1. CASE file = Absent
      BY <3>1 DEF Inv, FileInv
    <3>2. CASE file # Absent
      <4>1. Agrees(file) /\ file.date \in Day /\ file.date # day
        BY <1>1, <1>3, <3>2 DEF Inv, FileInv, Agrees, Count
      <4>2. file.date < day
        BY <1>1, <4>1, BudgetAssumption DEF Agrees, Day
      <4>3. QED
        BY <1>1, <4>1, <4>2, BudgetAssumption DEF Agrees, Day
    <3>3. QED
      BY <3>1, <3>2
  <2>3. QED
    BY <1>1, <2>1, <2>2, BudgetAssumption DEF Agrees, Count, Day
<1>4. QED
  BY <1>2, <1>3

LEMMA RecordLoadKeeps ==
  ASSUME Inv, NEW c \in Slot, RecordLoad(c)
  PROVE  Inv'
<1> DEFINE old == call[c]
           q == [old EXCEPT !.at = "loaded", !.got = Load(file)]
<1>1. old # Nobody /\ old.at = "record" /\ lock = Nobody /\ lock' = c /\ c # Nobody
      /\ file # Torn /\ UNCHANGED <<file, day, asked, restarts, charged>>
  BY BudgetAssumption DEF RecordLoad, Serves
<1>2. old \in Request /\ Sound(old) /\ IsIn(old) /\ c \in Admitted
  BY <1>1 DEF Inv, TypeOK, Sound, IsIn, Admitted
<1>3. file # Torn
  BY <1>1
<1>4. Agrees(Load(file)) /\ Load(file).date = day
  BY <1>3, LoadAgrees
<1>5. q \in Request /\ q.at = "loaded" /\ q.route = old.route /\ q.spent = old.spent
      /\ q.left = old.left /\ q.got = Load(file)
  BY <1>2, <1>4 DEF Request, Stage, Agrees
<1>6. call' = [call EXCEPT ![c] = q]
  BY <1>1 DEF RecordLoad, Inv, TypeOK
<1>7. Sound(q) /\ IsIn(q) /\ q # Nobody
  BY <1>1, <1>2, <1>5, FileAssumption DEF Sound, IsIn
<1>8. call \in [Slot -> Request \cup {Nobody}]
  BY DEF Inv, TypeOK
<1> HIDE DEF q, old
<1>9. \A d \in Slot : call'[d] = IF d = c THEN q ELSE call[d]
  BY <1>6, <1>8
<1>10. TypeOK'
  BY <1>1, <1>5, <1>6 DEF Inv, TypeOK
<1>11. \A d \in Slot : Sound(call'[d])
  BY <1>7, <1>9 DEF Inv
<1>12. LockInv'
  BY <1>1, <1>5, <1>7, <1>9, BudgetAssumption DEF Inv, LockInv, Inside
<1>13. Admitted' = Admitted
  BY <1>2, <1>5, <1>6, <1>7, AdmittedAfter
<1>14. FileInv'
  BY <1>1, <1>3, <1>4, <1>5, <1>9 DEF Inv, FileInv, Agrees
<1>15. BoundInv'
  <2>1. MaxCharge * Cardinality(Admitted \ {c}) + MaxCharge = MaxCharge * Cardinality(Admitted)
        /\ MaxCharge * Cardinality(Admitted \ {c}) \in Nat
    BY <1>2, AdmittedCost DEF Admitted
  <2>2. charged[day] + MaxCharge * Cardinality(Admitted) < Bound /\ charged[day] \in Nat
    BY DEF Inv, BoundInv, TypeOK
  <2>3. charged[day] + MaxCharge < Bound
    BY <2>1, <2>2, ChargeNat
  <2>4. call'[lock'].got.date = day
    BY <1>1, <1>4, <1>5, <1>9
  <2>5. QED
    BY <1>1, <1>13, <2>3, <2>4 DEF Inv, BoundInv, Bound, MaxCharge
<1>16. QED
  BY <1>10, <1>11, <1>12, <1>14, <1>15 DEF Inv

LEMMA EmptyKeeps ==
  ASSUME Inv, NEW c \in Slot, Empty(c)
  PROVE  Inv'
<1> DEFINE old == call[c]
           q == [old EXCEPT !.at = "emptied"]
<1>1. old # Nobody /\ old.at = "loaded" /\ file' = Torn
      /\ UNCHANGED <<day, lock, asked, restarts, charged>>
  BY DEF Empty, Serves
<1>2. lock = c /\ lock # Nobody /\ old \in Request /\ IsIn(old) /\ c \in Admitted
      /\ Agrees(old.got) /\ Sound(old)
  BY <1>1, HolderFacts DEF Inv
<1>3. q \in Request /\ q.at = "emptied" /\ q.route = old.route /\ q.spent = old.spent
      /\ q.left = old.left /\ q.got = old.got
  BY <1>2 DEF Request, Stage
<1>4. call' = [call EXCEPT ![c] = q]
  BY <1>1 DEF Empty, Move, Inv, TypeOK
<1>5. Sound(q) /\ IsIn(q) /\ q # Nobody
  BY <1>1, <1>2, <1>3, FileAssumption DEF Sound, IsIn
<1>6. call \in [Slot -> Request \cup {Nobody}]
  BY DEF Inv, TypeOK
<1> HIDE DEF q
<1>7. \A d \in Slot : call'[d] = IF d = c THEN q ELSE call[d]
  BY <1>4, <1>6
<1>8. TypeOK'
  BY <1>1, <1>3, <1>4 DEF Inv, TypeOK
<1>9. \A d \in Slot : Sound(call'[d])
  BY <1>5, <1>7 DEF Inv
<1>10. LockInv'
  BY <1>1, <1>2, <1>3, <1>5, <1>7 DEF Inv, LockInv, Inside
<1>11. Admitted' = Admitted
  BY <1>2, <1>3, <1>4, <1>5, AdmittedAfter
<1>12. FileInv'
  BY <1>1, <1>2, <1>3, <1>7, FileAssumption DEF Inv, FileInv, Agrees
<1>13. BoundInv'
  BY <1>1, <1>2, <1>3, <1>7, <1>11 DEF Inv, BoundInv, Bound, MaxCharge
<1>14. QED
  BY <1>8, <1>9, <1>10, <1>12, <1>13 DEF Inv

LEMMA WriteKeeps ==
  ASSUME Inv, NEW c \in Slot, Write(c)
  PROVE  Inv'
<1> DEFINE got == call[c].got
           spent == call[c].spent
<1>1. call[c] # Nobody /\ call[c].at = "emptied" /\ lock' = Nobody
      /\ UNCHANGED <<day, asked, restarts>>
  BY DEF Write, Serves
<1>2. lock = c /\ lock # Nobody /\ call[c] \in Request /\ c \in Admitted
      /\ Agrees(got) /\ spent \in Nat /\ spent <= MaxCharge
  BY <1>1, HolderFacts
<1>3. got \in Count /\ got.date \in Day /\ got.used \in Nat /\ got.date <= day
      /\ got.used = charged[got.date] /\ \A d \in Day : d > got.date => charged[d] = 0
  BY <1>2 DEF Agrees, Count
<1>4. /\ file' = [got EXCEPT !.used = @ + spent]
      /\ charged' = [charged EXCEPT ![got.date] = @ + spent]
      /\ call' = [call EXCEPT ![c] = Nobody]
  BY DEF Write, End
<1>5. call \in [Slot -> Request \cup {Nobody}] /\ charged \in [Day -> Nat] /\ day \in Day
  BY DEF Inv, TypeOK
<1> HIDE DEF got, spent
<1>6. file' \in Count /\ file'.date = got.date /\ file'.used = got.used + spent
  BY <1>2, <1>3, <1>4 DEF Count
<1>7. \A d \in Day : charged'[d] = IF d = got.date THEN charged[d] + spent ELSE charged[d]
  BY <1>3, <1>4, <1>5
<1>8. charged' \in [Day -> Nat]
  BY <1>2, <1>3, <1>4, <1>5
<1>9. \A d \in Slot : call'[d] = IF d = c THEN Nobody ELSE call[d]
  BY <1>4, <1>5
<1>10. TypeOK'
  BY <1>1, <1>4, <1>5, <1>6, <1>8 DEF Inv, TypeOK
<1>11. \A d \in Slot : Sound(call'[d])
  BY <1>9 DEF Inv, Sound
<1>12. LockInv'
  BY <1>1, <1>2, <1>9, BudgetAssumption DEF Inv, LockInv, Inside
<1>13. Admitted' = Admitted \ {c}
  BY <1>4, AdmittedAfter DEF IsIn
<1>14. FileInv'
  <2>1. file' \notin {Absent, Torn}
    BY <1>6, FileAssumption
  <2>2. Agrees(file)'
    BY <1>1, <1>3, <1>6, <1>7, BudgetAssumption DEF Agrees, Day
  <2>3. (\A d \in Day : d > day => charged[d] = 0)'
    <3>1. \A d \in Day : d > day => d # got.date /\ charged[d] = 0
      BY <1>3, <1>5, BudgetAssumption DEF Inv, FileInv, Day
    <3>2. QED
      BY <1>1, <1>7, <3>1
  <2>4. QED
    BY <1>1, <2>1, <2>2, <2>3 DEF FileInv
<1>15. BoundInv'
  <2>1. MaxCharge * Cardinality(Admitted') + MaxCharge = MaxCharge * Cardinality(Admitted)
        /\ MaxCharge * Cardinality(Admitted') \in Nat
    BY <1>2, <1>13, AdmittedCost DEF Admitted
  <2>2. charged[day] + MaxCharge * Cardinality(Admitted) < Bound /\ charged[day] \in Nat
        /\ charged[got.date] + MaxCharge < Bound /\ charged[got.date] \in Nat
    BY <1>2, <1>3, <1>5 DEF Inv, BoundInv, got
  <2>3. \A d \in Day : charged'[d] < Bound
    <3>1. SUFFICES ASSUME NEW d \in Day PROVE charged'[d] < Bound
      OBVIOUS
    <3>2. CASE d = got.date
      BY <1>2, <1>7, <2>2, <3>2, ChargeNat
    <3>3. CASE d # got.date
      BY <1>7, <3>3 DEF Inv, BoundInv
    <3>4. QED
      BY <3>2, <3>3
  <2>4. charged'[day] + MaxCharge * Cardinality(Admitted') < Bound
    <3>1. charged'[day] \in Nat /\ charged'[day] <= charged[day] + MaxCharge
      BY <1>2, <1>5, <1>7, <2>2, ChargeNat
    <3>2. QED
      BY <2>1, <2>2, <3>1, ChargeNat
  <2>5. QED
    BY <1>1, <2>3, <2>4 DEF BoundInv, Bound, MaxCharge
<1>16. QED
  BY <1>10, <1>11, <1>12, <1>14, <1>15 DEF Inv

\* A charge that fails leaves the file as it is, whole or emptied, and the lock.
LEMMA FailureKeeps ==
  ASSUME Inv, NEW c \in Slot, RecordFails(c) \/ WriteFails(c)
  PROVE  Inv'
<1>1. /\ call[c] # Nobody /\ call[c].at \in {"loaded", "emptied"}
      /\ lock' = Nobody /\ call' = [call EXCEPT ![c] = Nobody]
      /\ UNCHANGED <<file, day, asked, restarts, charged>>
  BY DEF RecordFails, WriteFails, Serves, End
<1>2. lock = c /\ c \in Admitted
  BY <1>1, HolderFacts
<1>3. call \in [Slot -> Request \cup {Nobody}]
  BY DEF Inv, TypeOK
<1>4. \A d \in Slot : call'[d] = IF d = c THEN Nobody ELSE call[d]
  BY <1>1, <1>3
<1>5. TypeOK'
  BY <1>1, <1>3 DEF Inv, TypeOK
<1>6. \A d \in Slot : Sound(call'[d])
  BY <1>4 DEF Inv, Sound
<1>7. LockInv'
  BY <1>1, <1>2, <1>4, BudgetAssumption DEF Inv, LockInv, Inside
<1>8. Admitted' = Admitted \ {c}
  BY <1>1, AdmittedAfter DEF IsIn
<1>9. FileInv'
  BY <1>1 DEF Inv, FileInv, Agrees
<1>10. BoundInv'
  <2>1. Admitted' \in SUBSET Admitted /\ Admitted \in SUBSET Slot
    BY <1>8 DEF Admitted
  <2>2. MaxCharge * Cardinality(Admitted') <= MaxCharge * Cardinality(Admitted)
        /\ MaxCharge * Cardinality(Admitted') \in Nat /\ MaxCharge * Cardinality(Admitted) \in Nat
    BY <2>1, AdmittedCost
  <2>3. charged[day] + MaxCharge * Cardinality(Admitted) < Bound /\ charged[day] \in Nat
    BY DEF Inv, BoundInv, TypeOK
  <2>4. charged'[day'] + MaxCharge * Cardinality(Admitted') < Bound
    BY <1>1, <2>2, <2>3, ChargeNat
  <2>5. \A d \in Day : charged'[d] < Bound
    BY <1>1 DEF Inv, BoundInv
  <2>6. QED
    BY <1>1, <2>4, <2>5 DEF BoundInv, Bound, MaxCharge
<1>11. QED
  BY <1>5, <1>6, <1>7, <1>9, <1>10 DEF Inv

-----------------------------------------------------------------------------
(* Midnight and the crash.                                                  *)

LEMMA NextDayKeeps ==
  ASSUME Inv, NextDay
  PROVE  Inv'
<1>1. day \in Day /\ day' = day + 1 /\ day' \in Day
      /\ UNCHANGED <<file, call, lock, asked, restarts, charged>>
  BY BudgetAssumption DEF Inv, TypeOK, NextDay, Day
<1>2. charged \in [Day -> Nat] /\ file \in Count \cup {Absent, Torn}
      /\ lock \in Slot \cup {Nobody}
  BY DEF Inv, TypeOK
<1>3. \A f : Agrees(f) => Agrees(f)'
  BY <1>1, BudgetAssumption DEF Agrees, Count, Day
<1>4. FileInv'
  <2>1. UNCHANGED Admitted
    BY <1>1 DEF Admitted
  <2>2. (lock # Nobody => Agrees(call[lock].got))'
    BY <1>1, <1>3 DEF Inv, FileInv, Agrees
  <2>3. (file \in Count => Agrees(file))'
    BY <1>1, <1>3 DEF Inv, FileInv, Agrees
  <2>4. (\A d \in Day : d > day => charged[d] = 0)'
    <3>1. \A d \in Day : d > day + 1 => d > day
      BY <1>1 DEF Day
    <3>2. QED
      BY <1>1, <3>1 DEF Inv, FileInv
  <2>5. QED
    BY <1>1, <2>1, <2>2, <2>3, <2>4 DEF Inv, FileInv
<1>5. BoundInv'
  <2>1. Admitted' = Admitted /\ Admitted \in SUBSET Slot
    BY <1>1 DEF Admitted
  <2>2. charged[day + 1] + MaxCharge * Cardinality(Admitted) < Bound
    <3>1. charged[day + 1] = 0
      BY <1>1 DEF Inv, FileInv, Day
    <3>2. QED
      BY <2>1, <3>1, NothingCharged, BudgetAssumption
  <2>3. QED
    BY <1>1, <2>1, <2>2 DEF Inv, BoundInv, Bound, MaxCharge
<1>6. QED
  BY <1>1, <1>4, <1>5 DEF Inv, TypeOK, LockInv

LEMMA RestartKeeps ==
  ASSUME Inv, Restart
  PROVE  Inv'
<1>1. call' = [c \in Slot |-> Nobody] /\ lock' = Nobody /\ Nobody \notin Slot
      /\ restarts' \in 0 .. MaxRestarts
      /\ UNCHANGED <<file, day, asked, charged>>
  BY BudgetAssumption DEF Restart, Inv, TypeOK
<1>2. Admitted' = {}
  BY <1>1 DEF Admitted
<1>3. BoundInv'
  <2>1. MaxCharge * Cardinality(Admitted') = 0
    BY <1>2, FS_EmptySet, ChargeNat
  <2>2. charged[day] < Bound /\ charged[day] \in Nat
    BY DEF Inv, BoundInv, TypeOK
  <2>3. charged'[day'] + MaxCharge * Cardinality(Admitted') < Bound
    BY <1>1, <2>1, <2>2
  <2>4. QED
    BY <1>1, <2>3 DEF Inv, BoundInv, Bound, MaxCharge
<1>4. FileInv'
  BY <1>1, <1>2 DEF Inv, FileInv, Agrees
<1>5. QED
  BY <1>1, <1>3, <1>4 DEF Inv, TypeOK, LockInv, Inside, Sound

-----------------------------------------------------------------------------
(* The theorems.                                                            *)

LEMMA InitInv == Init => Inv
<1> SUFFICES ASSUME Init PROVE Inv
  OBVIOUS
<1>1. TypeOK
  BY BudgetAssumption DEF Init, TypeOK, Day
<1>2. Admitted = {}
  BY DEF Init, Admitted
<1>3. MaxCharge * Cardinality(Admitted) = 0
  BY <1>2, FS_EmptySet, ChargeNat
<1>4. 0 < Bound
  <2>1. MaxCharge * Cardinality(Slot) \in Nat
    BY ChargeNat
  <2>2. QED
    BY <2>1, BudgetAssumption DEF Bound
<1>5. BoundInv
  BY <1>1, <1>3, <1>4 DEF Init, BoundInv, TypeOK
<1>6. FileInv
  BY FileAssumption DEF Init, FileInv
<1>7. QED
  BY <1>1, <1>5, <1>6, BudgetAssumption DEF Init, Inv, LockInv, Inside, Sound

LEMMA NextInv == Inv /\ [Next]_vars => Inv'
<1> SUFFICES ASSUME Inv, [Next]_vars PROVE Inv'
  OBVIOUS
<1>1. ASSUME NEW c \in Slot, Step(c) PROVE Inv'
  BY <1>1, QuietSteps, QuietKeeps, RecordLoadKeeps, EmptyKeeps, WriteKeeps, FailureKeeps DEF Step
<1>2. ASSUME NEW c \in Slot, NEW route \in Route, Arrive(c, route) PROVE Inv'
  BY <1>2, QuietSteps, QuietKeeps
<1>3. CASE NextDay
  BY <1>3, NextDayKeeps
<1>4. CASE Restart
  BY <1>4, RestartKeeps
<1>5. CASE UNCHANGED vars
  BY <1>5 DEF Inv, TypeOK, LockInv, FileInv, BoundInv, Agrees, Admitted, Bound, MaxCharge, vars
<1>6. QED
  BY <1>1, <1>2, <1>3, <1>4, <1>5 DEF Next

LEMMA SpecInv == Spec => []Inv
BY InitInv, NextInv, PTL DEF Spec

\* The state keeps its types: no request makes more calls than it has pages
\* for.
THEOREM TypeCorrect == Spec => []TypeOK
<1>1. Inv => TypeOK
  BY DEF Inv
<1>2. QED
  BY <1>1, SpecInv, PTL

\* However many requests come in a day, what is charged stays below the limit
\* and one request for each that can be served at the same time
\* (Budget.check before the call, Budget.record after it).
THEOREM OverdraftIsBounded == Spec => []OverdraftBounded
<1>1. Inv => OverdraftBounded
  BY DEF Inv, BoundInv, Bound, OverdraftBounded
<1>2. QED
  BY <1>1, SpecInv, PTL

\* The file never loses a charge, to another request or to a restart
\* (Budget.record).
THEOREM ChargesAreKept == Spec => []NoChargeLost
<1>1. Inv => NoChargeLost
  BY DEF Inv, TypeOK, FileInv, Agrees, NoChargeLost
<1>2. QED
  BY <1>1, SpecInv, PTL

\* An emptied file without a writer stays as it is and keeps everybody out
\* (Budget._load raises).
THEOREM UnreadableClosed == Spec => UnreadableStaysClosed
<1>1. ASSUME Inv, [Next]_vars, file = Torn, lock = Nobody
      PROVE  file' = Torn /\ charged' = charged /\ Admitted' \subseteq Admitted
  <2>1. ASSUME NEW c \in Slot, Quiet(c)
        PROVE  file' = Torn /\ charged' = charged /\ Admitted' \subseteq Admitted
    <3>1. PICK q \in Request \cup {Nobody} :
            call' = [call EXCEPT ![c] = q] /\ (IsIn(q) => IsIn(call[c]) \/ Admits(file))
      BY <2>1 DEF Quiet
    <3>2. Admitted' = IF IsIn(q) THEN Admitted \cup {c} ELSE Admitted \ {c}
      BY <1>1, <3>1, AdmittedAfter
    <3>3. IsIn(q) => c \in Admitted
      BY <1>1, <3>1 DEF Admits, Admitted, IsIn
    <3> QED
      BY <1>1, <2>1, <3>2, <3>3 DEF Quiet
  <2>2. ASSUME NEW c \in Slot, RecordLoad(c) PROVE FALSE
    BY <1>1, <2>2 DEF RecordLoad
  <2>3. ASSUME NEW c \in Slot, RecordFails(c) \/ Empty(c) \/ Write(c) \/ WriteFails(c) PROVE FALSE
    BY <1>1, <2>3, HolderFacts DEF RecordFails, Empty, Write, WriteFails, Serves
  <2>4. CASE NextDay \/ UNCHANGED vars
    BY <1>1, <2>4 DEF NextDay, vars, Admitted
  <2>5. CASE Restart
    BY <1>1, <2>5 DEF Restart, Admitted
  <2> QED
    BY <1>1, <2>1, <2>2, <2>3, <2>4, <2>5, QuietSteps DEF Next, Step
<1>2. Inv /\ [Next]_vars =>
        [file = Torn /\ lock = Nobody =>
           file' = Torn /\ charged' = charged /\ Admitted' \subseteq Admitted]_vars
  BY <1>1
<1>3. QED
  BY <1>2, SpecInv, PTL DEF Spec, UnreadableStaysClosed

-----------------------------------------------------------------------------
(* The daily meter.                                                         *)

Broken == file = Torn /\ lock = Nobody

\* A quiet step lets one request in, lets it go, or is not seen.
LEMMA QuietIsMeters ==
  ASSUME Inv, NEW c \in Slot, Quiet(c)
  PROVE  [Meter!Next]_(Meter!meter)
<1>1. PICK q \in Request \cup {Nobody} :
        call' = [call EXCEPT ![c] = q] /\ (IsIn(q) => IsIn(call[c]) \/ Admits(file))
  BY DEF Quiet
<1>2. Admitted' = IF IsIn(q) THEN Admitted \cup {c} ELSE Admitted \ {c}
  BY <1>1, AdmittedAfter
<1>3. UNCHANGED <<charged, day>> /\ Broken' = Broken
  BY DEF Quiet, Broken
<1>4. CASE c \in Admitted /\ ~IsIn(q)
  <2>1. Admitted' = Admitted \ {c} /\ {c} \in SUBSET Admitted
    BY <1>2, <1>4
  <2>2. Meter!Leave({c})
    BY <1>3, <2>1 DEF Meter!Leave, Broken
  <2> QED
    BY <2>1, <2>2 DEF Meter!Next
<1>5. CASE c \notin Admitted /\ IsIn(q)
  <2>1. Admits(file)
    BY <1>1, <1>5 DEF Admitted, IsIn
  <2>2. ~Broken /\ charged[day] < Limit
    BY <2>1, AdmitsBelowLimit DEF Broken
  <2>3. Meter!Admit(c)
    BY <1>2, <1>3, <1>5, <2>2 DEF Meter!Admit, Broken
  <2> QED
    BY <2>3 DEF Meter!Next
<1>6. CASE c \in Admitted <=> IsIn(q)
  <2>1. Admitted' = Admitted
    BY <1>2, <1>6
  <2> QED
    BY <1>3, <2>1 DEF Meter!meter, Broken
<1> QED
  BY <1>4, <1>5, <1>6

\* Only the end of a charge is seen: it is charged, or not, or the meter breaks.
LEMMA RecordIsMeters ==
  ASSUME Inv, NEW c \in Slot,
         RecordLoad(c) \/ RecordFails(c) \/ Empty(c) \/ Write(c) \/ WriteFails(c)
  PROVE  [Meter!Next]_(Meter!meter)
<1>0. c # Nobody /\ file \in Count \cup {Absent, Torn} /\ Torn \notin Count
  BY BudgetAssumption, FileAssumption DEF Inv, TypeOK
<1>1. call \in [Slot -> Request \cup {Nobody}]
  BY DEF Inv, TypeOK
<1>2. CASE RecordLoad(c) \/ Empty(c)
  <2>1. /\ call[c] # Nobody /\ call[c].at \in {"record", "loaded"}
        /\ UNCHANGED <<charged, day>> /\ ~Broken /\ ~Broken'
    <3>1. CASE RecordLoad(c)
      BY <1>0, <3>1 DEF RecordLoad, Serves, Broken
    <3>2. CASE Empty(c)
      BY <1>0, <3>2, HolderFacts DEF Empty, Serves, Broken
    <3> QED
      BY <1>2, <3>1, <3>2
  <2>2. \A d \in Slot : /\ call[d] # Nobody <=> call'[d] # Nobody
                        /\ call[d] # Nobody => /\ call'[d].route = call[d].route
                                               /\ call'[d].at = "called" <=> call[d].at = "called"
    <3>1. call[c] \in Request
      BY <1>1, <2>1
    <3>2. PICK q : /\ call' = [call EXCEPT ![c] = q] /\ q \in Request
                   /\ q.route = call[c].route /\ q.at # "called"
      <4>1. CASE RecordLoad(c)
        <5>1. Load(file) \in Count
          BY <4>1, LoadAgrees DEF RecordLoad, Agrees
        <5> DEFINE q == [call[c] EXCEPT !.at = "loaded", !.got = Load(file)]
        <5>2. q \in Request /\ q.route = call[c].route /\ q.at # "called"
          BY <3>1, <5>1 DEF Request, Stage
        <5>3. call' = [call EXCEPT ![c] = q]
          BY <1>1, <4>1 DEF RecordLoad
        <5> HIDE DEF q
        <5> QED
          BY <5>2, <5>3
      <4>2. CASE Empty(c)
        <5> DEFINE q == [call[c] EXCEPT !.at = "emptied"]
        <5>1. q \in Request /\ q.route = call[c].route /\ q.at # "called"
          BY <3>1 DEF Request, Stage
        <5>2. call' = [call EXCEPT ![c] = q]
          BY <1>1, <4>2 DEF Empty, Move
        <5> HIDE DEF q
        <5> QED
          BY <5>1, <5>2
      <4> QED
        BY <1>2, <4>1, <4>2
    <3> QED
      BY <1>1, <2>1, <3>2, FileAssumption
  <2>3. Admitted' = Admitted
    BY <2>2 DEF Admitted
  <2> QED
    BY <2>1, <2>3 DEF Meter!meter, Broken
<1>3. CASE RecordFails(c) \/ Write(c) \/ WriteFails(c)
  <2>1. /\ call[c] # Nobody /\ call[c].at \in {"loaded", "emptied"}
        /\ lock' = Nobody /\ day' = day /\ call' = [call EXCEPT ![c] = Nobody]
    BY <1>3 DEF RecordFails, Write, WriteFails, Serves, End
  <2>2. /\ lock = c /\ c \in Admitted /\ Agrees(call[c].got)
        /\ call[c].spent \in Nat /\ call[c].spent <= MaxCharge
    BY <2>1, HolderFacts
  <2>3. Admitted' = Admitted \ {c} /\ {c} \in SUBSET Admitted
    BY <2>1, <2>2, AdmittedAfter DEF IsIn
  <2>4. ~Broken
    BY <1>0, <2>2 DEF Broken
  <2>5. CASE RecordFails(c)
    <3>1. file' = file /\ file # Torn /\ charged' = charged
      BY <1>0, <2>2, <2>5 DEF RecordFails, Serves, Inv, FileInv
    <3>2. Broken' = Broken
      BY <2>4, <3>1 DEF Broken
    <3>3. Meter!Leave({c})
      BY <2>1, <2>3, <3>1, <3>2 DEF Meter!Leave, Broken
    <3> QED
      BY <2>3, <3>3 DEF Meter!Next
  <2>6. CASE WriteFails(c)
    <3>1. file' = file /\ file = Torn /\ charged' = charged
      BY <1>0, <2>2, <2>6 DEF WriteFails, Serves, Inv, FileInv
    <3>2. Broken'
      BY <2>1, <3>1 DEF Broken
    <3>3. Meter!Break({c})
      BY <2>1, <2>3, <2>4, <3>1, <3>2 DEF Meter!Break, Broken
    <3> QED
      BY <2>3, <3>3 DEF Meter!Next
  <2>7. CASE Write(c)
    <3> DEFINE got == call[c].got
               spent == call[c].spent
    <3>1. /\ file' = [got EXCEPT !.used = @ + spent]
          /\ charged' = [charged EXCEPT ![got.date] = @ + spent]
      BY <2>7 DEF Write
    <3>2. /\ got \in Count /\ got.date \in Day /\ got.date <= day
          /\ \A d \in Day : d > got.date => charged[d] = 0
      BY <2>2 DEF Agrees, Count
    <3>3. spent \in 0 .. MaxCharge /\ got.date \in 1 .. day
      BY <2>2, <3>2, ChargeNat, BudgetAssumption DEF Day, Inv, TypeOK
    <3> HIDE DEF got, spent
    <3>4. file' \in Count
      BY <2>2, <3>1, <3>2, <3>3, ChargeNat DEF Count
    <3>5. Broken' = Broken
      BY <1>0, <2>4, <3>4 DEF Broken
    <3>6. Meter!Charge(c, got.date, spent)
      BY <2>1, <2>3, <2>4, <3>1, <3>2, <3>5 DEF Meter!Charge, Broken, Day
    <3> QED
      BY <2>2, <3>3, <3>6 DEF Meter!Next
  <2> QED
    BY <1>3, <2>5, <2>6, <2>7
<1> QED
  BY <1>2, <1>3

\* In every behaviour the budget is a daily meter, although it is a file that is
\* tested without its lock, emptied before it is written and kept by a process
\* that may die (Budget.check, Budget.record).
THEOREM BudgetImplementsMeter == Spec => ImplementsMeter
<1>1. Init => Meter!Init
  <2> SUFFICES ASSUME Init PROVE Meter!Init
    OBVIOUS
  <2>1. Admitted = {} /\ ~Broken
    BY FileAssumption DEF Init, Admitted, Broken
  <2> QED
    BY <2>1 DEF Init, Meter!Init, Broken, Day
<1>2. Inv /\ [Next]_vars => [Meter!Next]_(Meter!meter)
  <2> SUFFICES ASSUME Inv, [Next]_vars PROVE [Meter!Next]_(Meter!meter)
    OBVIOUS
  <2>1. ASSUME NEW c \in Slot, Step(c) \/ \E route \in Route : Arrive(c, route)
        PROVE  [Meter!Next]_(Meter!meter)
    BY <2>1, QuietSteps, QuietIsMeters, RecordIsMeters DEF Step
  <2>2. CASE NextDay
    <3>1. Admitted' = Admitted /\ Broken' = Broken
      BY <2>2 DEF NextDay, Admitted, Broken
    <3>2. Meter!NextDay
      BY <2>2, <3>1 DEF NextDay, Meter!NextDay, Broken
    <3> QED
      BY <3>2 DEF Meter!Next
  <2>3. CASE Restart
    <3>1. Admitted' = {} /\ UNCHANGED <<charged, day, file>> /\ lock' = Nobody
      BY <2>3 DEF Restart, Admitted
    <3>2. Admitted' = Admitted \ Admitted /\ Admitted \in SUBSET Admitted
      BY <3>1
    <3>3. CASE Broken' = Broken
      <4>1. Meter!Leave(Admitted)
        BY <3>1, <3>2, <3>3 DEF Meter!Leave, Broken
      <4> QED
        BY <3>2, <4>1 DEF Meter!Next
    <3>4. CASE Broken' # Broken
      <4>1. Broken' /\ ~Broken /\ lock # Nobody
        BY <3>1, <3>4 DEF Broken
      <4>2. lock \in Admitted
        <5>1. lock \in Slot /\ Inside(call[lock])
          BY <4>1 DEF Inv, TypeOK, LockInv
        <5> QED
          BY <5>1, HolderFacts DEF Inside
      <4>3. Meter!Break(Admitted)
        BY <3>1, <3>2, <4>1, <4>2 DEF Meter!Break, Broken
      <4> QED
        BY <3>2, <4>3 DEF Meter!Next
    <3> QED
      BY <3>3, <3>4
  <2>4. CASE UNCHANGED vars
    BY <2>4 DEF vars, Admitted, Meter!meter
  <2> QED
    BY <2>1, <2>2, <2>3, <2>4 DEF Next
<1> QED
  BY <1>1, <1>2, SpecInv, PTL DEF Spec, ImplementsMeter, Meter!Spec
=============================================================================
