----------------------------- MODULE Intake_proofs -----------------------------
(* Intake, for every number of handlers, uploads and documents and every set  *)
(* of types, fields, values, extractions and batches.                         *)
EXTENDS Intake, DocumentReview_proofs, WellFoundedInduction

-----------------------------------------------------------------------------
(* Sorting.                                                                 *)

\* A set of numbers that is not empty has a least one.
LEMMA LeastNatural ==
  ASSUME NEW T \in SUBSET Nat, T # {}
  PROVE  \E m \in T : \A k \in T : m <= k
<1>1. PICK m \in T : \A k \in T : ~ (<<k, m>> \in OpToRel(<, Nat))
  BY WFMin, NatLessThanWellFounded, Zenon
<1>2. ASSUME NEW k \in T PROVE ~ (k < m)
  BY <1>1, Zenon DEF OpToRel
<1> QED
  BY <1>2

\* What holds of 0, and of the next number whenever it holds of one, holds up to n.
LEMMA UpTo ==
  ASSUME NEW n \in Nat, NEW T, 0 \in T,
         \A k \in 0 .. n : k < n /\ k \in T => k + 1 \in T
  PROVE  \A k \in 0 .. n : k \in T
<1> DEFINE missing == {k \in 0 .. n : k \notin T}
<1> SUFFICES ASSUME missing # {} PROVE FALSE
  OBVIOUS
<1>1. PICK m \in missing : \A k \in missing : m <= k
  <2>1. missing \in SUBSET Nat
    OBVIOUS
  <2> HIDE DEF missing
  <2> QED
    BY <2>1, LeastNatural
<1>2. m \in 1 .. n
  BY <1>1
<1>3. m - 1 \in 0 .. n /\ m - 1 \in T
  BY <1>1, <1>2
<1> QED
  BY <1>1, <1>2, <1>3

\* The pass over the pages is what its equation says.
LEMMA PassesDefined ==
  ASSUME NEW cs, Len(cs) \in Nat
  PROVE  Passes(cs) = [n \in 0 .. Len(cs) |->
                         IF n = 0 THEN Start ELSE AddPage(Passes(cs)[n - 1], cs[n], n)]
<1> DEFINE Entry(f, n) == IF n = 0 THEN Start ELSE AddPage(f[n - 1], cs[n], n)
           T == {m \in 0 .. Len(cs) : \E f : f = [n \in 0 .. m |-> Entry(f, n)]}
<1>1. 0 \in T
  <2> DEFINE f == [n \in 0 .. 0 |-> Start]
  <2>1. f = [n \in 0 .. 0 |-> Entry(f, n)]
    OBVIOUS
  <2>2. 0 \in 0 .. Len(cs)
    OBVIOUS
  <2> HIDE DEF f
  <2> QED
    BY <2>1, <2>2
<1>2. ASSUME NEW m \in 0 .. Len(cs), m < Len(cs), m \in T PROVE m + 1 \in T
  <2>1. PICK f : f = [n \in 0 .. m |-> Entry(f, n)]
    BY <1>2
  <2> DEFINE g == [n \in 0 .. (m + 1) |-> IF n = m + 1 THEN AddPage(f[m], cs[m + 1], m + 1) ELSE f[n]]
  <2>2. ASSUME NEW n \in 0 .. (m + 1) PROVE g[n] = Entry(g, n)
    <3>1. CASE n = m + 1
      <4>1. g[m] = f[m] /\ n # 0 /\ n - 1 = m
        BY <3>1
      <4> QED
        BY <3>1, <4>1
    <3>2. CASE n # m + 1
      <4>1. n \in 0 .. m /\ g[n] = f[n]
        BY <3>2
      <4>2. n # 0 => g[n - 1] = f[n - 1]
        BY <4>1
      <4>3. f[n] = Entry(f, n)
        BY <2>1, <4>1
      <4> QED
        BY <4>1, <4>2, <4>3
    <3> QED
      BY <3>1, <3>2
  <2>3. g = [n \in 0 .. (m + 1) |-> Entry(g, n)]
    BY <2>2
  <2>4. m + 1 \in 0 .. Len(cs)
    BY <1>2
  <2> HIDE DEF g
  <2> QED
    BY <2>3, <2>4
<1>3. Len(cs) \in T
  <2> HIDE DEF T
  <2>1. \A m \in 0 .. Len(cs) : m < Len(cs) /\ m \in T => m + 1 \in T
    BY <1>2
  <2>2. \A m \in 0 .. Len(cs) : m \in T
    BY <1>1, <2>1, UpTo
  <2> QED
    BY <2>2
<1>4. PICK f : f = [n \in 0 .. Len(cs) |-> Entry(f, n)]
  BY <1>3
<1> QED
  BY <1>4 DEF Passes

\* The pass after n pages: its groups follow the rule as far as it has come, and
\* it takes a continuation exactly when the rule would.
SortedUpTo(cs, n, st) ==
  /\ st \in [groups : Seq(PageGroup), open : BOOLEAN]
  /\ GroupsFollow(cs, st.groups, n)
  /\ st.open <=> Opened(cs, n)
  /\ st.open => /\ st.groups # <<>>
                /\ st.groups[Len(st.groups)].status = "extract"
                /\ st.groups[Len(st.groups)].type # Passport

LEMMA NewGroupFacts ==
  ASSUME NEW c \in Classification, NEW i \in Nat
  PROVE  LET g == NewGroup(c, i) IN
         /\ g \in PageGroup /\ g.pages = <<i>> /\ g.type = c.doc_type
         /\ g.status = "held" <=> c.doc_type = Other \/ c.confidence = "low"
         /\ g.status = "extract" <=> ~(c.doc_type = Other \/ c.confidence = "low")
         /\ g.status = "held" <=> g.held_reason # NoReason
<1> DEFINE g == NewGroup(c, i)
<1>1. c.doc_type \in DocType \cup {Other} /\ c.confidence \in {"high", "medium", "low"}
  BY DEF Classification, Other
<1>2. <<i>> \in Seq(Nat)
  OBVIOUS
<1>3. /\ g.pages = <<i>> /\ g.type = c.doc_type
      /\ g.status = IF c.doc_type = Other \/ c.confidence = "low" THEN "held" ELSE "extract"
      /\ g.held_reason = IF c.doc_type = Other THEN Unknown
                         ELSE IF c.confidence = "low" THEN Unsure ELSE NoReason
      /\ g = [pages |-> g.pages, type |-> g.type, status |-> g.status, held_reason |-> g.held_reason]
  BY DEF NewGroup
<1> HIDE DEF g
<1>4. Unknown # NoReason /\ Unsure # NoReason
  BY DEF NoReason, Unknown, Unsure
<1>5. /\ g.status = "held" <=> c.doc_type = Other \/ c.confidence = "low"
      /\ g.status = "extract" <=> ~(c.doc_type = Other \/ c.confidence = "low")
      /\ g.status = "held" <=> g.held_reason # NoReason
      /\ g.status \in {"extract", "held"} /\ g.held_reason \in {NoReason, Unknown, Unsure}
  BY <1>3, <1>4
<1>6. g \in [pages : Seq(Nat), type : DocType \cup {Other}, status : {"extract", "held"},
             held_reason : {NoReason, Unknown, Unsure}]
  BY <1>1, <1>2, <1>3, <1>5
<1>7. g.type = Other => g.status = "held"
  BY <1>3
<1>8. g \in PageGroup
  BY <1>5, <1>6, <1>7 DEF PageGroup, Other
<1> QED
  BY <1>3, <1>5, <1>8 DEF g

\* A group that follows the rule up to a page may take that page too.
LEMMA LongerFollows ==
  ASSUME NEW cs, NEW n \in Nat, NEW g \in PageGroup, g.pages[1] \in 1 .. n,
         GroupFollows(cs, g, n + 1), g.status = "extract", g.type # Passport
  PROVE  LET longer == [g EXCEPT !.pages = Append(@, n + 1)] IN
         /\ longer \in PageGroup /\ longer.pages[1] = g.pages[1]
         /\ longer.type = g.type /\ longer.status = g.status
         /\ GroupFollows(cs, longer, n + 2)
<1> DEFINE longer == [g EXCEPT !.pages = Append(@, n + 1)]
           first == g.pages[1]
           size == (n + 1) - first
<1>1. g.pages \in Seq(Nat) /\ Append(g.pages, n + 1) \in Seq(Nat)
  BY DEF PageGroup
<1>2. /\ longer \in PageGroup
      /\ longer.pages = Append(g.pages, n + 1) /\ longer.type = g.type
      /\ longer.status = g.status /\ longer.held_reason = g.held_reason
  BY <1>1 DEF PageGroup
<1> HIDE DEF longer
<1>3. /\ g.pages = [j \in 1 .. size |-> first + j - 1]
      /\ g.type = cs[first].doc_type
      /\ g.status = "held" <=> cs[first].doc_type = Other \/ cs[first].confidence = "low"
      /\ g.status = "held" <=> g.held_reason # NoReason
  BY DEF GroupFollows
<1> HIDE DEF first
<1>f. first \in 1 .. n
  BY DEF first
<1>4. size \in Nat /\ size # 0 /\ first + (size + 1) - 1 = n + 1 /\ (n + 2) - first = size + 1
  BY <1>f
<1> HIDE DEF size
<1>5. Len(g.pages) = size /\ \A j \in 1 .. size : g.pages[j] = first + j - 1
  BY <1>1, <1>3, <1>4
<1>6. /\ longer.pages \in Seq(Nat) /\ Len(longer.pages) = size + 1
      /\ \A j \in 1 .. size : longer.pages[j] = g.pages[j]
      /\ longer.pages[size + 1] = n + 1
  BY <1>1, <1>2, <1>5
<1>7. ASSUME NEW j \in 1 .. (size + 1) PROVE longer.pages[j] = first + j - 1
  <2>1. CASE j = size + 1
    BY <1>4, <1>6, <2>1
  <2>2. CASE j # size + 1
    <3>1. j \in 1 .. size
      BY <1>4, <2>2
    <3> QED
      BY <1>5, <1>6, <3>1
  <2> QED
    BY <2>1, <2>2
<1>8. longer.pages[1] = first
  <2>1. 1 \in 1 .. (size + 1) /\ first + 1 - 1 = first
    BY <1>4, <1>f
  <2> QED
    BY <1>7, <2>1
<1>9. longer.pages = [j \in 1 .. ((n + 2) - longer.pages[1]) |-> longer.pages[1] + j - 1]
  <2>1. DOMAIN longer.pages = 1 .. ((n + 2) - longer.pages[1])
    BY <1>4, <1>6, <1>8
  <2>2. \A j \in DOMAIN longer.pages : longer.pages[j] = longer.pages[1] + j - 1
    BY <1>4, <1>7, <1>8, <2>1
  <2>3. longer.pages = [j \in DOMAIN longer.pages |-> longer.pages[j]]
    BY <1>6
  <2> QED
    BY <2>1, <2>2, <2>3
<1>10. GroupFollows(cs, longer, n + 2)
  <2>1. longer.pages[1] < n + 2
    BY <1>f, <1>8
  <2>2. /\ longer.type = cs[longer.pages[1]].doc_type
        /\ longer.status = "held" <=> cs[longer.pages[1]].doc_type = Other \/ cs[longer.pages[1]].confidence = "low"
        /\ longer.status = "held" <=> longer.held_reason # NoReason
    BY <1>2, <1>3, <1>8
  <2>3. ~(longer.status = "held" \/ longer.type = Passport)
    BY <1>2
  <2> QED
    BY <1>9, <2>1, <2>2, <2>3 DEF GroupFollows
<1> QED
  BY <1>2, <1>8, <1>10 DEF longer, first

\* One more page, when it joins the open group.
LEMMA JoiningFollows ==
  ASSUME NEW cs \in Seq(Classification), NEW n \in Nat, n + 1 <= Len(cs),
         NEW st, SortedUpTo(cs, n, st), Joins(st, cs[n + 1])
  PROVE  SortedUpTo(cs, n + 1, AddPage(st, cs[n + 1], n + 1))
<1> DEFINE gs == st.groups
           last == Len(gs)
           g == gs[last]
           longer == [g EXCEPT !.pages = Append(@, n + 1)]
           new == [gs EXCEPT ![last] = longer]
           after == AddPage(st, cs[n + 1], n + 1)
<1>1. /\ gs \in Seq(PageGroup) /\ gs # <<>> /\ st.open /\ cs[n + 1].is_continuation
      /\ Opened(cs, n) /\ g.status = "extract" /\ g.type # Passport
      /\ GroupsFollow(cs, gs, n)
      /\ st \in [groups : Seq(PageGroup), open : BOOLEAN]
  BY DEF SortedUpTo, Joins
<1>2. last \in Nat /\ last # 0 /\ DOMAIN gs = 1 .. last /\ last \in 1 .. last
  BY <1>1
<1>3. after.groups = new /\ after.open = st.open /\ after = [groups |-> new, open |-> st.open]
  <2>1. after = [st EXCEPT !.groups[Len(st.groups)].pages = Append(@, n + 1)]
    BY DEF AddPage
  <2> QED
    BY <1>1, <1>2, <2>1
<1>4. g \in PageGroup
  BY <1>1, <1>2
<1>5. g.pages[1] \in 1 .. n
  <2>1. {gs[k].pages[1] : k \in DOMAIN gs} = {i \in 1 .. n : ~Continues(cs, i)}
    BY <1>1 DEF GroupsFollow
  <2> QED
    BY <1>2, <2>1
<1>6. GroupFollows(cs, g, n + 1)
  <2>1. GroupFollows(cs, gs[last], NextFirst(gs, last, n))
    BY <1>1, <1>2 DEF GroupsFollow
  <2> QED
    BY <2>1 DEF NextFirst
<1>7. /\ longer \in PageGroup /\ longer.pages[1] = g.pages[1]
      /\ longer.type = g.type /\ longer.status = g.status
      /\ GroupFollows(cs, longer, n + 2)
  <2> HIDE DEF g
  <2> QED
    BY <1>1, <1>4, <1>5, <1>6, LongerFollows
<1>8. /\ new \in Seq(PageGroup) /\ DOMAIN new = DOMAIN gs /\ Len(new) = last
      /\ new[last] = longer
      /\ \A k \in 1 .. last : k # last => new[k] = gs[k]
  <2> HIDE DEF longer
  <2>1. new \in Seq(PageGroup) /\ Len(new) = Len(gs)
    BY <1>1, <1>2, <1>7, ExceptSeq
  <2> QED
    BY <1>1, <1>2, <2>1
<1> HIDE DEF new, longer, after, g, last
<1>10. new \in Seq(PageGroup) /\ DOMAIN new = 1 .. last /\ Len(new) = last
  BY <1>2, <1>8
<1>11. \A k \in 1 .. last : new[k].pages[1] = gs[k].pages[1]
  BY <1>7, <1>8 DEF g
<1>12. Continues(cs, n + 1) /\ Opened(cs, n + 1)
  <2>1. PICK j \in 1 .. n : /\ cs[j].doc_type \notin {Other, Passport} /\ cs[j].confidence # "low"
                            /\ \A k \in (j + 1) .. n : cs[k].is_continuation
    BY <1>1 DEF Opened
  <2>2. j \in 1 .. (n + 1) /\ \A k \in (j + 1) .. (n + 1) : cs[k].is_continuation
    BY <1>1, <2>1
  <2>3. n + 1 - 1 = n
    OBVIOUS
  <2> QED
    BY <1>1, <2>1, <2>2, <2>3 DEF Opened, Continues
<1>13. {new[k].pages[1] : k \in DOMAIN new} = {i \in 1 .. (n + 1) : ~Continues(cs, i)}
  <2>1. {gs[k].pages[1] : k \in DOMAIN gs} = {i \in 1 .. n : ~Continues(cs, i)}
    BY <1>1 DEF GroupsFollow
  <2>2. {new[k].pages[1] : k \in DOMAIN new} = {gs[k].pages[1] : k \in DOMAIN gs}
    BY <1>2, <1>10, <1>11
  <2>3. \A i \in 1 .. (n + 1) : i \in 1 .. n \/ i = n + 1
    OBVIOUS
  <2>4. {i \in 1 .. (n + 1) : ~Continues(cs, i)} = {i \in 1 .. n : ~Continues(cs, i)}
    BY <1>12, <2>3
  <2> QED
    BY <2>1, <2>2, <2>4
<1>14. ASSUME NEW k \in DOMAIN new PROVE GroupFollows(cs, new[k], NextFirst(new, k, n + 1))
  <2>1. CASE k = last
    <3>1. NextFirst(new, k, n + 1) = n + 2
      BY <1>10, <2>1 DEF NextFirst
    <3> QED
      BY <1>7, <1>8, <2>1, <3>1
  <2>2. CASE k # last
    <3>1. k \in DOMAIN gs /\ k + 1 \in 1 .. last /\ new[k] = gs[k]
      BY <1>2, <1>8, <1>10, <2>2
    <3>2. NextFirst(new, k, n + 1) = NextFirst(gs, k, n)
      BY <1>10, <1>11, <2>2, <3>1 DEF NextFirst, last
    <3>3. GroupFollows(cs, gs[k], NextFirst(gs, k, n))
      BY <1>1, <3>1 DEF GroupsFollow
    <3> QED
      BY <3>1, <3>2, <3>3
  <2> QED
    BY <2>1, <2>2
<1>15. GroupsFollow(cs, new, n + 1)
  BY <1>13, <1>14 DEF GroupsFollow
<1>16. after \in [groups : Seq(PageGroup), open : BOOLEAN]
  BY <1>1, <1>3, <1>10
<1>17. new # <<>> /\ new[Len(new)].status = "extract" /\ new[Len(new)].type # Passport
  BY <1>1, <1>2, <1>7, <1>8, <1>10
<1> QED
  BY <1>1, <1>3, <1>12, <1>15, <1>16, <1>17 DEF SortedUpTo, after

\* One more page, when it starts a group.
LEMMA StartingFollows ==
  ASSUME NEW cs \in Seq(Classification), NEW n \in Nat, n + 1 <= Len(cs),
         NEW st, SortedUpTo(cs, n, st), ~Joins(st, cs[n + 1])
  PROVE  SortedUpTo(cs, n + 1, AddPage(st, cs[n + 1], n + 1))
<1> DEFINE gs == st.groups
           c == cs[n + 1]
           g == NewGroup(c, n + 1)
           new == Append(gs, g)
           after == AddPage(st, c, n + 1)
<1>1. /\ gs \in Seq(PageGroup) /\ GroupsFollow(cs, gs, n)
      /\ st \in [groups : Seq(PageGroup), open : BOOLEAN]
      /\ ~(c.is_continuation /\ Opened(cs, n))
  BY DEF SortedUpTo, Joins
<1>2. c \in Classification /\ n + 1 \in Nat
  OBVIOUS
<1>3. /\ after.groups = new /\ after = [groups |-> after.groups, open |-> after.open]
      /\ after.open = (g.status = "extract" /\ g.type # Passport)
  BY DEF AddPage
<1>4. /\ g \in PageGroup /\ g.pages = <<n + 1>> /\ g.type = c.doc_type
      /\ g.status = "held" <=> c.doc_type = Other \/ c.confidence = "low"
      /\ g.status = "extract" <=> ~(c.doc_type = Other \/ c.confidence = "low")
      /\ g.status = "held" <=> g.held_reason # NoReason
  BY <1>2, NewGroupFacts
<1> HIDE DEF g, after
<1>5. /\ Len(gs) \in Nat /\ DOMAIN gs = 1 .. Len(gs)
      /\ new \in Seq(PageGroup) /\ Len(new) = Len(gs) + 1 /\ DOMAIN new = 1 .. (Len(gs) + 1)
      /\ new[Len(gs) + 1] = g /\ new # <<>>
      /\ \A k \in 1 .. Len(gs) : new[k] = gs[k]
  BY <1>1, <1>4
<1> DEFINE size == Len(gs)
<1>s. /\ size \in Nat /\ DOMAIN gs = 1 .. size /\ DOMAIN new = 1 .. (size + 1) /\ Len(new) = size + 1
      /\ new[size + 1] = g /\ \A k \in 1 .. size : new[k] = gs[k]
  BY <1>5
<1> HIDE DEF new, size
<1>6. g.pages[1] = n + 1
  BY <1>4
<1>7. n + 1 - 1 = n
  OBVIOUS
<1>8. ~Continues(cs, n + 1)
  BY <1>1, <1>7 DEF Continues
<1>9. GroupFollows(cs, g, n + 2)
  <2>1. g.pages = [j \in 1 .. (n + 2 - (n + 1)) |-> n + 1 + j - 1]
    <3>1. n + 2 - (n + 1) = 1 /\ \A j \in 1 .. 1 : n + 1 + j - 1 = n + 1
      OBVIOUS
    <3> QED
      BY <1>4, <3>1
  <2>2. Len(g.pages) = 1 /\ n + 1 < n + 2
    BY <1>4
  <2> QED
    BY <1>4, <1>6, <2>1, <2>2 DEF GroupFollows
<1>10. {new[k].pages[1] : k \in DOMAIN new} = {i \in 1 .. (n + 1) : ~Continues(cs, i)}
  <2>1. {gs[k].pages[1] : k \in DOMAIN gs} = {i \in 1 .. n : ~Continues(cs, i)}
    BY <1>1 DEF GroupsFollow
  <2>2. {new[k].pages[1] : k \in DOMAIN new} = {gs[k].pages[1] : k \in DOMAIN gs} \cup {n + 1}
    <3>1. \A k \in DOMAIN new : k \in DOMAIN gs \/ k = size + 1
      BY <1>s
    <3>2. \A k \in DOMAIN gs : k \in DOMAIN new /\ new[k].pages[1] = gs[k].pages[1]
      BY <1>s
    <3>3. size + 1 \in DOMAIN new /\ new[size + 1].pages[1] = n + 1
      BY <1>s, <1>6
    <3> QED
      BY <3>1, <3>2, <3>3
  <2>3. \A i : i \in 1 .. (n + 1) <=> i \in 1 .. n \/ i = n + 1
    OBVIOUS
  <2>4. {i \in 1 .. (n + 1) : ~Continues(cs, i)} = {i \in 1 .. n : ~Continues(cs, i)} \cup {n + 1}
    BY <1>8, <2>3
  <2> QED
    BY <2>1, <2>2, <2>4
<1>11. ASSUME NEW k \in DOMAIN new PROVE GroupFollows(cs, new[k], NextFirst(new, k, n + 1))
  <2>1. CASE k = size + 1
    <3>1. NextFirst(new, k, n + 1) = n + 2
      BY <1>s, <2>1 DEF NextFirst
    <3> QED
      BY <1>s, <1>9, <2>1, <3>1
  <2>2. CASE k = size
    <3>1. k \in DOMAIN gs /\ new[k] = gs[k]
      BY <1>s, <2>2
    <3>2. NextFirst(new, k, n + 1) = n + 1 /\ NextFirst(gs, k, n) = n + 1
      BY <1>s, <1>6, <2>2 DEF NextFirst, size
    <3>3. GroupFollows(cs, gs[k], NextFirst(gs, k, n))
      BY <1>1, <3>1 DEF GroupsFollow
    <3> QED
      BY <3>1, <3>2, <3>3
  <2>3. CASE k < size
    <3>1. k \in DOMAIN gs /\ k + 1 \in DOMAIN gs /\ new[k] = gs[k] /\ new[k + 1] = gs[k + 1]
      <4>1. k \in 1 .. size /\ k + 1 \in 1 .. size
        BY <1>s, <2>3
      <4> QED
        BY <1>s, <4>1
    <3>2. NextFirst(new, k, n + 1) = NextFirst(gs, k, n)
      BY <1>s, <2>3, <3>1 DEF NextFirst, size
    <3>3. GroupFollows(cs, gs[k], NextFirst(gs, k, n))
      BY <1>1, <3>1 DEF GroupsFollow
    <3> QED
      BY <3>1, <3>2, <3>3
  <2> QED
    BY <1>s, <2>1, <2>2, <2>3
<1>12. GroupsFollow(cs, new, n + 1)
  BY <1>10, <1>11 DEF GroupsFollow
<1>13. Opened(cs, n + 1) <=> c.doc_type \notin {Other, Passport} /\ c.confidence # "low"
  <2>1. ASSUME Opened(cs, n + 1)
        PROVE  c.doc_type \notin {Other, Passport} /\ c.confidence # "low"
    <3>1. PICK j \in 1 .. (n + 1) :
            /\ cs[j].doc_type \notin {Other, Passport} /\ cs[j].confidence # "low"
            /\ \A k \in (j + 1) .. (n + 1) : cs[k].is_continuation
      BY <2>1 DEF Opened
    <3>2. CASE j = n + 1
      BY <3>1, <3>2
    <3>3. CASE j # n + 1
      <4>1. j \in 1 .. n /\ n + 1 \in (j + 1) .. (n + 1)
        BY <3>3
      <4>2. c.is_continuation /\ \A k \in (j + 1) .. n : cs[k].is_continuation
        BY <3>1, <4>1
      <4>3. Opened(cs, n)
        BY <3>1, <4>1, <4>2 DEF Opened
      <4> QED
        BY <1>1, <4>2, <4>3
    <3> QED
      BY <3>2, <3>3
  <2>2. ASSUME c.doc_type \notin {Other, Passport}, c.confidence # "low"
        PROVE  Opened(cs, n + 1)
    <3>1. n + 1 \in 1 .. (n + 1) /\ \A k \in (n + 1 + 1) .. (n + 1) : cs[k].is_continuation
      OBVIOUS
    <3> QED
      BY <2>2, <3>1 DEF Opened
  <2> QED
    BY <2>1, <2>2
<1>14. after.open \in BOOLEAN /\ (after.open <=> Opened(cs, n + 1))
  BY <1>3, <1>4, <1>13
<1>15. after \in [groups : Seq(PageGroup), open : BOOLEAN]
  BY <1>3, <1>5, <1>14
<1>16. after.open => new[Len(new)].status = "extract" /\ new[Len(new)].type # Passport
  BY <1>3, <1>5
<1> QED
  BY <1>3, <1>5, <1>12, <1>14, <1>15, <1>16 DEF SortedUpTo, after

\* However many pages there are, the pass follows the rule.
LEMMA PassSorts ==
  ASSUME NEW cs \in Seq(Classification)
  PROVE  SortedUpTo(cs, Len(cs), Passes(cs)[Len(cs)])
<1> DEFINE T == {n \in 0 .. Len(cs) : SortedUpTo(cs, n, Passes(cs)[n])}
<1>1. /\ Len(cs) \in Nat /\ Passes(cs)[0] = Start
      /\ \A n \in 0 .. Len(cs) : n # 0 => Passes(cs)[n] = AddPage(Passes(cs)[n - 1], cs[n], n)
  BY PassesDefined
<1>2. 0 \in T
  <2>1. <<>> \in Seq(PageGroup) /\ DOMAIN <<>> = {}
    OBVIOUS
  <2>2. Start \in [groups : Seq(PageGroup), open : BOOLEAN] /\ Start.groups = <<>> /\ ~Start.open
    BY <2>1 DEF Start
  <2>3. GroupsFollow(cs, <<>>, 0)
    BY <2>1 DEF GroupsFollow
  <2>4. ~Opened(cs, 0)
    BY DEF Opened
  <2> QED
    BY <1>1, <2>2, <2>3, <2>4 DEF SortedUpTo
<1>3. ASSUME NEW n \in 0 .. Len(cs), n < Len(cs), n \in T PROVE n + 1 \in T
  <2>1. n + 1 \in 0 .. Len(cs) /\ n + 1 # 0 /\ n + 1 - 1 = n /\ n \in Nat /\ n + 1 <= Len(cs)
    BY <1>1, <1>3
  <2>2. Passes(cs)[n + 1] = AddPage(Passes(cs)[n], cs[n + 1], n + 1)
    BY <1>1, <2>1
  <2>3. SortedUpTo(cs, n, Passes(cs)[n])
    BY <1>3
  <2>4. SortedUpTo(cs, n + 1, AddPage(Passes(cs)[n], cs[n + 1], n + 1))
    BY <2>1, <2>3, JoiningFollows, StartingFollows
  <2> QED
    BY <2>1, <2>2, <2>4
<1>4. Len(cs) \in T
  <2> HIDE DEF T
  <2>1. \A n \in 0 .. Len(cs) : n < Len(cs) /\ n \in T => n + 1 \in T
    BY <1>3
  <2>2. \A n \in 0 .. Len(cs) : n \in T
    BY <1>1, <1>2, <2>1, UpTo
  <2> QED
    BY <1>1, <2>2
<1> QED
  BY <1>4

\* Any number of files in any order: the groups are as the rule says, and there
\* is one when there is a file (sorting.ts groupPages).
THEOREM GroupsAlwaysFollow ==
  ASSUME NEW cs \in Seq(Classification)
  PROVE  /\ FollowsTheRule(cs)
         /\ GroupPages(cs) \in Seq(PageGroup)
         /\ Len(cs) # 0 => GroupPages(cs) # <<>>
<1>1. GroupsFollow(cs, GroupPages(cs), Len(cs)) /\ GroupPages(cs) \in Seq(PageGroup)
  BY PassSorts DEF SortedUpTo, GroupPages
<1>2. ASSUME Len(cs) # 0 PROVE GroupPages(cs) # <<>>
  <2>1. ~Continues(cs, 1) /\ 1 \in 1 .. Len(cs)
    BY <1>2 DEF Continues, Opened
  <2>2. 1 \in {GroupPages(cs)[k].pages[1] : k \in DOMAIN GroupPages(cs)}
    BY <1>1, <2>1 DEF GroupsFollow
  <2> QED
    BY <2>2
<1> QED
  BY <1>1, <1>2 DEF FollowsTheRule

-----------------------------------------------------------------------------
(* Types.                                                                   *)

\* What a batch is given to store.
LEMMA BatchGroups ==
  ASSUME NEW cs \in Batches
  PROVE  GroupPages(cs) \in Seq(PageGroup) /\ GroupPages(cs) # <<>>
<1>1. cs \in Seq(Classification) /\ Len(cs) # 0
  BY IntakeAssumption DEF IntakeAssumption
<1> QED
  BY <1>1, GroupsAlwaysFollow

\* Group types are known to the row types whatever the batch.
LEMMA GroupFacts ==
  ASSUME NEW g \in PageGroup
  PROVE  g.type \in DocType \cup {Other} /\ g.held_reason \in Reasons
BY DEF PageGroup, Reasons, Other

LEMMA IdleType == Idle \in HandlerState
<1>1. <<>> \in Seq(PageGroup)
  BY EmptySeq
<1>2. QED
  BY <1>1 DEF Idle, HandlerState, Ops, Points, NoId

\* The rows an insert adds are rows of their tables.
LEMMA NewRowTypes ==
  /\ \A t \in DocType \cup {Other}, reason \in Reasons : NewUpload(t, reason) \in UploadRow
  /\ \A x \in Extractions, u \in Nat : NewDocument(x, u) \in DocumentRow
<1>1. ASSUME NEW t \in DocType \cup {Other}, NEW reason \in Reasons
      PROVE  NewUpload(t, reason) \in UploadRow
  BY DEF NewUpload, UploadRow, NoId
<1>2. ASSUME NEW x \in Extractions, NEW u \in Nat
      PROVE  NewDocument(x, u) \in DocumentRow
  BY NewReviewFacts DEF NewDocument, DocumentRow, NoId
<1>3. QED
  BY <1>1, <1>2

\* What follows the end of one group's work is a handler state.
LEMMA DoneType ==
  ASSUME TypeOK, NEW h \in Handler
  PROVE  Done(h) \in HandlerState
<1>1. handler[h] \in HandlerState
  BY DEF TypeOK
<1>2. QED
  BY <1>1, IdleType DEF Done, HandlerState, Ops, Points

LEMMA InitType == Init => TypeOK
<1>1. <<>> \in Seq(UploadRow) /\ <<>> \in Seq(DocumentRow)
  BY EmptySeq
<1>2. QED
  BY <1>1, IdleType DEF Init, TypeOK

\* Every step keeps the state well typed, given what the handlers hold.
LEMMA TypeStep == TypeOK /\ HandlersSound /\ [Next]_vars => TypeOK'
<1> SUFFICES ASSUME TypeOK, HandlersSound, [Next]_vars PROVE TypeOK'
  OBVIOUS
<1>0. /\ \A h \in Handler : handler[h] \in HandlerState /\ Sound(handler[h], uploads, docs)
      /\ handler \in [Handler -> HandlerState]
      /\ uploads \in Seq(UploadRow) /\ docs \in Seq(DocumentRow)
  BY DEF TypeOK, HandlersSound
\* Setting one handler to a handler state keeps the handlers well typed.
<1>h. ASSUME NEW h \in Handler, NEW s \in HandlerState, Becomes(h, s)
      PROVE  handler' \in [Handler -> HandlerState]
  BY <1>0, <1>h DEF Becomes
\* Writing one upload with a well typed row keeps the uploads well typed.
<1>u. ASSUME NEW u \in DOMAIN uploads, NEW row \in UploadRow,
             uploads' = [uploads EXCEPT ![u] = row]
      PROVE  uploads' \in Seq(UploadRow)
  BY <1>0, <1>u, ExceptSeq, LenProperties
<1>d. ASSUME NEW d \in DOMAIN docs, NEW row \in DocumentRow,
             docs' = [docs EXCEPT ![d] = row]
      PROVE  docs' \in Seq(DocumentRow)
  BY <1>0, <1>d, ExceptSeq, LenProperties
<1>1. ASSUME NEW h \in Handler, StartBatch(h)
      PROVE  TypeOK'
  <2>1. PICK groups \in {GroupPages(cs) : cs \in Batches} :
          Becomes(h, [Idle EXCEPT !.op = "batch", !.at = "next group", !.rest = groups])
    BY <1>1 DEF StartBatch
  <2>2. groups \in Seq(PageGroup)
    BY BatchGroups
  <2>3. [Idle EXCEPT !.op = "batch", !.at = "next group", !.rest = groups] \in HandlerState
    BY <2>2, IdleType DEF HandlerState, Ops, Points
  <2>4. QED
    BY <1>0, <1>1, <1>h, <2>1, <2>3 DEF StartBatch, TypeOK
<1>2. ASSUME NEW h \in Handler, NextGroup(h)
      PROVE  TypeOK'
  <2> DEFINE g == Head(handler[h].rest)
             after == [handler[h] EXCEPT !.rest = Tail(@)]
  <2>1. handler[h].rest \in Seq(PageGroup) /\ handler[h].rest # <<>>
    BY <1>0, <1>2 DEF HandlerState, NextGroup, Sound
  <2>2. g \in PageGroup /\ Tail(handler[h].rest) \in Seq(PageGroup)
    BY <2>1, HeadTailProperties
  <2>3. after \in HandlerState
    BY <1>0, <2>2 DEF HandlerState
  <2>4. NewUpload(g.type, g.held_reason) \in UploadRow
    BY <2>2, GroupFacts, NewRowTypes
  <2>5. uploads' \in Seq(UploadRow)
    BY <1>0, <1>2, <2>4, AppendProperties DEF NextGroup
  <2>6. Len(uploads) + 1 \in Nat
    BY <1>0, LenProperties
  <2>7. CASE g.status = "extract" /\ g.type # Other
    <3>1. g.type \in DocType
      BY <2>2, <2>7 DEF PageGroup, Other
    <3>2. [after EXCEPT !.at = "extract", !.upload = Len(uploads) + 1, !.type = g.type]
            \in HandlerState
      BY <2>3, <2>6, <3>1 DEF HandlerState, Points
    <3>3. Becomes(h, [after EXCEPT !.at = "extract", !.upload = Len(uploads) + 1,
                                   !.type = g.type])
      BY <1>2, <2>7 DEF NextGroup
    <3>4. QED
      BY <1>0, <1>2, <1>h, <2>5, <3>2, <3>3 DEF TypeOK, NextGroup
  <2>8. CASE ~(g.status = "extract" /\ g.type # Other)
    <3>1. Becomes(h, IF after.rest = <<>> THEN Idle ELSE after)
      BY <1>2, <2>8 DEF NextGroup
    <3>2. (IF after.rest = <<>> THEN Idle ELSE after) \in HandlerState
      BY <2>3, IdleType
    <3>3. QED
      BY <1>0, <1>2, <1>h, <2>5, <3>1, <3>2 DEF TypeOK, NextGroup
  <2>9. QED
    BY <2>7, <2>8
<1>3. ASSUME NEW h \in Handler, StartManual(h)
      PROVE  TypeOK'
  <2>1. PICK t \in DocType, op \in {"one page", "pages"} :
          Becomes(h, [Idle EXCEPT !.op = op, !.at = "extract", !.type = t])
    BY <1>3 DEF StartManual
  <2>2. [Idle EXCEPT !.op = op, !.at = "extract", !.type = t] \in HandlerState
    BY IdleType DEF HandlerState, Ops, Points
  <2>3. QED
    BY <1>0, <1>3, <1>h, <2>1, <2>2 DEF StartManual, TypeOK
<1>4. ASSUME NEW h \in Handler, StartExtract(h)
      PROVE  TypeOK'
  <2>1. PICK u \in DOMAIN uploads, t \in DocType :
          Becomes(h, [Idle EXCEPT !.op = "extract", !.at = "extract",
                                  !.upload = u, !.type = t])
    BY <1>4 DEF StartExtract
  <2>2. u \in Nat
    BY <1>0, <2>1, LenProperties
  <2>3. [Idle EXCEPT !.op = "extract", !.at = "extract", !.upload = u, !.type = t]
          \in HandlerState
    BY <2>2, IdleType DEF HandlerState, Ops, Points
  <2>4. QED
    BY <1>0, <1>4, <1>h, <2>1, <2>3 DEF StartExtract, TypeOK
<1>5. ASSUME NEW h \in Handler, StartRetype(h)
      PROVE  TypeOK'
  <2>1. PICK d \in DOMAIN docs, t \in DocType :
          Becomes(h, [Idle EXCEPT !.op = "retype", !.at = "extract", !.type = t,
                                  !.upload = docs[d].upload, !.old = d])
    BY <1>5 DEF StartRetype
  <2>2. d \in Nat /\ docs[d] \in DocumentRow
    BY <1>0, <2>1, LenProperties
  <2>3. [Idle EXCEPT !.op = "retype", !.at = "extract", !.type = t,
                     !.upload = docs[d].upload, !.old = d] \in HandlerState
    BY <2>2, IdleType DEF HandlerState, Ops, Points, DocumentRow
  <2>4. QED
    BY <1>0, <1>5, <1>h, <2>1, <2>3 DEF StartRetype, TypeOK
<1>6. ASSUME NEW h \in Handler, StartDismiss(h)
      PROVE  TypeOK'
  <2>1. PICK u \in DOMAIN uploads :
          Becomes(h, [Idle EXCEPT !.op = "dismiss", !.at = "dismiss", !.upload = u])
    BY <1>6 DEF StartDismiss
  <2>2. u \in Nat
    BY <1>0, <2>1, LenProperties
  <2>3. [Idle EXCEPT !.op = "dismiss", !.at = "dismiss", !.upload = u] \in HandlerState
    BY <2>2, IdleType DEF HandlerState, Ops, Points
  <2>4. QED
    BY <1>0, <1>6, <1>h, <2>1, <2>3 DEF StartDismiss, TypeOK
<1>7. ASSUME NEW h \in Handler, Extracted(h)
      PROVE  TypeOK'
  <2>1. PICK x \in Extractions :
          Becomes(h, [handler[h] EXCEPT
            !.x = x, !.at = IF handler[h].op = "pages" THEN "keep pages" ELSE "create"])
    BY <1>7 DEF Extracted
  <2>2. [handler[h] EXCEPT
           !.x = x, !.at = IF handler[h].op = "pages" THEN "keep pages" ELSE "create"]
          \in HandlerState
    BY <1>0 DEF HandlerState, Points
  <2>3. QED
    BY <1>0, <1>7, <1>h, <2>1, <2>2 DEF Extracted, TypeOK
<1>8. ASSUME NEW h \in Handler, ExtractionFails(h)
      PROVE  TypeOK'
  <2>1. (IF handler[h].op = "batch" THEN [handler[h] EXCEPT !.at = "hold"] ELSE Idle)
          \in HandlerState
    BY <1>0, IdleType DEF HandlerState, Points
  <2>2. QED
    BY <1>0, <1>8, <1>h, <2>1 DEF ExtractionFails, TypeOK
<1>9. ASSUME NEW h \in Handler, KeepPages(h)
      PROVE  TypeOK'
  <2>1. handler[h].type \in DocType
    BY <1>0, <1>9, ExtractionsAssumption DEF KeepPages, Sound, Extraction
  <2>2. NewUpload(handler[h].type, NoReason) \in UploadRow
    BY <2>1, NewRowTypes DEF Reasons
  <2>3. uploads' \in Seq(UploadRow)
    BY <1>0, <1>9, <2>2, AppendProperties DEF KeepPages
  <2>4. Len(uploads) + 1 \in Nat
    BY <1>0, LenProperties
  <2>5. [handler[h] EXCEPT !.at = "create", !.upload = Len(uploads) + 1] \in HandlerState
    BY <1>0, <2>4 DEF HandlerState, Points
  <2>6. QED
    BY <1>0, <1>9, <1>h, <2>3, <2>5 DEF KeepPages, TypeOK
<1>10. ASSUME NEW h \in Handler, CreateDocument(h)
       PROVE  TypeOK'
  <2>1. handler[h].x \in Extractions /\ handler[h].upload \in Nat
    BY <1>0, <1>10 DEF CreateDocument, Sound, HandlerState
  <2>2. NewDocument(handler[h].x, handler[h].upload) \in DocumentRow
    BY <2>1, NewRowTypes
  <2>3. docs' \in Seq(DocumentRow)
    BY <1>0, <1>10, <2>2, AppendProperties DEF CreateDocument
  <2>4. Len(docs) + 1 \in Nat
    BY <1>0, LenProperties
  <2>5. /\ [handler[h] EXCEPT !.at = "supersede", !.new = Len(docs) + 1] \in HandlerState
        /\ [handler[h] EXCEPT !.at = "link", !.new = Len(docs) + 1] \in HandlerState
    BY <1>0, <2>4 DEF HandlerState, Points
  <2>6. \E s \in HandlerState : Becomes(h, s)
    <3>1. CASE handler[h].op = "one page"
      BY <1>10, <3>1, IdleType DEF CreateDocument
    <3>2. CASE handler[h].op = "retype"
      BY <1>10, <2>5, <3>2 DEF CreateDocument
    <3>3. CASE handler[h].op \notin {"one page", "retype"}
      BY <1>10, <2>5, <3>3 DEF CreateDocument
    <3>4. QED
      BY <3>1, <3>2, <3>3
  <2>7. QED
    BY <1>0, <1>10, <1>h, <2>3, <2>6 DEF CreateDocument, TypeOK
<1>11. ASSUME NEW h \in Handler, LinkUpload(h)
       PROVE  TypeOK'
  <2>1. handler[h].upload \in DOMAIN uploads /\ handler[h].new \in Nat
    BY <1>0, <1>11 DEF LinkUpload, Sound, HandlerState
  <2>2. uploads[handler[h].upload] \in UploadRow
    BY <1>0, <2>1, LenProperties
  <2>3. LinkDocument(uploads[handler[h].upload], handler[h].new, handler[h].op) \in UploadRow
    BY <2>1, <2>2 DEF LinkDocument, UploadRow, Reasons
  <2>4. uploads' \in Seq(UploadRow)
    BY <1>11, <1>u, <2>1, <2>3 DEF LinkUpload
  <2>5. QED
    BY <1>0, <1>11, <1>h, <2>4, DoneType DEF LinkUpload, TypeOK
<1>12. ASSUME NEW h \in Handler, HoldUpload(h)
       PROVE  TypeOK'
  <2>1. handler[h].upload \in DOMAIN uploads
    BY <1>0, <1>12 DEF HoldUpload, Sound
  <2>2. uploads[handler[h].upload] \in UploadRow
    BY <1>0, <2>1, LenProperties
  <2>3. MarkFailed(uploads[handler[h].upload]) \in UploadRow
    BY <2>2 DEF MarkFailed, UploadRow, Reasons
  <2>4. uploads' \in Seq(UploadRow)
    BY <1>12, <1>u, <2>1, <2>3 DEF HoldUpload
  <2>5. QED
    BY <1>0, <1>12, <1>h, <2>4, DoneType DEF HoldUpload, TypeOK
<1>13. ASSUME NEW h \in Handler, Supersede(h)
       PROVE  TypeOK'
  <2>1. handler[h].old \in DOMAIN docs /\ handler[h].new \in Nat
    BY <1>0, <1>13 DEF Supersede, Sound, HandlerState
  <2>2. docs[handler[h].old] \in DocumentRow
    BY <1>0, <2>1, LenProperties
  <2>3. [docs[handler[h].old] EXCEPT !.superseded = handler[h].new] \in DocumentRow
    BY <2>1, <2>2 DEF DocumentRow
  <2>4. docs' \in Seq(DocumentRow)
    BY <1>13, <1>d, <2>1, <2>3 DEF Supersede
  <2>5. (IF handler[h].upload = NoId THEN Idle ELSE [handler[h] EXCEPT !.at = "relink"])
          \in HandlerState
    BY <1>0, IdleType DEF HandlerState, Points
  <2>6. QED
    BY <1>0, <1>13, <1>h, <2>4, <2>5 DEF Supersede, TypeOK
<1>14. ASSUME NEW h \in Handler, Relink(h)
       PROVE  TypeOK'
  <2>1. handler[h].upload \in DOMAIN uploads /\ handler[h].new \in Nat
    BY <1>0, <1>14 DEF Relink, Sound, HandlerState
  <2>2. uploads[handler[h].upload] \in UploadRow
    BY <1>0, <2>1, LenProperties
  <2>3. [uploads[handler[h].upload] EXCEPT !.document = handler[h].new] \in UploadRow
    BY <2>1, <2>2 DEF UploadRow
  <2>4. uploads' \in Seq(UploadRow)
    BY <1>14, <1>u, <2>1, <2>3 DEF Relink
  <2>5. QED
    BY <1>0, <1>14, <1>h, <2>4, IdleType DEF Relink, TypeOK
<1>15. ASSUME NEW h \in Handler, Dismiss(h)
       PROVE  TypeOK'
  <2>1. handler[h].upload \in DOMAIN uploads
    BY <1>0, <1>15 DEF Dismiss, Sound
  <2>2. uploads[handler[h].upload] \in UploadRow
    BY <1>0, <2>1, LenProperties
  <2>3. MarkDismissed(uploads[handler[h].upload]) \in UploadRow
    BY <2>2 DEF MarkDismissed, UploadRow, Reasons
  <2>4. uploads' \in Seq(UploadRow)
    BY <1>15, <1>u, <2>1, <2>3 DEF Dismiss
  <2>5. QED
    BY <1>0, <1>15, <1>h, <2>4, IdleType DEF Dismiss, TypeOK
<1>16. ASSUME NEW h \in Handler, Fault(h)
       PROVE  TypeOK'
  <2>1. [handler[h] EXCEPT !.at = "hold"] \in HandlerState
    BY <1>0 DEF HandlerState, Points
  <2>2. QED
    BY <1>0, <1>16, <1>h, <2>1, IdleType DEF Fault, Die, StoreRefuses, TypeOK
<1>17. ASSUME NEW d \in DOMAIN docs, Confirm(d)
       PROVE  TypeOK'
  <2>1. PICK post \in Posts :
          /\ Accepts(docs[d].review, post)
          /\ docs' = [docs EXCEPT ![d].review = ApplyConfirmations(@, post)]
    BY <1>17 DEF Confirm
  <2>2. docs[d] \in DocumentRow
    BY <1>0, LenProperties
  <2>3. docs[d].review \in Review
    BY <2>2 DEF DocumentRow
  <2>4. ApplyConfirmations(docs[d].review, post) \in Review
    BY <2>1, <2>3, ApplyFacts
  <2>5. [docs[d] EXCEPT !.review = ApplyConfirmations(@, post)] \in DocumentRow
    BY <2>2, <2>4 DEF DocumentRow
  <2>6. docs' \in Seq(DocumentRow)
    BY <1>d, <2>1, <2>5
  <2>7. QED
    BY <1>0, <1>17, <2>6 DEF Confirm, TypeOK
<1>18. ASSUME NEW d \in DOMAIN docs, AskStudent(d)
       PROVE  TypeOK'
  <2>1. PICK r \in Request : docs' = [docs EXCEPT ![d].review = AppendRequest(@, r)]
    BY <1>18 DEF AskStudent
  <2>2. docs[d] \in DocumentRow
    BY <1>0, LenProperties
  <2>3. docs[d].review \in Review
    BY <2>2 DEF DocumentRow
  <2>4. AppendRequest(docs[d].review, r) \in Review
    BY <2>3, AppendRequestFacts
  <2>5. [docs[d] EXCEPT !.review = AppendRequest(@, r)] \in DocumentRow
    BY <2>2, <2>4 DEF DocumentRow
  <2>6. docs' \in Seq(DocumentRow)
    BY <1>d, <2>1, <2>5
  <2>7. QED
    BY <1>0, <1>18, <2>6 DEF AskStudent, TypeOK
<1>19. ASSUME UNCHANGED vars
       PROVE  TypeOK'
  BY <1>19 DEF TypeOK, vars
<1>20. QED
  BY <1>1, <1>2, <1>3, <1>4, <1>5, <1>6, <1>7, <1>8, <1>9, <1>10, <1>11, <1>12,
     <1>13, <1>14, <1>15, <1>16, <1>17, <1>18, <1>19
  DEF Next, Begin, Step

-----------------------------------------------------------------------------
(* What one step can do to the two tables.                                   *)

\* The statements that write documents, as the store issues them.
Inserted ==
  \E x \in Extractions, u \in DOMAIN uploads \cup {NoId} :
    docs' = Append(docs, NewDocument(x, u))
Replaced ==
  \E d, e \in DOMAIN docs :
    /\ d < e
    /\ docs[e].upload = docs[d].upload
    /\ docs[e].review.type # docs[d].review.type
    /\ docs' = [docs EXCEPT ![d].superseded = e]
Reviewed ==
  \E d \in DOMAIN docs, post \in Posts :
    /\ Accepts(docs[d].review, post)
    /\ docs' = [docs EXCEPT ![d].review = ApplyConfirmations(@, post)]
Requested ==
  \E d \in DOMAIN docs, r \in Request :
    docs' = [docs EXCEPT ![d].review = AppendRequest(@, r)]

\* The statements that write uploads.
Stored ==
  \E row \in UploadRow :
    /\ row.status = "held" /\ row.document = NoId
    /\ uploads' = Append(uploads, row)
Updated ==
  \E u \in DOMAIN uploads, row \in UploadRow :
    /\ row.status = uploads[u].status \/ row.status # "held"
    /\ \/ row.document = uploads[u].document
       \/ row.document \in DocumentsOf(u)
    /\ row.status = "extracted" =>
         uploads[u].status = "extracted" \/ row.document \in DocumentsOf(u)
    /\ uploads' = [uploads EXCEPT ![u] = row]

\* Every step leaves the documents or is one of those statements.
LEMMA DocsStep ==
  TypeOK /\ HandlersSound /\ [Next]_vars =>
    UNCHANGED docs \/ Inserted \/ Replaced \/ Reviewed \/ Requested
<1> SUFFICES ASSUME TypeOK, HandlersSound, [Next]_vars
             PROVE  UNCHANGED docs \/ Inserted \/ Replaced \/ Reviewed \/ Requested
  OBVIOUS
<1>1. ASSUME NEW h \in Handler, CreateDocument(h)
      PROVE  Inserted
  <2>1. /\ handler[h].x \in Extractions
        /\ handler[h].upload \in DOMAIN uploads \cup {NoId}
    BY <1>1 DEF CreateDocument, HandlersSound, Sound
  <2>2. QED
    BY <1>1, <2>1 DEF CreateDocument, Inserted
<1>2. ASSUME NEW h \in Handler, Supersede(h)
      PROVE  Replaced
  <2>1. /\ handler[h].old \in DOMAIN docs /\ handler[h].new \in DOMAIN docs
        /\ handler[h].old < handler[h].new
        /\ docs[handler[h].new].upload = docs[handler[h].old].upload
        /\ docs[handler[h].new].review.type # docs[handler[h].old].review.type
    BY <1>2 DEF Supersede, HandlersSound, Sound
  <2>2. QED
    BY <1>2, <2>1 DEF Supersede, Replaced
<1>3. ASSUME NEW d \in DOMAIN docs, Confirm(d)
      PROVE  Reviewed
  BY <1>3 DEF Confirm, Reviewed
<1>4. ASSUME NEW d \in DOMAIN docs, AskStudent(d)
      PROVE  Requested
  BY <1>4 DEF AskStudent, Requested
<1>5. ASSUME NEW h \in Handler,
             \/ Begin(h) \/ Fault(h)
             \/ NextGroup(h) \/ Extracted(h) \/ ExtractionFails(h) \/ KeepPages(h)
             \/ LinkUpload(h) \/ HoldUpload(h) \/ Relink(h) \/ Dismiss(h)
      PROVE  UNCHANGED docs
  BY <1>5 DEF Begin, StartBatch, StartManual, StartExtract, StartRetype, StartDismiss,
     Fault, Die, StoreRefuses, NextGroup, Extracted, ExtractionFails, KeepPages,
     LinkUpload, HoldUpload, Relink, Dismiss
<1>6. QED
  BY <1>1, <1>2, <1>3, <1>4, <1>5 DEF Next, Step, vars

\* Every step leaves the uploads or is one of those statements.
LEMMA UploadsStep ==
  TypeOK /\ HandlersSound /\ [Next]_vars => UNCHANGED uploads \/ Stored \/ Updated
<1> SUFFICES ASSUME TypeOK, HandlersSound, [Next]_vars
             PROVE  UNCHANGED uploads \/ Stored \/ Updated
  OBVIOUS
<1>0. /\ uploads \in Seq(UploadRow)
      /\ \A u \in DOMAIN uploads : uploads[u] \in UploadRow
      /\ \A d \in DOMAIN docs : d \in Nat
      /\ \A h \in Handler : handler[h] \in HandlerState /\ Sound(handler[h], uploads, docs)
  BY LenProperties DEF TypeOK, HandlersSound
<1>1. ASSUME NEW h \in Handler, NextGroup(h)
      PROVE  Stored
  <2> DEFINE g == Head(handler[h].rest)
  <2>1. handler[h].rest \in Seq(PageGroup) /\ handler[h].rest # <<>>
    BY <1>0, <1>1 DEF NextGroup, Sound, HandlerState
  <2>2. g \in PageGroup
    BY <2>1, HeadTailProperties
  <2>3. NewUpload(g.type, g.held_reason) \in UploadRow
    BY <2>2, GroupFacts, NewRowTypes
  <2>4. uploads' = Append(uploads, NewUpload(g.type, g.held_reason))
    BY <1>1 DEF NextGroup
  <2>5. QED
    BY <2>3, <2>4 DEF Stored, NewUpload
<1>2. ASSUME NEW h \in Handler, KeepPages(h)
      PROVE  Stored
  <2>1. handler[h].type \in DocType
    BY <1>0, <1>2, ExtractionsAssumption DEF KeepPages, Sound, Extraction
  <2>2. NewUpload(handler[h].type, NoReason) \in UploadRow
    BY <2>1, NewRowTypes DEF Reasons
  <2>3. QED
    BY <1>2, <2>2 DEF KeepPages, Stored, NewUpload
<1>3. ASSUME NEW h \in Handler, LinkUpload(h)
      PROVE  Updated
  <2> DEFINE u == handler[h].upload
             row == LinkDocument(uploads[u], handler[h].new, handler[h].op)
  <2>1. u \in DOMAIN uploads /\ handler[h].new \in DocumentsOf(u) /\ handler[h].new \in Nat
    BY <1>0, <1>3 DEF LinkUpload, Sound, DocumentsOf, HandlerState
  <2>2. /\ row \in UploadRow
        /\ row.status = "extracted" /\ row.document = handler[h].new
    BY <1>0, <2>1 DEF LinkDocument, UploadRow, Reasons
  <2>3. uploads' = [uploads EXCEPT ![u] = row]
    BY <1>3 DEF LinkUpload
  <2>4. QED
    BY <2>1, <2>2, <2>3 DEF Updated
<1>4. ASSUME NEW h \in Handler, HoldUpload(h)
      PROVE  Updated
  <2> DEFINE u == handler[h].upload
             row == MarkFailed(uploads[u])
  <2>1. u \in DOMAIN uploads
    BY <1>0, <1>4 DEF HoldUpload, Sound
  <2>2. /\ row \in UploadRow
        /\ row.status = uploads[u].status /\ row.document = uploads[u].document
    BY <1>0, <2>1 DEF MarkFailed, UploadRow, Reasons
  <2>3. uploads' = [uploads EXCEPT ![u] = row]
    BY <1>4 DEF HoldUpload
  <2>4. QED
    BY <2>1, <2>2, <2>3 DEF Updated
<1>5. ASSUME NEW h \in Handler, Relink(h)
      PROVE  Updated
  <2> DEFINE u == handler[h].upload
             row == [uploads[u] EXCEPT !.document = handler[h].new]
  <2>1. u \in DOMAIN uploads /\ handler[h].new \in DocumentsOf(u) /\ handler[h].new \in Nat
    BY <1>0, <1>5 DEF Relink, Sound, DocumentsOf, HandlerState
  <2>2. /\ row \in UploadRow
        /\ row.status = uploads[u].status /\ row.document = handler[h].new
    BY <1>0, <2>1 DEF UploadRow
  <2>3. uploads' = [uploads EXCEPT ![u] = row]
    BY <1>5 DEF Relink
  <2>4. QED
    BY <2>1, <2>2, <2>3 DEF Updated
<1>6. ASSUME NEW h \in Handler, Dismiss(h)
      PROVE  Updated
  <2> DEFINE u == handler[h].upload
             row == MarkDismissed(uploads[u])
  <2>1. u \in DOMAIN uploads
    BY <1>0, <1>6 DEF Dismiss, Sound
  <2>2. /\ row \in UploadRow
        /\ row.status = "dismissed" /\ row.document = uploads[u].document
    BY <1>0, <2>1 DEF MarkDismissed, UploadRow, Reasons
  <2>3. uploads' = [uploads EXCEPT ![u] = row]
    BY <1>6 DEF Dismiss
  <2>4. QED
    BY <2>1, <2>2, <2>3 DEF Updated
<1>7. ASSUME NEW h \in Handler,
             \/ Begin(h) \/ Fault(h)
             \/ Extracted(h) \/ ExtractionFails(h) \/ CreateDocument(h) \/ Supersede(h)
      PROVE  UNCHANGED uploads
  BY <1>7 DEF Begin, StartBatch, StartManual, StartExtract, StartRetype, StartDismiss,
     Fault, Die, StoreRefuses, Extracted, ExtractionFails, CreateDocument, Supersede
<1>8. ASSUME NEW d \in DOMAIN docs, Confirm(d) \/ AskStudent(d)
      PROVE  UNCHANGED uploads
  BY <1>8 DEF Confirm, AskStudent
<1>9. QED
  BY <1>1, <1>2, <1>3, <1>4, <1>5, <1>6, <1>7, <1>8 DEF Next, Step, vars

\* Row by row: what the documents look like after a step.
LEMMA DocsAfter ==
  ASSUME TypeOK, HandlersSound, OnlyCompleteIsConfirmed, [Next]_vars
  PROVE  /\ DOMAIN docs \subseteq DOMAIN docs' /\ Len(docs) <= Len(docs')
         /\ \A d \in DOMAIN docs :
              /\ docs'[d].upload = docs[d].upload
              /\ docs'[d].review.type = docs[d].review.type
              /\ docs'[d].review.extracted = docs[d].review.extracted
              /\ docs[d].review.confirmed # Null => docs'[d].review.confirmed # Null
              /\ \/ docs'[d].superseded = docs[d].superseded
                 \/ LET e == docs'[d].superseded IN
                    /\ e \in DOMAIN docs /\ e > d
                    /\ docs[e].upload = docs[d].upload
                    /\ docs[e].review.type # docs[d].review.type
         /\ \A d \in DOMAIN docs' \ DOMAIN docs :
              \E x \in Extractions, u \in DOMAIN uploads \cup {NoId} :
                docs'[d] = NewDocument(x, u)
<1>0. /\ docs \in Seq(DocumentRow)
      /\ DOMAIN docs = 1 .. Len(docs) /\ Len(docs) \in Nat
      /\ \A d \in DOMAIN docs : d \in Nat /\ docs[d] \in DocumentRow
      /\ DOMAIN uploads = 1 .. Len(uploads) /\ Len(uploads) \in Nat
  BY LenProperties DEF TypeOK
<1>1. CASE UNCHANGED docs
  BY <1>0, <1>1
<1>2. CASE Inserted
  <2>1. PICK x \in Extractions, u \in DOMAIN uploads \cup {NoId} :
          docs' = Append(docs, NewDocument(x, u))
    BY <1>2 DEF Inserted
  <2>2. u \in Nat
    BY <1>0 DEF NoId
  <2>3. NewDocument(x, u) \in DocumentRow
    BY <2>2, NewRowTypes
  <2>4. /\ Len(docs') = Len(docs) + 1 /\ docs' \in Seq(DocumentRow)
        /\ \A d \in 1 .. Len(docs) : docs'[d] = docs[d]
        /\ docs'[Len(docs) + 1] = NewDocument(x, u)
    BY <1>0, <2>1, <2>3, AppendProperties
  <2>5. DOMAIN docs' = 1 .. Len(docs')
    BY <2>4, LenProperties
  <2>6. QED
    BY <1>0, <2>4, <2>5
<1>3. CASE Replaced
  <2>1. PICK d, e \in DOMAIN docs :
          /\ d < e
          /\ docs[e].upload = docs[d].upload
          /\ docs[e].review.type # docs[d].review.type
          /\ docs' = [docs EXCEPT ![d].superseded = e]
    BY <1>3 DEF Replaced
  <2>2. /\ DOMAIN docs' = DOMAIN docs
        /\ docs'[d] = [docs[d] EXCEPT !.superseded = e]
        /\ \A c \in DOMAIN docs \ {d} : docs'[c] = docs[c]
    BY <2>1
  <2>3. Len(docs') = Len(docs)
    BY <1>0, <2>1, <2>2, TypeStep, LenProperties DEF TypeOK
  <2>4. QED
    BY <1>0, <2>1, <2>2, <2>3 DEF DocumentRow
<1>4. CASE Reviewed
  <2>1. PICK d \in DOMAIN docs, post \in Posts :
          /\ Accepts(docs[d].review, post)
          /\ docs' = [docs EXCEPT ![d].review = ApplyConfirmations(@, post)]
    BY <1>4 DEF Reviewed
  <2> DEFINE old == docs[d].review
             new == ApplyConfirmations(old, post)
  <2>2. /\ DOMAIN docs' = DOMAIN docs
        /\ docs'[d] = [docs[d] EXCEPT !.review = new]
        /\ \A c \in DOMAIN docs \ {d} : docs'[c] = docs[c]
    BY <2>1
  <2>3. Len(docs') = Len(docs)
    BY <1>0, <2>1, <2>2, TypeStep, LenProperties DEF TypeOK
  <2>4. old \in Review
    BY <1>0 DEF DocumentRow
  <2>5. /\ new.type = old.type /\ new.extracted = old.extracted
        /\ IsComplete(old.extracted, old.confirmations) => new.confirmed # Null
    BY <2>1, <2>4, ApplyFacts
  <2>6. old.confirmed # Null => IsComplete(old.extracted, old.confirmations)
    BY <2>4, ConfirmedOfFacts DEF OnlyCompleteIsConfirmed, Review
  <2>7. docs'[d].review = new /\ docs'[d].upload = docs[d].upload
        /\ docs'[d].superseded = docs[d].superseded
    BY <1>0, <2>2 DEF DocumentRow
  <2> HIDE DEF new
  <2>8. \A c \in DOMAIN docs :
          /\ docs'[c].upload = docs[c].upload
          /\ docs'[c].review.type = docs[c].review.type
          /\ docs'[c].review.extracted = docs[c].review.extracted
          /\ docs[c].review.confirmed # Null => docs'[c].review.confirmed # Null
          /\ docs'[c].superseded = docs[c].superseded
    BY <2>2, <2>5, <2>6, <2>7
  <2>9. QED
    BY <1>0, <2>2, <2>3, <2>8
<1>5. CASE Requested
  <2>1. PICK d \in DOMAIN docs, r \in Request :
          docs' = [docs EXCEPT ![d].review = AppendRequest(@, r)]
    BY <1>5 DEF Requested
  <2> DEFINE old == docs[d].review
             new == AppendRequest(old, r)
  <2>2. /\ DOMAIN docs' = DOMAIN docs
        /\ docs'[d] = [docs[d] EXCEPT !.review = new]
        /\ \A c \in DOMAIN docs \ {d} : docs'[c] = docs[c]
    BY <2>1
  <2>3. Len(docs') = Len(docs)
    BY <1>0, <2>1, <2>2, TypeStep, LenProperties DEF TypeOK
  <2>4. old \in Review
    BY <1>0 DEF DocumentRow
  <2>5. /\ new.type = old.type /\ new.extracted = old.extracted
        /\ new.confirmed = old.confirmed
    BY <2>4, AppendRequestFacts
  <2>6. docs'[d].review = new /\ docs'[d].upload = docs[d].upload
        /\ docs'[d].superseded = docs[d].superseded
    BY <1>0, <2>2 DEF DocumentRow
  <2> HIDE DEF new
  <2>7. \A c \in DOMAIN docs :
          /\ docs'[c].upload = docs[c].upload
          /\ docs'[c].review.type = docs[c].review.type
          /\ docs'[c].review.extracted = docs[c].review.extracted
          /\ docs[c].review.confirmed # Null => docs'[c].review.confirmed # Null
          /\ docs'[c].superseded = docs[c].superseded
    BY <2>2, <2>5, <2>6
  <2>8. QED
    BY <1>0, <2>2, <2>3, <2>7
<1>6. QED
  BY <1>1, <1>2, <1>3, <1>4, <1>5, DocsStep

\* Row by row: what the uploads look like after a step.
LEMMA UploadsAfter ==
  ASSUME TypeOK, HandlersSound, [Next]_vars
  PROVE  /\ DOMAIN uploads \subseteq DOMAIN uploads' /\ Len(uploads) <= Len(uploads')
         /\ \A u \in DOMAIN uploads :
              /\ uploads'[u].status = uploads[u].status \/ uploads'[u].status # "held"
              /\ \/ uploads'[u].document = uploads[u].document
                 \/ uploads'[u].document \in DocumentsOf(u)
              /\ uploads'[u].status = "extracted" =>
                   \/ uploads[u].status = "extracted"
                   \/ uploads'[u].document \in DocumentsOf(u)
         /\ \A u \in DOMAIN uploads' \ DOMAIN uploads :
              uploads'[u].status = "held" /\ uploads'[u].document = NoId
<1>0. /\ uploads \in Seq(UploadRow)
      /\ DOMAIN uploads = 1 .. Len(uploads) /\ Len(uploads) \in Nat
  BY LenProperties DEF TypeOK
<1>1. CASE UNCHANGED uploads
  BY <1>0, <1>1
<1>2. CASE Stored
  <2>1. PICK row \in UploadRow : /\ row.status = "held" /\ row.document = NoId
                                 /\ uploads' = Append(uploads, row)
    BY <1>2 DEF Stored
  <2>2. /\ Len(uploads') = Len(uploads) + 1 /\ uploads' \in Seq(UploadRow)
        /\ \A u \in 1 .. Len(uploads) : uploads'[u] = uploads[u]
        /\ uploads'[Len(uploads) + 1] = row
    BY <1>0, <2>1, AppendProperties
  <2>3. DOMAIN uploads' = 1 .. Len(uploads')
    BY <2>2, LenProperties
  <2>4. QED
    BY <1>0, <2>1, <2>2, <2>3
<1>3. CASE Updated
  <2>1. PICK u \in DOMAIN uploads, row \in UploadRow :
          /\ row.status = uploads[u].status \/ row.status # "held"
          /\ row.document = uploads[u].document \/ row.document \in DocumentsOf(u)
          /\ row.status = "extracted" =>
               uploads[u].status = "extracted" \/ row.document \in DocumentsOf(u)
          /\ uploads' = [uploads EXCEPT ![u] = row]
    BY <1>3 DEF Updated
  <2>2. /\ Len(uploads') = Len(uploads) /\ DOMAIN uploads' = DOMAIN uploads
        /\ \A v \in DOMAIN uploads : uploads'[v] = IF v = u THEN row ELSE uploads[v]
    BY <1>0, <2>1, ExceptSeq
  <2>3. QED
    BY <1>0, <2>1, <2>2
<1>4. QED
  BY <1>1, <1>2, <1>3, UploadsStep

-----------------------------------------------------------------------------
(* The parts of the inductive invariant about the rows.                      *)

\* A document's own type stays the one the model answered.
LEMMA TypeIsTheModelsStep == Inductive /\ [Next]_vars => TypeIsTheModels'
<1> SUFFICES ASSUME Inductive, [Next]_vars PROVE TypeIsTheModels'
  OBVIOUS
<1>1. ASSUME NEW d \in DOMAIN docs', d \in DOMAIN docs
      PROVE  docs'[d].review.type = docs'[d].review.extracted.type
  BY <1>1, DocsAfter DEF Inductive, TypeIsTheModels
<1>2. ASSUME NEW d \in DOMAIN docs', d \notin DOMAIN docs
      PROVE  docs'[d].review.type = docs'[d].review.extracted.type
  <2>1. PICK x \in Extractions, u \in DOMAIN uploads \cup {NoId} :
          docs'[d] = NewDocument(x, u)
    BY <1>2, DocsAfter DEF Inductive
  <2>2. QED
    BY <2>1, NewReviewFacts DEF NewDocument
<1>3. QED
  BY <1>1, <1>2 DEF TypeIsTheModels

\* The links stay right whichever statement a step is.
LEMMA LinksStep == Inductive /\ [Next]_vars => LinksAgree'
<1> SUFFICES ASSUME Inductive, [Next]_vars PROVE LinksAgree'
  OBVIOUS
<1>0. /\ DOMAIN docs \subseteq DOMAIN docs'
      /\ \A d \in DOMAIN docs : docs'[d].upload = docs[d].upload
      /\ DOMAIN uploads \subseteq DOMAIN uploads'
      /\ \A d \in DOMAIN docs : d # NoId
  BY DocsAfter, UploadsAfter, LenProperties DEF Inductive, TypeOK, NoId
<1>1. \A u : DocumentsOf(u) \subseteq DocumentsOf(u)'
  BY <1>0 DEF DocumentsOf
<1>2. ASSUME NEW u \in DOMAIN uploads', u \in DOMAIN uploads
      PROVE  /\ uploads'[u].document # NoId => uploads'[u].document \in DocumentsOf(u)'
             /\ uploads'[u].status = "extracted" => uploads'[u].document # NoId
  <2>1. /\ uploads[u].document # NoId => uploads[u].document \in DocumentsOf(u)
        /\ uploads[u].status = "extracted" => uploads[u].document # NoId
    BY <1>2 DEF Inductive, LinksAgree
  <2>2. /\ \/ uploads'[u].document = uploads[u].document
           \/ uploads'[u].document \in DocumentsOf(u)
        /\ uploads'[u].status = "extracted" =>
             \/ uploads[u].status = "extracted"
             \/ uploads'[u].document \in DocumentsOf(u)
    BY <1>2, UploadsAfter DEF Inductive
  <2>3. \A d \in DocumentsOf(u) : d # NoId
    BY <1>0 DEF DocumentsOf
  <2>4. QED
    BY <1>1, <2>1, <2>2, <2>3
<1>3. ASSUME NEW u \in DOMAIN uploads', u \notin DOMAIN uploads
      PROVE  /\ uploads'[u].document # NoId => uploads'[u].document \in DocumentsOf(u)'
             /\ uploads'[u].status = "extracted" => uploads'[u].document # NoId
  BY <1>3, UploadsAfter DEF Inductive
<1>4. ASSUME NEW d \in DOMAIN docs'
      PROVE  docs'[d].upload \in DOMAIN uploads' \cup {NoId}
  <2>1. CASE d \in DOMAIN docs
    BY <1>0, <2>1 DEF Inductive, LinksAgree
  <2>2. CASE d \notin DOMAIN docs
    <3>1. PICK x \in Extractions, u \in DOMAIN uploads \cup {NoId} :
            docs'[d] = NewDocument(x, u)
      BY <2>2, DocsAfter DEF Inductive
    <3>2. QED
      BY <1>0, <3>1 DEF NewDocument
  <2>3. QED
    BY <2>1, <2>2
<1>5. QED
  BY <1>2, <1>3, <1>4 DEF LinksAgree

\* A supersession stays one by a later document of the same pages.
LEMMA SupersededStep == Inductive /\ [Next]_vars => SupersededByLater'
<1> SUFFICES ASSUME Inductive, [Next]_vars, NEW d \in DOMAIN docs',
                    docs'[d].superseded # NoId
             PROVE  LET e == docs'[d].superseded IN
                    /\ e \in DOMAIN docs' /\ e > d
                    /\ docs'[e].upload = docs'[d].upload
                    /\ docs'[e].review.type # docs'[d].review.type
  BY DEF SupersededByLater
<1>1. CASE d \in DOMAIN docs
  <2> DEFINE e == docs'[d].superseded
  <2>1. /\ e \in DOMAIN docs /\ e > d
        /\ docs[e].upload = docs[d].upload
        /\ docs[e].review.type # docs[d].review.type
    BY <1>1, DocsAfter DEF Inductive, SupersededByLater
  <2>2. e \in DOMAIN docs'
    BY <2>1, DocsAfter DEF Inductive
  <2>3. /\ docs'[e].upload = docs[e].upload /\ docs'[d].upload = docs[d].upload
        /\ docs'[e].review.type = docs[e].review.type
        /\ docs'[d].review.type = docs[d].review.type
    BY <1>1, <2>1, DocsAfter DEF Inductive
  <2>4. QED
    BY <2>1, <2>2, <2>3
<1>2. CASE d \notin DOMAIN docs
  <2>1. PICK x \in Extractions, u \in DOMAIN uploads \cup {NoId} :
          docs'[d] = NewDocument(x, u)
    BY <1>2, DocsAfter DEF Inductive
  <2>2. QED
    BY <2>1 DEF NewDocument
<1>3. QED
  BY <1>1, <1>2

\* confirmed_json stays what the confirmations complete to.
LEMMA OnlyCompleteStep == Inductive /\ [Next]_vars => OnlyCompleteIsConfirmed'
<1> DEFINE Right(r) ==
      r.confirmed = IF \A f \in Field : r.confirmations[f] = Null THEN Null
                    ELSE ConfirmedOf(r, r.confirmations)
<1> SUFFICES ASSUME Inductive, [Next]_vars, NEW d \in DOMAIN docs'
             PROVE  Right(docs'[d].review)
  BY DEF OnlyCompleteIsConfirmed
<1>0. /\ docs \in Seq(DocumentRow)
      /\ \A c \in DOMAIN docs : docs[c] \in DocumentRow /\ Right(docs[c].review)
  BY LenProperties DEF Inductive, TypeOK, OnlyCompleteIsConfirmed
<1> HIDE DEF Right
<1>1. CASE d \notin DOMAIN docs
  <2>1. PICK x \in Extractions, u \in DOMAIN uploads \cup {NoId} :
          docs'[d] = NewDocument(x, u)
    BY <1>1, DocsAfter DEF Inductive
  <2>2. docs'[d].review = NewReview(x)
    BY <2>1 DEF NewDocument
  <2>3. QED
    BY <2>2, NewReviewFacts DEF Right
<1>2. CASE d \in DOMAIN docs /\ UNCHANGED docs
  BY <1>0, <1>2
<1>3. CASE d \in DOMAIN docs /\ Inserted
  <2>1. PICK x \in Extractions, u \in DOMAIN uploads \cup {NoId} :
          docs' = Append(docs, NewDocument(x, u))
    BY <1>3 DEF Inserted
  <2>2. u \in Nat
    BY LenProperties DEF NoId, Inductive, TypeOK
  <2>3. NewDocument(x, u) \in DocumentRow
    BY <2>2, NewRowTypes
  <2>4. docs'[d] = docs[d]
    BY <1>0, <1>3, <2>1, <2>3, AppendProperties, LenProperties
  <2>5. QED
    BY <1>0, <1>3, <2>4
<1>4. CASE d \in DOMAIN docs /\ Replaced
  <2>1. PICK c, e \in DOMAIN docs : docs' = [docs EXCEPT ![c].superseded = e]
    BY <1>4 DEF Replaced
  <2>2. docs'[d].review = docs[d].review
    BY <1>0, <1>4, <2>1 DEF DocumentRow
  <2>3. QED
    BY <1>0, <1>4, <2>2
<1>5. CASE d \in DOMAIN docs /\ Reviewed
  <2>1. PICK c \in DOMAIN docs, post \in Posts :
          /\ Accepts(docs[c].review, post)
          /\ docs' = [docs EXCEPT ![c].review = ApplyConfirmations(@, post)]
    BY <1>5 DEF Reviewed
  <2>2. docs[c].review \in Review
    BY <1>0 DEF DocumentRow
  <2>3. Right(ApplyConfirmations(docs[c].review, post))
    BY <2>1, <2>2, ApplyFacts DEF Right
  <2>4. docs'[d].review = IF d = c THEN ApplyConfirmations(docs[c].review, post)
                          ELSE docs[d].review
    BY <1>0, <1>5, <2>1 DEF DocumentRow
  <2>5. QED
    BY <1>0, <1>5, <2>3, <2>4
<1>6. CASE d \in DOMAIN docs /\ Requested
  <2>1. PICK c \in DOMAIN docs, r \in Request :
          docs' = [docs EXCEPT ![c].review = AppendRequest(@, r)]
    BY <1>6 DEF Requested
  <2> DEFINE new == AppendRequest(docs[c].review, r)
  <2>2. docs[c].review \in Review
    BY <1>0 DEF DocumentRow
  <2>3. /\ new.type = docs[c].review.type /\ new.extracted = docs[c].review.extracted
        /\ new.confirmations = docs[c].review.confirmations
        /\ new.confirmed = docs[c].review.confirmed
    BY <2>2, AppendRequestFacts
  <2>4. docs'[d].review = IF d = c THEN new ELSE docs[d].review
    BY <1>0, <1>6, <2>1 DEF DocumentRow
  <2> HIDE DEF new
  <2>5. Right(new)
    BY <1>0, <2>3 DEF Right, ConfirmedOf
  <2>6. QED
    BY <1>0, <1>6, <2>4, <2>5
<1>7. QED
  BY <1>1, <1>2, <1>3, <1>4, <1>5, <1>6, DocsStep DEF Inductive

-----------------------------------------------------------------------------
(* What handlers hold stays true while others run.                           *)

\* Nothing a step does to the rows can falsify what a handler read or created
\* before it: ids, pages and types never change and rows are never dropped.
LEMMA StaysSound ==
  ASSUME Inductive, [Next]_vars, NEW s, Sound(s, uploads, docs)
  PROVE  Sound(s, uploads', docs')
<1>1. /\ DOMAIN docs \subseteq DOMAIN docs' /\ DOMAIN uploads \subseteq DOMAIN uploads'
      /\ \A d \in DOMAIN docs : /\ docs'[d].upload = docs[d].upload
                                /\ docs'[d].review.type = docs[d].review.type
  BY DocsAfter, UploadsAfter DEF Inductive
<1>2. QED
  BY <1>1 DEF Sound

\* It suffices to look at the handler that moved.
LEMMA MoverSuffices ==
  ASSUME Inductive, [Next]_vars, NEW h \in Handler, NEW s,
         Becomes(h, s), Sound(s, uploads', docs')
  PROVE  HandlersSound'
<1>1. /\ \A k \in Handler \ {h} : handler'[k] = handler[k]
      /\ handler'[h] = s
  BY DEF Becomes, Inductive, TypeOK
<1>2. ASSUME NEW k \in Handler
      PROVE  Sound(handler'[k], uploads', docs')
  <2>1. CASE k = h
    BY <1>1, <2>1
  <2>2. CASE k # h
    <3>1. handler'[k] = handler[k] /\ Sound(handler[k], uploads, docs)
      BY <1>1, <2>2 DEF Inductive, HandlersSound
    <3>2. QED
      BY <3>1, StaysSound
  <2>3. QED
    BY <2>1, <2>2
<1>3. QED
  BY <1>2 DEF HandlersSound

\* A handler that holds nothing is sound.
LEMMA IdleSound == \A us, ds : Sound(Idle, us, ds)
BY DEF Sound, Idle, NoId

\* Between two groups of a batch there is always a group left.
LEMMA DoneSound ==
  ASSUME Inductive, NEW h \in Handler, NEW us, NEW ds
  PROVE  Sound(Done(h), us, ds)
<1>1. CASE handler[h].rest = <<>>
  BY <1>1, IdleSound DEF Done
<1>2. CASE handler[h].rest # <<>>
  BY <1>2 DEF Done, Sound, Idle, NoId
<1>3. QED
  BY <1>1, <1>2

\* Every step leaves what the handlers hold true of the rows.
LEMMA HandlersStep == Inductive /\ [Next]_vars => HandlersSound'
<1> SUFFICES ASSUME Inductive, [Next]_vars PROVE HandlersSound'
  OBVIOUS
<1>0. /\ \A h \in Handler : /\ handler[h] \in HandlerState
                            /\ Sound(handler[h], uploads, docs)
                            /\ Sound(handler[h], uploads', docs')
      /\ uploads \in Seq(UploadRow) /\ docs \in Seq(DocumentRow)
      /\ DOMAIN uploads = 1 .. Len(uploads) /\ Len(uploads) \in Nat
      /\ DOMAIN docs = 1 .. Len(docs) /\ Len(docs) \in Nat
  BY StaysSound, LenProperties DEF Inductive, TypeOK, HandlersSound
<1>1. ASSUME NEW h \in Handler, StartBatch(h)
      PROVE  HandlersSound'
  <2>1. PICK groups \in {GroupPages(cs) : cs \in Batches} :
          Becomes(h, [Idle EXCEPT !.op = "batch", !.at = "next group", !.rest = groups])
    BY <1>1 DEF StartBatch
  <2>2. groups # <<>>
    BY BatchGroups
  <2>3. Sound([Idle EXCEPT !.op = "batch", !.at = "next group", !.rest = groups],
              uploads', docs')
    BY <2>2 DEF Sound, Idle, NoId
  <2>4. QED
    BY <2>1, <2>3, MoverSuffices
<1>2. ASSUME NEW h \in Handler, NextGroup(h)
      PROVE  HandlersSound'
  <2> DEFINE g == Head(handler[h].rest)
             after == [handler[h] EXCEPT !.rest = Tail(@)]
             reads == [after EXCEPT !.at = "extract", !.upload = Len(uploads) + 1,
                                    !.type = g.type]
  <2>1. handler[h].rest \in Seq(PageGroup) /\ handler[h].rest # <<>>
    BY <1>0, <1>2 DEF HandlerState, NextGroup, Sound
  <2>2. g \in PageGroup /\ Tail(handler[h].rest) \in Seq(PageGroup)
    BY <2>1, HeadTailProperties
  <2>3. /\ handler[h].at = "next group"
        /\ uploads' = Append(uploads, NewUpload(g.type, g.held_reason))
    BY <1>2 DEF NextGroup
  <2>4. NewUpload(g.type, g.held_reason) \in UploadRow
    BY <2>2, GroupFacts, NewRowTypes
  <2>5. Len(uploads) + 1 \in DOMAIN uploads' /\ Len(uploads) + 1 # NoId
    <3>1. Len(uploads') = Len(uploads) + 1 /\ uploads' \in Seq(UploadRow)
      BY <1>0, <2>3, <2>4, AppendProperties
    <3>2. DOMAIN uploads' = 1 .. Len(uploads')
      BY <3>1, LenProperties
    <3>3. QED
      BY <1>0, <3>1, <3>2 DEF NoId
  <2>6. CASE g.status = "extract" /\ g.type # Other
    <3>1. g.type \in DocType
      BY <2>2, <2>6 DEF PageGroup, Other
    <3>2. Becomes(h, reads)
      BY <1>2, <2>6 DEF NextGroup
    <3>3. /\ reads.at = "extract" /\ reads.upload = Len(uploads) + 1
          /\ reads.type = g.type /\ reads.op = handler[h].op
      BY <1>0 DEF HandlerState
    <3>4. reads.op # "retype"
      BY <1>0, <2>3, <3>3 DEF Sound
    <3>5. Sound(reads, uploads', docs')
      BY <2>5, <3>1, <3>3, <3>4 DEF Sound
    <3>6. QED
      BY <3>2, <3>5, MoverSuffices
  <2>7. CASE ~(g.status = "extract" /\ g.type # Other)
    <3>1. Becomes(h, IF after.rest = <<>> THEN Idle ELSE after)
      BY <1>2, <2>7 DEF NextGroup
    <3>2. ASSUME after.rest # <<>>
          PROVE  Sound(after, uploads', docs')
      BY <1>0, <2>3, <3>2 DEF Sound, HandlerState
    <3>3. Sound(IF after.rest = <<>> THEN Idle ELSE after, uploads', docs')
      BY <3>2, IdleSound
    <3>4. QED
      BY <3>1, <3>3, MoverSuffices
  <2>8. QED
    BY <2>6, <2>7
<1>3. ASSUME NEW h \in Handler, StartManual(h)
      PROVE  HandlersSound'
  <2>1. PICK t \in DocType, op \in {"one page", "pages"} :
          Becomes(h, [Idle EXCEPT !.op = op, !.at = "extract", !.type = t])
    BY <1>3 DEF StartManual
  <2>2. Sound([Idle EXCEPT !.op = op, !.at = "extract", !.type = t], uploads', docs')
    BY <2>1 DEF Sound, Idle, NoId
  <2>3. QED
    BY <2>1, <2>2, MoverSuffices
<1>4. ASSUME NEW h \in Handler, StartExtract(h)
      PROVE  HandlersSound'
  <2>1. PICK u \in DOMAIN uploads, t \in DocType :
          Becomes(h, [Idle EXCEPT !.op = "extract", !.at = "extract",
                                  !.upload = u, !.type = t])
    BY <1>4 DEF StartExtract
  <2>2. u \in DOMAIN uploads' /\ u # NoId
    BY <1>0, <1>4 DEF StartExtract, NoId
  <2>3. Sound([Idle EXCEPT !.op = "extract", !.at = "extract", !.upload = u, !.type = t],
              uploads', docs')
    BY <2>2 DEF Sound, Idle
  <2>4. QED
    BY <2>1, <2>3, MoverSuffices
<1>5. ASSUME NEW h \in Handler, StartRetype(h)
      PROVE  HandlersSound'
  <2>1. PICK d \in DOMAIN docs, t \in DocType :
          /\ docs[d].review.type # t
          /\ Becomes(h, [Idle EXCEPT !.op = "retype", !.at = "extract", !.type = t,
                                     !.upload = docs[d].upload, !.old = d])
    BY <1>5 DEF StartRetype
  <2>2. docs' = docs /\ docs[d].upload \in DOMAIN uploads' \cup {NoId}
    BY <1>5 DEF StartRetype, Inductive, LinksAgree
  <2>3. Sound([Idle EXCEPT !.op = "retype", !.at = "extract", !.type = t,
                           !.upload = docs[d].upload, !.old = d], uploads', docs')
    BY <2>1, <2>2 DEF Sound, Idle
  <2>4. QED
    BY <2>1, <2>3, MoverSuffices
<1>6. ASSUME NEW h \in Handler, StartDismiss(h)
      PROVE  HandlersSound'
  <2>1. PICK u \in DOMAIN uploads :
          Becomes(h, [Idle EXCEPT !.op = "dismiss", !.at = "dismiss", !.upload = u])
    BY <1>6 DEF StartDismiss
  <2>2. u \in DOMAIN uploads' /\ u # NoId
    BY <1>0, <1>6 DEF StartDismiss, NoId
  <2>3. Sound([Idle EXCEPT !.op = "dismiss", !.at = "dismiss", !.upload = u],
              uploads', docs')
    BY <2>2 DEF Sound, Idle
  <2>4. QED
    BY <2>1, <2>3, MoverSuffices
<1>7. ASSUME NEW h \in Handler, Extracted(h)
      PROVE  HandlersSound'
  <2>1. PICK x \in Extractions :
          /\ x.type = handler[h].type
          /\ Becomes(h, [handler[h] EXCEPT
               !.x = x, !.at = IF handler[h].op = "pages" THEN "keep pages" ELSE "create"])
    BY <1>7 DEF Extracted
  <2> DEFINE s == [handler[h] EXCEPT
               !.x = x, !.at = IF handler[h].op = "pages" THEN "keep pages" ELSE "create"]
  <2>2. /\ s.x = x /\ s.type = handler[h].type /\ s.upload = handler[h].upload
        /\ s.op = handler[h].op /\ s.old = handler[h].old
        /\ s.at = IF handler[h].op = "pages" THEN "keep pages" ELSE "create"
        /\ handler[h].at = "extract"
    BY <1>0, <1>7 DEF HandlerState, Extracted
  <2>3. Becomes(h, s)
    BY <2>1
  <2> HIDE DEF s
  <2>4. Sound(s, uploads', docs')
    BY <1>0, <2>1, <2>2 DEF Sound
  <2>5. QED
    BY <2>3, <2>4, MoverSuffices
<1>8. ASSUME NEW h \in Handler, ExtractionFails(h)
      PROVE  HandlersSound'
  <2>1. handler[h].at = "extract"
    BY <1>8 DEF ExtractionFails
  <2>2. CASE handler[h].op = "batch"
    <3>1. Becomes(h, [handler[h] EXCEPT !.at = "hold"])
      BY <1>8, <2>2 DEF ExtractionFails
    <3>2. Sound([handler[h] EXCEPT !.at = "hold"], uploads', docs')
      BY <1>0, <2>1, <2>2 DEF Sound, HandlerState
    <3>3. QED
      BY <3>1, <3>2, MoverSuffices
  <2>3. CASE handler[h].op # "batch"
    BY <1>8, <2>3, IdleSound, MoverSuffices DEF ExtractionFails
  <2>4. QED
    BY <2>2, <2>3
<1>9. ASSUME NEW h \in Handler, KeepPages(h)
      PROVE  HandlersSound'
  <2> DEFINE s == [handler[h] EXCEPT !.at = "create", !.upload = Len(uploads) + 1]
  <2>1. /\ handler[h].at = "keep pages" /\ Becomes(h, s)
        /\ uploads' = Append(uploads, NewUpload(handler[h].type, NoReason))
    BY <1>9 DEF KeepPages
  <2>2. handler[h].type \in DocType
    BY <1>0, <2>1, ExtractionsAssumption DEF Sound, Extraction
  <2>3. NewUpload(handler[h].type, NoReason) \in UploadRow
    BY <2>2, NewRowTypes DEF Reasons
  <2>4. Len(uploads) + 1 \in DOMAIN uploads' /\ Len(uploads) + 1 # NoId
    <3>1. Len(uploads') = Len(uploads) + 1 /\ uploads' \in Seq(UploadRow)
      BY <1>0, <2>1, <2>3, AppendProperties
    <3>2. DOMAIN uploads' = 1 .. Len(uploads')
      BY <3>1, LenProperties
    <3>3. QED
      BY <1>0, <3>1, <3>2 DEF NoId
  <2>5. /\ s.at = "create" /\ s.upload = Len(uploads) + 1
        /\ s.x = handler[h].x /\ s.type = handler[h].type /\ s.op = handler[h].op
    BY <1>0 DEF HandlerState
  <2> HIDE DEF s
  <2>6. Sound(s, uploads', docs')
    BY <1>0, <2>1, <2>4, <2>5 DEF Sound
  <2>7. QED
    BY <2>1, <2>6, MoverSuffices
<1>10. ASSUME NEW h \in Handler, CreateDocument(h)
       PROVE  HandlersSound'
  <2> DEFINE n == Len(docs) + 1
             at == IF handler[h].op = "retype" THEN "supersede" ELSE "link"
             s == [handler[h] EXCEPT !.at = at, !.new = n]
  <2>1. /\ handler[h].at = "create"
        /\ docs' = Append(docs, NewDocument(handler[h].x, handler[h].upload))
    BY <1>10 DEF CreateDocument
  <2>2. /\ handler[h].x \in Extractions /\ handler[h].x.type = handler[h].type
        /\ handler[h].upload \in Nat
    BY <1>0, <2>1 DEF Sound, HandlerState
  <2>3. NewDocument(handler[h].x, handler[h].upload) \in DocumentRow
    BY <2>2, NewRowTypes
  <2>4. n \in DOMAIN docs' /\ docs'[n] = NewDocument(handler[h].x, handler[h].upload)
    BY <1>0, <2>1, <2>3, AppendProperties, LenProperties
  <2>5. docs'[n].upload = handler[h].upload /\ docs'[n].review.type = handler[h].type
    BY <2>2, <2>4, NewReviewFacts DEF NewDocument
  <2>6. CASE handler[h].op = "one page"
    BY <1>10, <2>6, IdleSound, MoverSuffices DEF CreateDocument
  <2>7. CASE handler[h].op # "one page"
    <3>1. Becomes(h, s)
      BY <1>10, <2>7 DEF CreateDocument
    <3>2. /\ s.at = at /\ s.new = n /\ s.upload = handler[h].upload
          /\ s.type = handler[h].type /\ s.op = handler[h].op /\ s.old = handler[h].old
      BY <1>0 DEF HandlerState
    <3> HIDE DEF s
    <3>3. s.op = "retype" => s.old < n
      <4>1. handler[h].op = "retype" => handler[h].old \in 1 .. Len(docs)
        BY <1>0 DEF Sound
      <4>2. QED
        BY <1>0, <3>2, <4>1
    <3> HIDE DEF n
    <3>4. Sound(s, uploads', docs')
      BY <1>0, <2>1, <2>4, <2>5, <2>7, <3>2, <3>3 DEF Sound
    <3>5. QED
      BY <3>1, <3>4, MoverSuffices
  <2>8. QED
    BY <2>6, <2>7
<1>11. ASSUME NEW h \in Handler, LinkUpload(h) \/ HoldUpload(h)
       PROVE  HandlersSound'
  BY <1>11, DoneSound, MoverSuffices DEF LinkUpload, HoldUpload
<1>12. ASSUME NEW h \in Handler, Supersede(h)
       PROVE  HandlersSound'
  <2>1. handler[h].at = "supersede"
    BY <1>12 DEF Supersede
  <2>2. CASE handler[h].upload = NoId
    BY <1>12, <2>2, IdleSound, MoverSuffices DEF Supersede
  <2>3. CASE handler[h].upload # NoId
    <3>1. Becomes(h, [handler[h] EXCEPT !.at = "relink"])
      BY <1>12, <2>3 DEF Supersede
    <3>2. Sound([handler[h] EXCEPT !.at = "relink"], uploads', docs')
      BY <1>0, <2>1, <2>3 DEF Sound, HandlerState
    <3>3. QED
      BY <3>1, <3>2, MoverSuffices
  <2>4. QED
    BY <2>2, <2>3
<1>13. ASSUME NEW h \in Handler, Relink(h) \/ Dismiss(h) \/ Die(h)
       PROVE  HandlersSound'
  BY <1>13, IdleSound, MoverSuffices DEF Relink, Dismiss, Die
<1>14. ASSUME NEW h \in Handler, StoreRefuses(h)
       PROVE  HandlersSound'
  <2>1. /\ handler[h].op = "batch" /\ handler[h].at \in {"create", "link"}
        /\ Becomes(h, [handler[h] EXCEPT !.at = "hold"])
    BY <1>14 DEF StoreRefuses
  <2>2. Sound([handler[h] EXCEPT !.at = "hold"], uploads', docs')
    BY <1>0, <2>1 DEF Sound, HandlerState
  <2>3. QED
    BY <2>1, <2>2, MoverSuffices
<1>15. ASSUME UNCHANGED handler
       PROVE  HandlersSound'
  BY <1>0, <1>15 DEF HandlersSound
<1>16. ASSUME NEW d \in DOMAIN docs, Confirm(d) \/ AskStudent(d)
       PROVE  UNCHANGED handler
  BY <1>16 DEF Confirm, AskStudent
<1>17. QED
  BY <1>1, <1>2, <1>3, <1>4, <1>5, <1>6, <1>7, <1>8, <1>9, <1>10, <1>11, <1>12,
     <1>13, <1>14, <1>15, <1>16
  DEF Next, Begin, Step, Fault, vars

-----------------------------------------------------------------------------
(* The theorems.                                                             *)

LEMMA InductiveInit == Init => Inductive
<1> SUFFICES ASSUME Init PROVE Inductive
  OBVIOUS
<1>1. TypeOK
  BY InitType
<1>2. HandlersSound
  BY IdleSound DEF Init, HandlersSound
<1>3. TypeIsTheModels /\ LinksAgree /\ SupersededByLater /\ OnlyCompleteIsConfirmed
  BY DEF Init, TypeIsTheModels, LinksAgree, SupersededByLater, OnlyCompleteIsConfirmed
<1>4. QED
  BY <1>1, <1>2, <1>3 DEF Inductive

LEMMA InductiveStep == Inductive /\ [Next]_vars => Inductive'
BY TypeStep, TypeIsTheModelsStep, LinksStep, SupersededStep, OnlyCompleteStep,
   HandlersStep DEF Inductive

\* In every reachable state the rows are consistent and what each handler holds
\* is true of them, however many requests the web tier serves at once, however
\* their awaits interleave and wherever they die.
THEOREM AlwaysInductive == Spec => []Inductive
<1>1. Init => Inductive
  BY InductiveInit
<1>2. Inductive /\ [Next]_vars => Inductive'
  BY InductiveStep
<1>3. QED
  BY <1>1, <1>2, PTL DEF Spec

\* Rows and handlers keep the shape the store and the routes give them.
THEOREM TypeCorrect == Spec => []TypeOK
BY AlwaysInductive, PTL DEF Inductive

\* An upload and the document it names agree on whose pages they are
\* (updateUpload in intake.ts and in the routes).
THEOREM LinksAlwaysAgree == Spec => []LinksAgree
BY AlwaysInductive, PTL DEF Inductive

\* superseded_by always leads to a later document of the same pages and another
\* type (the retype route).
THEOREM SupersededAlwaysByLater == Spec => []SupersededByLater
BY AlwaysInductive, PTL DEF Inductive

\* A bounded set of naturals that is not empty has a greatest member: the
\* least distance to the bound, by well-foundedness.
LEMMA GreatestExists ==
  ASSUME NEW n \in Nat, NEW S \in SUBSET (1 .. n), S # {}
  PROVE  \E m \in S : \A k \in S : k <= m
<1> DEFINE Gap == {n - k : k \in S}
           R == OpToRel(<, Nat)
<1>1. Gap \subseteq Nat /\ Gap # {}
  <2>1. \A k \in S : n - k \in Nat
    OBVIOUS
  <2>2. PICK k \in S : TRUE
    OBVIOUS
  <2>3. n - k \in Gap
    OBVIOUS
  <2>4. QED
    BY <2>1, <2>3
<1>2. PICK g \in Gap : \A x \in Gap : ~ (<<x, g>> \in R)
  BY <1>1, NatLessThanWellFounded, WFMin
<1>3. PICK m \in S : g = n - m
  BY <1>2
<1>4. ASSUME NEW k \in S
      PROVE  k <= m
  <2>1. ~ (n - k < g)
    BY <1>1, <1>2 DEF OpToRel
  <2>2. QED
    BY <1>3, <2>1
<1>5. QED
  BY <1>4

\* The latest document of an upload is never superseded: a later one would have
\* to come after it.
LEMMA LatestStands == TypeOK /\ SupersededByLater => ReadPagesStayVisible
<1> SUFFICES ASSUME TypeOK, SupersededByLater, NEW u \in DOMAIN uploads,
                    DocumentsOf(u) # {}
             PROVE  \E d \in DocumentsOf(u) : Live(d)
  BY DEF ReadPagesStayVisible
<1>1. DOMAIN docs = 1 .. Len(docs) /\ Len(docs) \in Nat
  BY LenProperties DEF TypeOK
<1>2. DocumentsOf(u) \subseteq 1 .. Len(docs)
  BY <1>1 DEF DocumentsOf
<1>3. PICK m \in DocumentsOf(u) : \A k \in DocumentsOf(u) : k <= m
  BY <1>1, <1>2, GreatestExists
<1>4. ASSUME docs[m].superseded # NoId
      PROVE  FALSE
  <2>1. docs[m].superseded \in DocumentsOf(u) /\ docs[m].superseded > m
    BY <1>4 DEF SupersededByLater, DocumentsOf
  <2>2. QED
    BY <1>2, <1>3, <2>1
<1>5. QED
  BY <1>3, <1>4 DEF Live

\* Pages that were ever read always have a document that is not superseded, also
\* when several reviewers retype them at the same time or a retype dies half-way.
THEOREM ReadPagesAlwaysVisible == Spec => []ReadPagesStayVisible
<1>1. Inductive => ReadPagesStayVisible
  BY LatestStands DEF Inductive
<1>2. QED
  BY <1>1, AlwaysInductive, PTL

\* Nothing stored is ever dropped, edited or undone.
THEOREM HistoryAlwaysKept == Spec => HistoryIsKept
<1>1. Inductive /\ [Next]_vars => KeepsHistory
  <2> SUFFICES ASSUME Inductive, [Next]_vars PROVE KeepsHistory
    OBVIOUS
  <2>1. \A d \in DOMAIN docs : d # NoId
    BY LenProperties DEF Inductive, TypeOK, NoId
  <2>2. \A u : \A d \in DocumentsOf(u) : d # NoId
    BY <2>1 DEF DocumentsOf
  <2>3. ASSUME NEW d \in DOMAIN docs, docs[d].superseded # NoId
        PROVE  docs'[d].superseded # NoId
    BY <2>1, <2>3, DocsAfter DEF Inductive
  <2>4. ASSUME NEW u \in DOMAIN uploads
        PROVE  /\ uploads[u].status # "held" => uploads'[u].status # "held"
               /\ uploads[u].document # NoId => uploads'[u].document # NoId
    BY <2>2, UploadsAfter DEF Inductive
  <2>5. QED
    BY <2>3, <2>4, DocsAfter, UploadsAfter DEF Inductive, KeepsHistory
<1>2. QED
  BY <1>1, AlwaysInductive, PTL DEF Spec, HistoryIsKept

-----------------------------------------------------------------------------
(* The intake implements the ledger.                                         *)

\* Two entries with the same fields are the same entry.
LEMMA EntryEqual ==
  ASSUME NEW a \in Ledger!Entry, NEW b \in Ledger!Entry,
         a.extraction = b.extraction, a.source = b.source,
         a.signedOff <=> b.signedOff, a.replacedBy = b.replacedBy
  PROVE  a = b
<1>1. a.signedOff \in BOOLEAN /\ b.signedOff \in BOOLEAN
  BY DEF Ledger!Entry
<1>2. a.signedOff = b.signedOff
  BY <1>1, Zenon
<1>3. QED
  BY <1>2 DEF Ledger!Entry

\* The ledger's entry for each document row.
LEMMA ViewFacts ==
  ASSUME NEW ds \in Seq(DocumentRow)
  PROVE  /\ ViewOf(ds) \in Seq(Ledger!Entry)
         /\ Len(ViewOf(ds)) = Len(ds)
         /\ DOMAIN ViewOf(ds) = DOMAIN ds
         /\ \A d \in DOMAIN ds :
              /\ ViewOf(ds)[d] \in Ledger!Entry
              /\ ViewOf(ds)[d].extraction = ds[d].review.extracted
              /\ ViewOf(ds)[d].source = ds[d].upload
              /\ ViewOf(ds)[d].signedOff <=> ds[d].review.confirmed # Null
              /\ ViewOf(ds)[d].replacedBy = ds[d].superseded
<1>1. /\ DOMAIN ds = 1 .. Len(ds) /\ Len(ds) \in Nat
      /\ \A d \in DOMAIN ds : ds[d] \in DocumentRow
  BY LenProperties
<1>2. ASSUME NEW d \in DOMAIN ds
      PROVE  ViewOf(ds)[d] \in Ledger!Entry
  <2>1. ds[d].review \in Review
    BY <1>1 DEF DocumentRow
  <2>2. ds[d].review.extracted \in Extractions
    BY <2>1 DEF Review
  <2>3. ds[d].upload \in Nat /\ ds[d].superseded \in Nat
    BY <1>1 DEF DocumentRow
  <2>4. (ds[d].review.confirmed # Null) \in BOOLEAN
    OBVIOUS
  <2>5. QED
    BY <2>2, <2>3, <2>4, Zenon DEF ViewOf, Ledger!Entry
<1>3. ViewOf(ds) \in [1 .. Len(ds) -> Ledger!Entry]
  BY <1>1, <1>2 DEF ViewOf
<1>4. ViewOf(ds) \in Seq(Ledger!Entry)
  BY <1>1, <1>3, SeqDef
<1>5. Len(ViewOf(ds)) = Len(ds)
  BY <1>1, <1>3, <1>4, LenProperties
<1>6. ASSUME NEW d \in DOMAIN ds
      PROVE  /\ ViewOf(ds)[d].extraction = ds[d].review.extracted
             /\ ViewOf(ds)[d].source = ds[d].upload
             /\ ViewOf(ds)[d].replacedBy = ds[d].superseded
  BY DEF ViewOf
<1>7. ASSUME NEW d \in DOMAIN ds
      PROVE  ViewOf(ds)[d].signedOff <=> ds[d].review.confirmed # Null
  BY Zenon DEF ViewOf
<1>8. DOMAIN ViewOf(ds) = DOMAIN ds
  BY DEF ViewOf
<1>9. QED
  BY <1>2, <1>4, <1>5, <1>6, <1>7, <1>8

LEMMA LedgerInit == Init => Ledger!Init
<1> SUFFICES ASSUME Init PROVE LedgerView = <<>>
  BY DEF Ledger!Init
<1>1. docs = <<>> /\ docs \in Seq(DocumentRow) /\ Len(docs) = 0
  BY EmptySeq DEF Init
<1>2. LedgerView \in Seq(Ledger!Entry) /\ Len(LedgerView) = 0
  BY <1>1, ViewFacts DEF LedgerView
<1>3. QED
  BY <1>2, EmptySeq

\* Every step of the intake is a step of the ledger or leaves it alone: an insert
\* records, a retype's second statement replaces, a confirmation that completes
\* the document signs it off, and the rest is invisible.
LEMMA LedgerStep == Inductive /\ [Next]_vars => [Ledger!Next]_LedgerView
<1> SUFFICES ASSUME Inductive, [Next]_vars
             PROVE  [Ledger!Next]_LedgerView
  OBVIOUS
<1> DEFINE L  == ViewOf(docs)
           LL == ViewOf(docs')
<1>0. LedgerView = L /\ LedgerView' = LL
  BY DEF LedgerView
<1>1. /\ docs \in Seq(DocumentRow) /\ docs' \in Seq(DocumentRow)
      /\ DOMAIN docs = 1 .. Len(docs) /\ Len(docs) \in Nat
      /\ DOMAIN docs' = 1 .. Len(docs') /\ Len(docs') \in Nat
      /\ \A d \in DOMAIN docs : docs[d] \in DocumentRow
  BY TypeStep, LenProperties DEF Inductive, TypeOK
<1>2. /\ L \in Seq(Ledger!Entry) /\ LL \in Seq(Ledger!Entry)
      /\ Len(L) = Len(docs) /\ DOMAIN L = DOMAIN docs
      /\ Len(LL) = Len(docs') /\ DOMAIN LL = DOMAIN docs'
  BY <1>1, ViewFacts
<1>3. /\ \A d \in DOMAIN docs :
           /\ L[d] \in Ledger!Entry
           /\ L[d].extraction = docs[d].review.extracted
           /\ L[d].source = docs[d].upload
           /\ L[d].signedOff <=> docs[d].review.confirmed # Null
           /\ L[d].replacedBy = docs[d].superseded
      /\ \A d \in DOMAIN docs' :
           /\ LL[d] \in Ledger!Entry
           /\ LL[d].extraction = docs'[d].review.extracted
           /\ LL[d].source = docs'[d].upload
           /\ LL[d].signedOff <=> docs'[d].review.confirmed # Null
           /\ LL[d].replacedBy = docs'[d].superseded
  BY <1>1, ViewFacts
<1> HIDE DEF L, LL
<1>4. CASE UNCHANGED docs
  BY <1>0, <1>4 DEF L, LL
<1>5. CASE Inserted
  <2>1. PICK x \in Extractions, u \in DOMAIN uploads \cup {NoId} :
          docs' = Append(docs, NewDocument(x, u))
    BY <1>5 DEF Inserted
  <2>2. u \in Nat
    BY LenProperties DEF NoId, Inductive, TypeOK
  <2>3. NewDocument(x, u) \in DocumentRow
    BY <2>2, NewRowTypes
  <2> DEFINE n == Len(docs) + 1
  <2>4. /\ Len(docs') = n
        /\ \A d \in DOMAIN docs : docs'[d] = docs[d]
        /\ docs'[n] = NewDocument(x, u)
    BY <1>1, <2>1, <2>3, AppendProperties
  <2>5. n \in DOMAIN docs'
    BY <1>1, <2>4
  <2>6. /\ docs'[n].review.confirmed = Null
        /\ docs'[n].superseded = NoId
    BY <2>4, NewReviewFacts DEF NewDocument
  <2>7. LL[n] \in Ledger!Entry
    BY <1>2, <2>5, ElementOfSeq
  <2>8. ~LL[n].signedOff /\ LL[n].replacedBy = 0
    BY <1>3, <2>5, <2>6 DEF NoId
  <2>9. \A d \in DOMAIN docs : LL[d] = L[d]
    BY <1>1, <1>3, <2>4, EntryEqual
  <2>10. LL = Append(L, LL[n])
    <3>1. /\ Append(L, LL[n]) \in Seq(Ledger!Entry)
          /\ Len(Append(L, LL[n])) = Len(L) + 1
          /\ \A d \in 1 .. Len(L) : Append(L, LL[n])[d] = L[d]
          /\ Append(L, LL[n])[Len(L) + 1] = LL[n]
      BY <1>2, <2>7, AppendProperties
    <3>2. Len(LL) = Len(Append(L, LL[n]))
      BY <1>2, <2>4, <3>1
    <3>3. \A d \in 1 .. Len(LL) : LL[d] = Append(L, LL[n])[d]
      BY <1>1, <1>2, <2>4, <2>9, <3>1
    <3>4. QED
      BY <1>2, <3>1, <3>2, <3>3, SeqEqual
  <2>11. Ledger!Record
    BY <1>0, <1>2, <2>4, <2>7, <2>8, <2>10 DEF Ledger!Record
  <2>12. QED
    BY <2>11 DEF Ledger!Next
<1>6. CASE Replaced
  <2>1. PICK d, e \in DOMAIN docs :
          /\ d < e
          /\ docs[e].upload = docs[d].upload
          /\ docs[e].review.type # docs[d].review.type
          /\ docs' = [docs EXCEPT ![d].superseded = e]
    BY <1>6 DEF Replaced
  <2>2. /\ L[e].source = L[d].source
        /\ L[e].extraction.type # L[d].extraction.type
    BY <1>3, <2>1 DEF Inductive, TypeIsTheModels
  <2>3. /\ DOMAIN docs' = DOMAIN docs
        /\ \A c \in DOMAIN docs :
             /\ docs'[c].review = docs[c].review /\ docs'[c].upload = docs[c].upload
             /\ docs'[c].superseded = IF c = d THEN e ELSE docs[c].superseded
    BY <1>1, <2>1 DEF DocumentRow
  <2>4. LL = [L EXCEPT ![d].replacedBy = e]
    <3> DEFINE new == [L[d] EXCEPT !.replacedBy = e]
    <3>0. /\ new \in Ledger!Entry
          /\ new.extraction = L[d].extraction /\ new.source = L[d].source
          /\ new.signedOff <=> L[d].signedOff
          /\ new.replacedBy = e
      <4>1. L[d] \in Ledger!Entry /\ e \in Nat
        BY <1>1, <1>3
      <4>2. /\ new \in Ledger!Entry
            /\ new.extraction = L[d].extraction /\ new.source = L[d].source
            /\ new.replacedBy = e
        BY <4>1 DEF Ledger!Entry
      <4>3. new.signedOff <=> L[d].signedOff
        BY <4>1, Zenon DEF Ledger!Entry
      <4>4. QED
        BY <4>2, <4>3
    <3> HIDE DEF new
    <3>1. \A c \in DOMAIN docs : LL[c] = IF c = d THEN new ELSE L[c]
      BY <1>3, <2>3, <3>0, EntryEqual
    <3> USE DEF new
    <3>2. QED
      BY <1>2, <2>3, <3>1
  <2>5. Ledger!Replace(d, e)
    BY <1>0, <2>1, <2>2, <2>4 DEF Ledger!Replace
  <2>6. QED
    BY <1>0, <1>2, <2>5 DEF Ledger!Next
<1>7. CASE Reviewed
  <2>1. PICK d \in DOMAIN docs, post \in Posts :
          docs' = [docs EXCEPT ![d].review = ApplyConfirmations(@, post)]
    BY <1>7 DEF Reviewed
  <2>2. /\ DOMAIN docs' = DOMAIN docs
        /\ \A c \in DOMAIN docs :
             /\ docs'[c].superseded = docs[c].superseded
             /\ c # d => docs'[c] = docs[c]
    BY <1>1, <2>1 DEF DocumentRow
  <2>3. \A c \in DOMAIN docs :
          /\ docs'[c].review.extracted = docs[c].review.extracted
          /\ docs'[c].upload = docs[c].upload
          /\ docs[c].review.confirmed # Null => docs'[c].review.confirmed # Null
    BY DocsAfter DEF Inductive
  <2>4. CASE docs'[d].review.confirmed # Null /\ docs[d].review.confirmed = Null
    <3> DEFINE new == [L[d] EXCEPT !.signedOff = TRUE]
    <3>0. /\ new \in Ledger!Entry
          /\ new.extraction = L[d].extraction /\ new.source = L[d].source
          /\ new.signedOff /\ new.replacedBy = L[d].replacedBy
      BY <1>3, <2>1 DEF Ledger!Entry
    <3> HIDE DEF new
    <3>1. \A c \in DOMAIN docs : LL[c] = IF c = d THEN new ELSE L[c]
      BY <1>3, <2>2, <2>3, <2>4, <3>0, EntryEqual
    <3> USE DEF new
    <3>2. LL = [L EXCEPT ![d].signedOff = TRUE]
      BY <1>2, <2>2, <3>1
    <3>3. ~L[d].signedOff
      BY <1>3, <2>4
    <3>4. Ledger!SignOff(d)
      BY <1>0, <3>2, <3>3 DEF Ledger!SignOff
    <3>5. QED
      BY <1>0, <1>2, <3>4 DEF Ledger!Next
  <2>5. CASE ~(docs'[d].review.confirmed # Null /\ docs[d].review.confirmed = Null)
    <3>1. \A c \in DOMAIN docs : LL[c] = L[c]
      BY <1>3, <2>2, <2>3, <2>5, EntryEqual
    <3>2. LL = L
      BY <1>2, <2>2, <3>1, SeqEqual
    <3>3. QED
      BY <1>0, <3>2
  <2>6. QED
    BY <2>4, <2>5
<1>8. CASE Requested
  <2>1. PICK d \in DOMAIN docs, r \in Request :
          docs' = [docs EXCEPT ![d].review = AppendRequest(@, r)]
    BY <1>8 DEF Requested
  <2>2. docs[d].review \in Review
    BY <1>1 DEF DocumentRow
  <2>3. /\ AppendRequest(docs[d].review, r).extracted = docs[d].review.extracted
        /\ AppendRequest(docs[d].review, r).confirmed = docs[d].review.confirmed
    BY <2>2, AppendRequestFacts
  <2>4. /\ DOMAIN docs' = DOMAIN docs
        /\ \A c \in DOMAIN docs :
             /\ docs'[c].superseded = docs[c].superseded
             /\ docs'[c].upload = docs[c].upload
             /\ docs'[c].review.extracted = docs[c].review.extracted
             /\ docs'[c].review.confirmed = docs[c].review.confirmed
    BY <1>1, <2>1, <2>3 DEF DocumentRow
  <2>5. \A c \in DOMAIN docs : LL[c] = L[c]
    BY <1>3, <2>4, EntryEqual
  <2>6. LL = L
    BY <1>2, <2>4, <2>5, SeqEqual
  <2>7. QED
    BY <1>0, <2>6
<1>9. QED
  BY <1>4, <1>5, <1>6, <1>7, <1>8, DocsStep DEF Inductive

\* To whoever reads the documents, the intake is the append-only ledger.
THEOREM IntakeImplementsLedger == Spec => ImplementsLedger
<1>1. Init => Ledger!Init
  BY LedgerInit
<1>2. Inductive /\ [Next]_vars => [Ledger!Next]_LedgerView
  BY LedgerStep
<1>3. QED
  BY <1>1, <1>2, AlwaysInductive, PTL DEF Spec, ImplementsLedger, Ledger!Spec

-----------------------------------------------------------------------------
(* What a held upload waits for, when nothing fails half-way.               *)

\* A handler that will read upload u, or say why it is held.
Settles(s, u) ==
  /\ s.upload = u
  /\ \/ s.op = "batch" /\ s.at \in {"extract", "create", "link", "hold"}
     \/ s.op = "pages" /\ s.at \in {"create", "link"}

\* A handler about to write the document it created of u's pages on u.
Links(s, u) == s.upload = u /\ s.at = "link"

\* A held upload that says nothing, or of which a document was made, is on the
\* way; a single page never has an upload.
UnderWay ==
  /\ \A h \in Handler : handler[h].op = "one page" => handler[h].upload = NoId
  /\ \A u \in DOMAIN uploads : uploads[u].status = "held" =>
       /\ uploads[u].reason = NoReason => \E h \in Handler : Settles(handler[h], u)
       /\ DocumentsOf(u) # {} => \E h \in Handler : Links(handler[h], u)

\* It suffices that the handler that moved leaves no upload behind.
LEMMA MoverLeavesNone ==
  ASSUME Inductive, UnderWay, [Next]_vars, NEW h \in Handler, NEW s, Becomes(h, s),
         s.op = "one page" => s.upload = NoId,
         \A u \in DOMAIN uploads : uploads'[u].status = "held" =>
           /\ uploads'[u].reason = NoReason =>
                uploads[u].reason = NoReason /\ (Settles(handler[h], u) => Settles(s, u))
           /\ Links(handler[h], u) => Links(s, u)
           /\ DocumentsOf(u)' # {} => DocumentsOf(u) # {} \/ Links(s, u),
         \A u \in DOMAIN uploads' \ DOMAIN uploads :
           /\ uploads'[u].reason = NoReason => Settles(s, u)
           /\ DocumentsOf(u)' = {}
  PROVE  UnderWay'
<1>1. /\ \A k \in Handler \ {h} : handler'[k] = handler[k]
      /\ handler'[h] = s
  BY DEF Becomes, Inductive, TypeOK
<1>2. ASSUME NEW u \in DOMAIN uploads', uploads'[u].status = "held"
      PROVE  /\ uploads'[u].reason = NoReason => \E k \in Handler : Settles(handler'[k], u)
             /\ DocumentsOf(u)' # {} => \E k \in Handler : Links(handler'[k], u)
  <2>1. CASE u \in DOMAIN uploads
    <3>1. uploads[u].status = "held"
      BY <1>2, <2>1, UploadsAfter DEF Inductive
    <3>2. ASSUME uploads'[u].reason = NoReason
          PROVE  \E k \in Handler : Settles(handler'[k], u)
      <4>1. PICK k \in Handler : Settles(handler[k], u)
        BY <1>2, <2>1, <3>1, <3>2 DEF UnderWay
      <4>2. QED
        BY <1>1, <1>2, <2>1, <3>2, <4>1
    <3>3. ASSUME DocumentsOf(u)' # {}
          PROVE  \E k \in Handler : Links(handler'[k], u)
      <4>1. CASE Links(s, u)
        BY <1>1, <4>1
      <4>2. CASE DocumentsOf(u) # {}
        <5>1. PICK k \in Handler : Links(handler[k], u)
          BY <2>1, <3>1, <4>2 DEF UnderWay
        <5>2. QED
          BY <1>1, <1>2, <2>1, <5>1
      <4>3. QED
        BY <1>2, <2>1, <3>3, <4>1, <4>2
    <3>4. QED
      BY <3>2, <3>3
  <2>2. CASE u \notin DOMAIN uploads
    BY <1>1, <1>2, <2>2
  <2>3. QED
    BY <2>1, <2>2
<1>3. \A k \in Handler : handler'[k].op = "one page" => handler'[k].upload = NoId
  BY <1>1 DEF UnderWay
<1>4. QED
  BY <1>2, <1>3 DEF UnderWay

\* Without an insert the documents of an upload are the same.
LEMMA SameDocuments ==
  ASSUME Inductive, [Next]_vars, DOMAIN docs' = DOMAIN docs, NEW u
  PROVE  DocumentsOf(u)' = DocumentsOf(u)
BY DocsAfter DEF Inductive, DocumentsOf

LEMMA NextKeepsUnderWay ==
  ASSUME ~Faults, Inductive, UnderWay, [Next]_vars
  PROVE  UnderWay'
<1>0. /\ \A h \in Handler : handler[h] \in HandlerState /\ Sound(handler[h], uploads, docs)
      /\ uploads \in Seq(UploadRow) /\ docs \in Seq(DocumentRow)
      /\ DOMAIN uploads = 1 .. Len(uploads) /\ Len(uploads) \in Nat
      /\ DOMAIN docs = 1 .. Len(docs) /\ Len(docs) \in Nat
      /\ \A u \in DOMAIN uploads : uploads[u] \in UploadRow /\ u # NoId
  BY LenProperties DEF Inductive, TypeOK, HandlersSound, NoId
\* A step of h that changes neither table.
<1>s. ASSUME NEW h \in Handler, NEW s, Becomes(h, s), UNCHANGED <<uploads, docs>>,
             s.op = "one page" => s.upload = NoId,
             \A u \in DOMAIN uploads : Settles(handler[h], u) => Settles(s, u),
             handler[h].at # "link"
      PROVE  UnderWay'
  <2>1. \A u \in DOMAIN uploads : ~Links(handler[h], u)
    BY <1>s DEF Links
  <2>2. \A u : DocumentsOf(u)' = DocumentsOf(u)
    BY <1>s DEF DocumentsOf
  <2>3. QED
    BY <1>s, <2>1, <2>2, MoverLeavesNone
\* A step of h that writes the upload it holds, settled afterwards.
<1>w. ASSUME NEW h \in Handler, NEW s, Becomes(h, s), UNCHANGED docs,
             s.op # "one page", handler[h].upload \in DOMAIN uploads,
             NEW row, uploads' = [uploads EXCEPT ![handler[h].upload] = row],
             row.status # "held" \/ (row.reason = "failed" /\ handler[h].at # "link")
      PROVE  UnderWay'
  <2>1. \A u : DocumentsOf(u)' = DocumentsOf(u)
    BY <1>w DEF DocumentsOf
  <2>2. /\ DOMAIN uploads' = DOMAIN uploads
        /\ \A u \in DOMAIN uploads :
             uploads'[u] = IF u = handler[h].upload THEN row ELSE uploads[u]
    BY <1>w
  <2>3. \A u \in DOMAIN uploads : u # handler[h].upload =>
          ~Links(handler[h], u) /\ ~Settles(handler[h], u)
    BY DEF Links, Settles
  <2>4. \A u \in DOMAIN uploads : Links(handler[h], u) => handler[h].at = "link"
    BY DEF Links
  <2>5. \A u \in DOMAIN uploads : uploads'[u].status = "held" =>
           /\ uploads'[u].reason = NoReason =>
                uploads[u].reason = NoReason /\ (Settles(handler[h], u) => Settles(s, u))
           /\ Links(handler[h], u) => Links(s, u)
           /\ DocumentsOf(u)' # {} => DocumentsOf(u) # {} \/ Links(s, u)
    <3>1. ASSUME NEW u \in DOMAIN uploads, u # handler[h].upload
          PROVE  uploads'[u] = uploads[u] /\ ~Links(handler[h], u) /\ ~Settles(handler[h], u)
      BY <2>2, <2>3, <3>1
    <3>2. ASSUME uploads'[handler[h].upload].status = "held"
          PROVE  /\ uploads'[handler[h].upload].reason # NoReason
                 /\ ~Links(handler[h], handler[h].upload)
      BY <1>w, <2>2, <2>4, <3>2 DEF NoReason
    <3>3. QED
      BY <2>1, <3>1, <3>2
  <2>6. DOMAIN uploads' \ DOMAIN uploads = {}
    BY <2>2
  <2>7. QED
    BY <1>w, <2>5, <2>6, MoverLeavesNone
<1>1. ASSUME NEW h \in Handler, Begin(h) PROVE UnderWay'
  <2>1. handler[h].at = "idle" /\ UNCHANGED <<uploads, docs>>
    BY <1>1 DEF Begin, StartBatch, StartManual, StartExtract, StartRetype, StartDismiss
  <2>2. \E s : Becomes(h, s) /\ (s.op = "one page" => s.upload = NoId)
    <3>1. CASE StartBatch(h)
      <4>1. PICK groups \in {GroupPages(cs) : cs \in Batches} :
              Becomes(h, [Idle EXCEPT !.op = "batch", !.at = "next group", !.rest = groups])
        BY <3>1 DEF StartBatch
      <4>2. [Idle EXCEPT !.op = "batch", !.at = "next group", !.rest = groups].op = "batch"
        BY DEF Idle
      <4>3. QED
        BY <4>1, <4>2
    <3>2. CASE StartManual(h)
      <4>1. PICK t \in DocType, op \in {"one page", "pages"} :
              Becomes(h, [Idle EXCEPT !.op = op, !.at = "extract", !.type = t])
        BY <3>2 DEF StartManual
      <4>2. [Idle EXCEPT !.op = op, !.at = "extract", !.type = t].upload = NoId
        BY DEF Idle
      <4>3. QED
        BY <4>1, <4>2
    <3>3. CASE StartExtract(h)
      <4>1. PICK u \in DOMAIN uploads, t \in DocType :
              Becomes(h, [Idle EXCEPT !.op = "extract", !.at = "extract",
                                      !.upload = u, !.type = t])
        BY <3>3 DEF StartExtract
      <4>2. [Idle EXCEPT !.op = "extract", !.at = "extract",
                         !.upload = u, !.type = t].op = "extract"
        BY DEF Idle
      <4>3. QED
        BY <4>1, <4>2
    <3>4. CASE StartRetype(h)
      <4>1. PICK d \in DOMAIN docs, t \in DocType :
              Becomes(h, [Idle EXCEPT !.op = "retype", !.at = "extract", !.type = t,
                                      !.upload = docs[d].upload, !.old = d])
        BY <3>4 DEF StartRetype
      <4>2. [Idle EXCEPT !.op = "retype", !.at = "extract", !.type = t,
                         !.upload = docs[d].upload, !.old = d].op = "retype"
        BY DEF Idle
      <4>3. QED
        BY <4>1, <4>2
    <3>5. CASE StartDismiss(h)
      <4>1. PICK u \in DOMAIN uploads :
              Becomes(h, [Idle EXCEPT !.op = "dismiss", !.at = "dismiss", !.upload = u])
        BY <3>5 DEF StartDismiss
      <4>2. [Idle EXCEPT !.op = "dismiss", !.at = "dismiss", !.upload = u].op = "dismiss"
        BY DEF Idle
      <4>3. QED
        BY <4>1, <4>2
    <3>6. QED
      BY <1>1, <3>1, <3>2, <3>3, <3>4, <3>5 DEF Begin
  <2>3. PICK s : Becomes(h, s) /\ (s.op = "one page" => s.upload = NoId)
    BY <2>2
  <2>4. \A u : ~Settles(handler[h], u)
    BY <2>1 DEF Settles
  <2>5. QED
    BY <1>s, <2>1, <2>3, <2>4
<1>2. ASSUME NEW h \in Handler, NextGroup(h) PROVE UnderWay'
  <2> DEFINE g == Head(handler[h].rest)
             after == [handler[h] EXCEPT !.rest = Tail(@)]
             reads == [after EXCEPT !.at = "extract", !.upload = Len(uploads) + 1,
                                    !.type = g.type]
             n == Len(uploads) + 1
  <2>1. /\ handler[h].at = "next group" /\ handler[h].op = "batch"
        /\ handler[h].rest \in Seq(PageGroup) /\ handler[h].rest # <<>>
    BY <1>0, <1>2 DEF HandlerState, NextGroup, Sound
  <2>2. g \in PageGroup
    BY <2>1, HeadTailProperties
  <2>3. uploads' = Append(uploads, NewUpload(g.type, g.held_reason)) /\ UNCHANGED docs
    BY <1>2 DEF NextGroup
  <2>4. /\ \A u \in DOMAIN uploads : uploads'[u] = uploads[u]
        /\ DOMAIN uploads' \ DOMAIN uploads = {n}
        /\ uploads'[n] = NewUpload(g.type, g.held_reason)
    <3>1. NewUpload(g.type, g.held_reason) \in UploadRow
      BY <2>2, GroupFacts, NewRowTypes
    <3>2. QED
      BY <1>0, <2>3, <3>1, AppendProperties
  <2>5. uploads'[n].reason = g.held_reason
    BY <2>4 DEF NewUpload
  <2>6. \A u : ~Settles(handler[h], u) /\ ~Links(handler[h], u)
    BY <2>1 DEF Settles, Links
  <2>7. \A u : DocumentsOf(u)' = DocumentsOf(u) /\ (u = n => DocumentsOf(u)' = {})
    <3>1. \A d \in DOMAIN docs : docs[d].upload # n
      BY <1>0 DEF Inductive, LinksAgree, NoId
    <3>2. QED
      BY <2>3, <3>1 DEF DocumentsOf
  <2>8. \E s : /\ Becomes(h, s) /\ s.op # "one page"
               /\ g.held_reason = NoReason => Settles(s, n)
    <3>1. CASE g.status = "extract" /\ g.type # Other
      <4>1. Becomes(h, reads)
        BY <1>2, <3>1 DEF NextGroup
      <4>2. reads.op = "batch" /\ reads.at = "extract" /\ reads.upload = n
        BY <1>0, <2>1 DEF HandlerState
      <4> HIDE DEF reads
      <4>3. QED
        BY <4>1, <4>2 DEF Settles
    <3>2. CASE ~(g.status = "extract" /\ g.type # Other)
      <4>1. Becomes(h, IF after.rest = <<>> THEN Idle ELSE after)
        BY <1>2, <3>2 DEF NextGroup
      <4>2. after.op = "batch" /\ Idle.op = "idle"
        BY <1>0, <2>1 DEF HandlerState, Idle
      <4>3. g.held_reason # NoReason
        BY <2>2, <3>2 DEF PageGroup
      <4> HIDE DEF after
      <4>4. QED
        BY <4>1, <4>2, <4>3
    <3>3. QED
      BY <3>1, <3>2
  <2>9. PICK s : /\ Becomes(h, s) /\ s.op # "one page"
                 /\ g.held_reason = NoReason => Settles(s, n)
    BY <2>8
  <2> HIDE DEF g, n
  <2>10. QED
    BY <2>4, <2>5, <2>6, <2>7, <2>9, MoverLeavesNone
<1>3. ASSUME NEW h \in Handler, Extracted(h) PROVE UnderWay'
  <2>1. PICK x \in Extractions :
          Becomes(h, [handler[h] EXCEPT
            !.x = x, !.at = IF handler[h].op = "pages" THEN "keep pages" ELSE "create"])
    BY <1>3 DEF Extracted
  <2> DEFINE s == [handler[h] EXCEPT
            !.x = x, !.at = IF handler[h].op = "pages" THEN "keep pages" ELSE "create"]
  <2>2. /\ s.op = handler[h].op /\ s.upload = handler[h].upload
        /\ s.at = IF handler[h].op = "pages" THEN "keep pages" ELSE "create"
    BY <1>0 DEF HandlerState
  <2>3. handler[h].at = "extract" /\ UNCHANGED <<uploads, docs>>
    BY <1>3 DEF Extracted
  <2> HIDE DEF s
  <2>4. \A u : Settles(handler[h], u) => Settles(s, u)
    BY <2>2, <2>3 DEF Settles
  <2>5. s.op = "one page" => s.upload = NoId
    BY <2>2 DEF UnderWay
  <2>6. Becomes(h, s)
    BY <2>1 DEF s
  <2>7. QED
    BY <1>s, <2>3, <2>4, <2>5, <2>6
<1>4. ASSUME NEW h \in Handler, ExtractionFails(h) PROVE UnderWay'
  <2>1. handler[h].at = "extract" /\ UNCHANGED <<uploads, docs>>
    BY <1>4 DEF ExtractionFails
  <2>2. CASE handler[h].op = "batch"
    <3> DEFINE s == [handler[h] EXCEPT !.at = "hold"]
    <3>1. s.op = "batch" /\ s.upload = handler[h].upload /\ s.at = "hold"
      BY <1>0, <2>2 DEF HandlerState
    <3>2. Becomes(h, s)
      BY <1>4, <2>2 DEF ExtractionFails
    <3> HIDE DEF s
    <3>3. \A u : Settles(handler[h], u) => Settles(s, u)
      BY <3>1 DEF Settles
    <3>4. QED
      BY <1>s, <2>1, <3>1, <3>2, <3>3
  <2>3. CASE handler[h].op # "batch"
    <3>1. Becomes(h, Idle) /\ Idle.op # "one page"
      BY <1>4, <2>3 DEF ExtractionFails, Idle
    <3>2. \A u : ~Settles(handler[h], u)
      BY <2>1, <2>3 DEF Settles
    <3>3. QED
      BY <1>s, <2>1, <3>1, <3>2
  <2>4. QED
    BY <2>2, <2>3
<1>5. ASSUME NEW h \in Handler, KeepPages(h) PROVE UnderWay'
  <2> DEFINE s == [handler[h] EXCEPT !.at = "create", !.upload = Len(uploads) + 1]
             row == NewUpload(handler[h].type, NoReason)
             n == Len(uploads) + 1
  <2>1. handler[h].at = "keep pages" /\ handler[h].op = "pages"
    BY <1>0, <1>5 DEF KeepPages, Sound
  <2>2. row \in UploadRow
    <3>1. handler[h].type \in DocType
      BY <1>0, <2>1, ExtractionsAssumption DEF Sound, Extraction
    <3>2. QED
      BY <3>1, NewRowTypes DEF Reasons
  <2>3. uploads' = Append(uploads, row) /\ UNCHANGED docs /\ Becomes(h, s)
    BY <1>5 DEF KeepPages
  <2>4. s.op = "pages" /\ s.at = "create" /\ s.upload = n
    BY <1>0, <2>1 DEF HandlerState
  <2> HIDE DEF s, row
  <2>5. /\ \A u \in DOMAIN uploads : uploads'[u] = uploads[u]
        /\ DOMAIN uploads' \ DOMAIN uploads = {n}
    BY <1>0, <2>2, <2>3, AppendProperties
  <2>6. \A u : ~Settles(handler[h], u) /\ ~Links(handler[h], u)
    BY <2>1 DEF Settles, Links
  <2>7. \A u : DocumentsOf(u)' = DocumentsOf(u) /\ (u = n => DocumentsOf(u)' = {})
    <3>1. \A d \in DOMAIN docs : docs[d].upload # n
      BY <1>0 DEF Inductive, LinksAgree, NoId
    <3>2. QED
      BY <2>3, <3>1 DEF DocumentsOf
  <2>8. Settles(s, n)
    BY <2>4 DEF Settles
  <2> HIDE DEF n
  <2>9. QED
    BY <2>3, <2>4, <2>5, <2>6, <2>7, <2>8, MoverLeavesNone
<1>6. ASSUME NEW h \in Handler, CreateDocument(h) PROVE UnderWay'
  <2> DEFINE d == NewDocument(handler[h].x, handler[h].upload)
             v == handler[h].upload
  <2>1. /\ handler[h].at = "create" /\ UNCHANGED uploads
        /\ docs' = Append(docs, d)
    BY <1>6 DEF CreateDocument
  <2>2. v \in Nat /\ d \in DocumentRow /\ d.upload = v
    <3>1. handler[h].x \in Extractions /\ v \in Nat
      BY <1>0, <2>1 DEF Sound, HandlerState
    <3>2. QED
      BY <3>1, NewRowTypes DEF NewDocument
  <2> HIDE DEF d
  <2>3. \A u : u # v => DocumentsOf(u)' = DocumentsOf(u)
    <3>1. /\ DOMAIN docs' = 1 .. Len(docs) + 1
          /\ \A c \in 1 .. Len(docs) : docs'[c] = docs[c]
          /\ docs'[Len(docs) + 1] = d
      BY <1>0, <2>1, <2>2, AppendProperties, LenProperties
    <3>2. QED
      BY <1>0, <2>2, <3>1 DEF DocumentsOf
  <2>4. \A u \in DOMAIN uploads : ~Links(handler[h], u)
    BY <2>1 DEF Links
  <2>5. CASE handler[h].op = "one page"
    <3>1. v = NoId /\ Becomes(h, Idle) /\ Idle.op # "one page"
      BY <1>6, <2>5 DEF UnderWay, CreateDocument, Idle
    <3>2. \A u \in DOMAIN uploads : u # v
      BY <1>0, <3>1
    <3>3. \A u \in DOMAIN uploads : ~Settles(handler[h], u)
      BY <2>5 DEF Settles
    <3> HIDE DEF v
    <3>4. QED
      BY <2>1, <2>3, <2>4, <3>1, <3>2, <3>3, MoverLeavesNone
  <2>6. CASE handler[h].op = "retype"
    <3> DEFINE s == [handler[h] EXCEPT !.at = "supersede", !.new = Len(docs) + 1]
    <3>1. Becomes(h, s) /\ s.op = "retype"
      BY <1>0, <1>6, <2>6 DEF CreateDocument, HandlerState
    <3>2. DocumentsOf(v) # {}
      BY <1>0, <2>6 DEF Sound, DocumentsOf
    <3>3. \A u \in DOMAIN uploads : ~Settles(handler[h], u)
      BY <2>6 DEF Settles
    <3> HIDE DEF s, v
    <3>4. QED
      BY <2>1, <2>3, <2>4, <3>1, <3>2, <3>3, MoverLeavesNone
  <2>7. CASE handler[h].op \notin {"one page", "retype"}
    <3> DEFINE s == [handler[h] EXCEPT !.at = "link", !.new = Len(docs) + 1]
    <3>1. Becomes(h, s)
      BY <1>6, <2>7 DEF CreateDocument
    <3>2. s.op = handler[h].op /\ s.at = "link" /\ s.upload = v
      BY <1>0 DEF HandlerState
    <3> HIDE DEF s
    <3>3. \A u : Settles(handler[h], u) => Settles(s, u)
      BY <3>2 DEF Settles
    <3>4. Links(s, v)
      BY <3>2 DEF Links
    <3>5. s.op # "one page"
      BY <2>7, <3>2
    <3> HIDE DEF v
    <3>6. QED
      BY <2>1, <2>3, <2>4, <3>1, <3>3, <3>4, <3>5, MoverLeavesNone
  <2>8. QED
    BY <2>5, <2>6, <2>7
<1>7. ASSUME NEW h \in Handler PROVE Done(h).op # "one page"
  BY DEF Done, Idle
<1>8. ASSUME NEW h \in Handler, LinkUpload(h) PROVE UnderWay'
  <2> DEFINE row == LinkDocument(uploads[handler[h].upload], handler[h].new, handler[h].op)
  <2>1. handler[h].upload \in DOMAIN uploads
    BY <1>0, <1>8 DEF LinkUpload, Sound
  <2>2. row.status # "held"
    BY <1>0, <2>1 DEF LinkDocument, UploadRow
  <2>3. Becomes(h, Done(h)) /\ UNCHANGED docs
        /\ uploads' = [uploads EXCEPT ![handler[h].upload] = row]
    BY <1>8 DEF LinkUpload
  <2> HIDE DEF row
  <2>4. QED
    BY <1>w, <1>7, <2>1, <2>2, <2>3
<1>9. ASSUME NEW h \in Handler, HoldUpload(h) PROVE UnderWay'
  <2> DEFINE row == MarkFailed(uploads[handler[h].upload])
  <2>1. handler[h].upload \in DOMAIN uploads /\ handler[h].at # "link"
    BY <1>0, <1>9 DEF HoldUpload, Sound
  <2>2. row.reason = "failed"
    BY <1>0, <2>1 DEF MarkFailed, UploadRow
  <2>3. Becomes(h, Done(h)) /\ UNCHANGED docs
        /\ uploads' = [uploads EXCEPT ![handler[h].upload] = row]
    BY <1>9 DEF HoldUpload
  <2> HIDE DEF row
  <2>4. QED
    BY <1>w, <1>7, <2>1, <2>2, <2>3
<1>10. ASSUME NEW h \in Handler, Dismiss(h) PROVE UnderWay'
  <2> DEFINE row == MarkDismissed(uploads[handler[h].upload])
  <2>1. handler[h].upload \in DOMAIN uploads
    BY <1>0, <1>10 DEF Dismiss, Sound
  <2>2. row.status # "held"
    BY <1>0, <2>1 DEF MarkDismissed, UploadRow
  <2>3. Becomes(h, Idle) /\ UNCHANGED docs /\ Idle.op # "one page"
        /\ uploads' = [uploads EXCEPT ![handler[h].upload] = row]
    BY <1>10 DEF Dismiss, Idle
  <2> HIDE DEF row
  <2>4. QED
    BY <1>w, <2>1, <2>2, <2>3
<1>11. ASSUME NEW h \in Handler, Supersede(h) \/ Relink(h) PROVE UnderWay'
  <2>1. \A u : ~Settles(handler[h], u) /\ ~Links(handler[h], u)
    BY <1>11 DEF Supersede, Relink, Settles, Links
  <2>2. \E s : Becomes(h, s) /\ s.op # "one page"
    <3>1. CASE Supersede(h)
      <4>1. handler[h].op = "retype"
        BY <1>0, <3>1 DEF Supersede, Sound
      <4>2. [handler[h] EXCEPT !.at = "relink"].op = "retype" /\ Idle.op = "idle"
        BY <1>0, <4>1 DEF HandlerState, Idle
      <4>3. Becomes(h, IF handler[h].upload = NoId THEN Idle
                       ELSE [handler[h] EXCEPT !.at = "relink"])
        BY <3>1 DEF Supersede
      <4>4. QED
        BY <4>2, <4>3
    <3>2. CASE Relink(h)
      <4>1. Becomes(h, Idle) /\ Idle.op = "idle"
        BY <3>2 DEF Relink, Idle
      <4>2. QED
        BY <4>1
    <3>3. QED
      BY <1>11, <3>1, <3>2
  <2>3. PICK s : Becomes(h, s) /\ s.op # "one page"
    BY <2>2
  <2>4. DOMAIN docs' = DOMAIN docs
    BY <1>11 DEF Supersede, Relink
  <2>5. \A u : DocumentsOf(u)' = DocumentsOf(u)
    BY <2>4, SameDocuments
  <2>6. /\ DOMAIN uploads' = DOMAIN uploads
        /\ \A u \in DOMAIN uploads : uploads'[u].reason = uploads[u].reason
    <3>1. CASE Supersede(h)
      BY <3>1 DEF Supersede
    <3>2. CASE Relink(h)
      <4> DEFINE v == handler[h].upload
                 row == [uploads[v] EXCEPT !.document = handler[h].new]
      <4>1. v \in DOMAIN uploads
        BY <1>0, <3>2 DEF Relink, Sound
      <4>2. row.reason = uploads[v].reason
        BY <1>0, <4>1 DEF UploadRow
      <4>3. uploads' = [uploads EXCEPT ![v] = row]
        BY <3>2 DEF Relink
      <4> HIDE DEF row
      <4>4. QED
        BY <1>0, <4>1, <4>2, <4>3
    <3>3. QED
      BY <1>11, <3>1, <3>2
  <2>7. QED
    BY <2>1, <2>3, <2>5, <2>6, MoverLeavesNone
<1>12. CASE UNCHANGED <<uploads, handler>> /\ DOMAIN docs' = DOMAIN docs
  <2>1. \A u : DocumentsOf(u)' = DocumentsOf(u)
    BY <1>12, SameDocuments
  <2>2. QED
    BY <1>12, <2>1 DEF UnderWay
<1>13. ASSUME NEW d \in DOMAIN docs, Confirm(d) \/ AskStudent(d)
       PROVE  UNCHANGED <<uploads, handler>> /\ DOMAIN docs' = DOMAIN docs
  BY <1>13 DEF Confirm, AskStudent
<1>14. ASSUME NEW h \in Handler PROVE ~Fault(h)
  BY DEF Fault, Die, StoreRefuses
<1>15. QED
  BY <1>1, <1>2, <1>3, <1>4, <1>5, <1>6, <1>8, <1>9, <1>10, <1>11, <1>12, <1>13, <1>14
     DEF Next, Step, vars

\* As long as no process dies and the database refuses nothing, a held upload
\* nobody works on has not been read and says why it is held, whatever the
\* interleaving of batches, sortings, retypes and dismissals: nothing is read a
\* second time because a link was forgotten (intakeBatch, POST
\* /api/uploads/[id]/extract).
THEOREM HeldAlwaysExplained ==
  ASSUME ~Faults
  PROVE  Spec => []HeldIsUnreadAndExplained
<1>1. Init => UnderWay
  <2>1. ASSUME Init PROVE UnderWay
    <3>1. \A h \in Handler : handler[h].op # "one page"
      BY <2>1 DEF Init, Idle
    <3>2. DOMAIN uploads = {}
      BY <2>1 DEF Init
    <3>3. QED
      BY <3>1, <3>2 DEF UnderWay
  <2>2. QED
    BY <2>1
<1>2. UnderWay => HeldIsUnreadAndExplained
  BY DEF UnderWay, HeldIsUnreadAndExplained, Working, Settles, Links
<1>3. Inductive /\ UnderWay /\ [Next]_vars => UnderWay'
  BY NextKeepsUnderWay
<1>4. QED
  BY <1>1, <1>2, <1>3, AlwaysInductive, PTL DEF Spec

\* Whatever the extractor will say of the files of a batch, their groups follow
\* the rule (sorting.ts groupPages).
THEOREM SortingAlwaysFollowsTheRule == Spec => []SortingFollowsTheRule
<1>1. SortingFollowsTheRule
  <2>1. \A n \in 0 .. MaxFiles : \A cs \in [1 .. n -> Classification] : cs \in Seq(Classification)
    OBVIOUS
  <2> QED
    BY <2>1, GroupsAlwaysFollow DEF SortingFollowsTheRule
<1> QED
  BY <1>1, PTL
=============================================================================
