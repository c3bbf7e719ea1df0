------------------------------- MODULE Sorting -------------------------------
(***************************************************************************)
(* groupPages (web/app/lib/sorting.ts): per-file classifications become    *)
(* groups of pages, one document each, in one left-to-right pass.          *)
(***************************************************************************)
EXTENDS Naturals, Sequences

\* The document types, "passport" among them, plus "other".
CONSTANT ClassifiedType

Passport == "passport"
Other    == "other"

Classification ==
  [doc_type : ClassifiedType, confidence : {"high", "medium", "low"},
   is_continuation : BOOLEAN]

\* What was wrong with a held group; NoReason on a group to extract.
NoReason == "none"
Unknown  == "could not tell"
Unsure   == "low confidence"

\* What the pass makes of pages: a document to extract, or a page held with a
\* reason; a page that is "other" is always held.
PageGroup ==
  {g \in [pages : Seq(Nat), type : ClassifiedType, status : {"extract", "held"},
          held_reason : {NoReason, Unknown, Unsure}] :
     /\ g.status = "held" <=> g.held_reason # NoReason
     /\ g.type = Other => g.status = "held"}

\* The pass so far: the groups, and whether the last one is still open.  Only
\* a group to extract that is not a passport is ever open.
Start == [groups |-> <<>>, open |-> FALSE]

NewGroup(c, i) ==
  [pages  |-> <<i>>, type |-> c.doc_type,
   status |-> IF c.doc_type = Other \/ c.confidence = "low" THEN "held" ELSE "extract",
   held_reason |-> CASE c.doc_type = Other -> Unknown
                     [] c.doc_type # Other /\ c.confidence = "low" -> Unsure
                     [] OTHER -> NoReason]

\* Mutant of Joins: any group takes a continuation.
JoinsAny(st, c) == c.is_continuation /\ st.groups # <<>>

Joins(st, c) == c.is_continuation /\ st.open

AddPage(st, c, i) ==
  IF Joins(st, c)
    THEN [st EXCEPT !.groups[Len(st.groups)].pages = Append(@, i)]
    ELSE LET g == NewGroup(c, i) IN
         [groups |-> Append(st.groups, g),
          open   |-> g.status = "extract" /\ g.type # Passport]

\* Passes(cs)[n]: the pass after the first n pages.
Passes(cs) ==
  LET pass[n \in 0 .. Len(cs)] ==
        IF n = 0 THEN Start ELSE AddPage(pass[n - 1], cs[n], n) IN
  pass

GroupPages(cs) == Passes(cs)[Len(cs)].groups

-----------------------------------------------------------------------------
(* What groupPages promises, said of the input alone.                       *)

\* A confident page of a multi-page type has only continuations after it, up to
\* page n.
Opened(cs, n) ==
  \E j \in 1 .. n :
    /\ cs[j].doc_type \notin {Other, Passport}
    /\ cs[j].confidence # "low"
    /\ \A k \in (j + 1) .. n : cs[k].is_continuation

\* A page joins the group before it exactly when it and every page back to some
\* confident page of a multi-page type are continuations, whatever the model
\* called them on their own.
Continues(cs, i) == cs[i].is_continuation /\ Opened(cs, i - 1)

\* A group takes the pages from its first one up to the next group's.  It is
\* held, alone on its page and with a reason, exactly when its first page is
\* "other" or was rated low, and a passport is one page.
GroupFollows(cs, g, next) ==
  LET first == g.pages[1]
      c == cs[first] IN
  /\ first < next
  /\ g.pages = [j \in 1 .. (next - first) |-> first + j - 1]
  /\ g.type = c.doc_type
  /\ g.status = "held" <=> c.doc_type = Other \/ c.confidence = "low"
  /\ g.status = "held" <=> g.held_reason # NoReason
  /\ g.status = "held" \/ g.type = Passport => Len(g.pages) = 1

\* Where the group after gs[k] starts, or what comes after page n.
NextFirst(gs, k, n) == IF k = Len(gs) THEN n + 1 ELSE gs[k + 1].pages[1]

\* The groups of the first n pages start where the rule says, and each follows
\* it, so that no page is dropped or extracted twice.
GroupsFollow(cs, gs, n) ==
  /\ {gs[k].pages[1] : k \in DOMAIN gs} = {i \in 1 .. n : ~Continues(cs, i)}
  /\ \A k \in DOMAIN gs : GroupFollows(cs, gs[k], NextFirst(gs, k, n))

FollowsTheRule(cs) == GroupsFollow(cs, GroupPages(cs), Len(cs))
=============================================================================
