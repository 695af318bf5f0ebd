------------------------------ MODULE PromptBudget ------------------------------
(***************************************************************************)
(* What of a run's evidence and of its critique notes one prompt carries:  *)
(* guardrails/dedup.py, then prompts/budget.py.                            *)
(*                                                                         *)
(* An item is [goal, recalled, source, score, url, content]: a recalled    *)
(* item's goal id is the one of the earlier run that stored it, under the  *)
(* "memory::" namespace, and never a goal of this run.  A content is a     *)
(* record [terms, figs, flagged, size]; two contents are the same bytes    *)
(* iff they are the same record.  A note is a record with a size.          *)
(*                                                                         *)
(* A list that was filtered is a function of the places that are left.     *)
(***************************************************************************)
EXTENDS Integers, Sequences, SequencesExt

CONSTANTS
  PromptMax,   \* prompt_evidence_max_chars; 0 disables the budget
  MaxNotes,    \* the two bounds of budget_notes
  MaxNoteChars

ASSUME PromptAssumption == {PromptMax, MaxNotes, MaxNoteChars} \subseteq Nat

SourceRank == [corpus |-> 0, mcp |-> 0, web |-> 1, model |-> 2, memory |-> 3]

\* The first n of these sizes, summed up.
Total(sizes, n) ==
  LET upto[k \in 0..n] == IF k = 0 THEN 0 ELSE upto[k - 1] + sizes[k]
  IN upto[n]

Identity(item) == <<item.recalled, item.goal, item.content>>

\* Byte-identical evidence of one goal collapses: the earliest of the best
\* scores takes the place of the first.
DedupeEvidence(items) ==
  LET Same(i) == {j \in DOMAIN items : Identity(items[j]) = Identity(items[i])}
      Best(i) == {j \in Same(i) : \A k \in Same(i) : items[k].score <= items[j].score}
  IN [i \in {n \in DOMAIN items : n = Min(Same(n))} |-> items[Min(Best(i))]]

Cost(item) == item.content.size

CostOf(items, places) ==
  LET last == Max({0} \cup DOMAIN items)
  IN Total([n \in 1..last |-> IF n \in places THEN Cost(items[n]) ELSE 0], last)

\* Mutant: every remembered pseudo-goal is a bucket of its own (D-142).
BucketPerMemory(item) == <<item.recalled, item.goal>>

\* Recall shares one bucket.
Bucket(item) == IF item.recalled THEN <<TRUE>> ELSE <<FALSE, item.goal>>

\* Goals in their own order, then the other buckets as they first appear.
BucketOrder(items, goals, i) ==
  LET named == {n \in DOMAIN goals : ~items[i].recalled /\ goals[n] = items[i].goal}
      peers == {j \in DOMAIN items : Bucket(items[j]) = Bucket(items[i])}
  IN IF named # {} THEN Min(named) ELSE Len(goals) + Min(peers)

\* Within a bucket: score, then provenance, then first seen.
Ahead(items, i, j) ==
  \/ items[i].score > items[j].score
  \/ /\ items[i].score = items[j].score
     /\ \/ SourceRank[items[i].source] < SourceRank[items[j].source]
        \/ SourceRank[items[i].source] = SourceRank[items[j].source] /\ i < j

Lap(items, i) ==
  Cardinality({j \in DOMAIN items : Bucket(items[j]) = Bucket(items[i])
                                    /\ Ahead(items, j, i)})

\* Round-robin: everyone's best item, then everyone's second, and so on.
Turn(items, goals) ==
  LET seat == [i \in DOMAIN items |-> [lap    |-> Lap(items, i),
                                       bucket |-> BucketOrder(items, goals, i)]]
      Before(i, j) == \/ seat[i].lap < seat[j].lap
                      \/ seat[i].lap = seat[j].lap /\ seat[i].bucket < seat[j].bucket
  IN [i \in DOMAIN seat |-> Cardinality({j \in DOMAIN seat : Before(j, i)})]

\* An item that does not fit is passed over and the walk goes on.
Walk(items, goals) ==
  LET turn == Turn(items, goals)
      Fits(kept, i) == CostOf(items, kept) + Cost(items[i]) <= PromptMax
      walk[n \in 0..Cardinality(DOMAIN items)] ==
        IF n = 0 THEN {}
        ELSE LET kept == walk[n - 1]
             IN kept \cup {i \in DOMAIN turn : turn[i] = n - 1 /\ Fits(kept, i)}
  IN walk[Cardinality(DOMAIN items)]

BudgetEvidence(items, goals) ==
  IF PromptMax = 0 \/ CostOf(items, DOMAIN items) <= PromptMax
  THEN items ELSE Restrict(items, Walk(items, goals))

\* What the compiler and the critic are both shown.
PromptEvidence(evidence, goals) == BudgetEvidence(DedupeEvidence(evidence), goals)

Newest(notes, n) == SubSeq(notes, Len(notes) - n + 1, Len(notes))

NotesFit(notes, n) ==
  /\ n <= MaxNotes
  /\ Total([k \in 1..n |-> Newest(notes, n)[k].size], n) <= MaxNoteChars

\* Mutant: the oldest notes that fit.
BudgetNotesOldest(notes) ==
  SubSeq(notes, 1, Max({n \in 0..Len(notes) : NotesFit(notes, n)}))

\* The newest notes that fit, up to the first that does not.
BudgetNotes(notes) ==
  Newest(notes, Max({n \in 0..Len(notes) : NotesFit(notes, n)}))
=================================================================================
