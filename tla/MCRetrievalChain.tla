---------------------------- MODULE MCRetrievalChain ----------------------------
(***************************************************************************)
(* Instance of RetrievalChain for TLC.                                     *)
(***************************************************************************)
EXTENDS RetrievalChain, TLC

CONSTANTS w1, w2, on, near, far, a1, a2, b1, sure, vague

WorkerSymmetry == Permutations(Workers)

\* `on` is about the query; `near` only looks like it; `far` shares a word.
\* The short form of the query brings nothing closer.
CloseDocs == [text \in {"query", "short"} |-> {on, near}]
Words == (on :> 3) @@ (near :> 1) @@ (far :> 1)
         @@ (a1 :> 3) @@ (a2 :> 1) @@ (b1 :> 1)
         @@ (sure :> 3) @@ (vague :> 3)
Confidences == (sure :> 100) @@ (vague :> 70)
Sites == (a1 :> "a") @@ (a2 :> "a") @@ (b1 :> "b")

\* A long query, and one of a single term that cannot be shortened.
TwoTasks == {[terms |-> 12, short |-> 6], [terms |-> 1, short |-> NoShort]}

SomeRankings == {<<>>, <<far>>, <<near, on>>, <<far, near, far>>}
SomePages == {<<a2, b1>>, <<a2, a2, b1, Junk, a1>>}

AllTiers == [tiers |-> Optional, reformulate |-> TRUE, dense |-> TRUE, keyword |-> TRUE]
CorpusOnly == [tiers |-> {}, reformulate |-> FALSE, dense |-> FALSE, keyword |-> TRUE]
TwoSetups == {AllTiers, CorpusOnly}
=================================================================================
