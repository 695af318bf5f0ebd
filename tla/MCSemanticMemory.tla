---------------------------- MODULE MCSemanticMemory ----------------------------
(***************************************************************************)
(* Instance of SemanticMemory for TLC.                                     *)
(***************************************************************************)
EXTENDS SemanticMemory, TLC

CONSTANTS r1, r2, p, close, alike, apart

RunSymmetry == Permutations(Runs)

OneProcess == [r \in Runs |-> p]

\* `close` and `alike` are about the query, equally so; `apart` is not.
Similarities == (close :> 80) @@ (alike :> 80) @@ (apart :> 10)
NamedFirst == (close :> 0) @@ (alike :> 1) @@ (apart :> 2)

Fact(vol, born) == [vol |-> vol, born |-> born]

\* An empty Qdrant; facts of every age, one of them from a clock ahead; a
\* value nobody knows.
Collections ==
  {Empty,
   (close :> Fact("semi_stable", -2)) @@ (alike :> Fact("stable", -2)) @@ (apart :> Fact("volatile", 1)),
   (close :> Fact("odd", 0)) @@ (alike :> Fact("volatile", 1))}

Item(id, source, strong) == [id |-> id, source |-> source, strong |-> strong]
SomeFindings ==
  {{Item(close, "corpus", TRUE), Item(apart, "corpus", FALSE)},
   {Item(apart, "model", TRUE), Item(alike, "web", TRUE)}}
================================================================================
