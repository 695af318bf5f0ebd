---------------------------- MODULE LongTermMemory ----------------------------
(***************************************************************************)
(* What the memory of the agent promises across runs: a fact enters it, or *)
(* becomes fresh again, only because retrieval found it; recalling a fact  *)
(* leaves no trace; and a fact is dropped one by one only when it had      *)
(* faded, unless everything is.                                            *)
(***************************************************************************)
EXTENDS MemoryDecay

CONSTANTS
  Contents,
  Threshold,   \* the decay factor below which a fact has faded
  Beginnings   \* memories an earlier deployment may have left

VARIABLES
  facts,    \* what is remembered: content |-> [vol, born]
  grounds,  \* what retrieval has found so far
  marked,   \* what has been found faded and may be dropped
  day

Nothing == [c \in {} |-> [vol |-> "stable", born |-> 0]]

Faded(fact, when) == DecayFactor(when - fact.born, fact.vol) < Threshold

Init == facts \in Beginnings /\ grounds = {} /\ marked = {} /\ day = 0

Find(S) ==
  /\ grounds' = grounds \cup S
  /\ UNCHANGED <<facts, marked, day>>

Remember(S) ==
  /\ S \subseteq grounds
  /\ facts' = [c \in DOMAIN facts \cup S |->
                 IF c \in S THEN [vol |-> "semi_stable", born |-> day] ELSE facts[c]]
  /\ UNCHANGED <<grounds, marked, day>>

Mark(S) ==
  /\ \A c \in S : c \in DOMAIN facts /\ Faded(facts[c], day)
  /\ marked' = S
  /\ UNCHANGED <<facts, grounds, day>>

Forget ==
  /\ \/ facts' = [c \in DOMAIN facts \ marked |-> facts[c]]
     \/ facts' = facts
  /\ marked' = {}
  /\ UNCHANGED <<grounds, day>>

Wipe == facts' = Nothing /\ UNCHANGED <<grounds, marked, day>>

Pass == day' = day + 1 /\ UNCHANGED <<facts, grounds, marked>>

Next ==
  \/ \E S \in SUBSET Contents : Find(S) \/ Remember(S) \/ Mark(S)
  \/ Forget \/ Wipe \/ Pass

Spec == Init /\ [][Next]_<<facts, grounds, marked, day>>
================================================================================
