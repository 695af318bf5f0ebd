---------------------------- MODULE MCResearchGraph ----------------------------
(***************************************************************************)
(* Instances of ResearchGraph for TLC.                                     *)
(***************************************************************************)
EXTENDS ResearchGraph, TLC

CONSTANTS g1, g2, q1, q2

GoalSymmetry == Permutations({g1, g2})

OneGoal    == {g1}
TwoGoals   == {g1, g2}
OneQuery   == {q1}
TwoQueries == {q1, q2}

\* "weak" fails the evidence gate, "corpus" passes it and grounds its goal.
TwoGrades == {"weak", "corpus"}
================================================================================
