-------------------------- MODULE ResearchGraph_proofs --------------------------
(***************************************************************************)
(* Proofs about ResearchGraph, for every plan, every setting and every     *)
(* answer of models and reviewers: one lemma per node handler shows that   *)
(* it preserves the conjunction Inductive, the safety properties follow    *)
(* from it, and the refinement of ResearchRun and the review of a          *)
(* shortfall are shown relative to it.                                     *)
(***************************************************************************)
EXTENDS ResearchGraph, FiniteSetTheorems, TLAPS

USE SettingsAssumption
USE DEF vars, planVars, searchVars, scoreVars, reviewVars, answerVars, reportVars

\* The backlogs cap_and_filter returns hold tasks of the asked depth only, each
\* of them eligible.
LEMMA CapAndFilterFacts ==
  ASSUME TypeOK, NEW depth \in Nat, NEW proposed \in SUBSET Key,
         NEW backlog \in CapAndFilter(proposed, depth)
  PROVE  /\ backlog \subseteq SearchTask
         /\ \A task \in backlog : Eligible(task.key, depth) /\ task.depth = depth
<1>1. PICK chosen \in SUBSET {key \in proposed : Eligible(key, depth)} :
         backlog = [key : chosen, depth : {depth}]
  BY DEF CapAndFilter
<1>2. QED
  BY <1>1 DEF SearchTask

\* The step budget and what is left of it are natural numbers.
LEMMA BudgetsAreNaturals ==
  ASSUME TypeOK
  PROVE  RoundsLeft \in Nat /\ LapsLeft \in Nat /\ StepBound \in Nat
  BY DEF TypeOK, RoundsLeft, LapsLeft, StepBound, Larger

\* classify_node only moves on.
LEMMA ClassifyStep == Inductive /\ Classify => Inductive'
<1> SUFFICES ASSUME Inductive, Classify PROVE Inductive'
  OBVIOUS
<1> USE DEF Classify, Goto, Inductive
<1>1. TypeOK'
  BY DEF TypeOK, Nodes, Ended
<1>2. PlanInv'
  BY DEF PlanInv, Planning, Gathering, Nodes
<1>3. SearchInv'
  BY DEF SearchInv
<1>4. EscalationReachesReviewer' /\ GuidanceIsNotStale'
  BY DEF EscalationReachesReviewer, GuidanceIsNotStale
<1>5. ReportInv'
  BY DEF ReportInv, Planning, Gathering
<1>6. TerminationBounds' /\ BudgetInv'
  BY DEF TerminationBounds, BudgetInv, Planning, Gathering, Writing
<1>7. StepInv'
  BY DEF StepInv, Within, RoundsLeft, LapsLeft, Nodes, TypeOK, Larger
<1>8. QED
  BY <1>1, <1>2, <1>3, <1>4, <1>5, <1>6, <1>7

\* memory_retrieve_node touches no goal.
LEMMA MemoryRetrieveStep == Inductive /\ MemoryRetrieve => Inductive'
<1> SUFFICES ASSUME Inductive, MemoryRetrieve PROVE Inductive'
  OBVIOUS
<1> USE DEF MemoryRetrieve, Goto, Inductive
<1>1. TypeOK'
  BY DEF TypeOK, Nodes, Ended
<1>2. PlanInv'
  BY DEF PlanInv, Planning, Gathering, Nodes
<1>3. SearchInv'
  BY DEF SearchInv
<1>4. EscalationReachesReviewer' /\ GuidanceIsNotStale'
  BY DEF EscalationReachesReviewer, GuidanceIsNotStale
<1>5. ReportInv'
  BY DEF ReportInv, Planning, Gathering
<1>6. TerminationBounds' /\ BudgetInv'
  BY DEF TerminationBounds, BudgetInv, Planning, Gathering, Writing
<1>7. StepInv'
  BY DEF StepInv, Within, RoundsLeft, LapsLeft, Nodes, TypeOK, Larger
<1>8. QED
  BY <1>1, <1>2, <1>3, <1>4, <1>5, <1>6, <1>7

\* A plan is composed, or planning_error is set and E1 raised or logged.
LEMMA GoalManagerStep == Inductive /\ GoalManager => Inductive'
<1> SUFFICES ASSUME Inductive, GoalManager PROVE Inductive'
  OBVIOUS
<1> USE DEF Inductive
<1>0. /\ pc = "goal_manager" /\ steps' = steps + 1
      /\ pc' \in {"human_escalation", "compiler", "task_expander"}
      /\ UNCHANGED <<iteration_depth, revision_count, escalation_history>>
  BY DEF GoalManager, Goto, RouteAfterGoals, Nodes
<1>a. /\ escalation_trigger = "none" /\ ~escalation_started_at
      /\ ~planning_error /\ ~abort_reason /\ ~memory_written
      /\ pending_tasks = {} /\ running = {} /\ dispatched = {}
      /\ iteration_depth = 0
  BY <1>0 DEF EscalationReachesReviewer, PlanInv, Planning, ReportInv
<1>c. \/ /\ goals' = {} /\ planning_error' = TRUE
         /\ escalation_trigger' = "E1" /\ escalation_started_at' = TRUE
         /\ EscalationAllowed /\ pc' = "human_escalation"
      \/ /\ goals' = {} /\ planning_error' = TRUE
         /\ escalation_trigger' = "none" /\ escalation_started_at' = FALSE
         /\ pc' = "compiler"
      \/ /\ goals' # {} /\ goals' \subseteq Goals /\ planning_error' = FALSE
         /\ escalation_trigger' = "none" /\ escalation_started_at' = FALSE
         /\ pc' = "task_expander"
  BY <1>a DEF GoalManager, Goto, RouteAfterGoals, RaiseOrLog
<1>t. /\ planning_error' \in BOOLEAN /\ escalation_started_at' \in BOOLEAN
      /\ human_guidance' \in BOOLEAN
  BY <1>c, Zenon DEF GoalManager
<1>b. RoundsLeft' = RoundsLeft /\ LapsLeft' = LapsLeft /\ StepBound' = StepBound
  BY <1>0 DEF RoundsLeft, LapsLeft, StepBound
<1>n. steps \in Nat /\ RoundsLeft \in Nat /\ LapsLeft \in Nat /\ StepBound \in Nat
  BY BudgetsAreNaturals DEF TypeOK
<1>1. TypeOK'
  BY <1>0, <1>a, <1>c, <1>t DEF GoalManager, TypeOK, Nodes, Triggers
<1>2. PlanInv'
  BY <1>0, <1>a, <1>c DEF GoalManager, PlanInv, Planning, Gathering
<1>3. SearchInv'
  BY <1>0, <1>a DEF GoalManager, SearchInv
<1>4. EscalationReachesReviewer' /\ GuidanceIsNotStale'
  BY <1>c DEF GoalManager, EscalationReachesReviewer, GuidanceIsNotStale
<1>5. ReportInv'
  BY <1>0, <1>a, <1>c DEF GoalManager, ReportInv, PlanInv, Planning, Gathering
<1>6. TerminationBounds' /\ BudgetInv'
  BY <1>0, <1>a, <1>c DEF TerminationBounds, BudgetInv, Planning, Gathering,
     Writing, EscalationAllowed, TypeOK
<1>7. StepInv'
  BY <1>0, <1>b, <1>n DEF StepInv, Within
<1>8. QED
  BY <1>1, <1>2, <1>3, <1>4, <1>5, <1>6, <1>7

\* The first backlog refers to the new plan and is fanned out.
LEMMA TaskExpanderStep == Inductive /\ TaskExpander => Inductive'
<1> SUFFICES ASSUME Inductive, TaskExpander PROVE Inductive'
  OBVIOUS
<1> USE DEF Inductive
<1>0. /\ pc = "task_expander" /\ steps' = steps + 1
      /\ pc' \in {"human_escalation", "compiler", "search_worker"}
      /\ UNCHANGED <<iteration_depth, revision_count, escalation_history>>
  BY DEF TaskExpander, FanOut, Goto, DispatchTasks, Nodes
<1>a. /\ pending_tasks' \subseteq SearchTask
      /\ \A task \in pending_tasks' :
           Eligible(task.key, 0) /\ task.depth = 0
  BY CapAndFilterFacts DEF TaskExpander, TypeOK
<1>c. \A task \in pending_tasks' : task.key.goal \in goals /\ goals' = goals
  BY <1>0, <1>a DEF TaskExpander, Eligible, PlanInv, Planning, Gathering
<1>b. RoundsLeft' = RoundsLeft /\ LapsLeft' = LapsLeft /\ StepBound' = StepBound
  BY <1>0 DEF RoundsLeft, LapsLeft, StepBound
<1>n. steps \in Nat /\ RoundsLeft \in Nat /\ LapsLeft \in Nat /\ StepBound \in Nat
  BY BudgetsAreNaturals DEF TypeOK
<1>1. TypeOK'
  BY <1>0, <1>a, <1>c DEF TaskExpander, FanOut, TypeOK, Nodes
<1>2. PlanInv'
  BY <1>0 DEF TaskExpander, PlanInv, Planning, Gathering, FanOut, TypeOK
<1>3. SearchInv'
  BY <1>0, <1>a DEF TaskExpander, FanOut, SearchInv, Eligible, SearchTask,
     TypeOK
<1>4. EscalationReachesReviewer' /\ GuidanceIsNotStale'
  BY <1>0 DEF TaskExpander, FanOut, Goto, DispatchTasks, TypeOK,
     EscalationReachesReviewer, GuidanceIsNotStale
<1>5. ReportInv'
  BY <1>0 DEF TaskExpander, ReportInv, PlanInv, Planning, Gathering
<1>6. TerminationBounds' /\ BudgetInv'
  BY <1>0 DEF TaskExpander, TerminationBounds, BudgetInv, Planning, Gathering,
     Writing, TypeOK
<1>7. StepInv'
  BY <1>0, <1>b, <1>n DEF StepInv, Within
<1>8. QED
  BY <1>1, <1>2, <1>3, <1>4, <1>5, <1>6, <1>7

\* A worker that reports a result settles its task as completed.
LEMMA SearchSucceedsStep ==
  ASSUME Inductive, NEW task \in running, SearchSucceeds(task)
  PROVE  Inductive'
<1> USE DEF SearchSucceeds, WorkerReports, Goto, Inductive
<1>1. TypeOK'
  BY DEF TypeOK, Nodes, Ended, SearchTask, Key, Larger
<1>2. PlanInv'
  BY DEF PlanInv, Planning, Gathering, Nodes, TypeOK
<1>3. SearchInv'
  BY DEF SearchInv, TypeOK, SearchTask, Larger
<1>4. EscalationReachesReviewer' /\ GuidanceIsNotStale'
  BY DEF EscalationReachesReviewer, GuidanceIsNotStale
<1>5. ReportInv'
  BY DEF ReportInv, Planning, Gathering
<1>6. TerminationBounds' /\ BudgetInv'
  BY DEF TerminationBounds, BudgetInv, Planning, Gathering, Writing
<1>7. StepInv'
  BY DEF StepInv, Within, RoundsLeft, LapsLeft, Nodes, TypeOK, Larger
<1>8. QED
  BY <1>1, <1>2, <1>3, <1>4, <1>5, <1>6, <1>7

\* A worker that reports a failure settles its task at its depth.
LEMMA SearchFailsStep ==
  ASSUME Inductive, NEW task \in running, SearchFails(task)
  PROVE  Inductive'
<1> USE DEF Inductive
<1>a. /\ pc = "search_worker"
      /\ \/ pc' = pc /\ steps' = steps
         \/ pc' = "merger" /\ steps' = steps + 1
      /\ task \in pending_tasks /\ task.key \in Key /\ task.depth \in Nat
  BY DEF SearchFails, WorkerReports, Goto, Nodes, TypeOK, SearchTask
<1>b. failed_task_keys' \in [Key -> Nat \cup {-1}]
  BY <1>a DEF SearchFails, TypeOK, Larger
<1>c. RoundsLeft' = RoundsLeft /\ LapsLeft' = LapsLeft /\ StepBound' = StepBound
  BY DEF SearchFails, WorkerReports, RoundsLeft, LapsLeft, StepBound
<1>n. steps \in Nat /\ RoundsLeft \in Nat /\ LapsLeft \in Nat /\ StepBound \in Nat
  BY BudgetsAreNaturals DEF TypeOK
<1>1. TypeOK'
  BY <1>a, <1>b DEF SearchFails, WorkerReports, TypeOK, Nodes
<1>2. PlanInv'
  BY <1>a DEF SearchFails, WorkerReports, PlanInv, Planning, Gathering
<1>3. SearchInv'
  BY <1>a DEF SearchFails, WorkerReports, SearchInv, TypeOK, SearchTask, Larger
<1>4. EscalationReachesReviewer' /\ GuidanceIsNotStale'
  BY <1>a DEF SearchFails, WorkerReports, EscalationReachesReviewer,
     GuidanceIsNotStale
<1>5. ReportInv'
  BY <1>a DEF SearchFails, WorkerReports, ReportInv, Planning, Gathering
<1>6. TerminationBounds' /\ BudgetInv'
  BY <1>a DEF SearchFails, WorkerReports, TerminationBounds, BudgetInv,
     Planning,
     Gathering, Writing
<1>7. StepInv'
  BY <1>a, <1>c, <1>n DEF StepInv, Within
<1>8. QED
  BY <1>1, <1>2, <1>3, <1>4, <1>5, <1>6, <1>7

\* The merger rewrites the contested flags of the plan.
LEMMA MergerStep == Inductive /\ Merger => Inductive'
<1> SUFFICES ASSUME Inductive, Merger PROVE Inductive'
  OBVIOUS
<1> USE DEF Merger, Goto, Inductive
<1>1. TypeOK'
  BY DEF TypeOK, Nodes, Ended
<1>2. PlanInv'
  BY DEF PlanInv, Planning, Gathering, Nodes
<1>3. SearchInv'
  BY DEF SearchInv
<1>4. EscalationReachesReviewer' /\ GuidanceIsNotStale'
  BY DEF EscalationReachesReviewer, GuidanceIsNotStale
<1>5. ReportInv'
  BY DEF ReportInv, Planning, Gathering
<1>6. TerminationBounds' /\ BudgetInv'
  BY DEF TerminationBounds, BudgetInv, Planning, Gathering, Writing
<1>7. StepInv'
  BY DEF StepInv, Within, RoundsLeft, LapsLeft, Nodes, TypeOK, Larger
<1>8. QED
  BY <1>1, <1>2, <1>3, <1>4, <1>5, <1>6, <1>7

\* A lap is counted and either escalates, writes, or has budget to go on.
LEMMA ProgressCheckerStep == Inductive /\ ProgressChecker => Inductive'
<1> SUFFICES ASSUME Inductive, ProgressChecker PROVE Inductive'
  OBVIOUS
<1> USE DEF Inductive
<1>0. /\ pc = "progress_checker" /\ steps' = steps + 1
      /\ iteration_depth' = iteration_depth + 1
      /\ UNCHANGED <<revision_count, escalation_history, goals, planning_error>>
      /\ pc' \in {"human_escalation", "compiler", "gap_generator"}
      /\ pc' = "gap_generator" => iteration_depth' < MaxDepth
  BY DEF ProgressChecker, Goto, RouteConvergence, Nodes, TypeOK
<1>a. /\ escalation_trigger = "none" /\ escalation_started_at = FALSE
      /\ ~planning_error /\ goals # {} /\ ~abort_reason /\ ~memory_written
      /\ running = {}
  BY <1>0 DEF EscalationReachesReviewer, PlanInv, Planning, Gathering,
     ReportInv, SearchInv
<1>c. \/ /\ escalation_trigger' \in {"E2", "E3"} /\ escalation_started_at' = TRUE
         /\ EscalationAllowed /\ pc' = "human_escalation"
      \/ /\ escalation_trigger' = "none" /\ escalation_started_at' = FALSE
         /\ pc' \in {"compiler", "gap_generator"}
  BY <1>a DEF ProgressChecker, Goto, RouteConvergence, RaiseOrLog,
     ConvergenceTrigger
<1>d. grounded_score' \in Nat
  <2> DEFINE grounded == {g \in goals : /\ HasQualityEvidence(g) /\ g \notin contested
                                       /\ HasGroundedEvidence(g)}
  <2>1. grounded \in SUBSET Goals
    BY DEF TypeOK
  <2>2. QED
    BY <2>1, FS_Subset, FS_CardinalityType DEF ProgressChecker
<1>e. escalation_started_at' \in BOOLEAN
  BY <1>c, Zenon
<1>f. /\ StepBound \in Nat /\ StepBound' = StepBound
      /\ RoundsLeft \in Nat /\ RoundsLeft' = RoundsLeft
  BY <1>0, BudgetsAreNaturals DEF RoundsLeft, StepBound
<1>g. steps \in Nat /\ LapsLeft \in Nat
      /\ (pc' = "gap_generator" => LapsLeft' = LapsLeft - 4)
  BY <1>0 DEF LapsLeft, Larger, TypeOK
<1>1. TypeOK'
  BY <1>0, <1>a, <1>c, <1>d, <1>e DEF ProgressChecker, CheckRunBudget, TypeOK,
     Nodes, Triggers
<1>2. PlanInv'
  BY <1>0, <1>a, <1>c DEF ProgressChecker, PlanInv, Planning, Gathering
<1>3. SearchInv'
  BY <1>0, <1>a DEF ProgressChecker, SearchInv
<1>4. EscalationReachesReviewer' /\ GuidanceIsNotStale'
  BY <1>0, <1>c DEF ProgressChecker, EscalationReachesReviewer,
     GuidanceIsNotStale
<1>5. ReportInv'
  BY <1>0, <1>a, <1>c DEF ProgressChecker, ReportInv, Planning, Gathering
<1>6. TerminationBounds' /\ BudgetInv'
  BY <1>0, <1>a, <1>c DEF TerminationBounds, BudgetInv, EscalationAllowed,
     Planning, Gathering, Writing, TypeOK
<1>7. StepInv'
  BY <1>0, <1>f, <1>g DEF StepInv, Within
<1>8. QED
  BY <1>1, <1>2, <1>3, <1>4, <1>5, <1>6, <1>7

\* The gap generator gives the uncovered goals up.
LEMMA GapsGivenUpStep == Inductive /\ GapsGivenUp => Inductive'
<1> SUFFICES ASSUME Inductive, GapsGivenUp PROVE Inductive'
  OBVIOUS
<1> USE DEF Inductive
<1>0. /\ pc = "gap_generator" /\ steps' = steps + 1
      /\ pc' \in {"human_escalation", "compiler", "search_worker"}
      /\ UNCHANGED <<iteration_depth, revision_count, escalation_history>>
  BY DEF GapsGivenUp, GapGenerator, FanOut, Goto, DispatchTasks, Nodes
<1>d. /\ escalation_trigger = "none" /\ ~escalation_started_at
      /\ ~planning_error /\ goals # {} /\ ~abort_reason /\ ~memory_written
      /\ running = {}
  BY <1>0 DEF EscalationReachesReviewer, PlanInv, Planning, Gathering,
     ReportInv, SearchInv
<1>e. \/ /\ escalation_trigger' \in {"E2", "E3"} /\ escalation_started_at' = TRUE
         /\ EscalationAllowed /\ pc' = "human_escalation" /\ running' = {}
      \/ /\ escalation_trigger' = "none" /\ escalation_started_at' = FALSE
         /\ pc' \in {"compiler", "search_worker"}
         /\ running' = IF pc' = "search_worker" THEN pending_tasks' ELSE {}
  BY <1>d DEF GapsGivenUp, GapGenerator, FanOut, Goto, DispatchTasks,
     RaiseOrLog, ConvergenceTrigger
<1>t. escalation_started_at' \in BOOLEAN /\ human_guidance' \in BOOLEAN
  BY <1>e, Zenon DEF GapGenerator, GapsGivenUp
<1>b. RoundsLeft' = RoundsLeft /\ LapsLeft' = LapsLeft /\ StepBound' = StepBound
  BY <1>0 DEF RoundsLeft, LapsLeft, StepBound
<1>n. steps \in Nat /\ RoundsLeft \in Nat /\ LapsLeft \in Nat /\ StepBound \in Nat
  BY BudgetsAreNaturals DEF TypeOK
<1>1. TypeOK'
  BY <1>0, <1>d, <1>e, <1>t DEF GapsGivenUp, GapGenerator, FanOut, TypeOK,
     Nodes, Triggers
<1>2. PlanInv'
  BY <1>0, <1>d, <1>e DEF GapsGivenUp, GapGenerator, PlanInv, Planning,
     Gathering
<1>3. SearchInv'
  BY <1>0, <1>d, <1>e DEF GapsGivenUp, GapGenerator, FanOut, SearchInv,
     Eligible, SearchTask, TypeOK
<1>4. EscalationReachesReviewer' /\ GuidanceIsNotStale'
  BY <1>0, <1>d, <1>e DEF GapsGivenUp, GapGenerator,
     EscalationReachesReviewer, GuidanceIsNotStale
<1>5. ReportInv'
  BY <1>0, <1>d, <1>e DEF GapsGivenUp, GapGenerator, ReportInv, Planning,
     Gathering
<1>6. TerminationBounds' /\ BudgetInv'
  BY <1>0, <1>d, <1>e DEF GapsGivenUp, GapGenerator, TerminationBounds,
     BudgetInv, Planning, Gathering,
     Writing, EscalationAllowed, TypeOK
<1>7. StepInv'
  BY <1>0, <1>b, <1>n DEF StepInv, Within
<1>8. QED
  BY <1>1, <1>2, <1>3, <1>4, <1>5, <1>6, <1>7

\* The gap generator finds nothing to target.
LEMMA GapsNothingToTargetStep == Inductive /\ GapsNothingToTarget => Inductive'
<1> SUFFICES ASSUME Inductive, GapsNothingToTarget PROVE Inductive'
  OBVIOUS
<1> USE DEF Inductive
<1>0. /\ pc = "gap_generator" /\ steps' = steps + 1
      /\ pc' \in {"human_escalation", "compiler", "search_worker"}
      /\ UNCHANGED <<iteration_depth, revision_count, escalation_history>>
  BY DEF GapsNothingToTarget, GapGenerator, FanOut, Goto, DispatchTasks, Nodes
<1>d. /\ escalation_trigger = "none" /\ ~escalation_started_at
      /\ ~planning_error /\ goals # {} /\ ~abort_reason /\ ~memory_written
      /\ running = {}
  BY <1>0 DEF EscalationReachesReviewer, PlanInv, Planning, Gathering,
     ReportInv, SearchInv
<1>e. \/ /\ escalation_trigger' \in {"E2", "E3"} /\ escalation_started_at' = TRUE
         /\ EscalationAllowed /\ pc' = "human_escalation" /\ running' = {}
      \/ /\ escalation_trigger' = "none" /\ escalation_started_at' = FALSE
         /\ pc' \in {"compiler", "search_worker"}
         /\ running' = IF pc' = "search_worker" THEN pending_tasks' ELSE {}
  BY <1>d DEF GapsNothingToTarget, GapGenerator, FanOut, Goto, DispatchTasks,
     RaiseOrLog, ConvergenceTrigger
<1>t. escalation_started_at' \in BOOLEAN /\ human_guidance' \in BOOLEAN
  BY <1>e, Zenon DEF GapGenerator, GapsNothingToTarget
<1>b. RoundsLeft' = RoundsLeft /\ LapsLeft' = LapsLeft /\ StepBound' = StepBound
  BY <1>0 DEF RoundsLeft, LapsLeft, StepBound
<1>n. steps \in Nat /\ RoundsLeft \in Nat /\ LapsLeft \in Nat /\ StepBound \in Nat
  BY BudgetsAreNaturals DEF TypeOK
<1>1. TypeOK'
  BY <1>0, <1>d, <1>e, <1>t DEF GapsNothingToTarget, GapGenerator, FanOut,
     TypeOK, Nodes, Triggers
<1>2. PlanInv'
  BY <1>0, <1>d, <1>e DEF GapsNothingToTarget, GapGenerator, PlanInv,
     Planning, Gathering
<1>3. SearchInv'
  BY <1>0, <1>d, <1>e DEF GapsNothingToTarget, GapGenerator, FanOut,
     SearchInv, Eligible, SearchTask, TypeOK
<1>4. EscalationReachesReviewer' /\ GuidanceIsNotStale'
  BY <1>0, <1>d, <1>e DEF GapsNothingToTarget, GapGenerator,
     EscalationReachesReviewer, GuidanceIsNotStale
<1>5. ReportInv'
  BY <1>0, <1>d, <1>e DEF GapsNothingToTarget, GapGenerator, ReportInv,
     Planning, Gathering
<1>6. TerminationBounds' /\ BudgetInv'
  BY <1>0, <1>d, <1>e DEF GapsNothingToTarget, GapGenerator,
     TerminationBounds, BudgetInv, Planning, Gathering,
     Writing, EscalationAllowed, TypeOK
<1>7. StepInv'
  BY <1>0, <1>b, <1>n DEF StepInv, Within
<1>8. QED
  BY <1>1, <1>2, <1>3, <1>4, <1>5, <1>6, <1>7

\* The gap generator fans out a new backlog, or escalates an empty one.
LEMMA GapsProposedStep == Inductive /\ GapsProposed => Inductive'
<1> SUFFICES ASSUME Inductive, GapsProposed PROVE Inductive'
  OBVIOUS
<1> USE DEF Inductive
<1>0. /\ pc = "gap_generator" /\ steps' = steps + 1
      /\ pc' \in {"human_escalation", "compiler", "search_worker"}
      /\ UNCHANGED <<iteration_depth, revision_count, escalation_history>>
  BY DEF GapsProposed, GapGenerator, FanOut, Goto, DispatchTasks, Nodes
<1>a. /\ pending_tasks' \subseteq SearchTask
      /\ \A task \in pending_tasks' :
           Eligible(task.key, iteration_depth) /\ task.depth = iteration_depth
  BY CapAndFilterFacts DEF GapsProposed, GapGenerator, TypeOK
<1>c. \A task \in pending_tasks' : task.key.goal \in goals /\ goals' = goals
  BY <1>0, <1>a DEF GapsProposed, GapGenerator, Eligible, PlanInv, Planning,
     Gathering
<1>d. /\ escalation_trigger = "none" /\ ~escalation_started_at
      /\ ~planning_error /\ goals # {} /\ ~abort_reason /\ ~memory_written
      /\ running = {}
  BY <1>0 DEF EscalationReachesReviewer, PlanInv, Planning, Gathering,
     ReportInv, SearchInv
<1>e. \/ /\ escalation_trigger' \in {"E2", "E3"} /\ escalation_started_at' = TRUE
         /\ EscalationAllowed /\ pc' = "human_escalation" /\ running' = {}
      \/ /\ escalation_trigger' = "none" /\ escalation_started_at' = FALSE
         /\ pc' \in {"compiler", "search_worker"}
         /\ running' = IF pc' = "search_worker" THEN pending_tasks' ELSE {}
  BY <1>d DEF GapsProposed, GapGenerator, FanOut, Goto, DispatchTasks,
     RaiseOrLog, ConvergenceTrigger
<1>t. escalation_started_at' \in BOOLEAN /\ human_guidance' \in BOOLEAN
  BY <1>e, Zenon DEF GapGenerator, GapsProposed
<1>b. RoundsLeft' = RoundsLeft /\ LapsLeft' = LapsLeft /\ StepBound' = StepBound
  BY <1>0 DEF RoundsLeft, LapsLeft, StepBound
<1>n. steps \in Nat /\ RoundsLeft \in Nat /\ LapsLeft \in Nat /\ StepBound \in Nat
  BY BudgetsAreNaturals DEF TypeOK
<1>1. TypeOK'
  BY <1>0, <1>a, <1>c, <1>d, <1>e, <1>t DEF GapsProposed, GapGenerator,
     FanOut, TypeOK, Nodes, Triggers
<1>2. PlanInv'
  BY <1>0, <1>d, <1>e DEF GapsProposed, GapGenerator, PlanInv, Planning,
     Gathering
<1>3. SearchInv'
  BY <1>0, <1>a, <1>d, <1>e DEF GapsProposed, GapGenerator, FanOut, SearchInv,
     Eligible, SearchTask, TypeOK
<1>4. EscalationReachesReviewer' /\ GuidanceIsNotStale'
  BY <1>0, <1>d, <1>e DEF GapsProposed, GapGenerator,
     EscalationReachesReviewer, GuidanceIsNotStale
<1>5. ReportInv'
  BY <1>0, <1>d, <1>e DEF GapsProposed, GapGenerator, ReportInv, Planning,
     Gathering
<1>6. TerminationBounds' /\ BudgetInv'
  BY <1>0, <1>d, <1>e DEF GapsProposed, GapGenerator, TerminationBounds,
     BudgetInv, Planning, Gathering,
     Writing, EscalationAllowed, TypeOK
<1>7. StepInv'
  BY <1>0, <1>b, <1>n DEF StepInv, Within
<1>8. QED
  BY <1>1, <1>2, <1>3, <1>4, <1>5, <1>6, <1>7

\* An abort or a failed plan is written up as such.
LEMMA CompileErrorReportStep == Inductive /\ CompileErrorReport => Inductive'
<1> SUFFICES ASSUME Inductive, CompileErrorReport PROVE Inductive'
  OBVIOUS
<1> USE DEF CompileErrorReport, Compiler, Goto, CheckRunBudget, Inductive
<1>1. TypeOK'
  BY DEF TypeOK, Nodes, Ended
<1>2. PlanInv'
  BY DEF PlanInv, Planning, Gathering, Nodes
<1>3. SearchInv'
  BY DEF SearchInv
<1>4. EscalationReachesReviewer' /\ GuidanceIsNotStale'
  BY DEF EscalationReachesReviewer, GuidanceIsNotStale
<1>5. ReportInv'
  BY DEF ReportInv, Planning, Gathering, PlanInv, EscalationReachesReviewer
<1>6. TerminationBounds' /\ BudgetInv'
  BY DEF TerminationBounds, BudgetInv, Planning, Gathering, Writing
<1>7. StepInv'
  BY DEF StepInv, Within, RoundsLeft, LapsLeft, Nodes, TypeOK, Larger
<1>8. QED
  BY <1>1, <1>2, <1>3, <1>4, <1>5, <1>6, <1>7

\* A report is compiled; the run budget may turn out spent.
LEMMA CompileReportStep == Inductive /\ CompileReport => Inductive'
<1> SUFFICES ASSUME Inductive, CompileReport PROVE Inductive'
  OBVIOUS
<1> USE DEF CompileReport, Compiler, Goto, CheckRunBudget, Inductive
<1>1. TypeOK'
  BY DEF TypeOK, Nodes, Ended
<1>2. PlanInv'
  BY DEF PlanInv, Planning, Gathering, Nodes
<1>3. SearchInv'
  BY DEF SearchInv
<1>4. EscalationReachesReviewer' /\ GuidanceIsNotStale'
  BY DEF EscalationReachesReviewer, GuidanceIsNotStale
<1>5. ReportInv'
  BY DEF ReportInv, Planning, Gathering, PlanInv, EscalationReachesReviewer
<1>6. TerminationBounds' /\ BudgetInv'
  BY DEF TerminationBounds, BudgetInv, Planning, Gathering, Writing
<1>7. StepInv'
  BY DEF StepInv, Within, RoundsLeft, LapsLeft, Nodes, TypeOK, Larger
<1>8. QED
  BY <1>1, <1>2, <1>3, <1>4, <1>5, <1>6, <1>7

\* Error and abort reports go on unjudged.
LEMMA CriticWavesThroughStep == Inductive /\ CriticWavesThrough => Inductive'
<1> SUFFICES ASSUME Inductive, CriticWavesThrough PROVE Inductive'
  OBVIOUS
<1> USE DEF Inductive
<1>0. /\ pc = "critic" /\ steps' = steps + 1
      /\ UNCHANGED <<iteration_depth, escalation_history, goals, planning_error,
                    abort_reason, final_report, memory_written, human_guidance>>
      /\ escalation_trigger = "none" /\ escalation_started_at = FALSE
      /\ ~human_guidance /\ ~memory_written /\ running = {}
  BY DEF CriticWavesThrough, Critic, Goto, RouteAfterCritique,
     EscalationReachesReviewer,
     GuidanceIsNotStale, ReportInv, SearchInv, Nodes
<1>a. pc' = "memory_writer"
  BY <1>0 DEF CriticWavesThrough, Goto, RouteAfterCritique
<1>n. /\ steps \in Nat /\ RoundsLeft \in Nat
      /\ StepBound \in Nat /\ StepBound' = StepBound
  BY BudgetsAreNaturals DEF TypeOK, StepBound
<1>1. TypeOK'
  BY <1>0, <1>a DEF CriticWavesThrough, Critic, TypeOK, Nodes
<1>2. PlanInv'
  BY <1>0, <1>a DEF CriticWavesThrough, Critic, PlanInv, Planning, Gathering
<1>3. SearchInv'
  BY <1>0, <1>a DEF CriticWavesThrough, Critic, SearchInv
<1>4. EscalationReachesReviewer' /\ GuidanceIsNotStale'
  BY <1>0, <1>a DEF CriticWavesThrough, EscalationReachesReviewer,
     GuidanceIsNotStale
<1>5. ReportInv'
  BY <1>0, <1>a DEF CriticWavesThrough, ReportInv, Planning, Gathering
<1>6. TerminationBounds' /\ BudgetInv'
  BY <1>0, <1>a DEF CriticWavesThrough, TerminationBounds, BudgetInv, Planning,
     Gathering, Writing
<1>7. StepInv'
  BY <1>0, <1>a, <1>n DEF StepInv, Within
<1>8. QED
  BY <1>1, <1>2, <1>3, <1>4, <1>5, <1>6, <1>7

\* A judged report passes, is revised, escalates or ships as it is.
LEMMA CriticJudgesStep == Inductive /\ CriticJudges => Inductive'
<1> SUFFICES ASSUME Inductive, CriticJudges PROVE Inductive'
  OBVIOUS
<1> USE DEF Inductive
<1>0. /\ pc = "critic" /\ steps' = steps + 1
      /\ UNCHANGED <<iteration_depth, escalation_history, goals, planning_error,
                    abort_reason, final_report, memory_written, human_guidance>>
      /\ escalation_trigger = "none" /\ escalation_started_at = FALSE
      /\ ~human_guidance /\ ~memory_written /\ running = {}
  BY DEF CriticJudges, Critic, Goto, RouteAfterCritique,
     EscalationReachesReviewer,
     GuidanceIsNotStale, ReportInv, SearchInv, Nodes
<1>a. /\ ~planning_error /\ ~abort_reason
      /\ revision_count' = revision_count + 1
      /\ critique_passed' \in BOOLEAN
      /\ verdict' = IF critique_passed' THEN "pass" ELSE "fail"
  BY DEF CriticJudges
<1>c. \/ /\ pc' = "human_escalation" /\ EscalationAllowed
         /\ escalation_trigger' = "E4" /\ escalation_started_at' = TRUE
      \/ /\ pc' \in {"memory_writer", "telemetry", "compiler"}
         /\ escalation_trigger' = "none" /\ escalation_started_at' = FALSE
         /\ pc' = "memory_writer" => verdict' = "pass"
         /\ pc' = "compiler" => revision_count' < MaxRevisions
  BY <1>0, <1>a DEF CriticJudges, Goto, RouteAfterCritique, RaiseOrLog
<1>e. escalation_started_at' \in BOOLEAN
  BY <1>c, Zenon
<1>g. pc' = "compiler" => RoundsLeft' = RoundsLeft - 2
  BY <1>a, <1>c DEF RoundsLeft, Larger, TypeOK
<1>n. /\ steps \in Nat /\ RoundsLeft \in Nat
      /\ StepBound \in Nat /\ StepBound' = StepBound
  BY BudgetsAreNaturals DEF TypeOK, StepBound
<1>1. TypeOK'
  BY <1>0, <1>a, <1>c, <1>e DEF CriticJudges, Critic, TypeOK, Nodes, Triggers
<1>2. PlanInv'
  BY <1>0, <1>a, <1>c DEF CriticJudges, Critic, PlanInv, Planning, Gathering
<1>3. SearchInv'
  BY <1>0, <1>c DEF CriticJudges, Critic, SearchInv
<1>4. EscalationReachesReviewer' /\ GuidanceIsNotStale'
  BY <1>0, <1>c DEF EscalationReachesReviewer, GuidanceIsNotStale
<1>5. ReportInv'
  BY <1>0, <1>a, <1>c DEF ReportInv, Planning, Gathering
<1>6. TerminationBounds' /\ BudgetInv'
  BY <1>0, <1>a, <1>c DEF TerminationBounds, BudgetInv, EscalationAllowed,
     Planning, Gathering, Writing, Larger, TypeOK
<1>7. StepInv'
  BY <1>0, <1>c, <1>g, <1>n DEF StepInv, Within
<1>8. QED
  BY <1>1, <1>2, <1>3, <1>4, <1>5, <1>6, <1>7

\* Memory is written once, after a report is there.
LEMMA MemoryWriterStep == Inductive /\ MemoryWriter => Inductive'
<1> SUFFICES ASSUME Inductive, MemoryWriter PROVE Inductive'
  OBVIOUS
<1> USE DEF MemoryWriter, Goto, Inductive
<1>1. TypeOK'
  BY DEF TypeOK, Nodes, Ended
<1>2. PlanInv'
  BY DEF PlanInv, Planning, Gathering, Nodes
<1>3. SearchInv'
  BY DEF SearchInv
<1>4. EscalationReachesReviewer' /\ GuidanceIsNotStale'
  BY DEF EscalationReachesReviewer, GuidanceIsNotStale
<1>5. ReportInv'
  BY DEF ReportInv, Planning, Gathering, PlanInv, TypeOK
<1>6. TerminationBounds' /\ BudgetInv'
  BY DEF TerminationBounds, BudgetInv, Planning, Gathering, Writing
<1>7. StepInv'
  BY DEF StepInv, Within, RoundsLeft, LapsLeft, Nodes, TypeOK, Larger
<1>8. QED
  BY <1>1, <1>2, <1>3, <1>4, <1>5, <1>6, <1>7

\* telemetry_node ends the run.
LEMMA TelemetryStep == Inductive /\ Telemetry => Inductive'
<1> SUFFICES ASSUME Inductive, Telemetry PROVE Inductive'
  OBVIOUS
<1> USE DEF Telemetry, Goto, Inductive
<1>1. TypeOK'
  BY DEF TypeOK, Nodes, Ended
<1>2. PlanInv'
  BY DEF PlanInv, Planning, Gathering, Nodes
<1>3. SearchInv'
  BY DEF SearchInv
<1>4. EscalationReachesReviewer' /\ GuidanceIsNotStale'
  BY DEF EscalationReachesReviewer, GuidanceIsNotStale
<1>5. ReportInv'
  BY DEF ReportInv, Planning, Gathering
<1>6. TerminationBounds' /\ BudgetInv'
  BY DEF TerminationBounds, BudgetInv, Planning, Gathering, Writing
<1>7. StepInv'
  BY DEF StepInv, Within, RoundsLeft, LapsLeft, Nodes, TypeOK, Larger
<1>8. QED
  BY <1>1, <1>2, <1>3, <1>4, <1>5, <1>6, <1>7

\* interrupt() parks the run with its trigger set.
LEMMA InterruptStep == Inductive /\ Interrupt => Inductive'
<1> SUFFICES ASSUME Inductive, Interrupt PROVE Inductive'
  OBVIOUS
<1> USE DEF Interrupt, Inductive
<1>1. TypeOK'
  BY DEF TypeOK, Nodes, Ended
<1>2. PlanInv'
  BY DEF PlanInv, Planning, Gathering, Nodes
<1>3. SearchInv'
  BY DEF SearchInv
<1>4. EscalationReachesReviewer' /\ GuidanceIsNotStale'
  BY DEF EscalationReachesReviewer, GuidanceIsNotStale
<1>5. ReportInv'
  BY DEF ReportInv, Planning, Gathering
<1>6. TerminationBounds' /\ BudgetInv'
  BY DEF TerminationBounds, BudgetInv, Planning, Gathering, Writing
<1>7. StepInv'
  BY DEF StepInv, Within, RoundsLeft, LapsLeft, Nodes, TypeOK, Larger
<1>8. QED
  BY <1>1, <1>2, <1>3, <1>4, <1>5, <1>6, <1>7

\* An answer is recorded, clears the trigger and picks the next node.
LEMMA ResumeStep ==
  ASSUME Inductive, NEW action \in Actions, NEW guided \in BOOLEAN,
         Resume(action, guided)
  PROVE  Inductive'
<1> USE DEF Inductive
<1>0. /\ pc = "paused" /\ steps' = 2 /\ running = {}
      /\ ~abort_reason /\ ~memory_written
      /\ escalation_trigger \in {"E1", "E2", "E3", "E4"}
      /\ escalation_trigger' = "none" /\ escalation_started_at' = FALSE
  BY DEF Resume, EscalationReachesReviewer, SearchInv, ReportInv, TypeOK,
     Triggers
<1>a. /\ Len(escalation_history') = Len(escalation_history) + 1
      /\ escalation_history' \in Seq(Escalation)
      /\ Len(escalation_history) < MaxEscalations
      /\ Len(escalation_history) \in Nat
  BY <1>0 DEF Resume, Answered, Escalation, TypeOK, BudgetInv, Triggers
<1>c. /\ planning_error <=> escalation_trigger = "E1"
      /\ planning_error <=> goals = {}
  BY <1>0 DEF PlanInv, Planning
<1>d. \/ /\ escalation_trigger = "E1" /\ pc' = "goal_manager"
         /\ planning_error' = FALSE /\ abort_reason' = FALSE
         /\ human_guidance' \in BOOLEAN
      \/ /\ escalation_trigger # "E1" /\ pc' = "gap_generator"
         /\ planning_error' = FALSE /\ abort_reason' = FALSE
         /\ human_guidance' \in BOOLEAN
      \/ /\ escalation_trigger # "E4" /\ pc' = "compiler"
         /\ planning_error' <=> planning_error
         /\ ~human_guidance'
      \/ /\ escalation_trigger = "E4" /\ pc' = "telemetry"
         /\ planning_error' = FALSE /\ abort_reason' = FALSE
         /\ ~human_guidance'
  <2>1. ~human_guidance
    BY <1>0 DEF GuidanceIsNotStale
  <2>2. CASE action = "redirect"
    BY <1>0, <1>c, <2>2 DEF Resume, ResumeTarget
  <2>3. CASE action # "redirect" /\ escalation_trigger = "E4"
    BY <1>0, <1>c, <2>1, <2>3 DEF Resume, ResumeTarget
  <2>4. CASE action # "redirect" /\ escalation_trigger # "E4"
    BY <1>0, <1>c, <2>1, <2>4 DEF Resume, ResumeTarget
  <2>5. QED
    BY <2>2, <2>3, <2>4
<1>e. /\ human_guidance' \in BOOLEAN /\ abort_reason' \in BOOLEAN
      /\ planning_error' \in BOOLEAN /\ escalation_started_at' \in BOOLEAN
  BY <1>0, Zenon DEF Resume, TypeOK
<1>1. TypeOK'
  BY <1>0, <1>a, <1>d, <1>e DEF Resume, TypeOK, Nodes, Triggers
<1>2. PlanInv'
  BY <1>0, <1>c, <1>d DEF Resume, PlanInv, Planning, Gathering
<1>3. SearchInv'
  BY <1>0, <1>d DEF Resume, SearchInv
<1>4. EscalationReachesReviewer' /\ GuidanceIsNotStale'
  BY <1>0, <1>d DEF EscalationReachesReviewer, GuidanceIsNotStale
<1>5. ReportInv'
  BY <1>0, <1>c, <1>d DEF Resume, ReportInv, PlanInv, Planning, Gathering
<1>6. TerminationBounds' /\ BudgetInv'
  BY <1>0, <1>a, <1>d DEF Resume, TerminationBounds, BudgetInv, Planning,
     Gathering, Writing, Larger, TypeOK
<1>7. StepInv'
  BY <1>0, <1>d DEF Resume, StepInv, Within, StepBound, RoundsLeft, LapsLeft,
     Larger, TypeOK
<1>8. QED
  BY <1>1, <1>2, <1>3, <1>4, <1>5, <1>6, <1>7

\* A handler that raises ends the run where it stands.
LEMMA RunFailsStep == Inductive /\ RunFails => Inductive'
<1> SUFFICES ASSUME Inductive, RunFails PROVE Inductive'
  OBVIOUS
<1> USE DEF RunFails, Inductive
<1>1. TypeOK'
  BY DEF TypeOK, Nodes, Ended
<1>2. PlanInv'
  BY DEF PlanInv, Planning, Gathering, Nodes
<1>3. SearchInv'
  BY DEF SearchInv
<1>4. EscalationReachesReviewer' /\ GuidanceIsNotStale'
  BY DEF EscalationReachesReviewer, GuidanceIsNotStale
<1>5. ReportInv'
  BY DEF ReportInv, Planning, Gathering, Nodes
<1>6. TerminationBounds' /\ BudgetInv'
  BY DEF TerminationBounds, BudgetInv, Planning, Gathering, Writing
<1>7. StepInv'
  BY DEF StepInv, Within, RoundsLeft, LapsLeft, Nodes, TypeOK, Larger
<1>8. QED
  BY <1>1, <1>2, <1>3, <1>4, <1>5, <1>6, <1>7

\* The recursion limit can only bite when it is below StepBound.
LEMMA RunOutOfStepsStep == Inductive /\ RunOutOfSteps => Inductive'
<1> SUFFICES ASSUME Inductive, RunOutOfSteps PROVE Inductive'
  OBVIOUS
<1> USE DEF RunOutOfSteps, Inductive
<1>1. TypeOK'
  BY DEF TypeOK, Nodes, Ended
<1>2. PlanInv'
  BY DEF PlanInv, Planning, Gathering, Nodes
<1>3. SearchInv'
  BY DEF SearchInv
<1>4. EscalationReachesReviewer' /\ GuidanceIsNotStale'
  BY DEF EscalationReachesReviewer, GuidanceIsNotStale
<1>5. ReportInv'
  BY DEF ReportInv, Planning, Gathering, Nodes
<1>6. TerminationBounds' /\ BudgetInv'
  BY DEF TerminationBounds, BudgetInv, Planning, Gathering, Writing
<1>7. StepInv'
  BY BudgetsAreNaturals DEF StepInv, Within, RoundsLeft, LapsLeft, Nodes,
     TypeOK, Larger
<1>8. QED
  BY <1>1, <1>2, <1>3, <1>4, <1>5, <1>6, <1>7

-----------------------------------------------------------------------------
\* The run starts inside the invariant.
LEMMA InitInductive == Init => Inductive
<1> SUFFICES ASSUME Init PROVE Inductive
  OBVIOUS
<1>1. TypeOK
  <2>1. /\ planning_error \in BOOLEAN /\ escalation_started_at \in BOOLEAN
        /\ human_guidance \in BOOLEAN /\ abort_reason \in BOOLEAN
        /\ critique_passed \in BOOLEAN /\ memory_written \in BOOLEAN
    BY Zenon DEF Init
  <2>2. QED
    BY <2>1, FS_CardinalityType DEF Init, TypeOK, Nodes, Triggers
<1>2. PlanInv /\ SearchInv /\ EscalationReachesReviewer /\ GuidanceIsNotStale
  BY DEF Init, PlanInv, SearchInv, EscalationReachesReviewer,
     GuidanceIsNotStale, Planning, Gathering
<1>3. ReportInv
  BY DEF Init, ReportInv, Planning, Gathering
<1>4. TerminationBounds /\ BudgetInv
  BY DEF Init, TerminationBounds, BudgetInv, Planning, Gathering, Writing, Larger
<1>5. StepInv
  BY DEF Init, StepInv, Within, RoundsLeft, LapsLeft, StepBound, Larger
<1>6. QED
  BY <1>1, <1>2, <1>3, <1>4, <1>5 DEF Inductive

\* A stuttering step changes nothing the invariant reads.
LEMMA StutterStep == Inductive /\ UNCHANGED vars => Inductive'
<1> SUFFICES ASSUME Inductive, UNCHANGED vars PROVE Inductive'
  OBVIOUS
<1>1. TypeOK' /\ PlanInv' /\ SearchInv'
  BY DEF Inductive, TypeOK, PlanInv, SearchInv
<1>2. EscalationReachesReviewer' /\ GuidanceIsNotStale' /\ ReportInv'
  BY DEF Inductive, EscalationReachesReviewer, GuidanceIsNotStale, ReportInv
<1>3. TerminationBounds' /\ BudgetInv'
  BY DEF Inductive, TerminationBounds, BudgetInv
<1>4. StepInv'
  BY DEF Inductive, StepInv, Within, RoundsLeft, LapsLeft
<1>5. QED
  BY <1>1, <1>2, <1>3, <1>4 DEF Inductive

\* Every step of the graph, of the reviewer and of a failure keeps it.
LEMMA NextInductive == Inductive /\ [Next]_vars => Inductive'
<1> SUFFICES ASSUME Inductive, [Next]_vars PROVE Inductive'
  OBVIOUS
<1>1. CASE RunNode
  <2>1. CASE Classify
    BY <2>1, ClassifyStep
  <2>2. CASE MemoryRetrieve
    BY <2>2, MemoryRetrieveStep
  <2>3. CASE GoalManager
    BY <2>3, GoalManagerStep
  <2>4. CASE TaskExpander
    BY <2>4, TaskExpanderStep
  <2>5. CASE \E task \in running : SearchSucceeds(task) \/ SearchFails(task)
    BY <2>5, SearchSucceedsStep, SearchFailsStep
  <2>6. CASE Merger
    BY <2>6, MergerStep
  <2>7. CASE ProgressChecker
    BY <2>7, ProgressCheckerStep
  <2>8. CASE GapsGivenUp \/ GapsNothingToTarget \/ GapsProposed
    BY <2>8, GapsGivenUpStep, GapsNothingToTargetStep, GapsProposedStep
  <2>9. CASE CompileErrorReport \/ CompileReport
    BY <2>9, CompileErrorReportStep, CompileReportStep
  <2>10. CASE CriticWavesThrough \/ CriticJudges
    BY <2>10, CriticWavesThroughStep, CriticJudgesStep
  <2>11. CASE MemoryWriter \/ Telemetry \/ Interrupt
    BY <2>11, MemoryWriterStep, TelemetryStep, InterruptStep
  <2>12. QED
    BY <1>1, <2>1, <2>2, <2>3, <2>4, <2>5, <2>6, <2>7, <2>8, <2>9, <2>10, <2>11
       DEF RunNode, Handler
<1>2. CASE HumanAnswers
  BY <1>2, ResumeStep DEF HumanAnswers
<1>3. CASE RunFails \/ RunOutOfSteps
  BY <1>3, RunFailsStep, RunOutOfStepsStep
<1>4. CASE UNCHANGED vars
  BY <1>4, StutterStep
<1>5. QED
  BY <1>1, <1>2, <1>3, <1>4 DEF Next

\* The conjunction of everything below is an invariant of every run.
THEOREM InductiveInvariant == Spec => []Inductive
<1>1. QED
  BY InitInductive, NextInductive, PTL DEF Spec

\* Every field of ResearchState keeps its type, and the backlog and the flags
\* refer only to goals of the plan (state.py, ResearchState).
THEOREM TypeCorrect == Spec => []TypeOK
<1>1. Inductive => TypeOK
  BY DEF Inductive
<1>2. QED
  BY <1>1, InductiveInvariant, PTL

\* Laps, revisions and reviews stay within the settings, one more lap and one
\* more revision for each review (graph.py routing, escalation_allowed).
THEOREM RunsAreBounded == Spec => []TerminationBounds
<1>1. Inductive => TerminationBounds
  BY DEF Inductive
<1>2. QED
  BY <1>1, InductiveInvariant, PTL

\* Under any settings whose recursion limit is at least StepBound, no run is
\* cut off by LangGraph's limit (config.py, recursion_limit).
THEOREM LimitIsBackstop == Spec => []RecursionLimitIsBackstop
<1>1. Inductive => RecursionLimitIsBackstop
  <2> SUFFICES ASSUME Inductive PROVE RecursionLimitIsBackstop
    OBVIOUS
  <2>1. StepBound \in Nat
    BY BudgetsAreNaturals DEF Inductive
  <2>2. QED
    BY <2>1 DEF Inductive, StepInv, RecursionLimitIsBackstop
<1>2. QED
  BY <1>1, InductiveInvariant, PTL

\* A raised trigger is on its way to the reviewer until it is answered, and a
\* run that waits for a reviewer has one to show (escalation.py).
THEOREM TriggersReachReviewer == Spec => []EscalationReachesReviewer
<1>1. Inductive => EscalationReachesReviewer
  BY DEF Inductive
<1>2. QED
  BY <1>1, InductiveInvariant, PTL

\* Redirect guidance is consumed by the node it was given for.
THEOREM GuidanceIsConsumed == Spec => []GuidanceIsNotStale
<1>1. Inductive => GuidanceIsNotStale
  BY DEF Inductive
<1>2. QED
  BY <1>1, InductiveInvariant, PTL

\* A run that reports a failed plan has searched nothing (compiler_node).
THEOREM FailedPlanSearchedNothing == Spec => []PlanningFailureSearchedNothing
<1>1. Inductive => PlanningFailureSearchedNothing
  BY DEF Inductive, PlanInv, ReportInv, PlanningFailureSearchedNothing
<1>2. QED
  BY <1>1, InductiveInvariant, PTL

\* What a finished run ships is the report its outcome calls for.
THEOREM OutcomeMatchesReport == Spec => []ReportShips
<1>1. Inductive => ReportShips
  BY DEF Inductive, ReportInv, ReportShips
<1>2. QED
  BY <1>1, InductiveInvariant, PTL

\* Long-term memory takes a compiled report only after the critic passed it
\* (memory_writer_node, D-24).
THEOREM MemoryIsJudged == Spec => []MemoryHoldsJudgedReports
<1>1. Inductive => MemoryHoldsJudgedReports
  BY DEF Inductive, ReportInv, MemoryHoldsJudgedReports
<1>2. QED
  BY <1>1, InductiveInvariant, PTL

\* With HITL switched off no run ever waits for a reviewer.
THEOREM UnattendedRunsNeverPause == Spec => []UnattendedNeverPauses
<1>1. Inductive => UnattendedNeverPauses
  BY DEF Inductive, BudgetInv, EscalationReachesReviewer, UnattendedNeverPauses
<1>2. QED
  BY <1>1, InductiveInvariant, PTL

\* A step either starts no worker or is a fan-out of the backlog it leaves,
\* with no budget spent.
LEMMA WorkersStartByFanOut ==
  ASSUME Inductive, [Next]_vars
  PROVE  \/ running' \subseteq running
         \/ /\ running = {} /\ budget_exhausted' = "none"
            /\ running' = pending_tasks'
            /\ \A task \in pending_tasks' :
                 Eligible(task.key, task.depth) /\ task \in SearchTask
<1> DEFINE Backlog == \A task \in pending_tasks' :
                        Eligible(task.key, task.depth) /\ task \in SearchTask
<1>1. CASE TaskExpander
  <2>1. Backlog
    BY <1>1, CapAndFilterFacts DEF TaskExpander, Inductive
  <2>2. running = {}
    BY <1>1 DEF TaskExpander, Inductive, SearchInv
  <2>3. QED
    BY <1>1, <2>1, <2>2 DEF TaskExpander, FanOut, Goto, DispatchTasks
<1>2. CASE GapsProposed
  <2>1. Backlog
    BY <1>2, CapAndFilterFacts DEF GapsProposed, GapGenerator, Inductive, TypeOK
  <2>2. running = {}
    BY <1>2 DEF GapsProposed, GapGenerator, Inductive, SearchInv
  <2>3. QED
    BY <1>2, <2>1, <2>2 DEF GapsProposed, GapGenerator, FanOut, Goto, DispatchTasks
<1>3. CASE GapsGivenUp \/ GapsNothingToTarget
  BY <1>3 DEF GapsGivenUp, GapsNothingToTarget, FanOut
<1>4. CASE \E task \in running : SearchSucceeds(task) \/ SearchFails(task)
  BY <1>4 DEF SearchSucceeds, SearchFails, WorkerReports
<1>5. CASE Classify \/ MemoryRetrieve \/ GoalManager \/ Merger \/ ProgressChecker
  BY <1>5 DEF Classify, MemoryRetrieve, GoalManager, Merger, ProgressChecker
<1>6. CASE CompileErrorReport \/ CompileReport \/ CriticWavesThrough \/ CriticJudges
  BY <1>6 DEF CompileErrorReport, CompileReport, Compiler, CriticWavesThrough,
     CriticJudges, Critic
<1>7. CASE MemoryWriter \/ Telemetry \/ Interrupt \/ RunFails \/ RunOutOfSteps
  BY <1>7 DEF MemoryWriter, Telemetry, Interrupt, RunFails, RunOutOfSteps
<1>8. CASE HumanAnswers \/ UNCHANGED vars
  BY <1>8 DEF HumanAnswers, Resume
<1>9. QED
  BY <1>1, <1>2, <1>3, <1>4, <1>5, <1>6, <1>7, <1>8
     DEF Next, RunNode, Handler

\* No key that completed is searched again, and none twice at one depth
\* (cap_and_filter and the merged key fields).
THEOREM SearchesAreFresh == Spec => NoSearchRepeated
<1>1. Inductive /\ [Next]_vars =>
        [\A task \in running' \ running :
            task \notin dispatched /\ task.key \notin completed_task_keys]_vars
  <2> SUFFICES ASSUME Inductive, [Next]_vars, NEW task \in running' \ running
               PROVE  task \notin dispatched /\ task.key \notin completed_task_keys
    OBVIOUS
  <2>1. /\ running = {} /\ Eligible(task.key, task.depth)
        /\ task.key \in Key /\ task.depth \in Nat
    BY WorkersStartByFanOut DEF SearchTask
  <2>2. failed_task_keys[task.key] \in Nat \cup {-1}
    BY <2>1 DEF Inductive, TypeOK
  <2>3. QED
    BY <2>1, <2>2 DEF Inductive, SearchInv, Eligible
<1>2. QED
  BY <1>1, InductiveInvariant, PTL DEF Spec, NoSearchRepeated

\* Once the deadline or the token budget is spent no worker starts
\* (dispatch_tasks, limits.py).
THEOREM SpentBudgetStopsSearch == Spec => NoSearchAfterBudget
<1>1. Inductive /\ [Next]_vars =>
        [budget_exhausted' # "none" => running' \subseteq running]_vars
  BY WorkersStartByFanOut
<1>2. QED
  BY <1>1, InductiveInvariant, PTL DEF Spec, NoSearchAfterBudget

\* What each step of the graph is in the eyes of the run's caller.
LEMMA StepRefinesRun ==
  ASSUME Inductive, [Next]_vars
  PROVE  [Run!Next]_(Run!runVars)
<1> USE DEF Run!runVars
<1>1. CASE Interrupt
  <2>1. /\ RunStatus = "running" /\ RunStatus' = "awaiting_review"
        /\ Len(escalation_history) < ReviewsAllowed /\ ~memory_written
    BY <1>1 DEF Interrupt, RunStatus, ReviewsAllowed, Inductive, BudgetInv,
       ReportInv, EscalationReachesReviewer
  <2>2. UNCHANGED <<escalation_history, HasReport, memory_written>>
    BY <1>1 DEF Interrupt, HasReport
  <2>3. QED
    BY <2>1, <2>2 DEF Run!Next, Run!AskReviewer
<1>2. CASE HumanAnswers
  <2>1. PICK action \in Actions, guided \in BOOLEAN : Resume(action, guided)
    BY <1>2 DEF HumanAnswers
  <2>2. RunStatus = "awaiting_review" /\ RunStatus' = "running"
    BY <2>1 DEF Resume, ResumeTarget, RunStatus
  <2>3. Len(escalation_history') = Len(escalation_history) + 1
    BY <2>1 DEF Resume, Answered, Inductive, TypeOK
  <2>4. UNCHANGED <<HasReport, memory_written>>
    BY <2>1 DEF Resume, HasReport
  <2>5. QED
    BY <2>2, <2>3, <2>4 DEF Run!Next, Run!Answer
<1>3. CASE Telemetry
  <2>1. RunStatus = "running" /\ RunStatus' = "done" /\ HasReport
    BY <1>3 DEF Telemetry, Goto, RunStatus, HasReport, Inductive, ReportInv
  <2>2. UNCHANGED <<escalation_history, HasReport, memory_written>>
    BY <1>3 DEF Telemetry, HasReport
  <2>3. QED
    BY <2>1, <2>2 DEF Run!Next, Run!Finish
<1>4. CASE MemoryWriter
  <2>1. /\ RunStatus = "running" /\ RunStatus' = "running"
        /\ HasReport /\ ~memory_written
    BY <1>4 DEF MemoryWriter, Goto, RunStatus, HasReport, Inductive, ReportInv
  <2>2. UNCHANGED <<escalation_history, HasReport>> /\ memory_written' = TRUE
    BY <1>4 DEF MemoryWriter, HasReport
  <2>3. QED
    BY <2>1, <2>2 DEF Run!Next, Run!Remember
<1>5. CASE CompileErrorReport \/ CompileReport
  <2>1. RunStatus = "running" /\ RunStatus' = "running" /\ ~memory_written
    BY <1>5 DEF CompileErrorReport, CompileReport, Compiler, Goto, RunStatus,
       Inductive, ReportInv
  <2>2. HasReport' /\ UNCHANGED <<escalation_history, memory_written>>
    BY <1>5 DEF CompileErrorReport, CompileReport, Compiler, HasReport
  <2>3. HasReport' = TRUE
    BY <2>2, Zenon DEF HasReport
  <2>4. QED
    BY <2>1, <2>2, <2>3 DEF Run!Next, Run!Work
<1>6. CASE RunFails \/ RunOutOfSteps
  <2>1. RunStatus = "running" /\ RunStatus' = "failed"
    BY <1>6 DEF RunFails, RunOutOfSteps, RunStatus, Nodes
  <2>2. UNCHANGED <<escalation_history, HasReport, memory_written>>
    BY <1>6 DEF RunFails, RunOutOfSteps, HasReport
  <2>3. QED
    BY <2>1, <2>2 DEF Run!Next, Run!Fail
<1>7. CASE Classify \/ MemoryRetrieve \/ GoalManager
  BY <1>7 DEF Classify, MemoryRetrieve, GoalManager, Goto, RouteAfterGoals,
     RunStatus, HasReport
<1>8. CASE TaskExpander \/ GapsGivenUp \/ GapsNothingToTarget \/ GapsProposed
  BY <1>8 DEF TaskExpander, GapsGivenUp, GapsNothingToTarget, GapsProposed,
     GapGenerator, FanOut, DispatchTasks, Goto, RunStatus, HasReport
<1>9. CASE \E task \in running : SearchSucceeds(task) \/ SearchFails(task)
  BY <1>9 DEF SearchSucceeds, SearchFails, WorkerReports, Goto, RunStatus, HasReport
<1>10. CASE Merger \/ ProgressChecker
  BY <1>10 DEF Merger, ProgressChecker, Goto, RouteConvergence, RunStatus, HasReport
<1>11. CASE CriticWavesThrough \/ CriticJudges
  BY <1>11 DEF CriticWavesThrough, CriticJudges, Critic, Goto, RouteAfterCritique,
     RunStatus, HasReport
<1>12. CASE UNCHANGED vars
  BY <1>12 DEF RunStatus, HasReport
<1>13. QED
  BY <1>1, <1>2, <1>3, <1>4, <1>5, <1>6, <1>7, <1>8, <1>9, <1>10, <1>11, <1>12
     DEF Next, RunNode, Handler

\* The workflow keeps the contract its callers rely on: cli.py and
\* api/server.py see a run that works, pauses a bounded number of times, and
\* ends failed or with a report.
THEOREM GraphImplementsRun == Spec => ImplementsRun
<1>1. Init => Run!Init
  BY DEF Init, Run!Init, RunStatus, HasReport
<1>2. Inductive /\ [Next]_vars => [Run!Next]_(Run!runVars)
  BY StepRefinesRun
<1>3. QED
  BY <1>1, <1>2, InductiveInvariant, PTL DEF Spec, ImplementsRun, Run!Spec

-----------------------------------------------------------------------------
\* A run with nothing left to target meets its recall target.
LEMMA CoveredPlanMeetsRecall ==
  ASSUME TypeOK, goals \subseteq covered
  PROVE  RecallMet
<1>1. covered = goals
  BY DEF TypeOK
<1>2. Cardinality(goals) \in Nat
  BY FS_Subset, FS_CardinalityType DEF TypeOK
<1>3. ASSUME NEW n \in Nat PROVE 100 * n >= RecallTarget * n
  OBVIOUS
<1>4. QED
  BY <1>1, <1>2, <1>3 DEF RecallMet

\* Every step keeps a shortfall answered on its way to the report.
LEMMA ShortfallStep ==
  ASSUME Inductive, ShortfallInv, [Next]_vars
  PROVE  ShortfallInv'
<1>1. CASE Classify \/ MemoryRetrieve \/ GoalManager \/ TaskExpander
  <2>1. iteration_depth' = 0
    BY <1>1 DEF Classify, MemoryRetrieve, GoalManager, TaskExpander, Inductive,
       PlanInv, Planning
  <2>2. pc' # "gap_generator"
    BY <1>1 DEF Classify, MemoryRetrieve, GoalManager, TaskExpander, FanOut, Goto,
       RouteAfterGoals, DispatchTasks
  <2>3. QED
    BY <2>1, <2>2 DEF ShortfallInv
<1>2. CASE ProgressChecker
  <2>1. ~human_guidance'
    BY <1>2 DEF ProgressChecker, Inductive, GuidanceIsNotStale
  <2>2. ASSUME HitlEnabled, pc' = "compiler", ~RecallMet'
        PROVE  \/ budget_exhausted' # "none"
               \/ Len(escalation_history') >= MaxEscalations
    <3>1. escalation_trigger' \notin {"E2", "E3"}
      BY <1>2, <2>2 DEF ProgressChecker, Goto, RouteConvergence
    <3>2. budget_exhausted' # "none" \/ iteration_depth' >= MaxDepth
      BY <1>2, <2>2, <3>1 DEF ProgressChecker, Goto, RouteConvergence
    <3>3. CASE iteration_depth' >= MaxDepth
      <4>1. CannotConverge'
        BY <2>2, <3>3 DEF CannotConverge
      <4>2. ~EscalationAllowed
        BY <1>2, <3>1, <4>1 DEF ProgressChecker, RaiseOrLog, ConvergenceTrigger
      <4>3. QED
        BY <1>2, <2>2, <4>2 DEF ProgressChecker, EscalationAllowed, Inductive, TypeOK
    <3>4. QED
      BY <3>2, <3>3
  <2>3. pc' \notin {"critic"}
    BY <1>2 DEF ProgressChecker, Goto, RouteConvergence
  <2>4. QED
    BY <2>1, <2>2, <2>3 DEF ShortfallInv, ShortfallAnswered, Writing
<1>3. CASE GapsGivenUp \/ GapsNothingToTarget \/ GapsProposed
  <2>1. /\ pc = "gap_generator" /\ ~human_guidance' /\ (RecallMet' <=> RecallMet)
        /\ UNCHANGED <<budget_exhausted, escalation_history, iteration_depth>>
        /\ pc' # "critic"
    BY <1>3 DEF GapsGivenUp, GapsNothingToTarget, GapsProposed, GapGenerator,
       FanOut, Goto, DispatchTasks, RecallMet
  <2>2. escalation_trigger = "none"
    BY <2>1 DEF Inductive, EscalationReachesReviewer
  <2>3. ASSUME HitlEnabled, pc' = "compiler", ~RecallMet' PROVE ShortfallAnswered'
    <3>1. escalation_trigger' \notin {"E2", "E3"}
      BY <1>3, <2>3 DEF GapsGivenUp, GapsNothingToTarget, GapsProposed, FanOut,
         Goto, DispatchTasks
    <3>2. budget_exhausted' # "none" \/ pending_tasks' = {}
      BY <1>3, <2>3, <3>1 DEF GapsGivenUp, GapsNothingToTarget, GapsProposed,
         FanOut, Goto, DispatchTasks
    <3>3. CASE GapsGivenUp
      <4>1. ~EscalationAllowed
        BY <2>1, <2>3, <3>1, <3>3 DEF GapsGivenUp, RaiseOrLog, ConvergenceTrigger
      <4>2. QED
        BY <2>1, <2>3, <4>1 DEF EscalationAllowed, ShortfallAnswered, Inductive, TypeOK
    <3>4. CASE GapsNothingToTarget
      <4>1. goals \subseteq covered
        BY <3>4 DEF GapsNothingToTarget, TargetGoals, Uncovered
      <4>2. QED
        BY <2>1, <2>3, <4>1, CoveredPlanMeetsRecall DEF Inductive
    <3>5. CASE GapsProposed /\ ~human_guidance
      <4>1. budget_exhausted' # "none" \/ ~EscalationAllowed
        BY <2>1, <2>3, <3>1, <3>2, <3>5 DEF GapsProposed, RaiseOrLog, ConvergenceTrigger
      <4>2. QED
        BY <2>1, <2>3, <4>1 DEF EscalationAllowed, ShortfallAnswered, Inductive, TypeOK
    <3>6. CASE GapsProposed /\ human_guidance
      BY <2>1, <3>2, <3>6 DEF ShortfallInv, ShortfallAnswered, LastReview
    <3>7. QED
      BY <1>3, <3>3, <3>4, <3>5, <3>6
  <2>4. QED
    BY <2>1, <2>3 DEF ShortfallInv, Writing
<1>4. CASE CompileErrorReport \/ CompileReport
  <2>1. /\ pc = "compiler" /\ pc' = "critic"
        /\ UNCHANGED <<escalation_history, iteration_depth, pending_tasks>>
        /\ RecallMet' <=> RecallMet
        /\ budget_exhausted # "none" => budget_exhausted' # "none"
    BY <1>4 DEF CompileErrorReport, CompileReport, Compiler, Goto, CheckRunBudget,
       RecallMet
  <2>2. QED
    BY <2>1 DEF ShortfallInv, ShortfallAnswered, LastReview, Writing
<1>5. CASE CriticWavesThrough \/ CriticJudges
  <2>1. /\ pc = "critic" /\ pc' # "gap_generator"
        /\ UNCHANGED <<escalation_history, iteration_depth, pending_tasks,
                       budget_exhausted>>
        /\ RecallMet' <=> RecallMet
    BY <1>5 DEF CriticWavesThrough, CriticJudges, Critic, Goto, RouteAfterCritique,
       RecallMet
  <2>2. QED
    BY <2>1 DEF ShortfallInv, ShortfallAnswered, LastReview, Writing
<1>6. CASE HumanAnswers
  <2>1. PICK action \in Actions, guided \in BOOLEAN : Resume(action, guided)
    BY <1>6 DEF HumanAnswers
  <2>2. /\ escalation_history' # <<>>
        /\ LastReview' = [trigger |-> escalation_trigger, action |-> action,
                          guided |-> guided]
    BY <2>1 DEF Resume, Answered, LastReview, Inductive, TypeOK
  <2>3. pc = "paused" /\ escalation_trigger \in {"E1", "E2", "E3", "E4"}
    BY <2>1 DEF Resume, Inductive, EscalationReachesReviewer, TypeOK, Triggers
  <2>4. ~human_guidance
    BY <2>3 DEF Inductive, GuidanceIsNotStale
  <2>5. CASE escalation_trigger = "E1"
    <3>1. iteration_depth' = 0 /\ pc' # "gap_generator"
      BY <2>1, <2>3, <2>5 DEF Resume, ResumeTarget, Inductive, PlanInv
    <3>2. QED
      BY <3>1 DEF ShortfallInv
  <2>6. CASE escalation_trigger # "E1"
    <3>1. /\ pc' \in Writing => action # "redirect"
          /\ human_guidance' => action = "redirect"
      BY <2>1, <2>4, <2>6 DEF Resume, ResumeTarget, Writing
    <3>2. LastReview'.trigger \in {"E2", "E3", "E4"} /\ LastReview'.action = action
      BY <2>2, <2>3, <2>6
    <3>3. QED
      BY <2>2, <3>1, <3>2 DEF ShortfallInv, ShortfallAnswered
  <2>7. QED
    BY <2>5, <2>6
<1>7. CASE \/ Merger \/ MemoryWriter \/ Telemetry \/ Interrupt \/ RunFails
           \/ RunOutOfSteps \/ \E task \in running : WorkerReports(task)
  <2>1. pc' \notin Writing \cup {"gap_generator"}
    BY <1>7 DEF Merger, MemoryWriter, Telemetry, Interrupt, RunFails, RunOutOfSteps,
       WorkerReports, Goto, Writing
  <2>2. QED
    BY <2>1 DEF ShortfallInv, Writing
<1>8. CASE UNCHANGED vars
  BY <1>8 DEF ShortfallInv, ShortfallAnswered, LastReview, RecallMet
<1>9. QED
  BY <1>1, <1>2, <1>3, <1>4, <1>5, <1>6, <1>7, <1>8
     DEF Next, RunNode, Handler, SearchSucceeds, SearchFails

\* A run below its recall target is written up only after a reviewer had the
\* last word, or no budget or no review was left (progress_checker,
\* gap_generator_node).
THEOREM ShortfallsAreReviewed == Spec => []ShortfallIsReviewed
<1>1. Init => ShortfallInv
  BY DEF Init, ShortfallInv, Writing
<1>2. Inductive /\ ShortfallInv /\ [Next]_vars => ShortfallInv'
  BY ShortfallStep
<1>3. ShortfallInv => ShortfallIsReviewed
  BY DEF ShortfallInv, ShortfallIsReviewed, Writing
<1>4. QED
  BY <1>1, <1>2, <1>3, InductiveInvariant, PTL DEF Spec
=================================================================================
