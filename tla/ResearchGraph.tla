------------------------------ MODULE ResearchGraph ------------------------------
(***************************************************************************)
(* One run of the research workflow: the LangGraph state machine wired by  *)
(* orchestration/graph.py, its node handlers in agents/ and the reducers   *)
(* of state.py.  One action per node handler; each ends with the routing   *)
(* function the graph wires after that node, read (as LangGraph reads it)  *)
(* in the state the handler has just written.                              *)
(*                                                                         *)
(* Abstractions.  A language model answers anything its schema allows.     *)
(* An evidence item is its goal and its grade; only the grades seen per    *)
(* goal and whether a goal has two items or more are kept.  Reports are    *)
(* named by the branch of compiler_node that wrote them.  Goal ids are     *)
(* distinct.  A node that raises ends the run (RunFails); a search worker  *)
(* does not raise (it catches everything).  Scores are compared as counts  *)
(* of goals against a target in per cent.                                  *)
(***************************************************************************)
EXTENDS Integers, Sequences, FiniteSets

CONSTANTS
  Goals,          \* goal ids the planner may compose
  Queries,        \* query texts a task producer may propose
  Grades,         \* grades of an evidence item ...
  Passing,        \* ... above settings.min_evidence_score
  Strong,         \* ... above SINGLE_LEG_SCORE_CEILING
  Grounding,      \* ... from the corpus, on topic and passing
  MaxFanout, MaxDepth, MaxRevisions, MaxEscalations, RecursionLimit,
  RecallTarget, GroundedTarget,          \* per cent
  HitlEnabled, ModelKnowledgeEnabled, ContradictionDetection,  \* BOOLEAN
  RunBudgets      \* the run budgets configured, of {"deadline", "tokens"}

ASSUME SettingsAssumption ==
  /\ IsFiniteSet(Goals) /\ IsFiniteSet(Queries)
  /\ Passing \subseteq Grades /\ Strong \subseteq Grades
  /\ Grounding \subseteq Passing
  /\ MaxFanout \in Nat \ {0} /\ MaxDepth \in Nat \ {0}
  /\ MaxRevisions \in Nat /\ MaxEscalations \in Nat
  /\ RecursionLimit \in Nat /\ RecursionLimit >= 10
  /\ RecallTarget \in 0..100 /\ GroundedTarget \in 0..100
  /\ {HitlEnabled, ModelKnowledgeEnabled, ContradictionDetection}
       \subseteq BOOLEAN
  /\ RunBudgets \subseteq {"deadline", "tokens"}

VARIABLES
  pc,      \* the node about to run, or how the run stands
  steps,   \* super-steps entered since the last invoke
  (* planning *)
  goals, planning_error,
  (* gathering: the backlog, the workers in flight, and what they reported *)
  pending_tasks, running, completed_task_keys, failed_task_keys,
  evidence,            \* the grades found for each goal
  plural,              \* goals with two or more evidence items
  (* convergence *)
  contested, covered,  \* the flags on the goals, as sets
  iteration_depth, grounded_score, grounded_score_prev, budget_exhausted,
  (* human review *)
  escalation_trigger, escalation_started_at, escalation_history,
  human_guidance, abort_reason,
  (* writing *)
  final_report, revision_count, critique_passed,
  memory_written,      \* memory_writer has run
  (* history, read by properties only *)
  dispatched,          \* every (key, depth) ever sent to a worker
  verdict              \* the critic's last real judgement of a report

planVars   == <<goals, planning_error>>
searchVars == <<pending_tasks, running, completed_task_keys, failed_task_keys,
                evidence, plural, dispatched>>
scoreVars  == <<covered, iteration_depth, grounded_score, grounded_score_prev>>
reviewVars == <<escalation_trigger, escalation_started_at>>
answerVars == <<escalation_history, abort_reason>>
reportVars == <<final_report, revision_count, critique_passed, memory_written,
                verdict>>
vars == <<pc, steps, planVars, searchVars, contested, scoreVars,
          budget_exhausted, reviewVars, answerVars, human_guidance, reportVars>>

-----------------------------------------------------------------------------
Key        == [goal: Goals, query: Queries]
SearchTask == [key: Key, depth: Nat]
Triggers   == {"none", "E1", "E2", "E3", "E4"}
Actions    == {"approve", "redirect", "abort"}
Escalation == [trigger: Triggers, action: Actions, guided: BOOLEAN]
Nodes      == {"classify", "memory_retrieve", "goal_manager", "task_expander",
               "search_worker", "merger", "progress_checker", "gap_generator",
               "compiler", "critic", "memory_writer", "telemetry",
               "human_escalation"}
Ended      == {"END", "failed", "out_of_steps"}

Smaller(a, b) == IF a <= b THEN a ELSE b
Larger(a, b)  == IF a >= b THEN a ELSE b

\* Sums the convergence check compares: goals covered, and goals covered by a
\* document, out of all goals (a run without goals scores 1.0).
RecallMet   == 100 * Cardinality(covered) >= RecallTarget * Cardinality(goals)
GroundedMet == 100 * grounded_score >= GroundedTarget * Cardinality(goals)

HasQualityEvidence(g)  == evidence[g] \cap Passing # {}
HasGroundedEvidence(g) == evidence[g] \cap Grounding # {}
HasStrongEvidence(g)   == evidence[g] \cap Strong # {}
HasAnyEvidence(g)      == evidence[g] # {}

(***************************************************************************)
(* Tasks                                                                   *)
(***************************************************************************)
\* Slips: a task may name a goal outside the plan; a completed key is admitted.
EligibleForAnyGoal(key, depth) ==
  key \notin completed_task_keys /\ failed_task_keys[key] < depth
EligibleAgain(key, depth) ==
  (goals = {} \/ key.goal \in goals) /\ failed_task_keys[key] < depth

\* A key that completed never runs again; one that failed runs again only at
\* a greater depth; a task for a goal the plan does not hold is dropped.
Eligible(key, depth) ==
  /\ goals = {} \/ key.goal \in goals
  /\ key \notin completed_task_keys
  /\ failed_task_keys[key] < depth

\* The backlogs cap_and_filter may return for the keys a model proposed: the
\* eligible ones, cut to MaxFanout by a priority the model chose.
CapAndFilter(proposed, depth) ==
  LET kept == {key \in proposed : Eligible(key, depth)}
      size == Smaller(MaxFanout, Cardinality(kept))
  IN  {[key : chosen, depth : {depth}] :
          chosen \in {S \in SUBSET kept : Cardinality(S) = size}}

(***************************************************************************)
(* Escalation and run budget                                               *)
(***************************************************************************)
EscalationAllowed == HitlEnabled /\ Len(escalation_history) < MaxEscalations

RaiseOrLog(trigger) ==
  IF EscalationAllowed
  THEN escalation_trigger' = trigger /\ escalation_started_at' = TRUE
  ELSE UNCHANGED reviewVars

\* Slip: the last lap does not look.
CannotConvergeLate == iteration_depth > MaxDepth /\ ~RecallMet

\* The depth budget is spent below the recall target.
CannotConverge == iteration_depth >= MaxDepth /\ ~RecallMet

ConvergenceTrigger == IF contested # {} THEN "E2" ELSE "E3"

\* Whether a configured budget is spent is read off the clock and the token
\* counters: any answer, but once spent a budget stays spent.
CheckRunBudget ==
  budget_exhausted' \in IF budget_exhausted = "none"
                        THEN {"none"} \cup RunBudgets
                        ELSE {budget_exhausted}

(***************************************************************************)
(* Routing.  Each operator is evaluated on the state a handler leaves.     *)
(***************************************************************************)
RouteAfterGoals ==
  IF escalation_trigger = "E1" THEN "human_escalation"
  ELSE IF planning_error THEN "compiler" ELSE "task_expander"

\* Slips: the budget is read before the trigger, or not at all.
DispatchTasksBudgetFirst ==
  IF budget_exhausted # "none" \/ pending_tasks = {} THEN "compiler"
  ELSE IF escalation_trigger \in {"E2", "E3"} THEN "human_escalation"
  ELSE "search_worker"
DispatchTasksUnbudgeted ==
  IF escalation_trigger \in {"E2", "E3"} THEN "human_escalation"
  ELSE IF pending_tasks = {} THEN "compiler" ELSE "search_worker"

DispatchTasks ==
  IF escalation_trigger \in {"E2", "E3"} THEN "human_escalation"
  ELSE IF budget_exhausted # "none" \/ pending_tasks = {} THEN "compiler"
  ELSE "search_worker"

GroundingStalled ==
  grounded_score_prev >= 0 /\ grounded_score <= grounded_score_prev

RouteConvergence ==
  IF escalation_trigger \in {"E2", "E3"} THEN "human_escalation"
  ELSE IF \/ budget_exhausted # "none"
          \/ iteration_depth >= MaxDepth
          \/ RecallMet /\ (GroundedMet \/ GroundingStalled)
       THEN "compiler" ELSE "gap_generator"

\* Slips: one revision too many; a report out of revisions is remembered.
RouteAfterCritiqueOneMore ==
  IF escalation_trigger = "E4" THEN "human_escalation"
  ELSE IF critique_passed THEN "memory_writer"
  ELSE IF budget_exhausted = "none" /\ revision_count <= MaxRevisions
       THEN "compiler" ELSE "telemetry"
RouteAfterCritiqueRemembering ==
  IF escalation_trigger = "E4" THEN "human_escalation"
  ELSE IF ~critique_passed /\ budget_exhausted = "none"
          /\ revision_count < MaxRevisions
       THEN "compiler" ELSE "memory_writer"

RouteAfterCritique ==
  IF escalation_trigger = "E4" THEN "human_escalation"
  ELSE IF critique_passed THEN "memory_writer"
  ELSE IF budget_exhausted = "none" /\ revision_count < MaxRevisions
       THEN "compiler" ELSE "telemetry"

\* The next super-step of this invoke, or the end of the run.
Goto(node) ==
  pc' = node /\ steps' = IF node \in Nodes THEN steps + 1 ELSE steps

\* The conditional edge that fans the backlog out to one worker per task.
FanOut ==
  /\ Goto(DispatchTasks')
  /\ running' = IF pc' = "search_worker" THEN pending_tasks' ELSE {}
  /\ dispatched' = dispatched \cup running'

-----------------------------------------------------------------------------
Init ==
  /\ pc = "classify" /\ steps = 1
  /\ goals = {} /\ planning_error = FALSE
  /\ pending_tasks = {} /\ running = {} /\ dispatched = {}
  /\ completed_task_keys = {}
  /\ failed_task_keys = [key \in Key |-> -1]
  /\ evidence = [g \in Goals |-> {}] /\ plural = {}
  /\ contested = {} /\ covered = {} /\ iteration_depth = 0
  /\ grounded_score = Cardinality(Goals) /\ grounded_score_prev = -1
  /\ budget_exhausted = "none"
  /\ escalation_trigger = "none" /\ escalation_started_at = FALSE
  /\ escalation_history = <<>>
  /\ human_guidance = FALSE /\ abort_reason = FALSE
  /\ final_report = "none" /\ revision_count = 0 /\ critique_passed = FALSE
  /\ memory_written = FALSE /\ verdict = "none"

Classify ==
  /\ pc = "classify"
  /\ Goto("memory_retrieve")
  /\ UNCHANGED <<planVars, searchVars, contested, scoreVars, budget_exhausted,
                 reviewVars, answerVars, human_guidance, reportVars>>

\* Recalled items are filed under "memory::" ids, so they touch no goal.
MemoryRetrieve ==
  /\ pc = "memory_retrieve"
  /\ Goto("goal_manager")
  /\ UNCHANGED <<planVars, searchVars, contested, scoreVars, budget_exhausted,
                 reviewVars, answerVars, human_guidance, reportVars>>

GoalManager ==
  /\ pc = "goal_manager"
  /\ \E composed \in SUBSET Goals :
       /\ goals' = composed
       /\ IF composed = {}
          THEN planning_error' = TRUE /\ RaiseOrLog("E1")
          ELSE UNCHANGED <<planning_error, reviewVars>>
  /\ contested' = {} /\ covered' = {} /\ human_guidance' = FALSE
  /\ UNCHANGED <<searchVars, iteration_depth, grounded_score,
                 grounded_score_prev, budget_exhausted, answerVars, reportVars>>
  /\ Goto(RouteAfterGoals')

TaskExpander ==
  /\ pc = "task_expander"
  /\ \E proposed \in SUBSET Key : pending_tasks' \in CapAndFilter(proposed, 0)
  /\ UNCHANGED <<planVars, completed_task_keys, failed_task_keys, evidence,
                 plural, contested, scoreVars, budget_exhausted, reviewVars,
                 answerVars, human_guidance, reportVars>>
  /\ FanOut

\* The barrier: the merger's super-step starts when every worker has reported.
WorkerReports(task) ==
  /\ pc = "search_worker" /\ task \in running
  /\ running' = running \ {task}
  /\ IF running' = {} THEN Goto("merger") ELSE UNCHANGED <<pc, steps>>
  /\ UNCHANGED <<planVars, pending_tasks, dispatched, contested, scoreVars,
                 budget_exhausted, reviewVars, answerVars, human_guidance,
                 reportVars>>

SearchSucceeds(task) ==
  /\ WorkerReports(task)
  /\ LET g == task.key.goal IN
     \E found \in SUBSET Grades, several \in BOOLEAN :
       /\ found = {} => ~several
       /\ Cardinality(found) > 1 => several
       /\ evidence' = [evidence EXCEPT ![g] = @ \cup found]
       /\ plural' = IF several \/ (found # {} /\ HasAnyEvidence(g))
                    THEN plural \cup {g} ELSE plural
  /\ completed_task_keys' = completed_task_keys \cup {task.key}
  /\ UNCHANGED failed_task_keys

SearchFails(task) ==
  /\ WorkerReports(task)
  /\ failed_task_keys' =
       [failed_task_keys EXCEPT ![task.key] = Larger(@, task.depth)]
  /\ UNCHANGED <<completed_task_keys, evidence, plural>>

\* Recomputed from scratch every lap; the detector is asked only when some
\* goal has two items, and a detector that fails contests nothing.
Merger ==
  /\ pc = "merger"
  /\ contested' \in IF ContradictionDetection /\ plural \cap goals # {}
                    THEN SUBSET goals ELSE {{}}
  /\ Goto("progress_checker")
  /\ UNCHANGED <<planVars, searchVars, scoreVars, budget_exhausted, reviewVars,
                 answerVars, human_guidance, reportVars>>

ProgressChecker ==
  /\ pc = "progress_checker"
  /\ covered' = {g \in goals : HasQualityEvidence(g) /\ g \notin contested}
  /\ grounded_score' =
       Cardinality({g \in goals : /\ HasQualityEvidence(g) /\ g \notin contested
                                  /\ HasGroundedEvidence(g)})
  /\ grounded_score_prev' = IF iteration_depth = 0 THEN -1 ELSE grounded_score
  /\ iteration_depth' = iteration_depth + 1
  /\ UNCHANGED goals
  /\ IF CannotConverge' THEN RaiseOrLog(ConvergenceTrigger) ELSE UNCHANGED reviewVars
  /\ CheckRunBudget
  /\ UNCHANGED <<planning_error, searchVars, contested, answerVars,
                 human_guidance, reportVars>>
  /\ Goto(RouteConvergence')

-----------------------------------------------------------------------------
(***************************************************************************)
(* gap_generator_node, one action per exit                                 *)
(***************************************************************************)
Uncovered == goals \ covered

\* With no recollection tier left, every uncovered goal has been searched and
\* only weak items came back: another lap cannot help.
NoStrongEvidence ==
  /\ ~ModelKnowledgeEnabled /\ ~human_guidance /\ iteration_depth > 1
  /\ Uncovered # {}
  /\ \A g \in Uncovered : HasAnyEvidence(g) /\ ~HasStrongEvidence(g)

TargetGoals ==
  IF Uncovered # {} THEN Uncovered ELSE {g \in goals : ~HasGroundedEvidence(g)}

\* Slip: the guidance is used but not consumed.
GapGeneratorKeepingGuidance ==
  /\ pc = "gap_generator"
  /\ UNCHANGED <<human_guidance, planVars, completed_task_keys,
                 failed_task_keys, evidence, plural, contested, scoreVars,
                 budget_exhausted, answerVars, reportVars>>

GapGenerator ==
  /\ pc = "gap_generator"
  /\ human_guidance' = FALSE
  /\ UNCHANGED <<planVars, completed_task_keys, failed_task_keys, evidence,
                 plural, contested, scoreVars, budget_exhausted, answerVars,
                 reportVars>>

GapsGivenUp ==
  /\ GapGenerator
  /\ NoStrongEvidence
  /\ pending_tasks' = {}
  /\ IF ~RecallMet THEN RaiseOrLog(ConvergenceTrigger) ELSE UNCHANGED reviewVars
  /\ FanOut

GapsNothingToTarget ==
  /\ GapGenerator
  /\ ~NoStrongEvidence
  /\ TargetGoals = {} /\ ~human_guidance
  /\ pending_tasks' = {}
  /\ UNCHANGED reviewVars
  /\ FanOut

\* An empty backlog asks a human only below the recall target, and not when
\* it is the answer to a redirect that human has just given.
GapsProposed ==
  /\ GapGenerator
  /\ ~NoStrongEvidence
  /\ TargetGoals # {} \/ human_guidance
  /\ \E proposed \in SUBSET Key :
       pending_tasks' \in CapAndFilter(proposed, iteration_depth)
  /\ IF pending_tasks' = {} /\ ~RecallMet /\ ~human_guidance
     THEN RaiseOrLog(ConvergenceTrigger) ELSE UNCHANGED reviewVars
  /\ FanOut

-----------------------------------------------------------------------------
Compiler ==
  /\ pc = "compiler"
  /\ Goto("critic")
  /\ UNCHANGED <<planVars, searchVars, contested, scoreVars, reviewVars,
                 answerVars, human_guidance, revision_count, critique_passed,
                 memory_written, verdict>>

CompileErrorReport ==
  /\ Compiler
  /\ abort_reason \/ planning_error
  /\ final_report' = IF abort_reason THEN "aborted" ELSE "planning_failed"
  /\ UNCHANGED budget_exhausted

CompileReport ==
  /\ Compiler
  /\ ~abort_reason /\ ~planning_error
  /\ final_report' = "compiled"
  /\ CheckRunBudget

Critic ==
  /\ pc = "critic"
  /\ UNCHANGED <<planVars, searchVars, contested, scoreVars, budget_exhausted,
                 answerVars, human_guidance, final_report, memory_written>>

\* Error and abort reports are not judged, they are waved through.
CriticWavesThrough ==
  /\ Critic
  /\ planning_error \/ abort_reason
  /\ critique_passed' = TRUE
  /\ UNCHANGED <<revision_count, reviewVars, verdict>>
  /\ Goto(RouteAfterCritique')

\* The two deterministic gates and the model's verdict end in the same two
\* outcomes.
CriticJudges ==
  /\ Critic
  /\ ~planning_error /\ ~abort_reason
  /\ critique_passed' \in BOOLEAN
  /\ verdict' = IF critique_passed' THEN "pass" ELSE "fail"
  /\ revision_count' = revision_count + 1
  /\ IF ~critique_passed' /\ revision_count' >= MaxRevisions
     THEN RaiseOrLog("E4") ELSE UNCHANGED reviewVars
  /\ Goto(RouteAfterCritique')

MemoryWriter ==
  /\ pc = "memory_writer"
  /\ memory_written' = TRUE
  /\ Goto("telemetry")
  /\ UNCHANGED <<planVars, searchVars, contested, scoreVars, budget_exhausted,
                 reviewVars, answerVars, human_guidance, final_report,
                 revision_count, critique_passed, verdict>>

Telemetry ==
  /\ pc = "telemetry"
  /\ Goto("END")
  /\ UNCHANGED <<planVars, searchVars, contested, scoreVars, budget_exhausted,
                 reviewVars, answerVars, human_guidance, reportVars>>

-----------------------------------------------------------------------------
(***************************************************************************)
(* human_escalation: interrupt() ends the invoke; the answer starts a new  *)
(* one, in which the node runs again from its top.                         *)
(***************************************************************************)
Interrupt ==
  /\ pc = "human_escalation"
  /\ pc' = "paused"
  /\ UNCHANGED <<steps, planVars, searchVars, contested, scoreVars,
                 budget_exhausted, reviewVars, answerVars, human_guidance,
                 reportVars>>

\* Slip: every abort ships at once, as E4's does.
ResumeTargetAbortShips(trigger, action) ==
  IF action = "redirect"
  THEN IF trigger = "E1" THEN "goal_manager" ELSE "gap_generator"
  ELSE IF trigger = "E4" \/ action = "abort" THEN "telemetry" ELSE "compiler"

ResumeTarget(trigger, action) ==
  IF action = "redirect"
  THEN IF trigger = "E1" THEN "goal_manager" ELSE "gap_generator"
  ELSE IF trigger = "E4" THEN "telemetry" ELSE "compiler"

\* Slip: a redirect is not counted as a review.
AnsweredUnlessRedirected(action, guided) ==
  IF action = "redirect" THEN escalation_history
  ELSE Append(escalation_history,
              [trigger |-> escalation_trigger, action |-> action,
               guided |-> guided])

\* Appended by the resumed execution only, so a pause still waiting counts not.
Answered(action, guided) ==
  Append(escalation_history,
         [trigger |-> escalation_trigger, action |-> action,
          guided |-> guided])

\* guided: the reviewer typed some guidance with the redirect.
Resume(action, guided) ==
  /\ pc = "paused"
  /\ action # "redirect" => ~guided
  /\ escalation_trigger' = "none" /\ escalation_started_at' = FALSE
  /\ escalation_history' = Answered(action, guided)
  /\ human_guidance' = IF action = "redirect" THEN guided ELSE human_guidance
  /\ abort_reason' = (abort_reason \/ (action = "abort" /\ escalation_trigger # "E4"))
  /\ planning_error' = (planning_error /\ ~(action = "redirect" /\ escalation_trigger = "E1"))
  /\ pc' = ResumeTarget(escalation_trigger, action)
  /\ steps' = 2     \* the node again, then the node it goes to
  /\ UNCHANGED <<goals, searchVars, contested, scoreVars, budget_exhausted,
                 reportVars>>

\* A handler raises: the provider chain is exhausted, a reply is not JSON, or
\* a checkpoint cannot be written.
RunFails ==
  /\ pc \in Nodes
  /\ pc' = "failed"
  /\ UNCHANGED <<steps, planVars, searchVars, contested, scoreVars,
                 budget_exhausted, reviewVars, answerVars, human_guidance,
                 reportVars>>

\* LangGraph runs RecursionLimit super-steps per invoke; with one more to run
\* it raises instead, and the run ends without telemetry.
RunOutOfSteps ==
  /\ pc \in Nodes /\ steps > RecursionLimit
  /\ pc' = "out_of_steps"
  /\ UNCHANGED <<steps, planVars, searchVars, contested, scoreVars,
                 budget_exhausted, reviewVars, answerVars, human_guidance,
                 reportVars>>

-----------------------------------------------------------------------------
Handler ==
  \/ Classify \/ MemoryRetrieve \/ GoalManager \/ TaskExpander
  \/ \E task \in running : SearchSucceeds(task) \/ SearchFails(task)
  \/ Merger \/ ProgressChecker
  \/ GapsGivenUp \/ GapsNothingToTarget \/ GapsProposed
  \/ CompileErrorReport \/ CompileReport
  \/ CriticWavesThrough \/ CriticJudges
  \/ MemoryWriter \/ Telemetry \/ Interrupt

RunNode == steps <= RecursionLimit /\ Handler

HumanAnswers ==
  \E action \in Actions, guided \in BOOLEAN : Resume(action, guided)

Next == RunNode \/ HumanAnswers \/ RunFails \/ RunOutOfSteps

\* The process keeps stepping the graph it was asked to run; nothing is
\* assumed of the reviewer, nor of providers that keep failing.
Fairness == WF_vars(RunNode \/ RunOutOfSteps)

Spec     == Init /\ [][Next]_vars
FairSpec == Spec /\ Fairness

-----------------------------------------------------------------------------
(***************************************************************************)
(* Properties                                                              *)
(***************************************************************************)
\* Every field of ResearchState keeps its type, and what refers to the plan
\* (backlog, flags) refers to goals the plan holds.
TypeOK ==
  /\ pc \in Nodes \cup Ended \cup {"paused"}
  /\ steps \in Nat
  /\ goals \subseteq Goals /\ planning_error \in BOOLEAN
  /\ pending_tasks \subseteq SearchTask /\ running \subseteq pending_tasks
  /\ \A task \in pending_tasks : task.key.goal \in goals
  /\ dispatched \subseteq SearchTask
  /\ completed_task_keys \subseteq Key
  /\ failed_task_keys \in [Key -> Nat \cup {-1}]
  /\ evidence \in [Goals -> SUBSET Grades] /\ plural \subseteq Goals
  /\ contested \subseteq goals /\ covered \subseteq goals
  /\ iteration_depth \in Nat
  /\ grounded_score \in Nat /\ grounded_score_prev \in Nat \cup {-1}
  /\ budget_exhausted \in {"none"} \cup RunBudgets
  /\ escalation_trigger \in Triggers /\ escalation_started_at \in BOOLEAN
  /\ escalation_history \in Seq(Escalation)
  /\ human_guidance \in BOOLEAN /\ abort_reason \in BOOLEAN
  /\ final_report \in {"none", "compiled", "planning_failed", "aborted"}
  /\ revision_count \in Nat /\ critique_passed \in BOOLEAN
  /\ memory_written \in BOOLEAN /\ verdict \in {"none", "pass", "fail"}

\* The loop bounds hold together, whatever the model and the reviewer answer:
\* a run is reviewed MaxEscalations times at most, and each review buys at
\* most one lap and one revision beyond the configured budgets (graph.py,
\* escalation_allowed).
TerminationBounds ==
  /\ Len(escalation_history) <= MaxEscalations
  /\ iteration_depth <= MaxDepth + Len(escalation_history)
  /\ revision_count <= Larger(MaxRevisions, 1) + Len(escalation_history)

\* The most super-steps one invoke can need: four to plan, four per lap, two
\* per compilation, and memory_writer and telemetry, less the gap_generator
\* the first lap does without.
StepBound == 4 * MaxDepth + 2 * Larger(MaxRevisions, 1) + 5

\* LangGraph's recursion limit is a backstop: with a limit of StepBound or
\* more no run ends without a report because the other bounds were too loose.
RecursionLimitIsBackstop ==
  RecursionLimit >= StepBound => pc # "out_of_steps"

\* A trigger that a node raised is never dropped and never stale: while it is
\* set the run is on its way to the reviewer or waiting there, and a run that
\* waits has one to show.  Its timestamp lives exactly as long.
EscalationReachesReviewer ==
  /\ escalation_started_at <=> escalation_trigger # "none"
  /\ escalation_trigger # "none" =>
       pc \in {"human_escalation", "paused", "failed", "out_of_steps"}
  /\ pc \in {"human_escalation", "paused"} => escalation_trigger # "none"

\* Guidance never outlives the producer it was given for: it cannot colour a
\* later lap, a later report or a later review.
GuidanceIsNotStale ==
  human_guidance => pc \in {"goal_manager", "gap_generator", "failed",
                            "out_of_steps"}

\* The report of a failed plan says "No retrieval was attempted"
\* (compilation.py:129); none was, in any invoke of the run.
PlanningFailureSearchedNothing ==
  final_report = "planning_failed" => dispatched = {}

\* A finished run has a report, and the one it has is the one its outcome
\* calls for: an aborted run never ships research, a run without a plan never
\* ships an empty compilation.
ReportShips ==
  pc \in {"memory_writer", "telemetry", "END"} =>
    final_report = IF abort_reason THEN "aborted"
                   ELSE IF planning_error THEN "planning_failed"
                   ELSE "compiled"

\* A compiled report reaches long-term memory only after the critic passed
\* it (D-24): not when its revisions, its budget or its reviews ran out.
MemoryHoldsJudgedReports ==
  memory_written /\ final_report = "compiled" => verdict = "pass"

LastReview == escalation_history[Len(escalation_history)]

\* A run that gathered and is still below its recall target is written up
\* only when a run budget is spent, no review is left, or the last word is a
\* reviewer's on exactly that (a redirect has it only if no task came of it):
\* nothing in the loop gives up silently while somebody could be asked.
ShortfallAnswered ==
  \/ budget_exhausted # "none"
  \/ Len(escalation_history) >= MaxEscalations
  \/ /\ escalation_history # <<>>
     /\ LastReview.trigger \in {"E2", "E3", "E4"}
     /\ LastReview.action = "redirect" => pending_tasks = {}

ShortfallIsReviewed ==
  HitlEnabled /\ pc = "compiler" /\ iteration_depth > 0 /\ ~RecallMet =>
    ShortfallAnswered

\* With HITL off no run ever waits for a human.
UnattendedNeverPauses == ~HitlEnabled => pc # "paused"

\* A key that completed is never sent to a worker again, and none is sent
\* twice at one depth, across laps, redirects and resumes.
NoSearchRepeated ==
  [][\A task \in running' \ running :
        task \notin dispatched /\ task.key \notin completed_task_keys]_vars

\* Once a run budget is spent no worker starts, whatever routed the run here.
NoSearchAfterBudget ==
  [][budget_exhausted' # "none" => running' \subseteq running]_vars

Done == pc \in Ended

\* A reviewer who always answers always gets an outcome: the graph never runs
\* or waits for ever on its own.
AnsweredRunsEnd == []<>(pc # "paused") => <>Done

\* What the caller of ResearchRun sees of a run of the graph.
RunStatus ==
  IF pc = "paused" THEN "awaiting_review"
  ELSE IF pc = "END" THEN "done"
  ELSE IF pc \in {"failed", "out_of_steps"} THEN "failed" ELSE "running"
ReviewsAllowed == IF HitlEnabled THEN MaxEscalations ELSE 0
HasReport      == final_report # "none"

Run == INSTANCE ResearchRun WITH
  MaxReviews <- ReviewsAllowed, status <- RunStatus,
  reviews <- Len(escalation_history), delivered <- HasReport,
  remembered <- memory_written

\* Every run of the graph is a run ResearchRun allows.
ImplementsRun == Run!Spec

\* DECISIONS.md:37 (D-24): "only evidence from a passed critique is written
\* back" to long-term memory.
OnlyPassedCritiqueFeedsMemory ==
  memory_written /\ (\E g \in Goals : HasAnyEvidence(g)) => verdict = "pass"

-----------------------------------------------------------------------------
(***************************************************************************)
(* The inductive invariant behind the safety properties (proved in         *)
(* ResearchGraph_proofs).                                                  *)
(***************************************************************************)
Planning  == {"classify", "memory_retrieve", "goal_manager"}
Gathering == {"task_expander", "search_worker", "merger", "progress_checker",
              "gap_generator"}
Writing   == {"compiler", "critic"}

\* A plan failed exactly when it is empty, nothing is searched before there is
\* one, and only a failed plan can raise E1.
PlanInv ==
  /\ pc \in Planning \cup Gathering => ~planning_error
  /\ pc \notin Planning \cup {"failed", "out_of_steps"} =>
       (planning_error <=> goals = {})
  /\ planning_error \/ pc \in Planning \cup {"task_expander"} =>
       /\ dispatched = {} /\ pending_tasks = {} /\ running = {}
       /\ iteration_depth = 0
  /\ escalation_trigger = "E1" => planning_error
  /\ escalation_trigger \in {"E2", "E3", "E4"} => ~planning_error

\* An abort leads straight to its report, and a report is there from the
\* critic on.
ReportInv ==
  /\ pc \in Planning \cup Gathering \cup {"human_escalation", "paused"} =>
       ~abort_reason
  /\ pc = "critic" \/ pc \in {"memory_writer", "telemetry", "END"}
       \/ escalation_trigger = "E4" =>
       final_report = IF abort_reason THEN "aborted"
                      ELSE IF planning_error THEN "planning_failed"
                      ELSE "compiled"
  /\ pc = "memory_writer" \/ memory_written =>
       verdict = "pass" \/ planning_error \/ abort_reason
  /\ pc = "memory_writer" => ~memory_written
  /\ memory_written =>
       /\ final_report # "none"
       /\ final_report = "compiled" => verdict = "pass"
       /\ pc \in {"telemetry", "END", "failed", "out_of_steps"}
  /\ pc \in Planning \/ escalation_trigger = "E1" => final_report = "none"
  /\ planning_error \/ final_report # "planning_failed"

\* Every entry to a lap or to a compilation has budget left for it.
BudgetInv ==
  /\ escalation_trigger # "none" => Len(escalation_history) < MaxEscalations
  /\ escalation_trigger # "none" => HitlEnabled
  /\ pc \in Gathering => iteration_depth < MaxDepth + Len(escalation_history)
  /\ pc \in Planning \cup Gathering \cup Writing =>
       revision_count < Larger(MaxRevisions, 1) + Len(escalation_history)

\* Super-steps this invoke may still enter: for the revisions and the laps
\* that are left, and from the node about to run to the end.
RoundsLeft == 2 * Larger(0, MaxRevisions - revision_count - 1)
LapsLeft   == 4 * Larger(0, MaxDepth - iteration_depth - 1)
Within(left) == steps + left <= StepBound

StepInv ==
  /\ pc = "classify"         => Within(LapsLeft + RoundsLeft + 10)
  /\ pc = "memory_retrieve"  => Within(LapsLeft + RoundsLeft + 9)
  /\ pc = "goal_manager"     => Within(LapsLeft + RoundsLeft + 8)
  /\ pc \in {"task_expander", "gap_generator"} =>
                                Within(LapsLeft + RoundsLeft + 7)
  /\ pc = "search_worker"    => Within(LapsLeft + RoundsLeft + 6)
  /\ pc = "merger"           => Within(LapsLeft + RoundsLeft + 5)
  /\ pc = "progress_checker" => Within(LapsLeft + RoundsLeft + 4)
  /\ pc = "compiler"         => Within(RoundsLeft + 3)
  /\ pc = "critic"           => Within(RoundsLeft + 2)
  /\ pc = "memory_writer"    => Within(1)
  /\ pc \in {"telemetry", "human_escalation"} => Within(0)
  /\ pc = "out_of_steps"     => RecursionLimit < StepBound

\* Workers run only between the fan-out and the barrier, and a task that left
\* them is settled: its key completed, or failed at its depth or deeper.
SearchInv ==
  /\ pc \notin {"search_worker", "failed", "out_of_steps"} => running = {}
  /\ running \subseteq dispatched
  /\ \A task \in dispatched \ running :
       \/ task.key \in completed_task_keys
       \/ failed_task_keys[task.key] >= task.depth

\* A shortfall stays answered while the report is written and revised, and
\* guidance at the gap generator is a reviewer's last word.
ShortfallInv ==
  /\ HitlEnabled /\ pc \in Writing /\ iteration_depth > 0 /\ ~RecallMet =>
       ShortfallAnswered
  /\ human_guidance /\ pc = "gap_generator" =>
       /\ escalation_history # <<>>
       /\ LastReview.trigger \in {"E2", "E3", "E4"}
       /\ LastReview.action = "redirect"

\* Holds in every reachable state and is preserved by every step.
Inductive ==
  /\ TypeOK /\ PlanInv /\ SearchInv /\ EscalationReachesReviewer /\ GuidanceIsNotStale
  /\ ReportInv /\ TerminationBounds /\ BudgetInv /\ StepInv

\* The whole of it: ShortfallInv is preserved where Inductive holds.
FullInvariant == Inductive /\ ShortfallInv
=================================================================================
