# TLA+ verification of mynoculars

mynoculars is a research agent: a question goes in, a LangGraph workflow plans
goals, searches for evidence in parallel, loops until the evidence suffices,
writes a report, has it criticised, and may pause for a human on the way.  This
directory holds TLA+ models of that program, the TLC runs that check them on
small instances, and TLAPS proofs about them for every instance.

Paths below are relative to the repository; `agents/` and the like stand for
`src/research_agent/agents/`.

## 1. Inventory

| Component | State it keeps | Operations | What is hard | What makes it correct |
|---|---|---|---|---|
| workflow graph (`orchestration/graph.py`, `agents/`, `state.py`, `limits.py`) | `ResearchState`, checkpointed per thread | 13 node handlers, 4 routing functions, reducers | three nested loops (laps, revisions, reviews) with separate bounds; parallel workers; re-execution after `interrupt()` | it ends within its limits, no trigger or guidance is lost or stale, nothing is searched twice |
| LLM fallback router (`llm/router.py`) | provider chain, per-thread counters | `complete`, `complete_json`, `drain_counters` | skip / retry / fall back / judge order; counters left behind by a call that raised | the best answer received is returned; exhaustion is real |
| LLM client (`llm/client.py`) | disabled flag, last Retry-After, usage | HTTP call, error classification | one client shared by all worker threads | a wait is on the failure at hand |
| HTTP API (`api/server.py`), command line (`cli.py`, `assembly.py`) | built app, checkpointer | research, resume, review loop, exit codes | requests on one thread id race each other; restarts between pause and resume | a thread holds one run; answers, rows and exit codes agree with it |
| run history (`storage/postgres.py`) | rows, checkpoints | record_run, checkpoint tables | a lost connection between them | as above |
| MCP client (`tools/mcp_client.py`) | a session on an event-loop thread, a readiness handshake | start on first use, call, close | first calls racing each other, thread / loop hand-over, a transport that dies, timeouts racing answers | a caller uses the live session of its own loop, or is told |
| retrieval chain (`tools/`, `retrieval/hybrid.py`) | counters per thread | two search legs fused, tiers escalated | what a tier's failure means, a floor known to one leg only, counters of pooled threads | a tier ends the search only with an item that can carry a goal; counters are the task's own |
| MCP servers and web search (`servers/`, `websearch/`) | none | search, deduplicate, spread, score | order of truncation, deduplication and cap | the best rows survive, in the engine's order |
| semantic memory (`memory/`, `storage/qdrant_store.py`), garbage collection and reset (`ops/`) | points, a lazy embedder, an availability verdict | retrieve, store_run, gc, reset | two runs racing for collection and embedder, a store that comes and goes, clocks, a collector beside the runs | only what retrieval found enters; age alone never hides a relevant fact |
| guardrails, prompts, reporting (`guardrails/`, `prompts/`, `reporting/`) | none | passes over a report, audits, prompt budget, confidence | order of passes; two readers of one text that cut it differently; counters that outlive the draft they count | what a report says of its sources is true, a pass is earned, confidence is about the report that ships |
| langfuse (`langfuse/`, `tracing.py`) | a client of an external SDK | score, span, flush | must never break a run | not modelled |
| configuration, logging, other operator scripts | none | | | not modelled |

How they interact: the CLI or the API asks `assembly.py` for a compiled graph
(router, tool chain, memory and stores injected into node factories) and calls
`invoke`; the graph calls the router and the tool chain synchronously from node
handlers, one thread per worker; the state is checkpointed after every
super-step; a pause returns to the caller, which answers with a second `invoke`
on the same thread id.  Memory outlives runs and is shared by all of them.

## 2. Modules

| Module | What it is |
|---|---|
| `ResearchRun` | the contract of one run as its callers see it: it works, pauses a bounded number of times, fails or delivers a report; memory is written once, last |
| `ResearchGraph` | the workflow: every node handler and router |
| `FallbackRouter` | `llm/router.py` over the state of `llm/client.py`: the walk along the provider chain, judging, counters, and what calls leave behind |
| `ResearchSessions` | the HTTP API and the command line: requests and processes that start, pause, answer and record runs on thread ids they share |
| `McpBridge` | `tools/mcp_client.py`: worker threads, the bridge thread that owns loop and session, and `close` |
| `RetrievalChain`, `WebSearch` | a worker's search: the ladder of tiers, hybrid retrieval, the web search behind one tier |
| `MemoryDecay`, `LongTermMemory` | decay of a fact; the abstract specification of what memory promises across runs |
| `SemanticMemory` | runs that recall and store, over a Qdrant that comes and goes, with the collector and the reset beside them |
| `PromptBudget`, `FigureAudit`, `ReportPasses` | pure algorithms of `guardrails/` and `prompts/`: what a prompt carries, what a report cites and states, the passes in their order |
| `ReportCycle` | compile, critique, rewrite, review and record of one report, composed of the three |
| `MC*` | instances of each for TLC |
| `RankTheorems` | lemmas the proofs share: a least and a greatest element, counting what comes before an element, the first n of an order |
| `*_proofs` | TLAPS proofs about each |

The components meet at five interfaces.  A run of the graph is to
`ResearchSessions` what `ResearchRun` says of it, and `ResearchGraph` is shown
to implement `ResearchRun`.  A node's language model call is in `ResearchGraph`
an answer of any value its schema allows or an exception, and `FallbackRouter`
shows what such a call does before it returns or raises.  A worker's search
is an answer or an exception there, which over MCP is a call of `McpBridge`;
that such a call ends, and in nothing a worker cannot catch, is what
`SearchFails` takes for granted.  `RetrievalChain` is one worker's search in
detail: its `Report` is `SearchSucceeds`, and that it has no failing report is
a finding of section 5.  `ReportCycle` is the compile-critique loop of the graph
in detail, with what ResearchGraph names a report by spelled out; the rest of
the graph appears there as a redirect.  `SemanticMemory` puts many runs beside
each other that only meet in the store: its `Retrieve` and `StoreRun` are the
graph's `MemoryRetrieve` and `MemoryWriter`.

### ResearchGraph and the code

One action per node handler.  An action does what the handler's returned
update does once the reducers of `state.py` have merged it, and ends with the
routing function `build_graph` wires behind that node, evaluated in the new
state (`Goto`, `FanOut`).  `gap_generator_node`, `compiler_node` and
`critic_node` have several exits; each exit is an action that shares the
handler's common part (`GapsGivenUp`, `GapsNothingToTarget`, `GapsProposed`
under `GapGenerator`, and so on).

* `pc` is the node LangGraph runs next, or how the invoke ended: `paused`,
  `END`, `failed` (a handler raised) or `out_of_steps` (GraphRecursionError).
* `steps` counts LangGraph super-steps of the present invoke; a resume starts
  from 1 again with the re-executed `human_escalation` node.
* A fan-out sends each task of the backlog to its own worker (`running`); they
  report in any order (`SearchSucceeds`, `SearchFails`), and the merger starts
  when the last one has.  A worker never raises: it catches everything and
  reports a failed key.
* `human_escalation` is split where `interrupt()` splits it: `Interrupt` before,
  `Resume` after the answer, as the node re-executes from its top.  Every read
  above `interrupt()` is pure, so the second execution needs no state.
* `covered` and `contested` are the flags of `Goal` as sets; `grounded_score`
  is kept as a number of goals, and targets are compared as per cent.

Abstractions: a language model may answer anything its schema allows (any set
of goals or tasks, either verdict, any contradiction); an evidence item is a
grade (`Passing`: above `min_evidence_score`; `Strong`: above
`SINGLE_LEG_SCORE_CEILING`; `Grounding`: a corpus hit on topic), and per goal
only the grades seen, and whether there are two items or more, are kept; a
report is named by the branch that wrote it; whether a run budget is spent is
any answer that stays spent.  `dispatched` and `verdict` are history variables
read by properties only.

### FallbackRouter and the code

A *visit* is one node's use of the router: calls (`complete`), then
`drain_counters`, or an exception that leaves the node.  A call walks the chain
hop by hop; one action per decision of the loop in `complete` and
`complete_json`: `SkipHop`, `Ask` (the HTTP request, whose outcome is one of
`Failures` or an answer), `RetryHop` (the one sleep on a short cooldown),
`LeaveHop`, `JudgeScores`, `JudgeFails`, `EndOfChain`.

* Client state has the sharing the code gives it: `retry_after_seconds` and the
  recorded usage are `threading.local` (one value per thread and client);
  `disabled_reason` and the learned context window are plain attributes every
  thread sees.
* Counters and usages are sets of records that say which request they come
  from, so that "is this mine" can be asked; the code keeps only sums.
* A judge is another provider of the same chain and is called through the same
  client; it leaves the same state behind.
* Two calls under one drain (`claim_verifier` then `critic`) are
  `CritiqueAfterVerifying`.

Abstractions: a prompt is short or long for the learned window; a score is a
small number with a threshold, `Top` being the 1.0 of a judge that failed; a
sleep is a step.

### ResearchSessions and the code

LangGraph's `invoke` is modelled as these callers use it: it loads the thread's
latest checkpoint, works on a copy, saves after each super-step, and returns
with `__interrupt__`, returns finished, or raises.  `saved` is the latest
checkpoint per *place*: a thread id in a store, which is Postgres, or the
memory of one process when `get_checkpointer` fell back.  A checkpoint keeps
whose queries were merged into it (`runs`), whether the query it holds has any
text (`named`, which is what the thread check reads), how many reviews it has
had and what runs next.

* `Research` is the thread check (`reject_if_thread_in_use`), `InvokeFresh` the
  invoke after it: two steps, as nothing is held in between.
* `ResumeCall` and `InvokeResume` are `/resume`, which checks nothing.  A
  decision reaches the review that waits for one; on a thread that waits for
  none, the run goes on without it or is returned as it is.
* `Finish`, `Deliver`, `PrintFails`, `RecordFailure`, `ExitFailed` are the paths
  through `_respond` and through `_run`/`main`, in the order in which they
  print, insert the row and answer.  `Record` may lose the row: `_insert_run`
  swallows database errors.
* `Exits` is `main`'s `finally`: it closes the bridges and writes the trace after
  the row, nothing guards either, and one that raises turns a success or a
  refusal into exit code 1.
* `CliStops` and `Restart` are kills; a restart may find or lose Postgres and
  may fail to build.
* `told` and `unguarded` are history variables: the last answer given about a
  thread nobody works on, and the threads the check cannot keep: two requests
  were in flight there at once, or a command line began a run with an empty
  query there (the API refuses one).  They are read by properties only.

### McpBridge and the code

A bridge thread, its loop, its session and its shutdown event are named by the
thread's number; the fields of `MCPBridge` hold such a number, or `None`.

* A call is `StartThread` (the locked part of `start`), `BecomesReady` or
  `StartTimesOut` (the wait that is *not* under the lock), `CheckStart`
  (`_start_error`, with D-159's conversion), `Submit` (the one read of
  `self._loop`), `RunCoroutine` (the read of `self._session`, on the loop), and
  how it ends.
* The bridge thread is `_run_loop` around `_serve`, one action between awaits:
  `MakeLoop`, `Open`, `EnterSession`, `Initialized`, `Announce`, `StopServing`,
  `Disconnect`; `Fail` at any await, then `EndFailed`.  Submitted work runs only
  where `_serve` awaits (`LoopRuns`); a loop that has ended runs nothing, and
  cancels nothing either.
* `close` is `BeginClose`, `Signal`, `Join`, `Reset`; the join may give up.
* `orderly` is a history variable: no close gave up on a thread, and no call
  started the bridge again while a close, or a call from before it, was still
  between its steps.  The program closes a bridge once, at shutdown; the steps
  outside `orderly` are in the model, but the safety properties are not stated
  of them because they do not hold there (section 5).

### RetrievalChain and the code

A worker is a thread of the pool and climbs the ladder for one task after
another; each tier is one action (`SearchCorpus` for the query and again for
its short form, `AskMcp`, `SearchWeb`, `AskModel`), as a tier touches nothing
but this thread's counters.  `TierEnds` is what `retrieve` does after every
tool: keep the items, ask `_sufficient`, count the verdict, go on or return.
`TierRaises` is `_try`'s except branch.

* `counts` is one dict per *thread*, which the next task of the pool inherits;
  `Report` is the worker's `drain_retrieval_counts` after the ladder.
* A leg of the hybrid search is absent since construction, fails now, or
  answers one of `Rankings`; each outcome is counted in its own place.
* `Fused` is reciprocal rank fusion with the squash: rank among the distinct
  documents of a leg, scores in ten-thousandths, ties by first appearance.
* `WebSearch` is the pipeline of `servers/web_search.py` and `websearch/`:
  truncate, deduplicate, cap per domain, spread the scores over the band.
* A list that is filtered is kept as the list and the set of *places* that are
  left of it, for the hits of a leg as for the rows of an engine; the rank of a
  row is how many places are before it, plus one.

Of a text only the number of distinctive terms it shares with the query is
kept; similarity is a set of close documents per text asked.

### SemanticMemory and the code

* A run asks memory once (`Retrieve` ... `Query`) and stores once (`StoreRun` ...
  `Upsert`).  Both go through `ensure_collection`, the embedder and the store,
  one action per call out of the process and per access to the lock, so two
  runs may interleave anywhere.  `todo` is the run's call stack: what the
  embedding or the collection was needed for.
* `Build` is `QdrantStore.__init__`, whose one probe decides `available` for the
  life of the process; `Outage` toggles the server at any time.
* `SeeEmbedder`, `TakeLock`, `LookAgain`, `BuildEmbedder` are the two looks of
  `_embed` around `_embedder_lock`; the model always loads (one that does not
  leaves the embedder unbuilt and fails that run, as `Outage` does elsewhere).
* `Recall` has both paths: decay in the program (floor, decay, order, cut) and
  decay in Qdrant's formula (`memory_server_side_decay`).
* `GcScan` and `GcDelete` are apart, as `find_gc_candidates` returns a plan and
  `main` deletes by it; `Reset` drops the collection under whoever uses it.
* `asked` and `grounds` are history variables: what a recall searched, and what
  retrieval has found so far.

A fact is its content, which is its point id; decay is in whole half-lives,
rounded down to the scale of the scores.  The order in which Qdrant returns
points of equal score, which nothing fixes, is the constant `TieOrder`.

### ReportCycle and the code

A report is a body of lines and the block of sources the program appends; a
line carries the goals it cites, its distinctive terms and its figures instead
of text, and what is glued to it.  A compile, a critique and a record are one
action each, as they work on the state of one run that nobody else touches:
`CompileReport` is a draft through `RunReportPasses` in the order of
`REPORT_PASSES`; `ZeroCitationGate`, `ConfirmFigures` and `CriticAnswers` are the
exits of `critic_node` in their order; `Record` is `telemetry_node`, which audits
the shipped report once more and scores it.  The model's draft, the critic's
violations, the verifier's choice and the judge's score are any of those given.

* Both ways in which the code cuts the sources off a report are kept:
  `report_body` at the last `## Sources` heading, which is the program's own once
  it has appended one (`ReportBody`), `strip_machine_annotations` at the first
  (`Authored`).
* A citation the program attaches stands behind the full stop of its sentence,
  and that is where sentences are split: it is read with the next sentence of
  the same line of text, or with none (`attached`, `ends`, `Inline`).  A citation
  the model wrote is inside its sentence (`marks`).
* A list that was filtered is a function of the places that are left, and the
  round-robin of `budget_evidence` is a turn for each item: how many are before
  it by lap and bucket (`Turn`).  `Walk` takes the turns in order.
* Scores are in half points, with Python's rounding to even.
* `opinion` is a history variable: what the last critique rested on.

## 3. Properties

Properties marked P are proved for every instance (section 6), C are checked by
TLC; where only P stands the run would repeat what the proof says.

Of `ResearchGraph`:

* `TerminationBounds` (P), `RecursionLimitIsBackstop` (C, P): laps, revisions and
  reviews are bounded *together*, and LangGraph's limit is never what stops a
  run when it is at least `StepBound` = 4·MaxDepth + 2·max(MaxRevisions, 1) + 5.
  The limit is counted per invoke, so a run under review may take more
  super-steps than the limit in total.
* `EscalationReachesReviewer` (C, P): no trigger is dropped or stale.
* `GuidanceIsNotStale` (C, P): redirect guidance is consumed by its addressee.
* `PlanningFailureSearchedNothing`, `ReportShips` (P), `MemoryHoldsJudgedReports`
  (C, P): what ships, and what is remembered, matches what happened.
* `ShortfallIsReviewed` (C, P): a run below its recall target is written up only
  when a budget or the reviews are spent or a reviewer had the last word.
* `NoSearchRepeated`, `NoSearchAfterBudget` (C, P): what a fan-out may never do.
* `UnattendedNeverPauses` (P).
* `AnsweredRunsEnd` (C): runs whose reviewer always answers end.
* `ImplementsRun` (C, P): every step is a step or a stutter of `ResearchRun`.

Of `FallbackRouter`:

* `ExhaustionIsReal` (C, P): `ProviderChainExhausted` is raised only when no
  answer was received, accounts for every provider, and the last one was
  really asked.
* `BestAnswerReturned` (C, P): no call returns a worse answer than one it
  received.
* `WaitsOnOwnCooldown` (C, P): the router sleeps on the cooldown of the failure
  at hand, not on one a judge call or an earlier visit left in the client.
* `AttemptsAreBounded` (P): no provider is asked twice more than the one retry.
* `DeadProvidersAreSkipped` (C, P): what any thread learned of a dead provider
  holds for every call that begins later.
* `CallsReturn` (C): every call returns or raises.

Of `ResearchSessions`, for threads the check can keep (no two requests in flight
at once, no empty query):

* `OneRunPerThread` (C, P): the thread check keeps runs apart, whatever failures,
  pauses, kills and restarts leave behind.
* `AnswersAreTrue` (C, P): a thread last reported as interrupted can be resumed,
  one reported as done is over, whichever interface reported it.
* `DoneRowsAreFinal` (P), `RowsMatchAnswers` (C, P): run history against run
  state, and against exit codes and HTTP answers.  A completed row goes with
  success, or with the exit 1 of a process that failed to close after it; a
  failed row never with success.
* `PausesEndByAnswer` (C, P): a pause ends by an answer, or with the memory it
  was in.

Of `McpBridge`:

* `CallsFindTheirSession` (C, P): no caller, first or late, gets past `start` to
  a bridge without a session, and each uses the session of its own loop.
* `OneBridgeThread` (C, P): the race for the first call makes one thread, and
  the one that lives is the one `close` would join.
* `DeadBridgeIsKnown` (C, P): once the thread died, no caller waits for it.
* `CallsEnd` (C): every call that waits ends.
* `TypeOK` includes D-159: no call ends in a bare `CancelledError`.

Of `RetrievalChain`:

* `AnswersAreEarned` (C, P): a tier ends the search only with an item above the
  evidence floor that shares more than one term with any query that has more
  than one; from the corpus, with a document both legs returned; over MCP never.
* `OffTopicCorpusIsSilent` (C, P): D-150 across the legs: documents the dense index
  knows to be too far do not come in through the keyword leg.
* `CountersAreTheTasks` (C, P): what a worker reports is what this task's search
  did, whichever task or failure came before it on the thread.
* `WebResultsAreSpread` (C, P): each domain keeps its best rows up to the cap, and
  the scores span the band in the engine's order.

Of `SemanticMemory`:

* `EmbedderBuiltOnce` (C, P): runs that race for the first embedding share one
  model.
* `RecallIsFair` (C, P): D-142: what recall leaves out is irrelevant, or not among
  the nearest, or worth less than everything it returns; no fact counts for
  more than its similarity, whatever the clocks say.
* `ImplementsMemory` (C, P): the promise of `LongTermMemory`: a fact enters
  memory, or is made fresh, only because retrieval found it; recalling leaves no
  trace; the collector drops only what had faded.

Of `ReportCycle`:

* `SourcesAreHonest` (C, P): what the Sources block says is true of the text that
  ships above it, after every pass has had its turn.
* `PassesAreEarned` (C, P): a live report that passed cites something when there
  was something to cite; and one that passed although the critic had failed it
  had only refuted figure notes against it and is not recorded with a figure
  nothing supports, unless the model wrote a Sources heading of its own.
* `ConfidenceDescribesReport` (C, P): confidence is about the report that ships, not
  about an earlier draft: what a compile counted as attached is in the text that
  ships, which then cites nothing else above the last Sources heading of the
  model's own; HIGH needs acceptance, a citation the program did not attach, and
  figures not all kept away from the citations.
* `PromptIsFair` (C, P): the prompt stays inside its budget, an item is left out
  only because it does not fit beside items that come before it, recall counting
  as one goal; no item and no item's best score is lost on the way; and the
  newest notes of the last verdict are carried, all of them where they fit.

The inductive invariants `Inductive`/`FullInvariant`, `RouterInv`,
`SessionsInv`, `BridgeInv`, `RaceInv`, `FairInv`, `CycleInv`, `NotesInv` and
`LadderInv` were checked with TLC before they were proved; the runs do not
repeat them. Each module's `TypeOK` is proved with them.

## 4. Runs and bounds

| Run | Bounds | Shows |
|---|---|---|
| `reviewed` | 2 goals (symmetric), 1 query each, 2 grades, fan-out 2, depth 2, 1 revision, 2 reviews, limit 15 = StepBound, contradictions on, one run budget | the safety properties of the graph |
| `answered` | 1 goal, 2 queries, HITL on, 2 revisions | answered runs end; refinement of `ResearchRun` |
| `router_chain` | 3 providers, 1 thread, 2 visits, scores 0..2, threshold 2 | the properties of the router, every call ends |
| `sessions_shared` | 2 HTTP requests (symmetric), 1 command line, 1 thread id, 1 review, 1 restart | the properties of the sessions |
| `mcp_bridge` | 2 calls, 2 bridge threads, 1 close | the properties of the bridge |
| `retrieval` | 2 workers (symmetric), 3 documents, 3 pages, 2 claims, a long query and one of a single term, all tiers or the corpus alone | the properties of the ladder, and who reports which counter |
| `memory` | 2 runs (symmetric) of 1 process, 3 facts, 3 collections an earlier deployment left, 1 day, both decay paths | the properties of memory |
| `report` | 2 goals, 5 bodies of evidence, 13 drafts, 4 critiques, 3 settings, 2 revisions, 1 review, prompt budget 4 | the properties of the report |
| `memory_doc`, `router_counters_doc`, `sessions_thread_doc`, `memory_outage_doc` | least that shows it | the disagreements of section 5 |

Why these suffice.  *Graph*: two goals are needed for a partly covered plan,
two tasks for workers to interleave, depth 2 for a second lap, one revision for
a rewrite, two reviews for a redirect followed by another review.  Two grades
suffice for control: a third that passes without grounding changes only which
branch of `RouteConvergence` is taken, which the contested flag also reaches.
*Router*: three providers give a first hop, a middle one and a last one that
may not be skipped; two visits because what a judge leaves in a client matters
only to a later call; scores 0..2 against a threshold of 2 give a tie below the
threshold and a pass.  One thread is enough for TLC: what threads share (a dead
provider, a learned window) is quantified over in the proofs, which hold for
any number of them.  *Sessions*: two HTTP requests race, a third request of
another process shares Postgres or not; threads do not interact, so one id is
enough.  *Bridge*: two calls race for the first start or meet around a close;
two threads and one close give a start after a close, and a zombie beside a new
thread.  *Retrieval*: workers only share the setup, so two show whether one
hears of the other's counters; the rankings hold a document twice, one on topic
and none, and the pages hold a duplicate, a malformed row and two pages of one
domain.  *Memory*: two runs race for collection, lock and embedder; three facts
are two about the query of different age and one that is not, so that floor,
decay and cut can each be put in the wrong order; a day passes so that a fact
fades while a plan to delete it stands; an old collection has a fact from a
clock ahead and a value nobody knows.  *Report*: the drafts cite, do not, cite
the wrong goal or an unknown one, under a heading, fenced, with a pasted line,
with a Sources block of the model's own above and below the prose, with two of
them and uncited prose between, and with two sentences on one line; two
revisions let the counters of an earlier draft differ from the last; the prompt
budget fits some of the items and not others.

`CHECK_DEADLOCK` is off because runs, visits and requests end.

Fairness.  Graph: `WF_vars(RunNode \/ RunOutOfSteps)`, as LangGraph runs
super-steps in a plain loop inside `invoke`; nothing is assumed of the reviewer
(`AnsweredRunsEnd` takes answers as its hypothesis) and `RunFails` is never
forced.  Router: `WF` of each thread's `RouterStep`, as every HTTP request has a
timeout and every sleep is capped.  Bridge: `WF` of each call's own steps, as a
worker thread runs and both of its waits have timeouts; nothing is assumed of
the bridge thread, the server or `close`.  Sessions, retrieval, memory and
report: none; their properties are safety, and a ladder or a report cycle ends
by counting (the graph's liveness covers both as single steps).

## 5. Disagreements found while modelling

1. **An aborted run feeds memory** (`memory_doc`).  `critic_node` returns
   `critique_passed=True` for an abort report, so evidence gathered before the
   abort reaches `memory_writer`; D-24 says only a passed critique does.
2. **Counters of a call that raised are reported by another node**
   (`router_counters_doc`).  `drain_counters` is reached only when the node's
   calls return; `router.py:426` calls the opposite structurally guaranteed.
3. **Two requests can start one thread** (`sessions_thread_doc`).  The check of
   `assembly.py:267` and the invoke are not atomic, so D-20's blend of two runs
   can still happen between concurrent requests.
4. **A Qdrant that goes away after start-up fails the run**
   (`memory_outage_doc`).  `available` is decided once, in the constructor; every
   later call is unguarded down to the node, though
   `memory/semantic_memory.py:139` says `retrieve()` and `store_run()` never
   raise for an unreachable store.

Others were met and are not runs.  In the graph and the router:

* `compiler_node` hands `human_guidance` to the source list (D-64,
  `guardrails/sources.py:187`), but `gap_generator_node` has always cleared it
  before (`GuidanceIsNotStale`), so guidance never reaches the list.
* `README.md:1338` draws the E4 redirect into the compiler, while a redirect
  goes to `gap_generator`.
* A provider already found dead is still asked as a *judge* (`router.py:985`),
  which D-130's skip does not cover.
* Usage recorded before a raise stays in the client (`client.py:1293`) until a
  later request of that thread drains it (`UsageIsOwn` is violated as
  `CountersAreOwn` is).

In the sessions and the bridge:

* A client that retries `/resume` after the run has finished is answered `done`
  again and a second row is inserted.
* Closing a bridge whose transport died raises (`CloseNeverRaises`,
  `mcp_client.py:534`): the dead thread has closed its loop, and nothing in
  `cli.py` or `server.py` guards the call, so the resources after it stay open.
* At `cli.py:443` that happens after the row: a run recorded as completed, its
  report printed, ends with exit 1, which the list of exit codes (`cli.py:416`)
  keeps for a run without telemetry.  `tracer.flush()` at the end of the same
  block is as little guarded, and costs a refused run its exit code 3.
* The thread check tests the query it finds (`assembly.py:293`, `or None`): a
  thread that holds a run with an empty query is free to it, so D-20's blend can
  happen there without any race.  The command line accepts such a query, the API
  does not.
* `mcp_client.py:272` says `close` clears `_loop` only after the thread has
  finished; after a join that gives up it clears it earlier, and the thread
  goes on to set fields of a bridge that is closed.
* A call between `start` and its read of `self._loop` can be handed the loop of
  a bridge that was closed and started again in between, and find no session.
* `list_tools` converts timeouts but not `CancelledError`, unlike `call_tool`.

In retrieval and memory:

* A search all of whose tiers failed is reported as completed: `_try` takes
  every exception for a miss, so `search_worker`'s failed branch and the later
  lap of `gathering.py:154` are never reached by an outage
  (`OutagesAreFailures`; the counters do tell).
* `hits_for_query` raises so that a broken engine is not reported as "found
  nothing"; the web tool on the other side of the wire takes the tool-level
  error for no results.
* The server-side recall scores a value nobody knows 0, though
  `coerce_volatility` (`semantic_memory.py:96`) promises it is read as
  semi_stable; and the collector raises on it (`gc_memory.py:102`).
* The collector deletes by the plan of its scan: a fact stored again in between
  is fresh and deleted all the same.  `store_run` makes a stable fact
  semi_stable when it is found again.
* Two first users may both find the collection missing; the second creation is
  refused and its run fails.

In the report:

* A marker for a goal that does not exist (`[g9]`) survives `clean_citations` when
  its docstring (`citations.py:453`) says otherwise: it counts as a citation for
  D-66 and the record, attaches nothing, and its figures are neither checked
  nor outside.
* A `## Sources` heading the model wrote itself makes the two readers of a
  report disagree: `report_body` cuts at the last one and
  `strip_machine_annotations` at the first, so prose below it is recorded but
  never criticised.  Of a draft with two such headings the part between them is
  searched for citations, given them when it has none, and never criticised.
  The docstring of `annotations.py:78` describes the order from before D-144.
* A citation the program attaches is audited under the next sentence:
  `attribution.py:187` writes it behind the full stop, `claims.py:95` splits
  there, and the sentence it was found for is audited as uncited.  The comment
  at `attribution.py:121` says the two passes agree about where a sentence ends.
* The cap for sources listed under the uncited note (`confidence.py:252`) reads a
  field telemetry never carries.
* A budget spent during a compile asks for a truncation notice
  (`compilation.py:226`) on a later compile that `route_after_critique` refuses.
* An abort after a compile leaves `last_compile_guardrails` of the report that
  does not ship.
* Citations are attached before they are cleaned: a draft that cites only goals
  without evidence is not rescued.
* `falsified_by_evidence` tests digits as a substring, so a note about 03 is
  refuted by evidence of 203.

## 6. Proofs

Every proof rests only on the module's assumptions about its constants, and
holds for any number of goals, queries, providers, threads, documents, pages,
drafts, requests and any bounds.  The assumptions are the ranges `config.py`
enforces, that processes are distinct, and these about what comes in:

* `ChainAssumption`: there is something to search for; a leg returns a list of
  documents and an engine a list of rows, usable or not.
* `MemoryAssumption`: the facts that can ever be stored are finitely many, and
  Qdrant breaks ties by some order of them.
* `InputAssumption` of `ReportCycle`: evidence that was not recalled is labelled
  with a goal of the run, as workers search only for tasks whose goal exists
  (`agents/task_utils.py:88`); recalled items come from memory; an item has one
  of the five sources that producers give (`state.py:236`) and a length; a
  critique is a list of notes.
* `DraftAssumption`: no line of a draft carries a citation of the program's, and
  its figures are finitely many; a heading is a line of text of its own; a draft
  does not begin with a `## Sources` heading, which `report_body` finds behind a
  line break only.

`ResearchGraph_proofs`: the inductive invariant, every safety property of the
graph, the freedom of unattended runs from pauses, the two action
properties, and that `ResearchGraph` implements `ResearchRun`.  None of the
properties is inductive alone.  `Inductive` adds: `PlanInv` (a plan failed
exactly when it is empty; nothing was searched while it is), `ReportInv` (which
report exists where), `BudgetInv` (every entry to a lap or a compilation still
has budget, counting one extra per review), `StepInv` (super-steps taken plus
the most that can remain fit in StepBound, node by node) and `SearchInv` (a
task that left the workers is settled).  One lemma per node handler shows it is
kept.  `ShortfallInv` is preserved relative to `Inductive` and gives
`ShortfallIsReviewed`.  The refinement maps `Interrupt` to AskReviewer, `Resume`
to Answer, `Telemetry` to Finish, `MemoryWriter` to Remember, compilations to
Work, failures to Fail, and all else to a stutter.

`FallbackRouter_proofs`: `RouterInv` and each safety property.  Besides the
properties themselves, `RouterInv` says where a call is in its chain and what
it has collected (`HopInv`, `CandidateInv`, `AttemptInv`): the hops behind it
are accounted for, the kept candidates are below the threshold, and a cooldown
is only read after the request that set or cleared it.  A step of one thread
changes only that thread's call and the shared client attributes, which only
grow; one lemma per action uses that.

`ResearchSessions_proofs`: `SessionsInv`, each safety property and
`PausesEndByAnswer`.  The key conjunct is `SoloOK`: while no other request is
in flight on its thread, a request's copy agrees with what is saved there
(`Knows`), and the query saved there has text.  `Untouched` says a request leaves no trace before its invoke.
`OwnStep` shows once, for any step of one request on one thread, that nobody
else is disturbed; each action's lemma then speaks of its own request only.

`McpBridge_proofs`: `BridgeInv` and the three safety properties.  Its parts:
`BornOK` (numbers of threads), `ThreadOK` (what the stage of the one bridge
thread says of every shared field, and so what a reader on another thread may
conclude), `NoThreadOK` (what a reset leaves) and `CallOK` (what each call in
flight relies on).  `CallsFindTheirSession` is not inductive alone: that a
ready bridge has a session, and that a submitted call's loop is past
connecting, must travel with each call from its wait to its coroutine.

`SemanticMemory_proofs`: `RaceInv` says what each run's list of errands may hold
where it stands (`ErrandsInv`), and that who is past the lock holds it and who
builds found nothing built (`LockInv`); `EmbedderBuiltOnce` is not inductive
without it.  One lemma covers every step that takes no lock (`ErrandStep`), and
one each of the three around the lock.  `MemoryInv` keeps, per run, that what it
found well enough is among the grounds; with it every step maps to one of
`LongTermMemory` or to a stutter: `Research` to Find, `Upsert` to Remember,
`GcScan` to Mark, `GcDelete` to Forget, `Reset` to Wipe, `NextDay` to Pass.
`RecallWasFair` is about one recall of any memory on any day, for both decay
paths: what is `Ahead` of what is a strict order (`AheadIsOrder`), so the best k
are k, or all, and whatever is left out comes after each of them (`FirstN`);
decay only takes away (`DecayIsPart`), so no fact is worth more than its
similarity, and the floor on the server's score keeps what the floor on
similarity does not.  `FairInv` carries it to every later state: what a run
recalled is what `Recall` makes of the points and the day it asked on.

`RetrievalChain_proofs`: `LadderInv`, and from it each safety property.  Per
worker it says that the trail is a beginning of the ladder its task and setup
give (`Climbs`, `Ends`), that the answer is one the last tier can have made
(`Found`), and that every counter of the thread is the count of the tries of
this task that bear on it (`Counted`, or nothing once it was reported).  The
lemmas are about what a tier computes.  `Fused` passes half of the scale only for
a document both legs returned (`FusedAgrees`), as rank 1 in one leg alone gives
just half (`LegBound`): with a floor of at least 0.5 the corpus answers only
with what both agree on.  `SpreadHolds` follows a row through the web pipeline by its
place: the survivors of each filter are counted by rank (`Deduped`, `Capped`),
and a quotient of rank and total falls strictly when the band has a step for
each rank, and weakly when not (`Scored`).  `TellsMore` shows once that one more
try and its counters go together; `TierStep` applies it to every tier.

`ReportCycle_proofs`: `EarnedInv` says that a verdict that passed is past its
critique, what it rested on (`Grounds`), and that a record is about the report
it closes.  That the critic and the record read the same text where the model
wrote no Sources heading of its own is `SameText`.  `CycleInv` adds what the
other two properties need: evidence and report have their shape, the last
compilation's counts are counts of the report that stands, and the Sources
block is `Honest` about the lines above it.  `Passed` takes a draft through the
passes in their order; each pass has a lemma that says which lines it may touch
and that it leaves what the program attached alone (`Retouches`,
`SameAttached`), so that what one pass established is shown to survive those
after it, and `SourcesListed` is about the last.  `CitationsAttachedOnce` says
that citations are attached only where nothing is cited down to the last own
Sources heading (`Upper`), and `RestsOnFound` that each names a goal that found
something, which is why `CitationsCleaned` drops none of them.  New
evidence does not make a block that was honest dishonest (`EvidenceGrows`).
`ConfidenceHolds` joins the counts to the score: `HighIsUncapped` shows
that HIGH leaves no cap standing, `AuditSees` that the audit of the recorded
text sees the lines the property speaks of.

`FairPrompt` is about what a prompt carries.  `LapOrder` and `Buckets` give every
item a lap within its bucket and every bucket a place, so that `Turns` finds one
item at each turn.  The walk and the sums it compares are recursive functions:
`Walking` and `Summing` show that their values exist and follow one another, and
`WalkIsFair` goes along the turns: what is kept costs at most the budget, and an
item that was passed over did not fit beside what was kept before its turn,
which is kept to the end and on no later lap.  `DedupeKeeps` is about the list
the walk is given.  `NotesInv` says that while a verdict stands its notes are the
newest of all; `NewestCarried` that the newest of these that fit are then the
newest that fit of all.

`RankTheorems` holds what these share.  Where the code sorts and cuts, the
specifications say that an item is kept when fewer than n come before it; `Ranks`
shows that for any strict order of a finite set these counts are 0, 1, 2 and so
on, one element each, and `FirstN` what is kept and what is left out.  Induction
over numbers is there as a fact about the set of numbers a claim holds of
(`Steps`, from `LeastElement`), and with it that recursively given values exist
(`Sequel`).

Only model-checked: `AnsweredRunsEnd`, `CallsReturn` and `CallsEnd`, because
liveness under fairness is beyond the prover.

## 7. Plan

The order was: the graph, because it decides what a run does; the router,
because every node depends on it and its state outlives calls; the sessions,
because they carry the persistence and the concurrency between users; the
bridge, because every search may cross it between threads; the ladder of
tiers; memory, because it outlives runs; and the report, because it is what a
run is for.  What would come next:

1. `RunClock` (`limits.py`): deadline with pause credit, refined by the budget
   flag of `ResearchGraph`.
2. Ingestion (`ops/ingest.py`) beside runs that search, over the same stores.
3. A *model call* (returns the best answer received or raises, in bounded
   attempts) and a *session* (free, working, paused or over) as abstract
   specifications, refined by `FallbackRouter` and, on unraced threads,
   `ResearchSessions`.

## 8. Not modelled, and why

* What models, search engines, Postgres, Qdrant, OpenSearch and LangGraph do
  inside: external; modelled by what the code can observe of them.
* `reporting/narrative.py`, `prompts/templates.py`, logging: wording.  The patterns
  that find citations, figures and terms in prose are abstracted to their
  results; what is done with the results is modelled.
* `langfuse/` and `tracing.py`: they copy the state of a run to an external SDK;
  nothing in a run depends on what becomes of it.
* Authentication, `/state` and `/health`: they change no state.
* `ops/` and `scripts/` other than the collector and the reset: offline.
* Settings validation (`config.py`): declarative; its bounds are the models'
  assumptions.
* Pacing sleeps between calls and wall-clock times.
