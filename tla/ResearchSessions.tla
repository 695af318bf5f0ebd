---------------------------- MODULE ResearchSessions ----------------------------
(***************************************************************************)
(* cli.py, api/server.py, and what they use of assembly.py and             *)
(* storage/postgres.py: HTTP requests to one server process and command    *)
(* line processes that start, answer and record runs of the graph, on      *)
(* thread ids they may share, over a checkpointer that may be lost.        *)
(*                                                                         *)
(* Abstractions.  A run of the graph is what ResearchRun says of it: it    *)
(* saves checkpoints, may pause for a review, ends or raises.  LangGraph's *)
(* invoke is modelled as these callers use it: it loads the thread's       *)
(* latest checkpoint, works on a copy in memory, and saves that after each *)
(* super-step.  A request is used once; a query is the request it came     *)
(* with.  Authentication, traces and what is printed are left out.         *)
(***************************************************************************)
EXTENDS Integers, Sequences

CONSTANTS
  ApiCalls,    \* HTTP requests to the server
  CliRuns,     \* command line processes
  ThreadIds,   \* thread ids callers use
  MaxReviews,  \* reviews one run may ask for
  MaxRestarts  \* bound: restarts of the server

ASSUME SessionsAssumption ==
  /\ MaxReviews \in Nat /\ MaxRestarts \in Nat
  /\ ApiCalls \cap CliRuns = {}
  /\ {"postgres", "server"} \cap CliRuns = {}

Requests  == ApiCalls \cup CliRuns
Processes == {"server"} \cup CliRuns
Stores    == {"postgres"} \cup Processes
Places    == Stores \X ThreadIds

VARIABLES
  durable,   \* processes whose get_checkpointer reached Postgres
  built,     \* the server's app bundle was built
  restarts,
  saved,     \* the latest checkpoint of each thread, per store
  phase,     \* how far each request has come
  where,     \* the thread, and its store, each request works on
  copy,      \* the graph state in the memory of each request's invoke
  answer,    \* what the caller was told: a status, or an exit code
  rows,      \* the rows of agent_runs each request has inserted
  told,      \* history: the last answer about a thread nobody works on
  unguarded  \* history: threads on which two requests were in flight at once,
             \* or a run with an empty query was begun

serverVars  == <<durable, built, restarts>>
requestVars == <<phase, where, copy, answer, rows>>
vars == <<serverVars, saved, requestVars, told, unguarded>>

\* The values a thread holds: whose queries went into them, whether raw_query,
\* the last of them, is more than the empty string, what runs next, and the
\* reviews in escalation_history.
Checkpoint == [runs : SUBSET Requests, named : BOOLEAN, reviews : 0..MaxReviews,
               next : {"nothing", "node", "review", "end"}]
Nothing == [runs |-> {}, named |-> FALSE, reviews |-> 0, next |-> "nothing"]

Phases == {"new", "checked", "resuming", "running", "returned", "prompt",
           "finished", "raised", "failed", "over"}
ExitCodes == {"exit 1", "exit 2", "exit 4"}
Answers == ExitCodes \cup {"none", "in_use", "unavailable", "interrupted",
                           "done", "error", "lost"}
Nowhere == <<>>

Active(r) == phase[r] \notin {"new", "over"}

\* get_checkpointer: Postgres, or the memory of the process.
StoreOf(r) ==
  LET process == IF r \in CliRuns THEN r ELSE "server"
  IN  IF process \in durable THEN "postgres" ELSE process

Init ==
  /\ durable \in SUBSET Processes /\ built \in BOOLEAN /\ restarts = 0
  /\ saved = [k \in Places |-> Nothing]
  /\ phase = [r \in Requests |-> "new"]
  /\ where = [r \in Requests |-> Nowhere]
  /\ copy = [r \in Requests |-> Nothing]
  /\ answer = [r \in Requests |-> "none"]
  /\ rows = [r \in Requests |-> <<>>]
  /\ told = [k \in Places |-> "none"]
  /\ unguarded = {}

-----------------------------------------------------------------------------
(* Arriving at a thread.                                                   *)

\* Mutant: only a thread with work left counts as in use.
InUseIfPending(k) == saved[k].next \in {"node", "review"}

\* Mutant: a paused thread does not count as in use.
InUseUnlessPaused(k) == saved[k].next \in {"node", "end"}

\* reject_if_thread_in_use: the thread's raw_query is not empty.
InUse(k) == saved[k].named

Refuse(r, why) ==
  /\ phase' = [phase EXCEPT ![r] = "over"]
  /\ answer' = [answer EXCEPT ![r] = why]
  /\ UNCHANGED <<serverVars, saved, where, copy, rows, told, unguarded>>

\* How a request that has its outcome leaves.  In a command line main's finally
\* comes first, where closing a bridge whose transport has died raises, as may
\* writing the trace: the process ends with 1, whatever it was to return.
Exits(r, outcome) == {outcome} \cup (IF r \in CliRuns THEN {"exit 1"} ELSE {})

Enter(r, k, stage) ==
  /\ phase' = [phase EXCEPT ![r] = stage]
  /\ where' = [where EXCEPT ![r] = k]
  /\ unguarded' = IF \E q \in Requests : Active(q) /\ where[q] = k
              THEN unguarded \cup {k} ELSE unguarded
  /\ UNCHANGED <<serverVars, saved, copy, answer, rows, told>>

\* A server whose bundle failed to build answers 503.
Unavailable(r) ==
  /\ r \in ApiCalls /\ phase[r] = "new" /\ ~built
  /\ Refuse(r, "unavailable")

\* POST /research, and _run of a command line: the check comes before invoke.
Research(r) ==
  /\ phase[r] = "new" /\ (r \in ApiCalls => built)
  /\ \E thread \in ThreadIds :
       LET k == <<StoreOf(r), thread>> IN
       \/ InUse(k) /\ \E exit \in Exits(r, "in_use") : Refuse(r, exit)
       \/ ~InUse(k) /\ Enter(r, k, "checked")

\* POST /resume checks nothing.
ResumeCall(r) ==
  /\ r \in ApiCalls /\ phase[r] = "new" /\ built
  /\ \E thread \in ThreadIds : Enter(r, <<StoreOf(r), thread>>, "resuming")

-----------------------------------------------------------------------------
(* The invoke.                                                             *)

Forget(r) == told' = [told EXCEPT ![where[r]] = "none"]

\* invoke(ResearchState(raw_query=...)) merges the query into the values the
\* thread holds, and starts at the graph's entry.  The server refuses an empty
\* query; the command line takes one.
InvokeFresh(r) ==
  /\ phase[r] = "checked"
  /\ \E named \in IF r \in CliRuns THEN BOOLEAN ELSE {TRUE} :
       LET held   == saved[where[r]]
           merged == [runs |-> held.runs \cup {r}, named |-> named,
                      reviews |-> held.reviews, next |-> "node"]
       IN  /\ copy' = [copy EXCEPT ![r] = merged]
           /\ saved' = [saved EXCEPT ![where[r]] = merged]
           /\ unguarded' = unguarded \cup (IF named THEN {} ELSE {where[r]})
  /\ phase' = [phase EXCEPT ![r] = "running"]
  /\ Forget(r)
  /\ UNCHANGED <<serverVars, where, answer, rows>>

\* Mutant: any resume counts as the answer to a review.
AnsweredAlways(c) == [c EXCEPT !.reviews = @ + 1, !.next = "node"]

\* The decision reaches the review that waits for one; a run that failed or
\* was cut off between two nodes goes on without it.
AnsweredBy(c) ==
  IF c.next = "review" THEN [c EXCEPT !.reviews = @ + 1, !.next = "node"] ELSE c

\* invoke(Command(resume=...)): a thread without values is an error, a run
\* that is over is returned as it is.
InvokeResume(r) ==
  /\ phase[r] = "resuming"
  /\ LET c == saved[where[r]] IN
     /\ copy' = [copy EXCEPT ![r] = IF c.next = "end" THEN c ELSE AnsweredBy(c)]
     /\ phase' = [phase EXCEPT ![r] = CASE c.next = "nothing" -> "raised"
                                        [] c.next = "end" -> "returned"
                                        [] OTHER -> "running"]
  /\ Forget(r)
  /\ UNCHANGED <<serverVars, saved, where, answer, rows, unguarded>>

Save(r, c) ==
  /\ copy' = [copy EXCEPT ![r] = c]
  /\ saved' = [saved EXCEPT ![where[r]] = c]

\* A super-step ends: its checkpoint replaces the thread's.
Superstep(r) ==
  /\ phase[r] = "running"
  /\ Save(r, copy[r])
  /\ UNCHANGED <<serverVars, phase, where, answer, rows, told, unguarded>>

\* The run stops for a review, or at the end.
Stop(r) ==
  /\ phase[r] = "running"
  /\ \/ Save(r, [copy[r] EXCEPT !.next = "end"])
     \/ /\ copy[r].reviews < MaxReviews
        /\ Save(r, [copy[r] EXCEPT !.next = "review"])
  /\ phase' = [phase EXCEPT ![r] = "returned"]
  /\ UNCHANGED <<serverVars, where, answer, rows, told, unguarded>>

\* A node raises, the recursion limit is hit, or the checkpointer cannot be
\* reached.
Raise(r) ==
  /\ phase[r] \in {"checked", "resuming", "running"}
  /\ phase' = [phase EXCEPT ![r] = "raised"]
  /\ UNCHANGED <<serverVars, saved, where, copy, answer, rows, told, unguarded>>

-----------------------------------------------------------------------------
(* Answering.                                                              *)

Answer(r, status) ==
  /\ phase' = [phase EXCEPT ![r] = "over"]
  /\ answer' = [answer EXCEPT ![r] = status]

Tell(r, status) == told' = [told EXCEPT ![where[r]] = status]

\* _insert_run: a database that cannot be reached costs the row, no more.
Record(r, outcome) ==
  \/ rows' = [rows EXCEPT ![r] = Append(@, outcome)]
  \/ UNCHANGED rows

\* _respond, when the result has "__interrupt__".
RespondInterrupted(r) ==
  /\ r \in ApiCalls /\ phase[r] = "returned" /\ copy[r].next = "review"
  /\ Answer(r, "interrupted") /\ Tell(r, "interrupted")
  /\ UNCHANGED <<serverVars, saved, where, copy, rows, unguarded>>

\* Mutant: the result is not looked at for "__interrupt__".
FinishAnyResult(r) ==
  /\ phase[r] = "returned"
  /\ Record(r, "done")
  /\ phase' = [phase EXCEPT ![r] = "finished"]
  /\ UNCHANGED <<serverVars, saved, where, copy, answer, told, unguarded>>

\* Mutant: the row is written before the report is printed.
FinishRecordingFirst(r) ==
  /\ phase[r] = "returned" /\ copy[r].next = "end" /\ rows[r] = <<>>
  /\ Record(r, "done")
  /\ phase' \in {phase, [phase EXCEPT ![r] = "finished"]}
  /\ UNCHANGED <<serverVars, saved, where, copy, answer, told, unguarded>>

\* The result is a finished run: it is recorded, once the command line has
\* printed it.
Finish(r) ==
  /\ phase[r] = "returned" /\ copy[r].next = "end"
  /\ Record(r, "done")
  /\ phase' = [phase EXCEPT ![r] = "finished"]
  /\ UNCHANGED <<serverVars, saved, where, copy, answer, told, unguarded>>

\* The response is sent, or the command line exits, with 0 if nothing raises
\* on the way out.
Deliver(r) ==
  /\ phase[r] = "finished"
  /\ \E exit \in Exits(r, "done") :
       /\ Answer(r, exit)
       /\ IF exit = "done" THEN Tell(r, "done") ELSE UNCHANGED told
  /\ UNCHANGED <<serverVars, saved, where, copy, rows, unguarded>>

\* _report_outcome raises: standard output was closed.
PrintFails(r) ==
  /\ r \in CliRuns /\ phase[r] = "returned" /\ copy[r].next = "end"
  /\ phase' = [phase EXCEPT ![r] = "raised"]
  /\ UNCHANGED <<serverVars, saved, where, copy, answer, rows, told, unguarded>>

\* An exception becomes a 500 and no row.
RespondError(r) ==
  /\ r \in ApiCalls /\ phase[r] = "raised"
  /\ Answer(r, "error")
  /\ UNCHANGED <<serverVars, saved, where, copy, rows, told, unguarded>>

\* _run records the exception and lets it through; main makes an exit code
\* of it: 2 and 4 name their failure, 1 is any other.
RecordFailure(r) ==
  /\ r \in CliRuns /\ phase[r] = "raised"
  /\ Record(r, "failed")
  /\ phase' = [phase EXCEPT ![r] = "failed"]
  /\ UNCHANGED <<serverVars, saved, where, copy, answer, told, unguarded>>

ExitFailed(r) ==
  /\ phase[r] = "failed"
  /\ \E code \in ExitCodes : Answer(r, code)
  /\ UNCHANGED <<serverVars, saved, where, copy, rows, told, unguarded>>

-----------------------------------------------------------------------------
(* The command line's review loop, and processes that stop.                *)

Prompt(r) ==
  /\ r \in CliRuns /\ phase[r] = "returned" /\ copy[r].next = "review"
  /\ phase' = [phase EXCEPT ![r] = "prompt"]
  /\ UNCHANGED <<serverVars, saved, where, copy, answer, rows, told, unguarded>>

\* A decision is typed, or the input is at its end and input() raises.
PromptAnswered(r) ==
  /\ phase[r] = "prompt"
  /\ \/ phase' = [phase EXCEPT ![r] = "resuming"]
     \/ phase' = [phase EXCEPT ![r] = "raised"]
  /\ UNCHANGED <<serverVars, saved, where, copy, answer, rows, told, unguarded>>

\* Ctrl-C, which `except Exception` does not catch, at the prompt or in the
\* middle of a node; or the process is killed.
CliStops(r) ==
  /\ r \in CliRuns /\ Active(r)
  /\ Answer(r, "lost")
  /\ UNCHANGED <<serverVars, saved, where, copy, rows, told, unguarded>>

\* The server stops and starts again: requests in flight are lost, and so are
\* threads that were held in its memory.
Restart ==
  /\ restarts < MaxRestarts /\ restarts' = restarts + 1
  /\ built' \in BOOLEAN
  /\ durable' \in {durable \ {"server"}, durable \cup {"server"}}
  /\ saved' = [k \in Places |-> IF k[1] = "server" THEN Nothing ELSE saved[k]]
  /\ told' = [k \in Places |-> IF k[1] = "server" THEN "none" ELSE told[k]]
  /\ LET lost == {r \in ApiCalls : Active(r)} IN
     /\ phase' = [r \in Requests |-> IF r \in lost THEN "over" ELSE phase[r]]
     /\ answer' = [r \in Requests |-> IF r \in lost THEN "lost" ELSE answer[r]]
  /\ UNCHANGED <<where, copy, rows, unguarded>>

Arrive(r) == Unavailable(r) \/ Research(r) \/ ResumeCall(r)
Invoke(r) ==
  InvokeFresh(r) \/ InvokeResume(r) \/ Superstep(r) \/ Stop(r) \/ Raise(r)
Reply(r) ==
  \/ RespondInterrupted(r) \/ Finish(r) \/ Deliver(r) \/ PrintFails(r)
  \/ RespondError(r) \/ RecordFailure(r) \/ ExitFailed(r)
  \/ Prompt(r) \/ PromptAnswered(r) \/ CliStops(r)

Next == Restart \/ \E r \in Requests : Arrive(r) \/ Invoke(r) \/ Reply(r)

Spec == Init /\ [][Next]_vars

-----------------------------------------------------------------------------
(* Safety.                                                                 *)

\* Every part of the state keeps its type, and no run is reviewed more often
\* than it may be.
TypeOK ==
  /\ durable \subseteq Processes /\ built \in BOOLEAN
  /\ restarts \in 0..MaxRestarts
  /\ saved \in [Places -> Checkpoint]
  /\ phase \in [Requests -> Phases]
  /\ where \in [Requests -> Places \cup {Nowhere}]
  /\ copy \in [Requests -> Checkpoint]
  /\ answer \in [Requests -> Answers]
  /\ rows \in [Requests -> Seq({"done", "failed"})]
  /\ told \in [Places -> {"none", "interrupted", "done"}]
  /\ unguarded \subseteq Places

\* A thread on which no two requests were ever in flight at once, and whose
\* runs all had a query, holds one run only, after whatever failures, pauses,
\* kills and restarts (D-20).
OneRunPerThread ==
  \A k \in Places \ unguarded : \A q, r \in saved[k].runs : q = r

\* What the last caller was told of a thread is so: "interrupted" can be
\* resumed, "done" is over, whichever interface it was told by.
AnswersAreTrue ==
  \A k \in Places \ unguarded :
    /\ told[k] = "interrupted" => saved[k].next = "review"
    /\ told[k] = "done" => saved[k].next = "end"

\* A run that was recorded as completed is never taken up again.
DoneRowIsFinal(r) ==
  LET k == where[r] IN
  rows[r] = <<"done">> /\ k \notin unguarded =>
    saved[k].runs \cap copy[r].runs = {} \/ saved[k].next = "end"

DoneRowsAreFinal == \A r \in Requests : DoneRowIsFinal(r)

\* A request leaves one row at most, and its row and what its caller gets never
\* say that it both completed and failed: not when printing fails after the
\* run, nor when the process dies between the row and the answer (D-103).  A
\* completed row never goes with an exit code that names a failure, nor a
\* failed one with success; only 1 tells nothing, since a process whose run is
\* recorded as completed may still end with it when closing a bridge raises.
RowMatchesAnswer(r) == rows[r] # <<>> =>
  \/ /\ rows[r] = <<"done">>
     /\ phase[r] = "finished" \/ answer[r] \in Exits(r, "done") \cup {"lost"}
  \/ /\ rows[r] = <<"failed">>
     /\ phase[r] = "failed" \/ answer[r] \in ExitCodes \cup {"lost"}

RowsMatchAnswers == \A r \in Requests : RowMatchesAnswer(r)

\* A pause ends by an answer to it, or with the memory it was kept in.
PausesEndByAnswer ==
  [][\A k \in Places \ unguarded' :
       saved[k].next = "review" /\ saved'[k].next # "review" =>
         \/ saved'[k] = Nothing
         \/ saved'[k].reviews = saved[k].reviews + 1]_vars

-----------------------------------------------------------------------------
(* The inductive invariant of the proofs.                                  *)

\* A thread without values has no checkpoint, one whose runs were guarded has
\* a query, and one that waits for a review may still have it.
PlaceOK(k) ==
  /\ saved[k].runs = {} => saved[k] = Nothing
  /\ k \in unguarded \/ saved[k].runs = {} \/ saved[k].named
  /\ saved[k].next = "review" => saved[k].reviews < MaxReviews

\* Before its invoke a request has left no trace.
Untouched(r) == phase[r] \in {"new", "checked"} =>
  /\ \A q \in Requests : r \notin copy[q].runs
  /\ \A k \in Places : r \notin saved[k].runs

\* A request in flight has a thread, not in the server's memory if it is a
\* command line; it has told nobody anything and recorded nothing.
RequestOK(r) ==
  /\ Active(r) \/ rows[r] # <<>> => where[r] \in Places
  /\ Active(r) /\ r \in CliRuns => where[r][1] # "server"
  /\ phase[r] = "running" => copy[r].runs # {} /\ copy[r].next = "node"
  /\ phase[r] \notin {"finished", "failed", "over"} => rows[r] = <<>>
  /\ phase[r] # "over" => answer[r] = "none"

\* The one request at work on a thread knows all that is saved of it.
Knows(r) ==
  LET k == where[r] IN
  /\ phase[r] = "checked" => saved[k].runs = {}
  /\ phase[r] = "running" =>
       /\ told[k] = "none" /\ saved[k].runs = copy[r].runs /\ copy[r].named
       /\ \/ saved[k].next = "node"
          \/ saved[k].next = "review" /\ copy[r].reviews = saved[k].reviews + 1
  /\ phase[r] \in {"returned", "prompt", "finished"} => saved[k] = copy[r]
  /\ phase[r] = "finished" => copy[r].next = "end"

Alone(r) == \A q \in Requests : Active(q) /\ where[q] = where[r] => q = r

SoloOK(r) == Active(r) /\ where[r] \notin unguarded => Alone(r) /\ Knows(r)

SessionsInv ==
  /\ TypeOK /\ OneRunPerThread /\ AnswersAreTrue
  /\ DoneRowsAreFinal /\ RowsMatchAnswers
  /\ \A k \in Places : PlaceOK(k)
  /\ \A r \in Requests : RequestOK(r) /\ Untouched(r) /\ SoloOK(r)

-----------------------------------------------------------------------------
\* assembly.py:270: "A thread_id IDENTIFIES one run", and the docstring of
\* research() promises 409 to a caller whose thread_id already holds one.
ThreadHoldsOneRun == \A k \in Places : \A q, r \in saved[k].runs : q = r
=================================================================================
