------------------------------- MODULE McpBridge -------------------------------
(***************************************************************************)
(* tools/mcp_client.py: the bridge between synchronous worker threads and  *)
(* the event loop of a background thread that owns the connection to an    *)
(* MCP server.                                                             *)
(*                                                                         *)
(* Abstractions.  A bridge thread, its loop, its session, its exit stack   *)
(* and its shutdown event are all named by the number of the thread that   *)
(* made them; 0 is None.  Tool names, arguments and results are left out:  *)
(* a call ends in an answer, a timeout or an error.  A wait with a timeout *)
(* may time out whenever it has not ended.  list_tools is a call.          *)
(***************************************************************************)
EXTENDS Naturals

CONSTANTS
  Calls,       \* calls of call_tool, each made once, by worker threads
  MaxThreads,  \* bound: bridge threads ever made
  MaxCloses    \* bound: calls of close(), made one after the other

ASSUME BridgeAssumption == MaxThreads \in Nat \ {0} /\ MaxCloses \in Nat

Threads == 1..MaxThreads
None == 0

VARIABLES
  thread, loop, session, exitStack, shutdownEvent,  \* the fields of MCPBridge,
  ready, startError,                                \* read by every thread
  born,        \* bridge threads made so far
  stage,       \* how far each of them has come
  signalled,   \* whose shutdown events are set
  pc,          \* how far each call has come
  target,      \* the loop it was submitted to
  used,        \* the session its coroutine called
  outcome,     \* how it ended
  closer,      \* how far the present close() has come
  closes,
  orderly      \* history: no close gave up on a thread, and none was followed
               \* by a new start while it or an older call was still at work

connection == <<session, exitStack, shutdownEvent>>
fields == <<thread, loop, connection, ready, startError>>
threadVars == <<born, stage, signalled>>
callVars == <<pc, target, used, outcome>>
closeVars == <<closer, closes>>
vars == <<fields, threadVars, callVars, closeVars, orderly>>

Stages == {"unborn", "born", "opening", "connecting", "initializing",
           "announcing", "serving", "closing", "failing", "ended"}
Alive(b) == stage[b] \notin {"unborn", "ended"}

\* Where a loop runs what was submitted to it: where _serve awaits.
LoopRuns(b) == stage[b] \in {"connecting", "initializing", "serving", "closing"}

\* A loop work can be submitted to; run_until_complete has not returned.
OpenLoops == {b \in Threads : stage[b] # "ended"}

Init ==
  /\ thread = None /\ loop = None /\ session = None
  /\ exitStack = None /\ shutdownEvent = None
  /\ ready = FALSE /\ startError = "none"
  /\ born = 0 /\ stage = [b \in Threads |-> "unborn"] /\ signalled = {}
  /\ pc = [c \in Calls |-> "idle"] /\ target = [c \in Calls |-> None]
  /\ used = [c \in Calls |-> None] /\ outcome = [c \in Calls |-> "none"]
  /\ closer = "open" /\ closes = 0 /\ orderly = TRUE

-----------------------------------------------------------------------------
(* A call: start(), then the coroutine on the bridge's loop.               *)

Step(c, from, to) == pc[c] = from /\ pc' = [pc EXCEPT ![c] = to]

End(c, how) ==
  /\ pc' = [pc EXCEPT ![c] = "done"]
  /\ outcome' = [outcome EXCEPT ![c] = how]

\* Mutant: a cancellation goes through as it is.
RaisedAsIs(exc) == exc

\* _transport_failure: a cancellation becomes an exception callers catch.
Raised(exc) == IF exc = "cancelled" THEN "transport" ELSE exc

\* Past its wait for readiness, with nothing in hand yet.
Unsubmitted(c) == pc[c] \in {"connected", "submitting"}

\* Mutant: a bridge that is not ready is started again.
MustStartUnready == thread = None \/ ~ready

\* Under the lock: the first call makes the thread.
MustStart == thread = None

MakeThread ==
  /\ born < MaxThreads /\ born' = born + 1
  /\ thread' = born' /\ stage' = [stage EXCEPT ![born'] = "born"]
  /\ orderly' = (orderly /\ closer # "resetting" /\ \A d \in Calls : ~Unsubmitted(d))

StartThread(c) ==
  /\ Step(c, "idle", "waiting")
  /\ \/ MustStart /\ MakeThread
     \/ ~MustStart /\ UNCHANGED <<born, thread, stage, orderly>>
  /\ UNCHANGED <<loop, connection, ready, startError, signalled, target, used,
                 outcome, closeVars>>

\* Mutant: only the caller that made the thread waits for it.
WaitedIfCreator(c) == ready \/ \E d \in Calls \ {c} : pc[d] = "waiting"

\* Every caller waits until the bridge is ready, or has failed.
Waited(c) == ready

BecomesReady(c) ==
  /\ Step(c, "waiting", "connected") /\ Waited(c)
  /\ UNCHANGED <<fields, threadVars, target, used, outcome, closeVars, orderly>>

StartTimesOut(c) ==
  /\ pc[c] = "waiting" /\ ~ready
  /\ End(c, "timeout")
  /\ UNCHANGED <<fields, threadVars, target, used, closeVars, orderly>>

CheckStart(c) ==
  /\ pc[c] = "connected"
  /\ \/ /\ startError = "none"
        /\ Step(c, "connected", "submitting") /\ UNCHANGED outcome
     \/ startError # "none" /\ End(c, Raised(startError))
  /\ UNCHANGED <<fields, threadVars, target, used, closeVars, orderly>>

\* The loop is read once; None or a closed loop is an error.
Submit(c) ==
  /\ pc[c] = "submitting"
  /\ \/ /\ loop \in OpenLoops
        /\ Step(c, "submitting", "submitted")
        /\ target' = [target EXCEPT ![c] = loop] /\ UNCHANGED outcome
     \/ loop \notin OpenLoops /\ End(c, "error") /\ UNCHANGED target
  /\ UNCHANGED <<fields, threadVars, used, closeVars, orderly>>

\* The coroutine starts on the loop, and only there reads self._session.
RunCoroutine(c) ==
  /\ pc[c] = "submitted" /\ LoopRuns(target[c])
  /\ used' = [used EXCEPT ![c] = session]
  /\ \/ /\ session # None
        /\ Step(c, "submitted", "running") /\ UNCHANGED outcome
     \/ session = None /\ End(c, "no session")
  /\ UNCHANGED <<fields, threadVars, target, closeVars, orderly>>

\* The server answers or refuses; a session only works on its own loop.
Answer(c) ==
  /\ pc[c] = "running"
  /\ used[c] = target[c] /\ stage[target[c]] \in {"serving", "closing"}
  /\ End(c, "answer") \/ End(c, "error")
  /\ UNCHANGED <<fields, threadVars, target, used, closeVars, orderly>>

\* The transport goes down under the call.
CallCancelled(c) ==
  /\ pc[c] = "running" /\ stage[target[c]] # "ended"
  /\ End(c, Raised("cancelled"))
  /\ UNCHANGED <<fields, threadVars, target, used, closeVars, orderly>>

\* Mutant: a coroutine that never started is waited for without a limit.
WaitsForResultRunning(c) == pc[c] = "running"

WaitsForResult(c) == pc[c] \in {"submitted", "running"}

CallTimesOut(c) ==
  /\ WaitsForResult(c)
  /\ End(c, "timeout")
  /\ UNCHANGED <<fields, threadVars, target, used, closeVars, orderly>>

-----------------------------------------------------------------------------
(* The bridge thread: _run_loop and _serve.                                *)

Goes(b, from, to) == stage[b] = from /\ stage' = [stage EXCEPT ![b] = to]

MakeLoop(b) ==
  /\ Goes(b, "born", "opening") /\ loop' = b
  /\ UNCHANGED <<thread, connection, ready, startError, born, signalled,
                 callVars, closeVars, orderly>>

Open(b) ==
  /\ Goes(b, "opening", "connecting") /\ exitStack' = b
  /\ UNCHANGED <<thread, loop, session, shutdownEvent, ready, startError, born,
                 signalled, callVars, closeVars, orderly>>

\* The transport is up: the session is entered, on whatever stack is there.
EnterSession(b) ==
  /\ exitStack # None /\ Goes(b, "connecting", "initializing")
  /\ session' = b
  /\ UNCHANGED <<thread, loop, exitStack, shutdownEvent, ready, startError, born,
                 signalled, callVars, closeVars, orderly>>

Initialized(b) ==
  /\ Goes(b, "initializing", "announcing") /\ shutdownEvent' = b
  /\ UNCHANGED <<thread, loop, session, exitStack, ready, startError, born,
                 signalled, callVars, closeVars, orderly>>

Announce(b) ==
  /\ Goes(b, "announcing", "serving") /\ ready' = TRUE
  /\ UNCHANGED <<thread, loop, connection, startError, born, signalled,
                 callVars, closeVars, orderly>>

\* Connecting fails, or the transport is cancelled while the bridge serves, or
\* the exit stack raises, or a close has taken it away.
Fail(b) ==
  /\ stage[b] \in {"opening", "connecting", "initializing", "serving", "closing"}
  /\ stage' = [stage EXCEPT ![b] = "failing"]
  /\ startError' \in {"cancelled", "error"}
  /\ UNCHANGED <<thread, loop, connection, ready, born, signalled, callVars,
                 closeVars, orderly>>

\* Mutant: a failure does not set the event start() waits for.
EndFailedQuietly(b) ==
  /\ Goes(b, "failing", "ended") /\ UNCHANGED ready
  /\ UNCHANGED <<thread, loop, connection, startError, born, signalled,
                 callVars, closeVars, orderly>>

\* The error is there before the waiting callers are let go.
EndFailed(b) ==
  /\ Goes(b, "failing", "ended") /\ ready' = TRUE
  /\ UNCHANGED <<thread, loop, connection, startError, born, signalled,
                 callVars, closeVars, orderly>>

StopServing(b) ==
  /\ b \in signalled /\ exitStack # None
  /\ Goes(b, "serving", "closing")
  /\ UNCHANGED <<fields, born, signalled, callVars, closeVars, orderly>>

Disconnect(b) ==
  /\ Goes(b, "closing", "ended")
  /\ UNCHANGED <<fields, born, signalled, callVars, closeVars, orderly>>

-----------------------------------------------------------------------------
(* close().                                                                *)

BeginClose ==
  /\ closer = "open" /\ closes < MaxCloses /\ closes' = closes + 1
  /\ closer' = IF loop = None \/ thread = None THEN "open" ELSE "signalling"
  /\ UNCHANGED <<fields, threadVars, callVars, orderly>>

\* call_soon_threadsafe raises on a loop that is closed.
Signal ==
  /\ closer = "signalling"
  /\ \/ /\ shutdownEvent # None /\ loop \notin OpenLoops
        /\ closer' = "raised" /\ UNCHANGED signalled
     \/ /\ shutdownEvent # None /\ loop \in OpenLoops
        /\ closer' = "joining" /\ signalled' = signalled \cup {shutdownEvent}
     \/ shutdownEvent = None /\ closer' = "joining" /\ UNCHANGED signalled
  /\ UNCHANGED <<fields, born, stage, callVars, closes, orderly>>

\* The thread ends, or the join gives up on it; loop and thread are dropped.
Join ==
  /\ closer = "joining" /\ closer' = "resetting"
  /\ orderly' = (orderly /\ stage[thread] = "ended")
  /\ loop' = None /\ thread' = None
  /\ UNCHANGED <<connection, ready, startError, threadVars, callVars, closes>>

Reset ==
  /\ closer = "resetting" /\ closer' = "open"
  /\ session' = None /\ exitStack' = None /\ shutdownEvent' = None
  /\ ready' = FALSE /\ startError' = "none"
  /\ UNCHANGED <<thread, loop, threadVars, callVars, closes, orderly>>

CallStep(c) ==
  \/ BecomesReady(c) \/ StartTimesOut(c) \/ CheckStart(c) \/ Submit(c)
  \/ RunCoroutine(c) \/ Answer(c) \/ CallCancelled(c) \/ CallTimesOut(c)

ThreadStep(b) ==
  \/ MakeLoop(b) \/ Open(b) \/ EnterSession(b) \/ Initialized(b) \/ Announce(b)
  \/ Fail(b) \/ EndFailed(b) \/ StopServing(b) \/ Disconnect(b)

CloseStep == Signal \/ Join \/ Reset

Next ==
  \/ BeginClose \/ CloseStep
  \/ \E c \in Calls : StartThread(c) \/ CallStep(c)
  \/ \E b \in Threads : ThreadStep(b)

Spec == Init /\ [][Next]_vars

\* A worker thread runs, and its waits have timeouts.
FairSpec == Spec /\ \A c \in Calls : WF_vars(CallStep(c))

-----------------------------------------------------------------------------
(* Properties.                                                             *)

\* Every field, thread, call and close keeps its type; no call ends in a bare
\* cancellation, which no handler above would catch (D-159).
TypeOK ==
  /\ {thread, loop, session, exitStack, shutdownEvent} \subseteq Threads \cup {None}
  /\ ready \in BOOLEAN /\ startError \in {"none", "cancelled", "error"}
  /\ born \in 0..MaxThreads
  /\ stage \in [Threads -> Stages] /\ signalled \subseteq Threads
  /\ pc \in [Calls -> {"idle", "waiting", "connected", "submitting", "submitted",
                       "running", "done"}]
  /\ target \in [Calls -> Threads \cup {None}]
  /\ used \in [Calls -> Threads \cup {None}]
  /\ outcome \in [Calls -> {"none", "answer", "timeout", "transport", "error",
                            "no session"}]
  /\ closer \in {"open", "signalling", "joining", "resetting", "raised"}
  /\ closes \in 0..MaxCloses /\ orderly \in BOOLEAN

\* However many workers race for the first call, none submits to a bridge that
\* is still connecting or finds it without a session, and each uses the session
\* its own loop connected, also when a bridge is closed and started again.
CallsFindTheirSession ==
  orderly => \A c \in Calls :
    /\ outcome[c] # "no session"
    /\ pc[c] = "running" => used[c] = target[c]

\* One thread at a time is connected to the server, and it is the one a close
\* would end.
OneBridgeThread == orderly => \A b \in Threads : Alive(b) => b = thread

\* A bridge that has died is known to be dead: no later caller sits out the
\* startup timeout, or is let through to it.
DeadBridgeIsKnown ==
  orderly /\ thread # None /\ stage[thread] = "ended" /\ thread \notin signalled
    => ready /\ startError # "none"

\* Every call that waits for the bridge ends: with an answer, an error or a
\* timeout, also when its loop ends before its coroutine has begun.
CallsEnd == \A c \in Calls : pc[c] = "waiting" ~> pc[c] = "done"

-----------------------------------------------------------------------------
(* The inductive invariant of the proofs.                                  *)

\* What the stage of the one bridge thread says of the fields.
ThreadOK(b) ==
  /\ loop = IF stage[b] = "born" THEN None ELSE b
  /\ stage[b] \in {"initializing", "announcing", "serving", "closing"} => session = b
  /\ stage[b] \in {"born", "opening", "connecting", "initializing", "announcing"}
       => ~ready /\ startError = "none"
  /\ stage[b] \in {"serving", "closing"} => ready
  /\ stage[b] = "closing" => b \in signalled
  /\ stage[b] = "failing" => startError # "none"
  /\ stage[b] = "ended" => ready /\ (b \in signalled \/ startError # "none")

\* Without a thread there is nothing to be ready, once a close has returned.
NoThreadOK ==
  /\ loop = None
  /\ closer # "resetting" => ~ready /\ startError = "none"

\* A call past its wait has a ready bridge or none; one that is submitted is on
\* a loop that serves, or has stopped for good.
CallOK(c) ==
  /\ Unsubmitted(c) => thread = None \/ ready
  /\ pc[c] \in {"submitted", "running"} =>
       target[c] \in Threads /\ stage[target[c]] \in {"serving", "closing", "failing", "ended"}
  /\ pc[c] = "running" => used[c] = target[c]
  /\ outcome[c] # "no session"

Orderly ==
  /\ \A b \in Threads : Alive(b) => b = thread
  /\ thread = None => NoThreadOK
  /\ thread # None => ThreadOK(thread)
  /\ closer \in {"signalling", "joining"} => thread # None
  /\ closer = "resetting" => thread = None
  /\ \A c \in Calls : CallOK(c)

\* The threads made are those that have a stage.
BornOK ==
  /\ thread <= born
  /\ \A b \in Threads : b <= born <=> stage[b] # "unborn"

BridgeInv == TypeOK /\ BornOK /\ (orderly => Orderly)

-----------------------------------------------------------------------------
\* tests/unit/test_tools_mcp_client.py:232: close() "must not itself raise,
\* even after a failed start".
CloseNeverRaises == closer # "raised"
=================================================================================
