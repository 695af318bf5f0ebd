--------------------------- MODULE McpBridge_proofs ---------------------------
(***************************************************************************)
(* Proofs about McpBridge, for every number of calls, of bridge threads    *)
(* and of closes: one lemma per step shows that it preserves BridgeInv.    *)
(***************************************************************************)
EXTENDS McpBridge, TLAPS

USE BridgeAssumption
USE DEF vars, fields, connection, threadVars, callVars, closeVars, Threads, None

\* The numbers of threads and closes.
LEMMA NumberFacts ==
  ASSUME TypeOK
  PROVE  /\ MaxThreads \in Nat /\ MaxCloses \in Nat
         /\ born \in Nat /\ born <= MaxThreads
         /\ closes \in Nat /\ closes <= MaxCloses
         /\ thread \in Nat /\ thread <= MaxThreads
<1>1. born \in 0..MaxThreads
  BY DEF TypeOK
<1>2. closes \in 0..MaxCloses
  BY DEF TypeOK
<1>3. thread \in Threads \cup {None}
  BY DEF TypeOK
<1>4. MaxThreads \in Nat /\ MaxCloses \in Nat
  OBVIOUS
<1>5. QED
  BY <1>1, <1>2, <1>3, <1>4

\* A thread is not None.
LEMMA ThreadsAreSome == \A b \in Threads : b # None
OBVIOUS

\* A thread that has a stage was made, and the thread of the bridge is one.
LEMMA ThreadIsBorn ==
  ASSUME TypeOK, BornOK, thread # None
  PROVE  thread \in Threads /\ stage[thread] # "unborn"
<1>1. thread \in Threads /\ thread <= born
  BY NumberFacts DEF BornOK
<1>2. QED
  BY <1>1 DEF BornOK

\* A call finds a thread, or makes the first one while nobody else is at work.
LEMMA StartThreadStep ==
  ASSUME BridgeInv, NEW c \in Calls, StartThread(c)
  PROVE  BridgeInv'
<1>a. TypeOK /\ BornOK /\ (orderly => Orderly)
  BY DEF BridgeInv
<1>1. /\ pc' = [pc EXCEPT ![c] = "waiting"]
      /\ UNCHANGED <<loop, session, exitStack, shutdownEvent, ready, startError,
                     signalled, target, used, outcome, closer, closes>>
  BY DEF StartThread, Step
<1>2. CASE thread = None /\ MakeThread
  <2> DEFINE n == born + 1
  <2>1. /\ born < MaxThreads /\ n \in Threads /\ thread = None
        /\ born' = n /\ thread' = n
        /\ stage' = [stage EXCEPT ![n] = "born"]
        /\ orderly' = (orderly /\ closer # "resetting" /\ \A d \in Calls : ~Unsubmitted(d))
    BY <1>a, <1>2, NumberFacts DEF MakeThread
  <2>2. /\ stage[n] = "unborn" /\ stage'[n] = "born"
        /\ \A b \in Threads : b # n => stage'[b] = stage[b]
    <3>1. stage \in [Threads -> Stages]
      BY <1>a DEF TypeOK
    <3>2. ~(n <= born)
      BY <1>a, NumberFacts
    <3>3. stage[n] = "unborn"
      BY <1>a, <2>1, <3>2 DEF BornOK
    <3>4. QED
      BY <2>1, <3>1, <3>3
  <2>3. TypeOK'
    <3>1. stage' \in [Threads -> Stages]
      BY <1>a, <2>1 DEF TypeOK, Stages
    <3>2. pc' \in [Calls -> {"idle", "waiting", "connected", "submitting", "submitted",
                            "running", "done"}]
      BY <1>a, <1>1 DEF TypeOK
    <3>3. born' \in 0..MaxThreads
      BY <1>a, <2>1, NumberFacts
    <3>4. orderly' \in BOOLEAN
      BY <2>1
    <3>5. QED
      BY <1>a, <1>1, <2>1, <3>1, <3>2, <3>3, <3>4 DEF TypeOK
  <2>4. BornOK'
    <3>1. ASSUME NEW b \in Threads PROVE b <= born' <=> stage'[b] # "unborn"
      <4>1. CASE b = n
        BY <1>a, <4>1, <2>1, <2>2, NumberFacts
      <4>2. CASE b # n
        <5>1. b <= n <=> b <= born
          BY <1>a, <4>2, NumberFacts
        <5>2. QED
          BY <1>a, <5>1, <4>2, <2>1, <2>2 DEF BornOK
      <4>3. QED
        BY <4>1, <4>2
    <3>2. thread' <= born'
      BY <1>a, <2>1, NumberFacts
    <3>3. QED
      BY <3>1, <3>2 DEF BornOK
  <2>5. ASSUME orderly' PROVE Orderly'
    <3>1. /\ orderly /\ Orderly /\ closer # "resetting"
          /\ \A d \in Calls : ~Unsubmitted(d)
      BY <1>a, <2>1, <2>5
    <3>2. \A b \in Threads : ~Alive(b)
      BY <2>1, <3>1 DEF Orderly
    <3>3. \A b \in Threads : Alive(b)' => b = thread'
      BY <2>1, <2>2, <3>2 DEF Alive
    <3>4. thread' # None
      BY <1>a, <2>1, NumberFacts
    <3>5. ThreadOK(thread)'
      <4>1. loop = None /\ ~ready /\ startError = "none"
        BY <2>1, <3>1 DEF Orderly, NoThreadOK
      <4>2. QED
        BY <4>1, <1>1, <2>1, <2>2 DEF ThreadOK
    <3>6. \A d \in Calls : CallOK(d)'
      <4>1. ASSUME NEW d \in Calls PROVE CallOK(d)'
        <5>1. pc'[d] = pc[d] \/ pc'[d] = "waiting"
          BY <1>a, <1>1 DEF TypeOK
        <5>2. ~Unsubmitted(d)'
          BY <5>1, <3>1 DEF Unsubmitted
        <5>3. CallOK(d)
          BY <3>1 DEF Orderly
        <5>4. target[d] # n \/ pc[d] \notin {"submitted", "running"}
          BY <5>3, <2>2 DEF CallOK
        <5>5. QED
          BY <5>1, <5>2, <5>3, <5>4, <1>1, <2>2 DEF CallOK
      <4>2. QED
        BY <4>1
    <3>7. QED
      BY <1>1, <3>1, <3>3, <3>4, <3>5, <3>6 DEF Orderly
  <2>6. QED
    BY <2>3, <2>4, <2>5 DEF BridgeInv
<1>3. CASE UNCHANGED <<born, thread, stage, orderly>>
  <2>1. TypeOK' /\ BornOK'
    BY <1>a, <1>1, <1>3 DEF TypeOK, BornOK
  <2>2. ASSUME orderly PROVE Orderly'
    <3>1. ASSUME NEW d \in Calls PROVE CallOK(d)'
      <4>1. CallOK(d)
        BY <1>a, <2>2 DEF Orderly
      <4>2. pc'[d] = pc[d] \/ pc'[d] = "waiting"
        BY <1>a, <1>1 DEF TypeOK
      <4>3. QED
        BY <4>1, <4>2, <1>1, <1>3 DEF CallOK, Unsubmitted
    <3>2. QED
      BY <1>a, <1>1, <1>3, <2>2, <3>1 DEF Orderly, Alive, ThreadOK, NoThreadOK
  <2>3. QED
    BY <1>3, <2>1, <2>2 DEF BridgeInv
<1>4. QED
  BY <1>2, <1>3 DEF StartThread, MustStart

\* A call goes on once the bridge is ready.
LEMMA BecomesReadyStep ==
  ASSUME BridgeInv, NEW c \in Calls, BecomesReady(c)
  PROVE  BridgeInv'
<1> USE DEF BridgeInv, BecomesReady, Waited, Step
<1>1. TypeOK'
  BY DEF TypeOK, Stages
<1>2. BornOK'
  BY DEF TypeOK, Stages, BornOK
<1>3. ASSUME orderly' PROVE Orderly'
  <2>1. orderly /\ Orderly
    BY <1>3
  <2>2. \A b \in Threads : Alive(b)' => b = thread'
    BY <1>3, <2>1 DEF TypeOK, Stages, BornOK, Orderly, Alive, ThreadOK
  <2>3. thread' = None => NoThreadOK'
    BY <1>3, <2>1 DEF TypeOK, Stages, BornOK, Orderly, Alive, NoThreadOK
  <2>4. thread' # None => ThreadOK(thread)'
    BY <1>3, <2>1 DEF TypeOK, Stages, BornOK, Orderly, Alive, ThreadOK, NoThreadOK
  <2>5. /\ closer' \in {"signalling", "joining"} => thread' # None
        /\ closer' = "resetting" => thread' = None
    BY <1>3, <2>1 DEF TypeOK, BornOK, Orderly
  <2>6. \A d \in Calls : CallOK(d)'
    BY <1>3, <2>1 DEF TypeOK, Stages, BornOK, Orderly, Alive, ThreadOK, NoThreadOK,
       CallOK, Unsubmitted
  <2>7. QED
    BY <2>2, <2>3, <2>4, <2>5, <2>6 DEF Orderly
<1>4. QED
  BY <1>1, <1>2, <1>3

\* A call gives up waiting.
LEMMA StartTimesOutStep ==
  ASSUME BridgeInv, NEW c \in Calls, StartTimesOut(c)
  PROVE  BridgeInv'
<1> USE DEF BridgeInv, StartTimesOut, End
<1>1. TypeOK'
  BY DEF TypeOK, Stages
<1>2. BornOK'
  BY DEF TypeOK, Stages, BornOK
<1>3. ASSUME orderly' PROVE Orderly'
  <2>1. orderly /\ Orderly
    BY <1>3
  <2>2. \A b \in Threads : Alive(b)' => b = thread'
    BY <1>3, <2>1 DEF TypeOK, Stages, BornOK, Orderly, Alive, ThreadOK
  <2>3. thread' = None => NoThreadOK'
    BY <1>3, <2>1 DEF TypeOK, Stages, BornOK, Orderly, Alive, NoThreadOK
  <2>4. thread' # None => ThreadOK(thread)'
    BY <1>3, <2>1 DEF TypeOK, Stages, BornOK, Orderly, Alive, ThreadOK, NoThreadOK
  <2>5. /\ closer' \in {"signalling", "joining"} => thread' # None
        /\ closer' = "resetting" => thread' = None
    BY <1>3, <2>1 DEF TypeOK, BornOK, Orderly
  <2>6. \A d \in Calls : CallOK(d)'
    BY <1>3, <2>1 DEF TypeOK, Stages, BornOK, Orderly, Alive, ThreadOK, NoThreadOK,
       CallOK, Unsubmitted
  <2>7. QED
    BY <2>2, <2>3, <2>4, <2>5, <2>6 DEF Orderly
<1>4. QED
  BY <1>1, <1>2, <1>3

\* A call looks at how the start went.
LEMMA CheckStartStep ==
  ASSUME BridgeInv, NEW c \in Calls, CheckStart(c)
  PROVE  BridgeInv'
<1> USE DEF BridgeInv, CheckStart, Raised, Step, End
<1>1. TypeOK'
  BY DEF TypeOK, Stages
<1>2. BornOK'
  BY DEF TypeOK, Stages, BornOK
<1>3. ASSUME orderly' PROVE Orderly'
  <2>1. orderly /\ Orderly
    BY <1>3
  <2>2. \A b \in Threads : Alive(b)' => b = thread'
    BY <1>3, <2>1 DEF TypeOK, Stages, BornOK, Orderly, Alive, ThreadOK
  <2>3. thread' = None => NoThreadOK'
    BY <1>3, <2>1 DEF TypeOK, Stages, BornOK, Orderly, Alive, NoThreadOK
  <2>4. thread' # None => ThreadOK(thread)'
    BY <1>3, <2>1 DEF TypeOK, Stages, BornOK, Orderly, Alive, ThreadOK, NoThreadOK
  <2>5. /\ closer' \in {"signalling", "joining"} => thread' # None
        /\ closer' = "resetting" => thread' = None
    BY <1>3, <2>1 DEF TypeOK, BornOK, Orderly
  <2>6. \A d \in Calls : CallOK(d)'
    <3>1. ASSUME NEW d \in Calls, d # c PROVE CallOK(d)'
      BY <2>1, <3>1 DEF TypeOK, Orderly, CallOK, Unsubmitted
    <3>2. CallOK(c)'
      BY <2>1 DEF TypeOK, Orderly, CallOK, Unsubmitted
    <3>3. QED
      BY <3>1, <3>2
  <2>7. QED
    BY <2>2, <2>3, <2>4, <2>5, <2>6 DEF Orderly
<1>4. QED
  BY <1>1, <1>2, <1>3

\* A call reads the loop: with a thread that is ready, it is one that serves.
LEMMA SubmitStep ==
  ASSUME BridgeInv, NEW c \in Calls, Submit(c)
  PROVE  BridgeInv'
<1> USE DEF BridgeInv, Submit, OpenLoops, Step, End
<1>1. TypeOK'
  BY DEF TypeOK, Stages
<1>2. BornOK'
  BY DEF TypeOK, Stages, BornOK
<1>3. ASSUME orderly' PROVE Orderly'
  <2>1. orderly /\ Orderly
    BY <1>3
  <2>2. \A b \in Threads : Alive(b)' => b = thread'
    BY <1>3, <2>1 DEF TypeOK, Stages, BornOK, Orderly, Alive, ThreadOK
  <2>3. thread' = None => NoThreadOK'
    BY <1>3, <2>1 DEF TypeOK, Stages, BornOK, Orderly, Alive, NoThreadOK
  <2>4. thread' # None => ThreadOK(thread)'
    BY <1>3, <2>1 DEF TypeOK, Stages, BornOK, Orderly, Alive, ThreadOK, NoThreadOK
  <2>5. /\ closer' \in {"signalling", "joining"} => thread' # None
        /\ closer' = "resetting" => thread' = None
    BY <1>3, <2>1 DEF TypeOK, BornOK, Orderly
  <2>6. \A d \in Calls : CallOK(d)'
    <3>1. ASSUME NEW d \in Calls, d # c PROVE CallOK(d)'
      BY <2>1, <3>1 DEF TypeOK, Orderly, CallOK, Unsubmitted
    <3>2. CallOK(c)'
      <4>1. CASE loop \in Threads /\ stage[loop] # "ended"
        <5>1. loop = thread /\ thread \in Threads
          <6>1. thread # None
            BY <4>1, <2>1 DEF Orderly, NoThreadOK
          <6>2. thread \in Threads
            BY <6>1, ThreadIsBorn
          <6>3. loop = IF stage[thread] = "born" THEN None ELSE thread
            BY <6>1, <2>1 DEF Orderly, ThreadOK
          <6>4. QED
            BY <4>1, <6>2, <6>3
        <5>2. stage[loop] \in {"serving", "closing", "failing"}
          <6>1. thread # None /\ stage[thread] \in Stages /\ stage[thread] # "unborn"
            <7>1. thread # None
              BY <5>1
            <7>2. stage \in [Threads -> Stages]
              BY DEF TypeOK
            <7>3. QED
              BY <5>1, <7>1, <7>2, ThreadIsBorn
          <6>2. CallOK(c) /\ ThreadOK(thread)
            BY <2>1, <6>1 DEF Orderly
          <6>3. ready
            BY <6>1, <6>2 DEF CallOK, Unsubmitted
          <6>4. QED
            BY <4>1, <5>1, <6>1, <6>2, <6>3 DEF ThreadOK, Stages
        <5>3. pc'[c] = "submitted" /\ target'[c] = loop /\ outcome'[c] = outcome[c]
          BY <4>1 DEF TypeOK
        <5>4. QED
          BY <4>1, <5>2, <5>3, <2>1 DEF Orderly, CallOK, Unsubmitted
      <4>2. CASE loop \notin OpenLoops
        BY <4>2, <2>1 DEF TypeOK, Orderly, CallOK, Unsubmitted
      <4>3. QED
        BY <4>1, <4>2
    <3>3. QED
      BY <3>1, <3>2
  <2>7. QED
    BY <2>2, <2>3, <2>4, <2>5, <2>6 DEF Orderly
<1>4. QED
  BY <1>1, <1>2, <1>3

\* A coroutine runs on a loop that serves, and finds the session there.
LEMMA RunCoroutineStep ==
  ASSUME BridgeInv, NEW c \in Calls, RunCoroutine(c)
  PROVE  BridgeInv'
<1> USE DEF BridgeInv, RunCoroutine, LoopRuns, Step, End
<1>1. TypeOK'
  BY DEF TypeOK, Stages
<1>2. BornOK'
  BY DEF TypeOK, Stages, BornOK
<1>3. ASSUME orderly' PROVE Orderly'
  <2>1. orderly /\ Orderly
    BY <1>3
  <2>2. \A b \in Threads : Alive(b)' => b = thread'
    BY <1>3, <2>1 DEF TypeOK, Stages, BornOK, Orderly, Alive, ThreadOK
  <2>3. thread' = None => NoThreadOK'
    BY <1>3, <2>1 DEF TypeOK, Stages, BornOK, Orderly, Alive, NoThreadOK
  <2>4. thread' # None => ThreadOK(thread)'
    BY <1>3, <2>1 DEF TypeOK, Stages, BornOK, Orderly, Alive, ThreadOK, NoThreadOK
  <2>5. /\ closer' \in {"signalling", "joining"} => thread' # None
        /\ closer' = "resetting" => thread' = None
    BY <1>3, <2>1 DEF TypeOK, BornOK, Orderly
  <2>6. \A d \in Calls : CallOK(d)'
    <3>1. ASSUME NEW d \in Calls, d # c PROVE CallOK(d)'
      BY <2>1, <3>1 DEF TypeOK, Orderly, CallOK, Unsubmitted
    <3>2. CallOK(c)'
      <4>1. /\ target[c] \in Threads
            /\ stage[target[c]] \in {"serving", "closing"}
        BY <2>1 DEF Orderly, CallOK
      <4>2. session = target[c] /\ session # None
        <5>1. target[c] = thread /\ thread # None
          <6>1. Alive(target[c])
            BY <4>1 DEF Alive
          <6>2. \A b \in Threads : Alive(b) => b = thread
            BY <2>1 DEF Orderly
          <6>3. target[c] = thread
            BY <4>1, <6>1, <6>2
          <6>4. \A b \in Threads : b # None
            BY ThreadsAreSome
          <6>5. QED
            BY <4>1, <6>3, <6>4
        <5>2. ThreadOK(thread)
          BY <5>1, <2>1 DEF Orderly
        <5>3. QED
          BY <4>1, <5>1, <5>2 DEF ThreadOK
      <4>3. /\ pc'[c] = "running" /\ used'[c] = session
            /\ outcome' = outcome /\ target' = target
        BY <4>2 DEF TypeOK
      <4>4. QED
        BY <4>1, <4>2, <4>3, <2>1 DEF TypeOK, Orderly, CallOK, Unsubmitted
    <3>3. QED
      BY <3>1, <3>2
  <2>7. QED
    BY <2>2, <2>3, <2>4, <2>5, <2>6 DEF Orderly
<1>4. QED
  BY <1>1, <1>2, <1>3

\* The server answers.
LEMMA AnswerStep ==
  ASSUME BridgeInv, NEW c \in Calls, Answer(c)
  PROVE  BridgeInv'
<1> USE DEF BridgeInv, Answer, End
<1>1. TypeOK'
  BY DEF TypeOK, Stages
<1>2. BornOK'
  BY DEF TypeOK, Stages, BornOK
<1>3. ASSUME orderly' PROVE Orderly'
  <2>1. orderly /\ Orderly
    BY <1>3
  <2>2. \A b \in Threads : Alive(b)' => b = thread'
    BY <1>3, <2>1 DEF TypeOK, Stages, BornOK, Orderly, Alive, ThreadOK
  <2>3. thread' = None => NoThreadOK'
    BY <1>3, <2>1 DEF TypeOK, Stages, BornOK, Orderly, Alive, NoThreadOK
  <2>4. thread' # None => ThreadOK(thread)'
    BY <1>3, <2>1 DEF TypeOK, Stages, BornOK, Orderly, Alive, ThreadOK, NoThreadOK
  <2>5. /\ closer' \in {"signalling", "joining"} => thread' # None
        /\ closer' = "resetting" => thread' = None
    BY <1>3, <2>1 DEF TypeOK, BornOK, Orderly
  <2>6. \A d \in Calls : CallOK(d)'
    BY <1>3, <2>1 DEF TypeOK, Stages, BornOK, Orderly, Alive, ThreadOK, NoThreadOK,
       CallOK, Unsubmitted
  <2>7. QED
    BY <2>2, <2>3, <2>4, <2>5, <2>6 DEF Orderly
<1>4. QED
  BY <1>1, <1>2, <1>3

\* The transport goes down under a call.
LEMMA CallCancelledStep ==
  ASSUME BridgeInv, NEW c \in Calls, CallCancelled(c)
  PROVE  BridgeInv'
<1> USE DEF BridgeInv, CallCancelled, Raised, End
<1>1. TypeOK'
  BY DEF TypeOK, Stages
<1>2. BornOK'
  BY DEF TypeOK, Stages, BornOK
<1>3. ASSUME orderly' PROVE Orderly'
  <2>1. orderly /\ Orderly
    BY <1>3
  <2>2. \A b \in Threads : Alive(b)' => b = thread'
    BY <1>3, <2>1 DEF TypeOK, Stages, BornOK, Orderly, Alive, ThreadOK
  <2>3. thread' = None => NoThreadOK'
    BY <1>3, <2>1 DEF TypeOK, Stages, BornOK, Orderly, Alive, NoThreadOK
  <2>4. thread' # None => ThreadOK(thread)'
    BY <1>3, <2>1 DEF TypeOK, Stages, BornOK, Orderly, Alive, ThreadOK, NoThreadOK
  <2>5. /\ closer' \in {"signalling", "joining"} => thread' # None
        /\ closer' = "resetting" => thread' = None
    BY <1>3, <2>1 DEF TypeOK, BornOK, Orderly
  <2>6. \A d \in Calls : CallOK(d)'
    BY <1>3, <2>1 DEF TypeOK, Stages, BornOK, Orderly, Alive, ThreadOK, NoThreadOK,
       CallOK, Unsubmitted
  <2>7. QED
    BY <2>2, <2>3, <2>4, <2>5, <2>6 DEF Orderly
<1>4. QED
  BY <1>1, <1>2, <1>3

\* A call gives up on its result.
LEMMA CallTimesOutStep ==
  ASSUME BridgeInv, NEW c \in Calls, CallTimesOut(c)
  PROVE  BridgeInv'
<1> USE DEF BridgeInv, CallTimesOut, WaitsForResult, End
<1>1. TypeOK'
  BY DEF TypeOK, Stages
<1>2. BornOK'
  BY DEF TypeOK, Stages, BornOK
<1>3. ASSUME orderly' PROVE Orderly'
  <2>1. orderly /\ Orderly
    BY <1>3
  <2>2. \A b \in Threads : Alive(b)' => b = thread'
    BY <1>3, <2>1 DEF TypeOK, Stages, BornOK, Orderly, Alive, ThreadOK
  <2>3. thread' = None => NoThreadOK'
    BY <1>3, <2>1 DEF TypeOK, Stages, BornOK, Orderly, Alive, NoThreadOK
  <2>4. thread' # None => ThreadOK(thread)'
    BY <1>3, <2>1 DEF TypeOK, Stages, BornOK, Orderly, Alive, ThreadOK, NoThreadOK
  <2>5. /\ closer' \in {"signalling", "joining"} => thread' # None
        /\ closer' = "resetting" => thread' = None
    BY <1>3, <2>1 DEF TypeOK, BornOK, Orderly
  <2>6. \A d \in Calls : CallOK(d)'
    BY <1>3, <2>1 DEF TypeOK, Stages, BornOK, Orderly, Alive, ThreadOK, NoThreadOK,
       CallOK, Unsubmitted
  <2>7. QED
    BY <2>2, <2>3, <2>4, <2>5, <2>6 DEF Orderly
<1>4. QED
  BY <1>1, <1>2, <1>3

\* The thread makes its loop.
LEMMA MakeLoopStep ==
  ASSUME BridgeInv, NEW t \in Threads, MakeLoop(t)
  PROVE  BridgeInv'
<1> USE DEF BridgeInv, MakeLoop, Goes
<1>1. TypeOK'
  BY DEF TypeOK, Stages
<1>2. BornOK'
  BY DEF TypeOK, Stages, BornOK
<1>3. ASSUME orderly' PROVE Orderly'
  <2>1. orderly /\ Orderly
    BY <1>3
  <2>2. \A b \in Threads : Alive(b)' => b = thread'
    BY <1>3, <2>1 DEF TypeOK, Stages, BornOK, Orderly, Alive, ThreadOK
  <2>3. thread' = None => NoThreadOK'
    <3>1. Alive(t)
      BY DEF Alive
    <3>2. thread' # None
      BY <3>1, <2>1 DEF Orderly
    <3>3. QED
      BY <3>2
  <2>4. thread' # None => ThreadOK(thread)'
    BY <1>3, <2>1 DEF TypeOK, Stages, BornOK, Orderly, Alive, ThreadOK, NoThreadOK
  <2>5. /\ closer' \in {"signalling", "joining"} => thread' # None
        /\ closer' = "resetting" => thread' = None
    BY <1>3, <2>1 DEF TypeOK, BornOK, Orderly
  <2>6. \A d \in Calls : CallOK(d)'
    BY <1>3, <2>1 DEF TypeOK, Stages, BornOK, Orderly, Alive, ThreadOK, NoThreadOK,
       CallOK, Unsubmitted
  <2>7. QED
    BY <2>2, <2>3, <2>4, <2>5, <2>6 DEF Orderly
<1>4. QED
  BY <1>1, <1>2, <1>3

\* It makes its exit stack.
LEMMA OpenStep ==
  ASSUME BridgeInv, NEW t \in Threads, Open(t)
  PROVE  BridgeInv'
<1> USE DEF BridgeInv, Open, Goes
<1>1. TypeOK'
  BY DEF TypeOK, Stages
<1>2. BornOK'
  BY DEF TypeOK, Stages, BornOK
<1>3. ASSUME orderly' PROVE Orderly'
  <2>1. orderly /\ Orderly
    BY <1>3
  <2>2. \A b \in Threads : Alive(b)' => b = thread'
    BY <1>3, <2>1 DEF TypeOK, Stages, BornOK, Orderly, Alive, ThreadOK
  <2>3. thread' = None => NoThreadOK'
    <3>1. Alive(t)
      BY DEF Alive
    <3>2. thread' # None
      BY <3>1, <2>1 DEF Orderly
    <3>3. QED
      BY <3>2
  <2>4. thread' # None => ThreadOK(thread)'
    BY <1>3, <2>1 DEF TypeOK, Stages, BornOK, Orderly, Alive, ThreadOK, NoThreadOK
  <2>5. /\ closer' \in {"signalling", "joining"} => thread' # None
        /\ closer' = "resetting" => thread' = None
    BY <1>3, <2>1 DEF TypeOK, BornOK, Orderly
  <2>6. \A d \in Calls : CallOK(d)'
    BY <1>3, <2>1 DEF TypeOK, Stages, BornOK, Orderly, Alive, ThreadOK, NoThreadOK,
       CallOK, Unsubmitted
  <2>7. QED
    BY <2>2, <2>3, <2>4, <2>5, <2>6 DEF Orderly
<1>4. QED
  BY <1>1, <1>2, <1>3

\* It enters its session.
LEMMA EnterSessionStep ==
  ASSUME BridgeInv, NEW t \in Threads, EnterSession(t)
  PROVE  BridgeInv'
<1> USE DEF BridgeInv, EnterSession, Goes
<1>1. TypeOK'
  BY DEF TypeOK, Stages
<1>2. BornOK'
  BY DEF TypeOK, Stages, BornOK
<1>3. ASSUME orderly' PROVE Orderly'
  <2>1. orderly /\ Orderly
    BY <1>3
  <2>2. \A b \in Threads : Alive(b)' => b = thread'
    BY <1>3, <2>1 DEF TypeOK, Stages, BornOK, Orderly, Alive, ThreadOK
  <2>3. thread' = None => NoThreadOK'
    <3>1. Alive(t)
      BY DEF Alive
    <3>2. thread' # None
      BY <3>1, <2>1 DEF Orderly
    <3>3. QED
      BY <3>2
  <2>4. thread' # None => ThreadOK(thread)'
    BY <1>3, <2>1 DEF TypeOK, Stages, BornOK, Orderly, Alive, ThreadOK, NoThreadOK
  <2>5. /\ closer' \in {"signalling", "joining"} => thread' # None
        /\ closer' = "resetting" => thread' = None
    BY <1>3, <2>1 DEF TypeOK, BornOK, Orderly
  <2>6. \A d \in Calls : CallOK(d)'
    BY <1>3, <2>1 DEF TypeOK, Stages, BornOK, Orderly, Alive, ThreadOK, NoThreadOK,
       CallOK, Unsubmitted
  <2>7. QED
    BY <2>2, <2>3, <2>4, <2>5, <2>6 DEF Orderly
<1>4. QED
  BY <1>1, <1>2, <1>3

\* It makes its shutdown event.
LEMMA InitializedStep ==
  ASSUME BridgeInv, NEW t \in Threads, Initialized(t)
  PROVE  BridgeInv'
<1> USE DEF BridgeInv, Initialized, Goes
<1>1. TypeOK'
  BY DEF TypeOK, Stages
<1>2. BornOK'
  BY DEF TypeOK, Stages, BornOK
<1>3. ASSUME orderly' PROVE Orderly'
  <2>1. orderly /\ Orderly
    BY <1>3
  <2>2. \A b \in Threads : Alive(b)' => b = thread'
    BY <1>3, <2>1 DEF TypeOK, Stages, BornOK, Orderly, Alive, ThreadOK
  <2>3. thread' = None => NoThreadOK'
    <3>1. Alive(t)
      BY DEF Alive
    <3>2. thread' # None
      BY <3>1, <2>1 DEF Orderly
    <3>3. QED
      BY <3>2
  <2>4. thread' # None => ThreadOK(thread)'
    BY <1>3, <2>1 DEF TypeOK, Stages, BornOK, Orderly, Alive, ThreadOK, NoThreadOK
  <2>5. /\ closer' \in {"signalling", "joining"} => thread' # None
        /\ closer' = "resetting" => thread' = None
    BY <1>3, <2>1 DEF TypeOK, BornOK, Orderly
  <2>6. \A d \in Calls : CallOK(d)'
    BY <1>3, <2>1 DEF TypeOK, Stages, BornOK, Orderly, Alive, ThreadOK, NoThreadOK,
       CallOK, Unsubmitted
  <2>7. QED
    BY <2>2, <2>3, <2>4, <2>5, <2>6 DEF Orderly
<1>4. QED
  BY <1>1, <1>2, <1>3

\* It lets the callers go.
LEMMA AnnounceStep ==
  ASSUME BridgeInv, NEW t \in Threads, Announce(t)
  PROVE  BridgeInv'
<1> USE DEF BridgeInv, Announce, Goes
<1>1. TypeOK'
  BY DEF TypeOK, Stages
<1>2. BornOK'
  BY DEF TypeOK, Stages, BornOK
<1>3. ASSUME orderly' PROVE Orderly'
  <2>1. orderly /\ Orderly
    BY <1>3
  <2>2. \A b \in Threads : Alive(b)' => b = thread'
    BY <1>3, <2>1 DEF TypeOK, Stages, BornOK, Orderly, Alive, ThreadOK
  <2>3. thread' = None => NoThreadOK'
    <3>1. Alive(t)
      BY DEF Alive
    <3>2. thread' # None
      BY <3>1, <2>1 DEF Orderly
    <3>3. QED
      BY <3>2
  <2>4. thread' # None => ThreadOK(thread)'
    BY <1>3, <2>1 DEF TypeOK, Stages, BornOK, Orderly, Alive, ThreadOK, NoThreadOK
  <2>5. /\ closer' \in {"signalling", "joining"} => thread' # None
        /\ closer' = "resetting" => thread' = None
    BY <1>3, <2>1 DEF TypeOK, BornOK, Orderly
  <2>6. \A d \in Calls : CallOK(d)'
    BY <1>3, <2>1 DEF TypeOK, Stages, BornOK, Orderly, Alive, ThreadOK, NoThreadOK,
       CallOK, Unsubmitted
  <2>7. QED
    BY <2>2, <2>3, <2>4, <2>5, <2>6 DEF Orderly
<1>4. QED
  BY <1>1, <1>2, <1>3

\* It fails, with an error.
LEMMA FailStep ==
  ASSUME BridgeInv, NEW t \in Threads, Fail(t)
  PROVE  BridgeInv'
<1> USE DEF BridgeInv, Fail
<1>1. TypeOK'
  BY DEF TypeOK, Stages
<1>2. BornOK'
  BY DEF TypeOK, Stages, BornOK
<1>3. ASSUME orderly' PROVE Orderly'
  <2>1. orderly /\ Orderly
    BY <1>3
  <2>2. \A b \in Threads : Alive(b)' => b = thread'
    BY <1>3, <2>1 DEF TypeOK, Stages, BornOK, Orderly, Alive, ThreadOK
  <2>3. thread' = None => NoThreadOK'
    <3>1. Alive(t)
      BY DEF Alive
    <3>2. thread' # None
      BY <3>1, <2>1 DEF Orderly
    <3>3. QED
      BY <3>2
  <2>4. thread' # None => ThreadOK(thread)'
    BY <1>3, <2>1 DEF TypeOK, Stages, BornOK, Orderly, Alive, ThreadOK, NoThreadOK
  <2>5. /\ closer' \in {"signalling", "joining"} => thread' # None
        /\ closer' = "resetting" => thread' = None
    BY <1>3, <2>1 DEF TypeOK, BornOK, Orderly
  <2>6. \A d \in Calls : CallOK(d)'
    BY <1>3, <2>1 DEF TypeOK, Stages, BornOK, Orderly, Alive, ThreadOK, NoThreadOK,
       CallOK, Unsubmitted
  <2>7. QED
    BY <2>2, <2>3, <2>4, <2>5, <2>6 DEF Orderly
<1>4. QED
  BY <1>1, <1>2, <1>3

\* It ends and lets the callers see why.
LEMMA EndFailedStep ==
  ASSUME BridgeInv, NEW t \in Threads, EndFailed(t)
  PROVE  BridgeInv'
<1> USE DEF BridgeInv, EndFailed, Goes
<1>1. TypeOK'
  BY DEF TypeOK, Stages
<1>2. BornOK'
  BY DEF TypeOK, Stages, BornOK
<1>3. ASSUME orderly' PROVE Orderly'
  <2>1. orderly /\ Orderly
    BY <1>3
  <2>2. \A b \in Threads : Alive(b)' => b = thread'
    BY <1>3, <2>1 DEF TypeOK, Stages, BornOK, Orderly, Alive, ThreadOK
  <2>3. thread' = None => NoThreadOK'
    <3>1. Alive(t)
      BY DEF Alive
    <3>2. thread' # None
      BY <3>1, <2>1 DEF Orderly
    <3>3. QED
      BY <3>2
  <2>4. thread' # None => ThreadOK(thread)'
    BY <1>3, <2>1 DEF TypeOK, Stages, BornOK, Orderly, Alive, ThreadOK, NoThreadOK
  <2>5. /\ closer' \in {"signalling", "joining"} => thread' # None
        /\ closer' = "resetting" => thread' = None
    BY <1>3, <2>1 DEF TypeOK, BornOK, Orderly
  <2>6. \A d \in Calls : CallOK(d)'
    BY <1>3, <2>1 DEF TypeOK, Stages, BornOK, Orderly, Alive, ThreadOK, NoThreadOK,
       CallOK, Unsubmitted
  <2>7. QED
    BY <2>2, <2>3, <2>4, <2>5, <2>6 DEF Orderly
<1>4. QED
  BY <1>1, <1>2, <1>3

\* It sees the signal.
LEMMA StopServingStep ==
  ASSUME BridgeInv, NEW t \in Threads, StopServing(t)
  PROVE  BridgeInv'
<1> USE DEF BridgeInv, StopServing, Goes
<1>1. TypeOK'
  BY DEF TypeOK, Stages
<1>2. BornOK'
  BY DEF TypeOK, Stages, BornOK
<1>3. ASSUME orderly' PROVE Orderly'
  <2>1. orderly /\ Orderly
    BY <1>3
  <2>2. \A b \in Threads : Alive(b)' => b = thread'
    BY <1>3, <2>1 DEF TypeOK, Stages, BornOK, Orderly, Alive, ThreadOK
  <2>3. thread' = None => NoThreadOK'
    <3>1. Alive(t)
      BY DEF Alive
    <3>2. thread' # None
      BY <3>1, <2>1 DEF Orderly
    <3>3. QED
      BY <3>2
  <2>4. thread' # None => ThreadOK(thread)'
    BY <1>3, <2>1 DEF TypeOK, Stages, BornOK, Orderly, Alive, ThreadOK, NoThreadOK
  <2>5. /\ closer' \in {"signalling", "joining"} => thread' # None
        /\ closer' = "resetting" => thread' = None
    BY <1>3, <2>1 DEF TypeOK, BornOK, Orderly
  <2>6. \A d \in Calls : CallOK(d)'
    BY <1>3, <2>1 DEF TypeOK, Stages, BornOK, Orderly, Alive, ThreadOK, NoThreadOK,
       CallOK, Unsubmitted
  <2>7. QED
    BY <2>2, <2>3, <2>4, <2>5, <2>6 DEF Orderly
<1>4. QED
  BY <1>1, <1>2, <1>3

\* It ends as it was told to.
LEMMA DisconnectStep ==
  ASSUME BridgeInv, NEW t \in Threads, Disconnect(t)
  PROVE  BridgeInv'
<1> USE DEF BridgeInv, Disconnect, Goes
<1>1. TypeOK'
  BY DEF TypeOK, Stages
<1>2. BornOK'
  BY DEF TypeOK, Stages, BornOK
<1>3. ASSUME orderly' PROVE Orderly'
  <2>1. orderly /\ Orderly
    BY <1>3
  <2>2. \A b \in Threads : Alive(b)' => b = thread'
    BY <1>3, <2>1 DEF TypeOK, Stages, BornOK, Orderly, Alive, ThreadOK
  <2>3. thread' = None => NoThreadOK'
    <3>1. Alive(t)
      BY DEF Alive
    <3>2. thread' # None
      BY <3>1, <2>1 DEF Orderly
    <3>3. QED
      BY <3>2
  <2>4. thread' # None => ThreadOK(thread)'
    BY <1>3, <2>1 DEF TypeOK, Stages, BornOK, Orderly, Alive, ThreadOK, NoThreadOK
  <2>5. /\ closer' \in {"signalling", "joining"} => thread' # None
        /\ closer' = "resetting" => thread' = None
    BY <1>3, <2>1 DEF TypeOK, BornOK, Orderly
  <2>6. \A d \in Calls : CallOK(d)'
    BY <1>3, <2>1 DEF TypeOK, Stages, BornOK, Orderly, Alive, ThreadOK, NoThreadOK,
       CallOK, Unsubmitted
  <2>7. QED
    BY <2>2, <2>3, <2>4, <2>5, <2>6 DEF Orderly
<1>4. QED
  BY <1>1, <1>2, <1>3

\* A close begins.
LEMMA BeginCloseStep ==
  ASSUME BridgeInv, BeginClose
  PROVE  BridgeInv'
<1> USE DEF BridgeInv, BeginClose
<1>1. TypeOK'
  <2>1. closes' \in 0..MaxCloses
    BY NumberFacts
  <2>2. closer' \in {"open", "signalling"}
    OBVIOUS
  <2>3. QED
    BY <2>1, <2>2 DEF TypeOK
<1>2. BornOK'
  BY DEF TypeOK, Stages, BornOK
<1>3. ASSUME orderly' PROVE Orderly'
  <2>1. orderly /\ Orderly
    BY <1>3
  <2>2. \A b \in Threads : Alive(b)' => b = thread'
    BY <1>3, <2>1 DEF TypeOK, Stages, BornOK, Orderly, Alive, ThreadOK
  <2>3. thread' = None => NoThreadOK'
    BY <1>3, <2>1 DEF TypeOK, Stages, BornOK, Orderly, Alive, NoThreadOK
  <2>4. thread' # None => ThreadOK(thread)'
    BY <1>3, <2>1 DEF TypeOK, Stages, BornOK, Orderly, Alive, ThreadOK, NoThreadOK
  <2>5. /\ closer' \in {"signalling", "joining"} => thread' # None
        /\ closer' = "resetting" => thread' = None
    BY <1>3, <2>1 DEF TypeOK, BornOK, Orderly
  <2>6. \A d \in Calls : CallOK(d)'
    BY <1>3, <2>1 DEF TypeOK, Stages, BornOK, Orderly, Alive, ThreadOK, NoThreadOK,
       CallOK, Unsubmitted
  <2>7. QED
    BY <2>2, <2>3, <2>4, <2>5, <2>6 DEF Orderly
<1>4. QED
  BY <1>1, <1>2, <1>3

\* A close sets the event.
LEMMA SignalStep ==
  ASSUME BridgeInv, Signal
  PROVE  BridgeInv'
<1> USE DEF BridgeInv, Signal, OpenLoops
<1>1. TypeOK'
  BY DEF TypeOK, Stages
<1>2. BornOK'
  BY DEF TypeOK, Stages, BornOK
<1>3. ASSUME orderly' PROVE Orderly'
  <2>1. orderly /\ Orderly
    BY <1>3
  <2>2. \A b \in Threads : Alive(b)' => b = thread'
    BY <1>3, <2>1 DEF TypeOK, Stages, BornOK, Orderly, Alive, ThreadOK
  <2>3. thread' = None => NoThreadOK'
    BY <1>3, <2>1 DEF TypeOK, Stages, BornOK, Orderly, Alive, NoThreadOK
  <2>4. thread' # None => ThreadOK(thread)'
    BY <1>3, <2>1 DEF TypeOK, Stages, BornOK, Orderly, Alive, ThreadOK, NoThreadOK
  <2>5. /\ closer' \in {"signalling", "joining"} => thread' # None
        /\ closer' = "resetting" => thread' = None
    BY <1>3, <2>1 DEF TypeOK, BornOK, Orderly
  <2>6. \A d \in Calls : CallOK(d)'
    BY <1>3, <2>1 DEF TypeOK, Stages, BornOK, Orderly, Alive, ThreadOK, NoThreadOK,
       CallOK, Unsubmitted
  <2>7. QED
    BY <2>2, <2>3, <2>4, <2>5, <2>6 DEF Orderly
<1>4. QED
  BY <1>1, <1>2, <1>3

\* A close drops the thread it waited for.
LEMMA JoinStep ==
  ASSUME BridgeInv, Join
  PROVE  BridgeInv'
<1> USE DEF BridgeInv, Join
<1>1. TypeOK'
  BY DEF TypeOK, Stages
<1>2. BornOK'
  <2>1. thread' <= born'
    BY NumberFacts
  <2>2. QED
    BY <2>1 DEF BornOK
<1>3. ASSUME orderly' PROVE Orderly'
  <2>1. orderly /\ Orderly
    BY <1>3
  <2>2. \A b \in Threads : Alive(b)' => b = thread'
    BY <1>3, <2>1 DEF TypeOK, Stages, BornOK, Orderly, Alive, ThreadOK
  <2>3. thread' = None => NoThreadOK'
    BY <1>3, <2>1 DEF TypeOK, Stages, BornOK, Orderly, Alive, NoThreadOK
  <2>4. thread' # None => ThreadOK(thread)'
    BY <1>3, <2>1 DEF TypeOK, Stages, BornOK, Orderly, Alive, ThreadOK, NoThreadOK
  <2>5. /\ closer' \in {"signalling", "joining"} => thread' # None
        /\ closer' = "resetting" => thread' = None
    BY <1>3, <2>1 DEF TypeOK, BornOK, Orderly
  <2>6. \A d \in Calls : CallOK(d)'
    BY <1>3, <2>1 DEF TypeOK, Stages, BornOK, Orderly, Alive, ThreadOK, NoThreadOK,
       CallOK, Unsubmitted
  <2>7. QED
    BY <2>2, <2>3, <2>4, <2>5, <2>6 DEF Orderly
<1>4. QED
  BY <1>1, <1>2, <1>3

\* A close resets the handshake, with no thread left.
LEMMA ResetStep ==
  ASSUME BridgeInv, Reset
  PROVE  BridgeInv'
<1> USE DEF BridgeInv, Reset
<1>1. TypeOK'
  BY DEF TypeOK, Stages
<1>2. BornOK'
  BY DEF TypeOK, Stages, BornOK
<1>3. ASSUME orderly' PROVE Orderly'
  <2>1. orderly /\ Orderly
    BY <1>3
  <2>2. \A b \in Threads : Alive(b)' => b = thread'
    BY <1>3, <2>1 DEF TypeOK, Stages, BornOK, Orderly, Alive, ThreadOK
  <2>3. thread' = None => NoThreadOK'
    BY <1>3, <2>1 DEF TypeOK, Stages, BornOK, Orderly, Alive, NoThreadOK
  <2>4. thread' # None => ThreadOK(thread)'
    BY <1>3, <2>1 DEF TypeOK, Stages, BornOK, Orderly, Alive, ThreadOK, NoThreadOK
  <2>5. /\ closer' \in {"signalling", "joining"} => thread' # None
        /\ closer' = "resetting" => thread' = None
    BY <1>3, <2>1 DEF TypeOK, BornOK, Orderly
  <2>6. \A d \in Calls : CallOK(d)'
    BY <1>3, <2>1 DEF TypeOK, Stages, BornOK, Orderly, Alive, ThreadOK, NoThreadOK,
       CallOK, Unsubmitted
  <2>7. QED
    BY <2>2, <2>3, <2>4, <2>5, <2>6 DEF Orderly
<1>4. QED
  BY <1>1, <1>2, <1>3

-----------------------------------------------------------------------------

\* What the fields say of the bridge thread, and what the calls rely on, holds
\* at every step: a bridge that is orderly has one thread, which is connected
\* before a caller gets past its wait, and a reset leaves nothing ready behind.
THEOREM BridgeInvariant == Spec => []BridgeInv
<1>1. Init => BridgeInv
  <2> SUFFICES ASSUME Init PROVE BridgeInv
    OBVIOUS
  <2>1. TypeOK
    <3>1. /\ stage \in [Threads -> Stages] /\ signalled \subseteq Threads
          /\ born \in 0..MaxThreads /\ closes \in 0..MaxCloses
      BY DEF Init, Stages
    <3>2. QED
      BY <3>1 DEF Init, TypeOK
  <2>2. BornOK
    BY DEF Init, BornOK
  <2>3. \A b \in Threads : ~Alive(b)
    BY DEF Init, Alive
  <2>4. \A c \in Calls : CallOK(c)
    BY DEF Init, CallOK, Unsubmitted
  <2>5. thread = None /\ NoThreadOK /\ closer = "open"
    BY DEF Init, NoThreadOK
  <2>6. QED
    BY <2>1, <2>2, <2>3, <2>4, <2>5 DEF BridgeInv, Orderly
<1>2. BridgeInv /\ [Next]_vars => BridgeInv'
  <2> SUFFICES ASSUME BridgeInv, [Next]_vars PROVE BridgeInv'
    OBVIOUS
  <2>1. ASSUME NEW c \in Calls, StartThread(c) \/ CallStep(c) PROVE BridgeInv'
    BY <2>1, StartThreadStep, BecomesReadyStep, StartTimesOutStep, CheckStartStep,
       SubmitStep, RunCoroutineStep, AnswerStep, CallCancelledStep, CallTimesOutStep
    DEF CallStep
  <2>2. ASSUME NEW b \in Threads, ThreadStep(b) PROVE BridgeInv'
    BY <2>2, MakeLoopStep, OpenStep, EnterSessionStep, InitializedStep, AnnounceStep,
       FailStep, EndFailedStep, StopServingStep, DisconnectStep
    DEF ThreadStep
  <2>3. CASE BeginClose \/ CloseStep
    BY <2>3, BeginCloseStep, SignalStep, JoinStep, ResetStep DEF CloseStep
  <2>4. CASE UNCHANGED vars
    BY <2>4 DEF BridgeInv, TypeOK, BornOK, Orderly, Alive, ThreadOK, NoThreadOK,
       CallOK, Unsubmitted
  <2>5. QED
    BY <2>1, <2>2, <2>3, <2>4 DEF Next
<1>3. QED
  BY <1>1, <1>2, PTL DEF Spec

\* Every field, thread and call keeps its type, and no call ends in a bare
\* cancellation.
THEOREM BridgeTypes == Spec => []TypeOK
<1>1. BridgeInv => TypeOK
  BY DEF BridgeInv
<1>2. QED
  BY <1>1, BridgeInvariant, PTL

\* However many workers race for the first call, or for the first after a
\* close, none is let through to a bridge that has no session.
THEOREM CallersFindTheirSession == Spec => []CallsFindTheirSession
<1>1. BridgeInv => CallsFindTheirSession
  BY DEF BridgeInv, Orderly, CallOK, CallsFindTheirSession
<1>2. QED
  BY <1>1, BridgeInvariant, PTL

\* Only one thread at a time is connected, and a close would end that one.
THEOREM BridgeThreadIsAlone == Spec => []OneBridgeThread
<1>1. BridgeInv => OneBridgeThread
  BY DEF BridgeInv, Orderly, OneBridgeThread
<1>2. QED
  BY <1>1, BridgeInvariant, PTL

\* A bridge that died says so to every later caller at once.
THEOREM DeathIsKnown == Spec => []DeadBridgeIsKnown
<1>1. BridgeInv => DeadBridgeIsKnown
  BY DEF BridgeInv, Orderly, ThreadOK, DeadBridgeIsKnown
<1>2. QED
  BY <1>1, BridgeInvariant, PTL

================================================================================
