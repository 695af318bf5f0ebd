----------------------------- MODULE FallbackRouter -----------------------------
(***************************************************************************)
(* llm/router.py, and of llm/client.py and evaluation/quality.py what it   *)
(* relies on: one chain of providers shared by every thread of the         *)
(* process, walked by each call from its first hop; a hop is skipped,      *)
(* answered, retried once, or left behind, and a text answer is judged by  *)
(* the neighbouring provider before it is returned.                        *)
(*                                                                         *)
(* Abstractions.  A score is a step of a scale 0..Top with Top standing    *)
(* for 1.0; prompts and context windows have sizes, the margin of          *)
(* CONTEXT_SKIP_MARGIN included in a window's.  A cooldown is              *)
(* "short" if it is at most llm_retry_after_max_seconds, else "long".      *)
(* Counters are kept as the node visits whose activity they hold, tokens   *)
(* as whether they are those of the request that reports them.             *)
(***************************************************************************)
EXTENDS Integers, FiniteSets

CONSTANTS
  Threads,      \* threads that run nodes
  ChainLength,  \* number of providers
  Top,          \* the highest score
  Threshold,    \* quality_threshold
  Prompts,      \* sizes of prompts
  Windows,      \* sizes of context windows, 0 for none
  RetryAfter,   \* BOOLEAN: retry_after_max_seconds > 0
  MaxVisits     \* bound: node visits per thread

ASSUME RouterAssumption ==
  /\ ChainLength \in Nat \ {0}
  /\ Top \in Nat /\ Threshold \in 0..Top
  /\ Prompts \subseteq Nat /\ 0 \in Windows /\ Windows \subseteq Nat
  /\ MaxVisits \in Nat
  /\ RetryAfter \in BOOLEAN

Providers == 1..ChainLength

VARIABLES
  \* one client per provider, shared by the threads
  disabled,    \* providers with a disabled_reason
  window,      \* context_tokens, 0 when not configured
  learned,     \* providers whose window was corrected by the server
  \* threading.local of the clients: per thread and provider
  hint,        \* retry_after_seconds
  usage        \* token usage not drained yet

VARIABLES
  \* a routed call, per thread
  pc, call, hop,
  waited,      \* the failure whose cooldown was waited out at this hop
  outcome,     \* what `outcomes` says of each provider
  candidates,  \* providers whose answer was kept for _best
  score,       \* the score each answer got
  served,      \* the provider whose answer is returned
  \* counters, threading.local of the router
  counters,    \* the visits whose activity they hold
  charged,     \* whose tokens they hold
  \* history
  visit,       \* node visits begun
  attempts,    \* requests to each provider as an answerer in this call
  deadAtStart  \* providers that were disabled when the call began

clientVars == <<disabled, window, learned>>
localVars == <<hint, usage>>
resultVars == <<outcome, candidates, score, served>>
countVars == <<counters, charged>>
vars == <<clientVars, localVars, pc, call, hop, waited, resultVars, countVars,
          visit, attempts, deadAtStart>>

NoScore == -1
NoCall == [node |-> "none", prompt |-> 0]
Failures == {"error", "denied", "short", "long", "overflow", "spoiled"}
Usages == {"none", "own", "earlier"}
RouterNodes == {"compiler", "critic", "merger", "claim_verifier"}

Text(t) == call[t].node = "compiler"

Init ==
  /\ disabled = {} /\ learned = {}
  /\ window \in [Providers -> Windows]
  /\ hint = [t \in Threads |-> [p \in Providers |-> "none"]]
  /\ usage = [t \in Threads |-> [p \in Providers |-> "none"]]
  /\ pc = [t \in Threads |-> "idle"]
  /\ call = [t \in Threads |-> NoCall]
  /\ hop = [t \in Threads |-> 1]
  /\ waited = [t \in Threads |-> "none"]
  /\ outcome = [t \in Threads |-> [p \in Providers |-> "none"]]
  /\ candidates = [t \in Threads |-> {}]
  /\ score = [t \in Threads |-> [p \in Providers |-> NoScore]]
  /\ served = [t \in Threads |-> 0]
  /\ counters = [t \in Threads |-> {}]
  /\ charged = [t \in Threads |-> {}]
  /\ visit = [t \in Threads |-> 0]
  /\ attempts = [t \in Threads |-> [p \in Providers |-> 0]]
  /\ deadAtStart = [t \in Threads |-> {}]

-----------------------------------------------------------------------------
(* The client.                                                             *)

\* Mutant: a cooldown outlives the request that named it.
PostKeeping(t, p) == UNCHANGED hint

\* complete() begins a request: a cooldown named earlier is forgotten.
Post(t, p) == hint' = [hint EXCEPT ![t][p] = "none"]

\* Mutant: every failure is taken to name a cooldown.
CooldownAfterAny(t, p, failure) ==
  IF failure # "error" THEN failure ELSE hint[t][p]

\* The cooldown known once a request has failed.
CooldownAfter(t, p, failure) ==
  IF failure \in {"short", "long"} THEN failure ELSE hint[t][p]

\* The usage left behind by a failed request: "spoiled" is a response that was
\* recorded before it was found to be cut off or not JSON.
UsageAfter(t, p, failure) ==
  IF failure = "spoiled" THEN "own"
  ELSE IF usage[t][p] = "none" THEN "none" ELSE "earlier"

\* What one failed request teaches every thread.
RecordErrorResponse(p, failure, reported) ==
  /\ disabled' = IF failure = "denied" THEN disabled \cup {p} ELSE disabled
  /\ IF /\ failure = "overflow" /\ p \notin learned
        /\ reported \notin {0, window[p]}
     THEN /\ window' = [window EXCEPT ![p] = reported]
          /\ learned' = learned \cup {p}
     ELSE UNCHANGED <<window, learned>>

-----------------------------------------------------------------------------
(* The router.                                                             *)

Bump(t) == counters' = [counters EXCEPT ![t] = @ \cup {visit[t]}]

\* The local variables of a call are its own.
FreshCall(t) ==
  /\ hop' = [hop EXCEPT ![t] = 1]
  /\ outcome' = [outcome EXCEPT ![t] = [p \in Providers |-> "none"]]
  /\ candidates' = [candidates EXCEPT ![t] = {}]
  /\ score' = [score EXCEPT ![t] = [p \in Providers |-> NoScore]]
  /\ served' = [served EXCEPT ![t] = 0]
  /\ attempts' = [attempts EXCEPT ![t] = [p \in Providers |-> 0]]
  /\ UNCHANGED <<clientVars, localVars, waited>>

Begin(t, node, prompt) ==
  /\ pc' = [pc EXCEPT ![t] = "hop"]
  /\ call' = [call EXCEPT ![t] = [node |-> node, prompt |-> prompt]]
  /\ deadAtStart' = [deadAtStart EXCEPT ![t] = disabled]
  /\ FreshCall(t)
  /\ UNCHANGED countVars

VisitNode(t) ==
  /\ pc[t] = "idle" /\ visit[t] < MaxVisits
  /\ visit' = [visit EXCEPT ![t] = @ + 1]
  /\ \E node \in RouterNodes, prompt \in Prompts : Begin(t, node, prompt)

\* critic_node goes on to its own call after _verify_figures, with no drain
\* in between.
CritiqueAfterVerifying(t) ==
  /\ pc[t] \in {"returned", "raised"} /\ call[t].node = "claim_verifier"
  /\ \E prompt \in Prompts : Begin(t, "critic", prompt)
  /\ UNCHANGED visit

\* Mutant: the last provider may be skipped as well.
SkipsAnyHop(t, p) ==
  p \in disabled \/ (window[p] # 0 /\ call[t].prompt > window[p])

\* Mutant: a dead provider is not skipped.
SkipsForContextOnly(t, p) ==
  p < ChainLength /\ window[p] # 0 /\ call[t].prompt > window[p]

\* The last provider is never skipped.
Skips(t, p) ==
  /\ p < ChainLength
  /\ \/ p \in disabled
     \/ window[p] # 0 /\ call[t].prompt > window[p]

SkipReason(p) ==
  IF p \in disabled THEN "skipped_disabled" ELSE "skipped_for_context"

\* Mutant: the walk does not move on from a skipped hop.
SkipHopStaying(t) ==
  /\ pc[t] = "hop" /\ hop[t] <= ChainLength /\ Skips(t, hop[t])
  /\ outcome' = [outcome EXCEPT ![t][hop[t]] = SkipReason(hop[t])]
  /\ Bump(t)
  /\ UNCHANGED <<clientVars, localVars, pc, call, hop, waited, candidates, score,
                 served, charged, visit, attempts, deadAtStart>>

SkipHop(t) ==
  /\ pc[t] = "hop" /\ hop[t] <= ChainLength /\ Skips(t, hop[t])
  /\ outcome' = [outcome EXCEPT ![t][hop[t]] = SkipReason(hop[t])]
  /\ hop' = [hop EXCEPT ![t] = @ + 1]
  /\ Bump(t)
  /\ UNCHANGED <<clientVars, localVars, pc, call, waited, candidates, score,
                 served, charged, visit, attempts, deadAtStart>>

Ask(t) ==
  /\ pc[t] = "hop" /\ hop[t] <= ChainLength /\ ~Skips(t, hop[t])
  /\ pc' = [pc EXCEPT ![t] = "asking"]
  /\ Bump(t) /\ Post(t, hop[t])
  /\ attempts' = [attempts EXCEPT ![t][hop[t]] = @ + 1]
  /\ UNCHANGED <<clientVars, usage, call, hop, waited, resultVars, charged,
                 visit, deadAtStart>>

\* Which provider judges the answer of hop p.
JudgeOf(p) == IF p < ChainLength THEN p + 1 ELSE p - 1

Return(t, p) ==
  /\ pc' = [pc EXCEPT ![t] = "returned"]
  /\ served' = [served EXCEPT ![t] = p]

\* The provider answers.  A JSON answer is the result, and so is the only
\* text answer of a chain that has come to its end; others are judged.
Answered(t) ==
  /\ pc[t] = "asking"
  /\ LET p == hop[t] IN
     /\ usage' = [usage EXCEPT ![t][p] = "none"]
     /\ charged' = [charged EXCEPT ![t] = @ \cup {"own"}]
     /\ IF Text(t) /\ (p < ChainLength \/ candidates[t] # {})
        THEN /\ pc' = [pc EXCEPT ![t] = "judging"]
             /\ Bump(t) /\ Post(t, JudgeOf(p))
             /\ UNCHANGED served
        ELSE /\ Return(t, p)
             /\ UNCHANGED <<counters, hint>>
  /\ waited' = [waited EXCEPT ![t] = "none"]
  /\ UNCHANGED <<clientVars, call, hop, outcome, candidates, score, visit,
                 attempts, deadAtStart>>

\* A failure may be waited out once per hop.
Waits(t, cooldown) == waited[t] = "none" /\ RetryAfter /\ cooldown = "short"

\* The provider fails, naming a short cooldown: sleep, then ask it again.
RetryHop(t) ==
  /\ pc[t] = "asking"
  /\ \E failure \in Failures, reported \in Windows :
       LET p == hop[t] IN
       /\ Waits(t, CooldownAfter(t, p, failure))
       /\ RecordErrorResponse(p, failure, reported)
       /\ usage' = [usage EXCEPT ![t][p] = UsageAfter(t, p, failure)]
       /\ waited' = [waited EXCEPT ![t] = failure]
       /\ attempts' = [attempts EXCEPT ![t][p] = @ + 1]
  /\ Bump(t) /\ Post(t, hop[t])
  /\ UNCHANGED <<pc, call, hop, resultVars, charged, visit, deadAtStart>>

\* The provider fails and the hop is left.  The cooldown is drained unless
\* this hop has been retried already.
LeaveHop(t) ==
  /\ pc[t] = "asking"
  /\ \E failure \in Failures, reported \in Windows :
       LET p == hop[t]
           cooldown == CooldownAfter(t, p, failure)
       IN
       /\ ~Waits(t, cooldown)
       /\ RecordErrorResponse(p, failure, reported)
       /\ usage' = [usage EXCEPT ![t][p] = UsageAfter(t, p, failure)]
       /\ hint' = [hint EXCEPT ![t][p] =
                     IF waited[t] = "none" THEN "none" ELSE cooldown]
  /\ outcome' = [outcome EXCEPT ![t][hop[t]] = "error"]
  /\ hop' = [hop EXCEPT ![t] = @ + 1]
  /\ pc' = [pc EXCEPT ![t] = "hop"]
  /\ waited' = [waited EXCEPT ![t] = "none"]
  /\ Bump(t)
  /\ UNCHANGED <<call, candidates, score, served, charged, visit, attempts,
                 deadAtStart>>

\* An answer below the threshold is kept as a candidate; the last provider's
\* only if it beats every candidate.
KeepsLast(t, s) == \A c \in candidates[t] : s > score[t][c]

Judged(t, s) ==
  LET p == hop[t] IN
  /\ score' = [score EXCEPT ![t][p] = s]
  /\ \/ /\ p < ChainLength /\ s >= Threshold
        /\ Return(t, p)
        /\ UNCHANGED <<candidates, hop>>
     \/ /\ p < ChainLength /\ s < Threshold
        /\ candidates' = [candidates EXCEPT ![t] = @ \cup {p}]
        /\ hop' = [hop EXCEPT ![t] = @ + 1]
        /\ pc' = [pc EXCEPT ![t] = "hop"]
        /\ UNCHANGED served
     \/ /\ p = ChainLength
        /\ candidates' =
             [candidates EXCEPT ![t] = IF KeepsLast(t, s) THEN @ \cup {p} ELSE @]
        /\ hop' = [hop EXCEPT ![t] = @ + 1]
        /\ pc' = [pc EXCEPT ![t] = "hop"]
        /\ UNCHANGED served

JudgeScores(t) ==
  /\ pc[t] = "judging"
  /\ \E s \in 0..Top : Judged(t, s)
  /\ usage' = [usage EXCEPT ![t][JudgeOf(hop[t])] = "none"]
  /\ charged' = [charged EXCEPT ![t] = @ \cup {"own"}]
  /\ UNCHANGED <<clientVars, hint, call, waited, outcome, counters, visit,
                 attempts, deadAtStart>>

\* A judge that fails is taken to have said 1.0, and whatever usage its client
\* holds is drained.
JudgeFails(t) ==
  /\ pc[t] = "judging"
  /\ Judged(t, Top)
  /\ \E failure \in Failures, reported \in Windows :
       LET judge == JudgeOf(hop[t]) IN
       /\ RecordErrorResponse(judge, failure, reported)
       /\ hint' = [hint EXCEPT ![t][judge] = CooldownAfter(t, judge, failure)]
       /\ charged' = [charged EXCEPT ![t] =
                        @ \cup ({UsageAfter(t, judge, failure)} \ {"none"})]
       /\ usage' = [usage EXCEPT ![t][judge] = "none"]
  /\ Bump(t)
  /\ UNCHANGED <<call, waited, outcome, visit, attempts, deadAtStart>>

\* Mutant: the last candidate, whatever its score.
IsLatest(t, best) == \A c \in candidates[t] : c <= best

\* _best: the highest score, the earliest of equals.
IsBest(t, best) ==
  \A c \in candidates[t] :
    \/ score[t][c] < score[t][best]
    \/ score[t][c] = score[t][best] /\ best <= c

\* The end of the chain: the best candidate, or ProviderChainExhausted.
EndOfChain(t) ==
  /\ pc[t] = "hop" /\ hop[t] > ChainLength
  /\ \/ \E best \in candidates[t] : IsBest(t, best) /\ Return(t, best)
     \/ /\ candidates[t] = {}
        /\ pc' = [pc EXCEPT ![t] = "raised"]
        /\ UNCHANGED served
  /\ UNCHANGED <<clientVars, localVars, call, hop, waited, outcome, candidates,
                 score, countVars, visit, attempts, deadAtStart>>

LeaveNode(t) ==
  /\ pc' = [pc EXCEPT ![t] = "idle"]
  /\ call' = [call EXCEPT ![t] = NoCall]
  /\ deadAtStart' = [deadAtStart EXCEPT ![t] = {}]
  /\ FreshCall(t)
  /\ UNCHANGED visit

\* The node drains the counters into its update.
DrainCounters(t) ==
  /\ \/ pc[t] = "returned"
     \/ pc[t] = "raised" /\ call[t].node = "merger"
  /\ counters' = [counters EXCEPT ![t] = {}]
  /\ charged' = [charged EXCEPT ![t] = {}]
  /\ LeaveNode(t)

\* The node lets ProviderChainExhausted through: it never reaches its drain.
NodeRaises(t) ==
  /\ pc[t] = "raised" /\ call[t].node \notin {"merger", "claim_verifier"}
  /\ LeaveNode(t)
  /\ UNCHANGED countVars

RouterStep(t) ==
  \/ SkipHop(t) \/ Ask(t) \/ Answered(t) \/ RetryHop(t) \/ LeaveHop(t)
  \/ JudgeScores(t) \/ JudgeFails(t) \/ EndOfChain(t)

NodeStep(t) ==
  \/ VisitNode(t) \/ CritiqueAfterVerifying(t)
  \/ DrainCounters(t) \/ NodeRaises(t)

Next == \E t \in Threads : RouterStep(t) \/ NodeStep(t)

Spec == Init /\ [][Next]_vars

\* A request always ends: with an answer, an error or the client's timeout.
FairSpec == Spec /\ \A t \in Threads : WF_vars(RouterStep(t))

-----------------------------------------------------------------------------
(* Safety.                                                                 *)

\* Every part of the state keeps its type.
TypeOK ==
  /\ disabled \subseteq Providers /\ learned \subseteq Providers
  /\ window \in [Providers -> Windows]
  /\ hint \in [Threads -> [Providers -> {"none", "short", "long"}]]
  /\ usage \in [Threads -> [Providers -> Usages]]
  /\ pc \in [Threads ->
               {"idle", "hop", "asking", "judging", "returned", "raised"}]
  /\ call \in [Threads -> [node : RouterNodes, prompt : Prompts] \cup {NoCall}]
  /\ hop \in [Threads -> 1..ChainLength + 1]
  /\ waited \in [Threads -> Failures \cup {"none"}]
  /\ outcome \in [Threads -> [Providers ->
       {"none", "skipped_disabled", "skipped_for_context", "error"}]]
  /\ candidates \in [Threads -> SUBSET Providers]
  /\ score \in [Threads -> [Providers -> 0..Top \cup {NoScore}]]
  /\ served \in [Threads -> Providers \cup {0}]
  /\ counters \in [Threads -> SUBSET (1..MaxVisits)]
  /\ charged \in [Threads -> SUBSET Usages]
  /\ visit \in [Threads -> 0..MaxVisits]
  /\ attempts \in [Threads -> [Providers -> Nat]]
  /\ deadAtStart \in [Threads -> SUBSET Providers]

\* ProviderChainExhausted is raised only by a chain in which nobody answered,
\* it can say of every provider what became of it, and the last one really was
\* asked (router.py's `assert last_exc is not None`).
ExhaustionIsReal ==
  \A t \in Threads : pc[t] = "raised" =>
    /\ \A p \in Providers : outcome[t][p] # "none" /\ score[t][p] = NoScore
    /\ outcome[t][ChainLength] = "error"

\* No answer a call received was better than the one it returns, whatever the
\* judges said and whichever of them failed; of equals the earliest is
\* returned, and an unjudged answer only when it is the only one.
BestAnswerReturned ==
  \A t \in Threads : pc[t] = "returned" =>
    \A p \in Providers : score[t][p] # NoScore =>
      \/ score[t][p] < score[t][served[t]]
      \/ score[t][p] = score[t][served[t]] /\ served[t] <= p

\* The router sleeps only on a cooldown the failure at hand named, never on
\* one left behind by an earlier request of the same client, as an answerer or
\* as a judge (client.py, D-183).
WaitsOnOwnCooldown ==
  \A t \in Threads : waited[t] \in {"none", "short"}

\* A call asks a provider for an answer once, and once more at most after a
\* cooldown, however the hops are left.
AttemptsAreBounded ==
  \A t \in Threads, p \in Providers :
    /\ attempts[t][p] <= (IF RetryAfter THEN 2 ELSE 1)
    /\ p > hop[t] => attempts[t][p] = 0

\* A provider any thread has found dead is not asked for an answer by a call
\* that begins later, unless it is the last hop (D-130).
DeadProvidersAreSkipped ==
  \A t \in Threads : \A p \in deadAtStart[t] :
    p < ChainLength => attempts[t][p] = 0

-----------------------------------------------------------------------------
(* The inductive invariant of the proofs, per thread.                      *)

Walking(t) == pc[t] \in {"hop", "asking", "judging"}

\* The hops passed have a fate: an outcome, or an answer kept or beaten; the
\* hops to come have none.
HopInv(t) ==
  /\ pc[t] \in {"asking", "judging"} => hop[t] <= ChainLength
  /\ outcome[t][ChainLength] \in {"none", "error"}
  /\ Walking(t) => \A p \in Providers :
       /\ p < hop[t] => outcome[t][p] # "none" \/ score[t][p] # NoScore
       /\ p >= hop[t] => score[t][p] = NoScore
  /\ pc[t] = "judging" => Text(t)
  /\ pc[t] # "idle" => visit[t] >= 1

\* Candidates were judged below the threshold; the only answer that was judged
\* and is no candidate is the last provider's, beaten by one.
CandidateInv(t) == Walking(t) =>
  /\ candidates[t] # {} => Text(t)
  /\ \A p \in candidates[t] :
       /\ score[t][p] # NoScore
       /\ p < ChainLength => score[t][p] < Threshold
  /\ \A p \in Providers : score[t][p] # NoScore =>
       p \in candidates[t] \/ (p = ChainLength /\ ~KeepsLast(t, score[t][p]))
  /\ pc[t] = "judging" /\ hop[t] = ChainLength => candidates[t] # {}

\* A hop is asked once before a cooldown and once after; the client's cooldown
\* is forgotten whenever a request begins.
AttemptInv(t) ==
  /\ pc[t] # "asking" => waited[t] = "none"
  /\ waited[t] # "none" => RetryAfter
  /\ pc[t] = "asking" =>
       /\ hint[t][hop[t]] = "none"
       /\ attempts[t][hop[t]] = (IF waited[t] = "none" THEN 1 ELSE 2)
  /\ pc[t] = "hop" /\ hop[t] <= ChainLength => attempts[t][hop[t]] = 0
  /\ deadAtStart[t] \subseteq disabled

RouterInv ==
  /\ TypeOK /\ ExhaustionIsReal /\ BestAnswerReturned /\ WaitsOnOwnCooldown
  /\ AttemptsAreBounded /\ DeadProvidersAreSkipped
  /\ \A t \in Threads : HopInv(t) /\ CandidateInv(t) /\ AttemptInv(t)

-----------------------------------------------------------------------------
(* Progress.                                                               *)

\* Every routed call comes back, with an answer or with the chain exhausted.
CallsReturn ==
  \A t \in Threads :
    pc[t] \in {"hop", "asking", "judging"} ~> pc[t] \in {"returned", "raised"}

-----------------------------------------------------------------------------
(* What the documentation says and the code does not do.                   *)

\* drain_counters' docstring: a node reports only the activity of its own
\* calls, never a total left over from an earlier node.
CountersAreOwn ==
  \A t \in Threads : pc[t] = "returned" => counters[t] \subseteq {visit[t]}

\* drain_usage's docstring: each request reports only what it cost itself.
UsageIsOwn == \A t \in Threads : "earlier" \notin charged[t]
================================================================================
