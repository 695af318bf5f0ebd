------------------------- MODULE FallbackRouter_proofs -------------------------
(***************************************************************************)
(* Proofs about FallbackRouter, for every number of threads and providers, *)
(* every prompt and window and every score: one lemma per step of the      *)
(* router shows that it preserves RouterInv, in which the safety           *)
(* properties are conjuncts next to what makes them inductive.             *)
(***************************************************************************)
EXTENDS FallbackRouter, TLAPS

USE RouterAssumption
USE DEF vars, clientVars, localVars, resultVars, countVars, Providers, NoScore


\* Nothing about the candidates of a thread changes with another's step.
LEMMA CandidatesKept ==
  ASSUME NEW u \in Threads, CandidateInv(u),
         pc'[u] = pc[u], call'[u] = call[u], hop'[u] = hop[u],
         candidates'[u] = candidates[u], score'[u] = score[u]
  PROVE  CandidateInv(u)'
BY DEF CandidateInv, Walking, Text, KeepsLast

\* A call begins with no candidate and no score.
LEMMA FreshCandidates ==
  ASSUME NEW u \in Threads, candidates'[u] = {},
         score'[u] = [p \in Providers |-> NoScore], pc'[u] # "judging"
  PROVE  CandidateInv(u)'
BY DEF CandidateInv, Walking, Text, KeepsLast


\* Scores are integers, and candidates are providers.
LEMMA ScoreFacts ==
  ASSUME TypeOK, NEW u \in Threads
  PROVE  /\ \A p \in Providers : score[u][p] \in Int
         /\ \A c \in candidates[u] : c \in Providers /\ c \in Int
BY DEF TypeOK

\* Nothing about the hops of a thread changes with another's step.
LEMMA HopsKept ==
  ASSUME NEW u \in Threads, HopInv(u),
         pc'[u] = pc[u], call'[u] = call[u], hop'[u] = hop[u],
         outcome'[u] = outcome[u], score'[u] = score[u], visit'[u] = visit[u]
  PROVE  HopInv(u)'
BY DEF HopInv, Walking, Text

\* Nothing about the attempts of a thread changes with another's step.
LEMMA AttemptsKept ==
  ASSUME NEW u \in Threads, AttemptInv(u),
         pc'[u] = pc[u], waited'[u] = waited[u], hop'[u] = hop[u],
         hint'[u] = hint[u], attempts'[u] = attempts[u],
         deadAtStart'[u] = deadAtStart[u], disabled \subseteq disabled'
  PROVE  AttemptInv(u)'
BY DEF AttemptInv

\* A node visit begins a call.
LEMMA VisitNodeStep ==
  ASSUME RouterInv, NEW t \in Threads, VisitNode(t)
  PROVE  RouterInv'
<1> USE DEF VisitNode, Begin, FreshCall, RouterInv
<1>1. TypeOK'
  <2>1. pc' \in [Threads -> {"idle", "hop", "asking", "judging", "returned", "raised"}]
    BY DEF TypeOK
  <2>2. call' \in [Threads -> [node : RouterNodes, prompt : Prompts] \cup {NoCall}]
    BY DEF TypeOK, RouterNodes
  <2>3. visit' \in [Threads -> 0..MaxVisits]
    BY DEF TypeOK
  <2>4. deadAtStart' \in [Threads -> SUBSET Providers]
    BY DEF TypeOK
  <2>5. hop' \in [Threads -> 1..ChainLength + 1]
    BY DEF TypeOK
  <2>6. outcome' \in [Threads -> [Providers -> {"none", "skipped_disabled", "skipped_for_context", "error"}]]
    BY DEF TypeOK
  <2>7. candidates' \in [Threads -> SUBSET Providers]
    BY DEF TypeOK
  <2>8. score' \in [Threads -> [Providers -> 0..Top \cup {NoScore}]]
    BY DEF TypeOK
  <2>9. served' \in [Threads -> Providers \cup {0}]
    BY DEF TypeOK
  <2>10. attempts' \in [Threads -> [Providers -> Nat]]
    BY DEF TypeOK
  <2>11. QED
    BY <2>1, <2>2, <2>3, <2>4, <2>5, <2>6, <2>7, <2>8, <2>9, <2>10 DEF TypeOK
<1>2. ExhaustionIsReal'
  BY DEF TypeOK, ExhaustionIsReal
<1>3. BestAnswerReturned'
  BY DEF TypeOK, BestAnswerReturned
<1>4. WaitsOnOwnCooldown'
  BY DEF TypeOK, WaitsOnOwnCooldown
<1>5. AttemptsAreBounded'
  BY DEF TypeOK, AttemptsAreBounded, AttemptInv
<1>6. DeadProvidersAreSkipped'
  BY DEF TypeOK, DeadProvidersAreSkipped, AttemptInv
<1>7. \A u \in Threads : HopInv(u)'
  BY DEF TypeOK, HopInv, Walking, Text
<1>8. \A u \in Threads : CandidateInv(u)'
  <2>1. ASSUME NEW u \in Threads, u # t PROVE CandidateInv(u)'
    <3>1. /\ pc'[u] = pc[u] /\ call'[u] = call[u] /\ hop'[u] = hop[u]
          /\ candidates'[u] = candidates[u] /\ score'[u] = score[u]
      BY <2>1 DEF TypeOK
    <3>2. QED
      BY <3>1, <2>1, CandidatesKept
  <2>2. CandidateInv(t)'
    <3>1. /\ candidates'[t] = {} /\ pc'[t] # "judging"
          /\ score'[t] = [p \in Providers |-> NoScore]
      BY DEF TypeOK
    <3>2. QED
      BY <3>1, FreshCandidates
  <2>3. QED
    BY <2>1, <2>2
<1>9. \A u \in Threads : AttemptInv(u)'
  BY DEF TypeOK, AttemptInv
<1>10. QED
  BY <1>1, <1>2, <1>3, <1>4, <1>5, <1>6, <1>7, <1>8, <1>9

\* critic_node begins its second call.
LEMMA CritiqueStep ==
  ASSUME RouterInv, NEW t \in Threads, CritiqueAfterVerifying(t)
  PROVE  RouterInv'
<1> USE DEF CritiqueAfterVerifying, Begin, FreshCall, RouterInv
<1>1. TypeOK'
  <2>1. pc' \in [Threads -> {"idle", "hop", "asking", "judging", "returned", "raised"}]
    BY DEF TypeOK
  <2>2. call' \in [Threads -> [node : RouterNodes, prompt : Prompts] \cup {NoCall}]
    BY DEF TypeOK, RouterNodes
  <2>3. deadAtStart' \in [Threads -> SUBSET Providers]
    BY DEF TypeOK
  <2>4. hop' \in [Threads -> 1..ChainLength + 1]
    BY DEF TypeOK
  <2>5. outcome' \in [Threads -> [Providers -> {"none", "skipped_disabled", "skipped_for_context", "error"}]]
    BY DEF TypeOK
  <2>6. candidates' \in [Threads -> SUBSET Providers]
    BY DEF TypeOK
  <2>7. score' \in [Threads -> [Providers -> 0..Top \cup {NoScore}]]
    BY DEF TypeOK
  <2>8. served' \in [Threads -> Providers \cup {0}]
    BY DEF TypeOK
  <2>9. attempts' \in [Threads -> [Providers -> Nat]]
    BY DEF TypeOK
  <2>10. QED
    BY <2>1, <2>2, <2>3, <2>4, <2>5, <2>6, <2>7, <2>8, <2>9 DEF TypeOK
<1>2. ExhaustionIsReal'
  BY DEF TypeOK, ExhaustionIsReal
<1>3. BestAnswerReturned'
  BY DEF TypeOK, BestAnswerReturned
<1>4. WaitsOnOwnCooldown'
  BY DEF TypeOK, WaitsOnOwnCooldown
<1>5. AttemptsAreBounded'
  BY DEF TypeOK, AttemptsAreBounded, AttemptInv
<1>6. DeadProvidersAreSkipped'
  BY DEF TypeOK, DeadProvidersAreSkipped, AttemptInv
<1>7. \A u \in Threads : HopInv(u)'
  BY DEF TypeOK, HopInv, Walking, Text
<1>8. \A u \in Threads : CandidateInv(u)'
  <2>1. ASSUME NEW u \in Threads, u # t PROVE CandidateInv(u)'
    <3>1. /\ pc'[u] = pc[u] /\ call'[u] = call[u] /\ hop'[u] = hop[u]
          /\ candidates'[u] = candidates[u] /\ score'[u] = score[u]
      BY <2>1 DEF TypeOK
    <3>2. QED
      BY <3>1, <2>1, CandidatesKept
  <2>2. CandidateInv(t)'
    <3>1. /\ candidates'[t] = {} /\ pc'[t] # "judging"
          /\ score'[t] = [p \in Providers |-> NoScore]
      BY DEF TypeOK
    <3>2. QED
      BY <3>1, FreshCandidates
  <2>3. QED
    BY <2>1, <2>2
<1>9. \A u \in Threads : AttemptInv(u)'
  BY DEF TypeOK, AttemptInv
<1>10. QED
  BY <1>1, <1>2, <1>3, <1>4, <1>5, <1>6, <1>7, <1>8, <1>9

\* A hop is skipped.
LEMMA SkipHopStep ==
  ASSUME RouterInv, NEW t \in Threads, SkipHop(t)
  PROVE  RouterInv'
<1> USE DEF SkipHop, Bump, Skips, SkipReason, RouterInv
<1>1. TypeOK'
  <2>1. outcome' \in [Threads -> [Providers -> {"none", "skipped_disabled", "skipped_for_context", "error"}]]
    BY DEF TypeOK
  <2>2. hop' \in [Threads -> 1..ChainLength + 1]
    BY DEF TypeOK
  <2>3. counters' \in [Threads -> SUBSET (1..MaxVisits)]
    BY DEF TypeOK, HopInv
  <2>4. QED
    BY <2>1, <2>2, <2>3 DEF TypeOK
<1>2. ExhaustionIsReal'
  BY DEF TypeOK, ExhaustionIsReal
<1>3. BestAnswerReturned'
  BY DEF TypeOK, BestAnswerReturned
<1>4. WaitsOnOwnCooldown'
  BY DEF TypeOK, WaitsOnOwnCooldown
<1>5. AttemptsAreBounded'
  BY DEF TypeOK, AttemptsAreBounded, AttemptInv
<1>6. DeadProvidersAreSkipped'
  BY DEF TypeOK, DeadProvidersAreSkipped, AttemptInv
<1>7. \A u \in Threads : HopInv(u)'
  <2>1. ASSUME NEW u \in Threads, u # t PROVE HopInv(u)'
    <3>1. /\ pc'[u] = pc[u] /\ call'[u] = call[u] /\ hop'[u] = hop[u]
          /\ outcome'[u] = outcome[u] /\ score'[u] = score[u]
          /\ visit'[u] = visit[u]
      BY <2>1 DEF TypeOK
    <3>2. QED
      BY <3>1, <2>1, HopsKept
  <2>2. HopInv(t)'
    <3>1. hop'[t] = hop[t] + 1 /\ pc'[t] = "hop" /\ score'[t] = score[t]
      BY DEF TypeOK
    <3>2. outcome'[t][hop[t]] # "none" /\ outcome'[t][ChainLength] = outcome[t][ChainLength]
      BY DEF TypeOK
    <3>3. \A p \in Providers : p # hop[t] => outcome'[t][p] = outcome[t][p]
      BY DEF TypeOK
    <3>4. QED
      BY <3>1, <3>2, <3>3 DEF TypeOK, HopInv, Walking, Text
  <2>3. QED
    BY <2>1, <2>2
<1>8. \A u \in Threads : CandidateInv(u)'
  <2>1. ASSUME NEW u \in Threads, u # t PROVE CandidateInv(u)'
    <3>1. /\ pc'[u] = pc[u] /\ call'[u] = call[u] /\ hop'[u] = hop[u]
          /\ candidates'[u] = candidates[u] /\ score'[u] = score[u]
      BY <2>1 DEF TypeOK
    <3>2. QED
      BY <3>1, <2>1, CandidatesKept
  <2>2. CandidateInv(t)'
    <3>1. /\ candidates'[t] = candidates[t] /\ score'[t] = score[t]
          /\ Text(t)' = Text(t)
      BY DEF TypeOK, Text
    <3>2. hop'[t] = hop[t] + 1 /\ pc'[t] = "hop" /\ pc[t] = "hop"
      BY DEF TypeOK
    <3>3. QED
      BY <3>1, <3>2 DEF TypeOK, CandidateInv, HopInv, Walking, Text, KeepsLast
  <2>3. QED
    BY <2>1, <2>2
<1>9. \A u \in Threads : AttemptInv(u)'
  <2>1. ASSUME NEW u \in Threads, u # t PROVE AttemptInv(u)'
    <3>1. /\ pc'[u] = pc[u] /\ waited'[u] = waited[u] /\ hop'[u] = hop[u]
          /\ hint'[u] = hint[u] /\ attempts'[u] = attempts[u]
          /\ deadAtStart'[u] = deadAtStart[u] /\ disabled \subseteq disabled'
      BY <2>1 DEF TypeOK
    <3>2. QED
      BY <3>1, <2>1, AttemptsKept
  <2>2. AttemptInv(t)'
    <3>1. hop'[t] = hop[t] + 1 /\ pc'[t] = "hop" /\ attempts'[t] = attempts[t] /\ waited'[t] = waited[t]
      BY DEF TypeOK
    <3>2. \A p \in Providers : p > hop[t] => attempts[t][p] = 0
      BY DEF TypeOK, AttemptsAreBounded
    <3>3. QED
      BY <3>1, <3>2 DEF TypeOK, AttemptInv
  <2>3. QED
    BY <2>1, <2>2
<1>10. QED
  BY <1>1, <1>2, <1>3, <1>4, <1>5, <1>6, <1>7, <1>8, <1>9

\* A provider is asked.
LEMMA AskStep ==
  ASSUME RouterInv, NEW t \in Threads, Ask(t)
  PROVE  RouterInv'
<1> USE DEF Ask, Bump, Post, Skips, RouterInv
<1>1. TypeOK'
  <2>1. pc' \in [Threads -> {"idle", "hop", "asking", "judging", "returned", "raised"}]
    BY DEF TypeOK
  <2>2. hint' \in [Threads -> [Providers -> {"none", "short", "long"}]]
    BY DEF TypeOK
  <2>3. attempts' \in [Threads -> [Providers -> Nat]]
    BY DEF TypeOK
  <2>4. counters' \in [Threads -> SUBSET (1..MaxVisits)]
    BY DEF TypeOK, HopInv
  <2>5. QED
    BY <2>1, <2>2, <2>3, <2>4 DEF TypeOK
<1>2. ExhaustionIsReal'
  BY DEF TypeOK, ExhaustionIsReal
<1>3. BestAnswerReturned'
  BY DEF TypeOK, BestAnswerReturned
<1>4. WaitsOnOwnCooldown'
  BY DEF TypeOK, WaitsOnOwnCooldown
<1>5. AttemptsAreBounded'
  BY DEF TypeOK, AttemptsAreBounded, AttemptInv
<1>6. DeadProvidersAreSkipped'
  BY DEF TypeOK, DeadProvidersAreSkipped, AttemptInv
<1>7. \A u \in Threads : HopInv(u)'
  BY DEF TypeOK, HopInv, Walking, Text
<1>8. \A u \in Threads : CandidateInv(u)'
  <2>1. ASSUME NEW u \in Threads, u # t PROVE CandidateInv(u)'
    <3>1. /\ pc'[u] = pc[u] /\ call'[u] = call[u] /\ hop'[u] = hop[u]
          /\ candidates'[u] = candidates[u] /\ score'[u] = score[u]
      BY <2>1 DEF TypeOK
    <3>2. QED
      BY <3>1, <2>1, CandidatesKept
  <2>2. CandidateInv(t)'
    <3>1. /\ candidates'[t] = candidates[t] /\ score'[t] = score[t]
          /\ Text(t)' = Text(t)
      BY DEF TypeOK, Text
    <3>2. hop'[t] = hop[t] /\ pc'[t] = "asking" /\ pc[t] = "hop"
      BY DEF TypeOK
    <3>3. QED
      BY <3>1, <3>2 DEF TypeOK, CandidateInv, HopInv, Walking, Text, KeepsLast
  <2>3. QED
    BY <2>1, <2>2
<1>9. \A u \in Threads : AttemptInv(u)'
  BY DEF TypeOK, AttemptInv
<1>10. QED
  BY <1>1, <1>2, <1>3, <1>4, <1>5, <1>6, <1>7, <1>8, <1>9

\* A text answer goes to a judge.
LEMMA AnsweredToJudgeStep ==
  ASSUME RouterInv, NEW t \in Threads, Answered(t),
         Text(t) /\ (hop[t] < ChainLength \/ candidates[t] # {})
  PROVE  RouterInv'
<1>a. /\ pc[t] = "asking" /\ pc' = [pc EXCEPT ![t] = "judging"]
     /\ counters' = [counters EXCEPT ![t] = @ \cup {visit[t]}]
     /\ hint' = [hint EXCEPT ![t][JudgeOf(hop[t])] = "none"]
     /\ usage' = [usage EXCEPT ![t][hop[t]] = "none"]
     /\ charged' = [charged EXCEPT ![t] = @ \cup {"own"}]
     /\ waited' = [waited EXCEPT ![t] = "none"]
     /\ UNCHANGED <<clientVars, call, hop, resultVars, visit, attempts,
                    deadAtStart>>
  BY DEF Answered, Bump, Post
<1> USE <1>a DEF JudgeOf, RouterInv
<1>1. TypeOK'
  <2>1. pc' \in [Threads -> {"idle", "hop", "asking", "judging", "returned", "raised"}]
    BY DEF TypeOK
  <2>2. hint' \in [Threads -> [Providers -> {"none", "short", "long"}]]
    BY DEF TypeOK
  <2>3. usage' \in [Threads -> [Providers -> Usages]]
    BY DEF TypeOK, Usages
  <2>4. charged' \in [Threads -> SUBSET Usages]
    BY DEF TypeOK, Usages
  <2>5. waited' \in [Threads -> Failures \cup {"none"}]
    BY DEF TypeOK
  <2>6. counters' \in [Threads -> SUBSET (1..MaxVisits)]
    BY DEF TypeOK, HopInv
  <2>7. QED
    BY <2>1, <2>2, <2>3, <2>4, <2>5, <2>6 DEF TypeOK
<1>2. ExhaustionIsReal'
  BY DEF TypeOK, ExhaustionIsReal
<1>3. BestAnswerReturned'
  BY DEF TypeOK, BestAnswerReturned
<1>4. WaitsOnOwnCooldown'
  BY DEF TypeOK, WaitsOnOwnCooldown
<1>5. AttemptsAreBounded'
  BY DEF TypeOK, AttemptsAreBounded, AttemptInv
<1>6. DeadProvidersAreSkipped'
  BY DEF TypeOK, DeadProvidersAreSkipped, AttemptInv
<1>7. \A u \in Threads : HopInv(u)'
  <2>1. ASSUME NEW u \in Threads, u # t PROVE HopInv(u)'
    <3>1. /\ pc'[u] = pc[u] /\ call'[u] = call[u] /\ hop'[u] = hop[u]
          /\ outcome'[u] = outcome[u] /\ score'[u] = score[u]
          /\ visit'[u] = visit[u]
      BY <2>1 DEF TypeOK
    <3>2. QED
      BY <3>1, <2>1, HopsKept
  <2>2. HopInv(t)'
    <3>1. hop' = hop /\ pc'[t] = "judging" /\ outcome' = outcome /\ score' = score /\ visit' = visit /\ call' = call
      BY DEF TypeOK
    <3>2. QED
      BY <3>1 DEF TypeOK, HopInv, Walking, Text
  <2>3. QED
    BY <2>1, <2>2
<1>8. \A u \in Threads : CandidateInv(u)'
  <2>1. ASSUME NEW u \in Threads, u # t PROVE CandidateInv(u)'
    <3>1. /\ pc'[u] = pc[u] /\ call'[u] = call[u] /\ hop'[u] = hop[u]
          /\ candidates'[u] = candidates[u] /\ score'[u] = score[u]
      BY <2>1 DEF TypeOK
    <3>2. QED
      BY <3>1, <2>1, CandidatesKept
  <2>2. CandidateInv(t)'
    <3>1. /\ candidates'[t] = candidates[t] /\ score'[t] = score[t]
          /\ Text(t)' = Text(t)
      BY DEF TypeOK, Text
    <3>2. hop'[t] = hop[t] /\ pc'[t] = "judging" /\ pc[t] = "asking"
      BY DEF TypeOK
    <3>3. QED
      BY <3>1, <3>2 DEF TypeOK, CandidateInv, HopInv, Walking, Text, KeepsLast
  <2>3. QED
    BY <2>1, <2>2
<1>9. \A u \in Threads : AttemptInv(u)'
  <2>1. ASSUME NEW u \in Threads, u # t PROVE AttemptInv(u)'
    <3>1. /\ pc'[u] = pc[u] /\ waited'[u] = waited[u] /\ hop'[u] = hop[u]
          /\ hint'[u] = hint[u] /\ attempts'[u] = attempts[u]
          /\ deadAtStart'[u] = deadAtStart[u] /\ disabled \subseteq disabled'
      BY <2>1 DEF TypeOK
    <3>2. QED
      BY <3>1, <2>1, AttemptsKept
  <2>2. AttemptInv(t)'
    <3>1. pc'[t] = "judging" /\ waited'[t] = "none" /\ deadAtStart'[t] = deadAtStart[t] /\ disabled' = disabled
      BY DEF TypeOK
    <3>2. QED
      BY <3>1 DEF TypeOK, AttemptInv
  <2>3. QED
    BY <2>1, <2>2
<1>10. QED
  BY <1>1, <1>2, <1>3, <1>4, <1>5, <1>6, <1>7, <1>8, <1>9

\* A JSON answer, or the only text answer of the chain, is returned.
LEMMA AnsweredReturnStep ==
  ASSUME RouterInv, NEW t \in Threads, Answered(t),
         ~(Text(t) /\ (hop[t] < ChainLength \/ candidates[t] # {}))
  PROVE  RouterInv'
<1>a. /\ pc[t] = "asking" /\ pc' = [pc EXCEPT ![t] = "returned"]
     /\ served' = [served EXCEPT ![t] = hop[t]]
     /\ usage' = [usage EXCEPT ![t][hop[t]] = "none"]
     /\ charged' = [charged EXCEPT ![t] = @ \cup {"own"}]
     /\ waited' = [waited EXCEPT ![t] = "none"]
     /\ UNCHANGED <<clientVars, hint, call, hop, outcome, candidates, score,
                    counters, visit, attempts, deadAtStart>>
  BY DEF Answered, Return
<1> USE <1>a DEF RouterInv
<1>1. TypeOK'
  <2>1. pc' \in [Threads -> {"idle", "hop", "asking", "judging", "returned", "raised"}]
    BY DEF TypeOK
  <2>2. usage' \in [Threads -> [Providers -> Usages]]
    BY DEF TypeOK, Usages
  <2>3. charged' \in [Threads -> SUBSET Usages]
    BY DEF TypeOK, Usages
  <2>4. served' \in [Threads -> Providers \cup {0}]
    BY DEF TypeOK, HopInv
  <2>5. waited' \in [Threads -> Failures \cup {"none"}]
    BY DEF TypeOK
  <2>6. QED
    BY <2>1, <2>2, <2>3, <2>4, <2>5 DEF TypeOK
<1>2. ExhaustionIsReal'
  BY DEF TypeOK, ExhaustionIsReal
<1>3. BestAnswerReturned'
  <2>1. \A p \in Providers : score[t][p] = NoScore
    BY DEF TypeOK, CandidateInv, HopInv, Walking, Text, KeepsLast
  <2>2. /\ score' = score
        /\ \A u \in Threads : u # t => pc'[u] = pc[u] /\ served'[u] = served[u]
    BY DEF TypeOK
  <2>3. QED
    BY <2>1, <2>2 DEF BestAnswerReturned
<1>4. WaitsOnOwnCooldown'
  BY DEF TypeOK, WaitsOnOwnCooldown
<1>5. AttemptsAreBounded'
  BY DEF TypeOK, AttemptsAreBounded, AttemptInv
<1>6. DeadProvidersAreSkipped'
  BY DEF TypeOK, DeadProvidersAreSkipped, AttemptInv
<1>7. \A u \in Threads : HopInv(u)'
  BY DEF TypeOK, HopInv, Walking, Text
<1>8. \A u \in Threads : CandidateInv(u)'
  <2>1. ASSUME NEW u \in Threads, u # t PROVE CandidateInv(u)'
    <3>1. /\ pc'[u] = pc[u] /\ call'[u] = call[u] /\ hop'[u] = hop[u]
          /\ candidates'[u] = candidates[u] /\ score'[u] = score[u]
      BY <2>1 DEF TypeOK
    <3>2. QED
      BY <3>1, <2>1, CandidatesKept
  <2>2. CandidateInv(t)'
    <3>1. pc'[t] = "returned"
      BY DEF TypeOK
    <3>2. QED
      BY <3>1 DEF TypeOK, CandidateInv, Walking
  <2>3. QED
    BY <2>1, <2>2
<1>9. \A u \in Threads : AttemptInv(u)'
  BY DEF TypeOK, AttemptInv
<1>10. QED
  BY <1>1, <1>2, <1>3, <1>4, <1>5, <1>6, <1>7, <1>8, <1>9

\* The chain ends with the best candidate.
LEMMA ChainReturnsStep ==
  ASSUME RouterInv, NEW t \in Threads, EndOfChain(t), candidates[t] # {}
  PROVE  RouterInv'
<1> USE DEF EndOfChain, RouterInv
<1>1. TypeOK'
  <2>1. pc' \in [Threads -> {"idle", "hop", "asking", "judging", "returned", "raised"}]
    BY DEF TypeOK, Return
  <2>2. \E best \in candidates[t] : served' = [served EXCEPT ![t] = best]
    BY DEF TypeOK, Return
  <2>3. served' \in [Threads -> Providers \cup {0}]
    BY <2>2 DEF TypeOK
  <2>4. QED
    BY <2>1, <2>2, <2>3 DEF TypeOK
<1>2. ExhaustionIsReal'
  BY DEF TypeOK, ExhaustionIsReal, Return
<1>3. BestAnswerReturned'
  <2>1. PICK best \in candidates[t] : IsBest(t, best) /\ Return(t, best)
    OBVIOUS
  <2>2. /\ best \in Providers /\ served'[t] = best /\ score' = score
        /\ \A u \in Threads : u # t => pc'[u] = pc[u] /\ served'[u] = served[u]
    BY <2>1 DEF TypeOK, Return
  <2>3. ASSUME NEW p \in Providers, score[t][p] # NoScore
        PROVE  \/ score[t][p] < score[t][best]
               \/ score[t][p] = score[t][best] /\ best <= p
    <3>1. CASE p \in candidates[t]
      BY <3>1, <2>1 DEF IsBest
    <3>2. CASE p = ChainLength /\ ~KeepsLast(t, score[t][p])
      <4>1. PICK c \in candidates[t] : ~(score[t][p] > score[t][c])
        BY <3>2 DEF KeepsLast
      <4>2. /\ c \in Providers /\ score[t][c] \in Int /\ score[t][p] \in Int
            /\ score[t][best] \in Int
        BY <4>1, <2>2, ScoreFacts
      <4>3. score[t][c] <= score[t][best]
        BY <4>1, <4>2, <2>1 DEF IsBest
      <4>4. QED
        BY <4>1, <4>2, <4>3, <3>2, <2>2
    <3>3. QED
      BY <3>1, <3>2, <2>3 DEF CandidateInv, Walking, EndOfChain
  <2>4. QED
    BY <2>2, <2>3 DEF BestAnswerReturned
<1>4. WaitsOnOwnCooldown'
  BY DEF TypeOK, WaitsOnOwnCooldown
<1>5. AttemptsAreBounded'
  BY DEF TypeOK, AttemptsAreBounded, AttemptInv, Return
<1>6. DeadProvidersAreSkipped'
  BY DEF TypeOK, DeadProvidersAreSkipped, AttemptInv, Return
<1>7. \A u \in Threads : HopInv(u)'
  <2>1. ASSUME NEW u \in Threads, u # t PROVE HopInv(u)'
    <3>1. /\ pc'[u] = pc[u] /\ call'[u] = call[u] /\ hop'[u] = hop[u]
          /\ outcome'[u] = outcome[u] /\ score'[u] = score[u]
          /\ visit'[u] = visit[u]
      BY <2>1 DEF TypeOK, Return
    <3>2. QED
      BY <3>1, <2>1, HopsKept
  <2>2. HopInv(t)'
    <3>1. pc'[t] = "returned" /\ outcome' = outcome /\ visit' = visit
      BY DEF TypeOK, Return
    <3>2. QED
      BY <3>1 DEF TypeOK, HopInv, Walking, Text
  <2>3. QED
    BY <2>1, <2>2
<1>8. \A u \in Threads : CandidateInv(u)'
  <2>1. ASSUME NEW u \in Threads, u # t PROVE CandidateInv(u)'
    <3>1. /\ pc'[u] = pc[u] /\ call'[u] = call[u] /\ hop'[u] = hop[u]
          /\ candidates'[u] = candidates[u] /\ score'[u] = score[u]
      BY <2>1 DEF TypeOK, Return
    <3>2. QED
      BY <3>1, <2>1, CandidatesKept
  <2>2. CandidateInv(t)'
    <3>1. pc'[t] = "returned"
      BY DEF TypeOK, Return
    <3>2. QED
      BY <3>1 DEF TypeOK, CandidateInv, Walking
  <2>3. QED
    BY <2>1, <2>2
<1>9. \A u \in Threads : AttemptInv(u)'
  <2>1. ASSUME NEW u \in Threads, u # t PROVE AttemptInv(u)'
    <3>1. /\ pc'[u] = pc[u] /\ waited'[u] = waited[u] /\ hop'[u] = hop[u]
          /\ hint'[u] = hint[u] /\ attempts'[u] = attempts[u]
          /\ deadAtStart'[u] = deadAtStart[u] /\ disabled \subseteq disabled'
      BY <2>1 DEF TypeOK, Return
    <3>2. QED
      BY <3>1, <2>1, AttemptsKept
  <2>2. AttemptInv(t)'
    <3>1. pc'[t] = "returned" /\ waited' = waited /\ waited[t] = "none"
      BY DEF TypeOK, Return, AttemptInv
    <3>2. QED
      BY <3>1 DEF TypeOK, AttemptInv
  <2>3. QED
    BY <2>1, <2>2
<1>10. QED
  BY <1>1, <1>2, <1>3, <1>4, <1>5, <1>6, <1>7, <1>8, <1>9

\* The chain ends with no candidate.
LEMMA ChainExhaustedStep ==
  ASSUME RouterInv, NEW t \in Threads, EndOfChain(t), candidates[t] = {}
  PROVE  RouterInv'
<1> USE DEF EndOfChain, RouterInv
<1>1. TypeOK'
  <2>1. pc' \in [Threads -> {"idle", "hop", "asking", "judging", "returned", "raised"}]
    BY DEF TypeOK
  <2>2. QED
    BY <2>1 DEF TypeOK
<1>2. ExhaustionIsReal'
  <2>1. \A p \in Providers : score[t][p] = NoScore
    BY DEF TypeOK, CandidateInv, Walking, KeepsLast
  <2>2. \A p \in Providers : outcome[t][p] # "none"
    BY <2>1 DEF TypeOK, HopInv, Walking
  <2>3. outcome[t][ChainLength] = "error"
    BY <2>2 DEF HopInv
  <2>4. QED
    BY <2>1, <2>2, <2>3 DEF TypeOK, ExhaustionIsReal
<1>3. BestAnswerReturned'
  BY DEF TypeOK, BestAnswerReturned
<1>4. WaitsOnOwnCooldown'
  BY DEF TypeOK, WaitsOnOwnCooldown
<1>5. AttemptsAreBounded'
  BY DEF TypeOK, AttemptsAreBounded, AttemptInv
<1>6. DeadProvidersAreSkipped'
  BY DEF TypeOK, DeadProvidersAreSkipped, AttemptInv
<1>7. \A u \in Threads : HopInv(u)'
  <2>1. ASSUME NEW u \in Threads, u # t PROVE HopInv(u)'
    <3>1. /\ pc'[u] = pc[u] /\ call'[u] = call[u] /\ hop'[u] = hop[u]
          /\ outcome'[u] = outcome[u] /\ score'[u] = score[u]
          /\ visit'[u] = visit[u]
      BY <2>1 DEF TypeOK
    <3>2. QED
      BY <3>1, <2>1, HopsKept
  <2>2. HopInv(t)'
    <3>1. pc'[t] = "raised" /\ outcome' = outcome /\ visit' = visit
      BY DEF TypeOK
    <3>2. QED
      BY <3>1 DEF TypeOK, HopInv, Walking, Text
  <2>3. QED
    BY <2>1, <2>2
<1>8. \A u \in Threads : CandidateInv(u)'
  <2>1. ASSUME NEW u \in Threads, u # t PROVE CandidateInv(u)'
    <3>1. /\ pc'[u] = pc[u] /\ call'[u] = call[u] /\ hop'[u] = hop[u]
          /\ candidates'[u] = candidates[u] /\ score'[u] = score[u]
      BY <2>1 DEF TypeOK
    <3>2. QED
      BY <3>1, <2>1, CandidatesKept
  <2>2. CandidateInv(t)'
    <3>1. pc'[t] = "raised"
      BY DEF TypeOK
    <3>2. QED
      BY <3>1 DEF TypeOK, CandidateInv, Walking
  <2>3. QED
    BY <2>1, <2>2
<1>9. \A u \in Threads : AttemptInv(u)'
  <2>1. ASSUME NEW u \in Threads, u # t PROVE AttemptInv(u)'
    <3>1. /\ pc'[u] = pc[u] /\ waited'[u] = waited[u] /\ hop'[u] = hop[u]
          /\ hint'[u] = hint[u] /\ attempts'[u] = attempts[u]
          /\ deadAtStart'[u] = deadAtStart[u] /\ disabled \subseteq disabled'
      BY <2>1 DEF TypeOK
    <3>2. QED
      BY <3>1, <2>1, AttemptsKept
  <2>2. AttemptInv(t)'
    <3>1. pc'[t] = "raised" /\ waited' = waited /\ waited[t] = "none"
      BY DEF TypeOK, AttemptInv
    <3>2. QED
      BY <3>1 DEF TypeOK, AttemptInv
  <2>3. QED
    BY <2>1, <2>2
<1>10. QED
  BY <1>1, <1>2, <1>3, <1>4, <1>5, <1>6, <1>7, <1>8, <1>9

\* A node drains its counters and ends.
LEMMA DrainCountersStep ==
  ASSUME RouterInv, NEW t \in Threads, DrainCounters(t)
  PROVE  RouterInv'
<1> USE DEF DrainCounters, LeaveNode, FreshCall, RouterInv
<1>1. TypeOK'
  <2>1. pc' \in [Threads -> {"idle", "hop", "asking", "judging", "returned", "raised"}]
    BY DEF TypeOK
  <2>2. call' \in [Threads -> [node : RouterNodes, prompt : Prompts] \cup {NoCall}]
    BY DEF TypeOK
  <2>3. counters' \in [Threads -> SUBSET (1..MaxVisits)]
    BY DEF TypeOK
  <2>4. charged' \in [Threads -> SUBSET Usages]
    BY DEF TypeOK
  <2>5. deadAtStart' \in [Threads -> SUBSET Providers]
    BY DEF TypeOK
  <2>6. hop' \in [Threads -> 1..ChainLength + 1]
    BY DEF TypeOK
  <2>7. outcome' \in [Threads -> [Providers -> {"none", "skipped_disabled", "skipped_for_context", "error"}]]
    BY DEF TypeOK
  <2>8. candidates' \in [Threads -> SUBSET Providers]
    BY DEF TypeOK
  <2>9. score' \in [Threads -> [Providers -> 0..Top \cup {NoScore}]]
    BY DEF TypeOK
  <2>10. served' \in [Threads -> Providers \cup {0}]
    BY DEF TypeOK
  <2>11. attempts' \in [Threads -> [Providers -> Nat]]
    BY DEF TypeOK
  <2>12. QED
    BY <2>1, <2>2, <2>3, <2>4, <2>5, <2>6, <2>7, <2>8, <2>9, <2>10, <2>11 DEF TypeOK
<1>2. ExhaustionIsReal'
  BY DEF TypeOK, ExhaustionIsReal
<1>3. BestAnswerReturned'
  BY DEF TypeOK, BestAnswerReturned
<1>4. WaitsOnOwnCooldown'
  BY DEF TypeOK, WaitsOnOwnCooldown
<1>5. AttemptsAreBounded'
  BY DEF TypeOK, AttemptsAreBounded, AttemptInv
<1>6. DeadProvidersAreSkipped'
  BY DEF TypeOK, DeadProvidersAreSkipped, AttemptInv
<1>7. \A u \in Threads : HopInv(u)'
  BY DEF TypeOK, HopInv, Walking, Text
<1>8. \A u \in Threads : CandidateInv(u)'
  <2>1. ASSUME NEW u \in Threads, u # t PROVE CandidateInv(u)'
    <3>1. /\ pc'[u] = pc[u] /\ call'[u] = call[u] /\ hop'[u] = hop[u]
          /\ candidates'[u] = candidates[u] /\ score'[u] = score[u]
      BY <2>1 DEF TypeOK
    <3>2. QED
      BY <3>1, <2>1, CandidatesKept
  <2>2. CandidateInv(t)'
    <3>1. /\ candidates'[t] = {} /\ pc'[t] # "judging"
          /\ score'[t] = [p \in Providers |-> NoScore]
      BY DEF TypeOK
    <3>2. QED
      BY <3>1, FreshCandidates
  <2>3. QED
    BY <2>1, <2>2
<1>9. \A u \in Threads : AttemptInv(u)'
  BY DEF TypeOK, AttemptInv
<1>10. QED
  BY <1>1, <1>2, <1>3, <1>4, <1>5, <1>6, <1>7, <1>8, <1>9

\* A node fails.
LEMMA NodeRaisesStep ==
  ASSUME RouterInv, NEW t \in Threads, NodeRaises(t)
  PROVE  RouterInv'
<1> USE DEF NodeRaises, LeaveNode, FreshCall, RouterInv
<1>1. TypeOK'
  <2>1. pc' \in [Threads -> {"idle", "hop", "asking", "judging", "returned", "raised"}]
    BY DEF TypeOK
  <2>2. call' \in [Threads -> [node : RouterNodes, prompt : Prompts] \cup {NoCall}]
    BY DEF TypeOK
  <2>3. deadAtStart' \in [Threads -> SUBSET Providers]
    BY DEF TypeOK
  <2>4. hop' \in [Threads -> 1..ChainLength + 1]
    BY DEF TypeOK
  <2>5. outcome' \in [Threads -> [Providers -> {"none", "skipped_disabled", "skipped_for_context", "error"}]]
    BY DEF TypeOK
  <2>6. candidates' \in [Threads -> SUBSET Providers]
    BY DEF TypeOK
  <2>7. score' \in [Threads -> [Providers -> 0..Top \cup {NoScore}]]
    BY DEF TypeOK
  <2>8. served' \in [Threads -> Providers \cup {0}]
    BY DEF TypeOK
  <2>9. attempts' \in [Threads -> [Providers -> Nat]]
    BY DEF TypeOK
  <2>10. QED
    BY <2>1, <2>2, <2>3, <2>4, <2>5, <2>6, <2>7, <2>8, <2>9 DEF TypeOK
<1>2. ExhaustionIsReal'
  BY DEF TypeOK, ExhaustionIsReal
<1>3. BestAnswerReturned'
  BY DEF TypeOK, BestAnswerReturned
<1>4. WaitsOnOwnCooldown'
  BY DEF TypeOK, WaitsOnOwnCooldown
<1>5. AttemptsAreBounded'
  BY DEF TypeOK, AttemptsAreBounded, AttemptInv
<1>6. DeadProvidersAreSkipped'
  BY DEF TypeOK, DeadProvidersAreSkipped, AttemptInv
<1>7. \A u \in Threads : HopInv(u)'
  BY DEF TypeOK, HopInv, Walking, Text
<1>8. \A u \in Threads : CandidateInv(u)'
  <2>1. ASSUME NEW u \in Threads, u # t PROVE CandidateInv(u)'
    <3>1. /\ pc'[u] = pc[u] /\ call'[u] = call[u] /\ hop'[u] = hop[u]
          /\ candidates'[u] = candidates[u] /\ score'[u] = score[u]
      BY <2>1 DEF TypeOK
    <3>2. QED
      BY <3>1, <2>1, CandidatesKept
  <2>2. CandidateInv(t)'
    <3>1. /\ candidates'[t] = {} /\ pc'[t] # "judging"
          /\ score'[t] = [p \in Providers |-> NoScore]
      BY DEF TypeOK
    <3>2. QED
      BY <3>1, FreshCandidates
  <2>3. QED
    BY <2>1, <2>2
<1>9. \A u \in Threads : AttemptInv(u)'
  BY DEF TypeOK, AttemptInv
<1>10. QED
  BY <1>1, <1>2, <1>3, <1>4, <1>5, <1>6, <1>7, <1>8, <1>9


\* A thread that waits for an answer or a score stands at a provider.
LEMMA AskingFacts ==
  ASSUME RouterInv, NEW t \in Threads, pc[t] \in {"asking", "judging"}
  PROVE  hop[t] \in Providers /\ hop[t] \in Int /\ TypeOK
BY DEF RouterInv, TypeOK, HopInv

\* What a failed request leaves in its client keeps its type, and no provider
\* comes back to life.
LEMMA FailureFacts ==
  ASSUME TypeOK, NEW t \in Threads, NEW p \in Providers,
         NEW failure \in Failures, NEW reported \in Windows,
         RecordErrorResponse(p, failure, reported)
  PROVE  /\ disabled' \subseteq Providers /\ disabled \subseteq disabled'
         /\ learned' \subseteq Providers
         /\ window' \in [Providers -> Windows]
         /\ CooldownAfter(t, p, failure) \in {"none", "short", "long"}
         /\ UsageAfter(t, p, failure) \in Usages
<1>1. disabled' \subseteq Providers /\ disabled \subseteq disabled'
  BY DEF TypeOK, RecordErrorResponse
<1>2. /\ learned' \subseteq Providers
      /\ window' \in [Providers -> Windows]
  BY DEF TypeOK, RecordErrorResponse
<1>3. CooldownAfter(t, p, failure) \in {"none", "short", "long"}
  BY DEF TypeOK, CooldownAfter, Failures
<1>4. UsageAfter(t, p, failure) \in Usages
  BY DEF TypeOK, UsageAfter, Usages
<1>5. QED
  BY <1>1, <1>2, <1>3, <1>4

\* A hop is asked again after a short cooldown.
LEMMA RetryHopStep ==
  ASSUME RouterInv, NEW t \in Threads, RetryHop(t)
  PROVE  RouterInv'
<1>a. PICK failure \in Failures, reported \in Windows :
       /\ Waits(t, CooldownAfter(t, hop[t], failure))
       /\ RecordErrorResponse(hop[t], failure, reported)
       /\ usage' = [usage EXCEPT ![t][hop[t]] = UsageAfter(t, hop[t], failure)]
       /\ waited' = [waited EXCEPT ![t] = failure]
       /\ attempts' = [attempts EXCEPT ![t][hop[t]] = @ + 1]
  BY DEF RetryHop
<1>b. /\ pc[t] = "asking"
     /\ counters' = [counters EXCEPT ![t] = @ \cup {visit[t]}]
     /\ hint' = [hint EXCEPT ![t][hop[t]] = "none"]
     /\ UNCHANGED <<pc, call, hop, resultVars, charged, visit, deadAtStart>>
  BY DEF RetryHop, Bump, Post
<1>c. hop[t] \in Providers /\ hop[t] \in Int /\ TypeOK
  BY <1>b, AskingFacts
<1>d. /\ disabled' \subseteq Providers /\ disabled \subseteq disabled'
        /\ learned' \subseteq Providers /\ window' \in [Providers -> Windows]
        /\ UsageAfter(t, hop[t], failure) \in Usages
        /\ CooldownAfter(t, hop[t], failure) \in {"none", "short", "long"}
  BY <1>a, <1>c, FailureFacts
<1> USE <1>a, <1>b, <1>c, <1>d DEF RouterInv
<1>1. TypeOK'
  <2>1. hint' \in [Threads -> [Providers -> {"none", "short", "long"}]]
    BY DEF TypeOK
  <2>2. usage' \in [Threads -> [Providers -> Usages]]
    BY DEF TypeOK
  <2>3. waited' \in [Threads -> Failures \cup {"none"}]
    BY DEF TypeOK
  <2>4. attempts' \in [Threads -> [Providers -> Nat]]
    BY DEF TypeOK
  <2>5. counters' \in [Threads -> SUBSET (1..MaxVisits)]
    BY DEF TypeOK, HopInv
  <2>6. QED
    BY <2>1, <2>2, <2>3, <2>4, <2>5 DEF TypeOK
<1>2. ExhaustionIsReal'
  BY DEF TypeOK, ExhaustionIsReal
<1>3. BestAnswerReturned'
  BY DEF TypeOK, BestAnswerReturned
<1>4. WaitsOnOwnCooldown'
  <2>1. failure = "short"
    BY DEF CooldownAfter, AttemptInv, Waits
  <2>2. QED
    BY <2>1 DEF TypeOK, WaitsOnOwnCooldown
<1>5. AttemptsAreBounded'
  <2>1. attempts[t][hop[t]] = 1 /\ RetryAfter
    BY DEF AttemptInv, Waits
  <2>2. attempts'[t][hop[t]] = 2
    BY <2>1 DEF TypeOK
  <2>3. \A u \in Threads, p \in Providers :
          u # t \/ p # hop[t] => attempts'[u][p] = attempts[u][p]
    BY DEF TypeOK
  <2>4. QED
    BY <2>1, <2>2, <2>3 DEF AttemptsAreBounded
<1>6. DeadProvidersAreSkipped'
  <2>1. attempts[t][hop[t]] = 1
    BY DEF AttemptInv, Waits
  <2>2. \A u \in Threads, p \in Providers :
          u # t \/ p # hop[t] => attempts'[u][p] = attempts[u][p]
    BY DEF TypeOK
  <2>3. hop[t] < ChainLength => hop[t] \notin deadAtStart[t]
    BY <2>1 DEF DeadProvidersAreSkipped
  <2>4. QED
    BY <2>2, <2>3 DEF TypeOK, DeadProvidersAreSkipped
<1>7. \A u \in Threads : HopInv(u)'
  BY DEF TypeOK, HopInv, Walking, Text
<1>8. \A u \in Threads : CandidateInv(u)'
  <2>1. ASSUME NEW u \in Threads, u # t PROVE CandidateInv(u)'
    <3>1. /\ pc'[u] = pc[u] /\ call'[u] = call[u] /\ hop'[u] = hop[u]
          /\ candidates'[u] = candidates[u] /\ score'[u] = score[u]
      BY <2>1 DEF TypeOK
    <3>2. QED
      BY <3>1, <2>1, CandidatesKept
  <2>2. CandidateInv(t)'
    <3>1. /\ candidates' = candidates /\ score' = score /\ pc' = pc
          /\ hop' = hop /\ call' = call
      BY DEF TypeOK
    <3>2. QED
      BY <3>1 DEF TypeOK, CandidateInv, HopInv, Walking, Text, KeepsLast
  <2>3. QED
    BY <2>1, <2>2
<1>9. \A u \in Threads : AttemptInv(u)'
  <2>1. ASSUME NEW u \in Threads, u # t PROVE AttemptInv(u)'
    <3>1. /\ pc'[u] = pc[u] /\ waited'[u] = waited[u] /\ hop'[u] = hop[u]
          /\ hint'[u] = hint[u] /\ attempts'[u] = attempts[u]
          /\ deadAtStart'[u] = deadAtStart[u] /\ disabled \subseteq disabled'
      BY <2>1 DEF TypeOK
    <3>2. QED
      BY <3>1, <2>1, AttemptsKept
  <2>2. AttemptInv(t)'
    <3>1. /\ attempts'[t][hop[t]] = 2 /\ hint'[t][hop[t]] = "none" /\ pc' = pc
          /\ waited'[t] = failure /\ deadAtStart' = deadAtStart
          /\ waited'[t] # "none" /\ RetryAfter /\ hop' = hop
      BY DEF TypeOK, AttemptInv, Waits, Failures
    <3>2. QED
      BY <3>1 DEF TypeOK, AttemptInv
  <2>3. QED
    BY <2>1, <2>2
<1>10. QED
  BY <1>1, <1>2, <1>3, <1>4, <1>5, <1>6, <1>7, <1>8, <1>9

\* A hop is left after a failure.
LEMMA LeaveHopStep ==
  ASSUME RouterInv, NEW t \in Threads, LeaveHop(t)
  PROVE  RouterInv'
<1>a. PICK failure \in Failures, reported \in Windows :
       /\ RecordErrorResponse(hop[t], failure, reported)
       /\ usage' = [usage EXCEPT ![t][hop[t]] = UsageAfter(t, hop[t], failure)]
       /\ hint' = [hint EXCEPT ![t][hop[t]] =
                     IF waited[t] = "none" THEN "none"
                     ELSE CooldownAfter(t, hop[t], failure)]
  BY DEF LeaveHop
<1>b. /\ pc[t] = "asking" /\ pc' = [pc EXCEPT ![t] = "hop"]
     /\ outcome' = [outcome EXCEPT ![t][hop[t]] = "error"]
     /\ hop' = [hop EXCEPT ![t] = @ + 1]
     /\ waited' = [waited EXCEPT ![t] = "none"]
     /\ counters' = [counters EXCEPT ![t] = @ \cup {visit[t]}]
     /\ UNCHANGED <<call, candidates, score, served, charged, visit, attempts,
                    deadAtStart>>
  BY DEF LeaveHop, Bump
<1>c. hop[t] \in Providers /\ hop[t] \in Int /\ TypeOK
  BY <1>b, AskingFacts
<1>d. /\ disabled' \subseteq Providers /\ disabled \subseteq disabled'
        /\ learned' \subseteq Providers /\ window' \in [Providers -> Windows]
        /\ UsageAfter(t, hop[t], failure) \in Usages
        /\ CooldownAfter(t, hop[t], failure) \in {"none", "short", "long"}
  BY <1>a, <1>c, FailureFacts
<1> USE <1>a, <1>b, <1>c, <1>d DEF RouterInv
<1>1. TypeOK'
  <2>1. pc' \in [Threads -> {"idle", "hop", "asking", "judging", "returned", "raised"}]
    BY DEF TypeOK
  <2>2. hint' \in [Threads -> [Providers -> {"none", "short", "long"}]]
    BY DEF TypeOK
  <2>3. usage' \in [Threads -> [Providers -> Usages]]
    BY DEF TypeOK
  <2>4. outcome' \in [Threads -> [Providers -> {"none", "skipped_disabled", "skipped_for_context", "error"}]]
    BY DEF TypeOK
  <2>5. hop' \in [Threads -> 1..ChainLength + 1]
    BY DEF TypeOK
  <2>6. waited' \in [Threads -> Failures \cup {"none"}]
    BY DEF TypeOK
  <2>7. counters' \in [Threads -> SUBSET (1..MaxVisits)]
    BY DEF TypeOK, HopInv
  <2>8. QED
    BY <2>1, <2>2, <2>3, <2>4, <2>5, <2>6, <2>7 DEF TypeOK
<1>2. ExhaustionIsReal'
  BY DEF TypeOK, ExhaustionIsReal
<1>3. BestAnswerReturned'
  BY DEF TypeOK, BestAnswerReturned
<1>4. WaitsOnOwnCooldown'
  BY DEF TypeOK, WaitsOnOwnCooldown
<1>5. AttemptsAreBounded'
  BY DEF TypeOK, AttemptsAreBounded, AttemptInv
<1>6. DeadProvidersAreSkipped'
  BY DEF TypeOK, DeadProvidersAreSkipped, AttemptInv
<1>7. \A u \in Threads : HopInv(u)'
  <2>1. ASSUME NEW u \in Threads, u # t PROVE HopInv(u)'
    <3>1. /\ pc'[u] = pc[u] /\ call'[u] = call[u] /\ hop'[u] = hop[u]
          /\ outcome'[u] = outcome[u] /\ score'[u] = score[u]
          /\ visit'[u] = visit[u]
      BY <2>1 DEF TypeOK
    <3>2. QED
      BY <3>1, <2>1, HopsKept
  <2>2. HopInv(t)'
    <3>1. /\ hop'[t] = hop[t] + 1 /\ pc'[t] = "hop" /\ score'[t] = score[t]
          /\ visit' = visit
      BY DEF TypeOK
    <3>2. /\ outcome'[t][hop[t]] = "error"
          /\ outcome'[t][ChainLength] \in {outcome[t][ChainLength], "error"}
      BY DEF TypeOK
    <3>3. \A p \in Providers : p # hop[t] => outcome'[t][p] = outcome[t][p]
      BY DEF TypeOK
    <3>4. QED
      BY <3>1, <3>2, <3>3 DEF TypeOK, HopInv, Walking, Text
  <2>3. QED
    BY <2>1, <2>2
<1>8. \A u \in Threads : CandidateInv(u)'
  <2>1. ASSUME NEW u \in Threads, u # t PROVE CandidateInv(u)'
    <3>1. /\ pc'[u] = pc[u] /\ call'[u] = call[u] /\ hop'[u] = hop[u]
          /\ candidates'[u] = candidates[u] /\ score'[u] = score[u]
      BY <2>1 DEF TypeOK
    <3>2. QED
      BY <3>1, <2>1, CandidatesKept
  <2>2. CandidateInv(t)'
    <3>1. /\ candidates'[t] = candidates[t] /\ score'[t] = score[t]
          /\ Text(t)' = Text(t)
      BY DEF TypeOK, Text
    <3>2. hop'[t] = hop[t] + 1 /\ pc'[t] = "hop"
      BY DEF TypeOK
    <3>3. QED
      BY <3>1, <3>2 DEF TypeOK, CandidateInv, HopInv, Walking, Text, KeepsLast
  <2>3. QED
    BY <2>1, <2>2
<1>9. \A u \in Threads : AttemptInv(u)'
  <2>1. ASSUME NEW u \in Threads, u # t PROVE AttemptInv(u)'
    <3>1. /\ pc'[u] = pc[u] /\ waited'[u] = waited[u] /\ hop'[u] = hop[u]
          /\ hint'[u] = hint[u] /\ attempts'[u] = attempts[u]
          /\ deadAtStart'[u] = deadAtStart[u] /\ disabled \subseteq disabled'
      BY <2>1 DEF TypeOK
    <3>2. QED
      BY <3>1, <2>1, AttemptsKept
  <2>2. AttemptInv(t)'
    <3>1. /\ hop'[t] = hop[t] + 1 /\ pc'[t] = "hop" /\ attempts' = attempts
          /\ waited'[t] = "none" /\ deadAtStart' = deadAtStart
      BY DEF TypeOK
    <3>2. \A p \in Providers : p > hop[t] => attempts[t][p] = 0
      BY DEF TypeOK, AttemptsAreBounded
    <3>3. QED
      BY <3>1, <3>2 DEF TypeOK, AttemptInv
  <2>3. QED
    BY <2>1, <2>2
<1>10. QED
  BY <1>1, <1>2, <1>3, <1>4, <1>5, <1>6, <1>7, <1>8, <1>9


\* What both ends of a judgement have in common.
JudgeFrame(t) ==
  /\ pc[t] = "judging"
  /\ UNCHANGED <<call, waited, outcome, visit, attempts, deadAtStart>>
  /\ disabled' \subseteq Providers /\ disabled \subseteq disabled'
  /\ learned' \subseteq Providers /\ window' \in [Providers -> Windows]
  /\ hint' \in [Threads -> [Providers -> {"none", "short", "long"}]]
  /\ \A u \in Threads : u # t => hint'[u] = hint[u]
  /\ usage' \in [Threads -> [Providers -> Usages]]
  /\ charged' \in [Threads -> SUBSET Usages]
  /\ counters' \in [Threads -> SUBSET (1..MaxVisits)]

\* A score at the threshold returns the answer.
LEMMA AcceptedStep ==
  ASSUME RouterInv, NEW t \in Threads, JudgeFrame(t),
         NEW s \in 0..Top, Judged(t, s), hop[t] < ChainLength, s >= Threshold
  PROVE  RouterInv'
<1>a. /\ pc[t] = "judging"
     /\ UNCHANGED <<call, waited, outcome, visit, attempts, deadAtStart>>
     /\ disabled \subseteq disabled'
  BY DEF JudgeFrame
<1>b. hop[t] \in Providers /\ hop[t] \in Int /\ TypeOK
  BY <1>a, AskingFacts
<1>c. /\ pc' = [pc EXCEPT ![t] = "returned"]
     /\ served' = [served EXCEPT ![t] = hop[t]]
     /\ score' = [score EXCEPT ![t][hop[t]] = s]
     /\ UNCHANGED <<candidates, hop>>
  BY DEF Judged, Return
<1> USE <1>a, <1>b, <1>c DEF RouterInv
<1>1. TypeOK'
  <2>1. /\ hint' \in [Threads -> [Providers -> {"none", "short", "long"}]]
        /\ usage' \in [Threads -> [Providers -> Usages]]
    BY DEF TypeOK, JudgeFrame
  <2>2. pc' \in [Threads -> {"idle", "hop", "asking", "judging", "returned", "raised"}]
    BY DEF TypeOK
  <2>3. served' \in [Threads -> Providers \cup {0}]
    BY DEF TypeOK
  <2>4. score' \in [Threads -> [Providers -> 0..Top \cup {NoScore}]]
    BY DEF TypeOK
  <2>5. /\ charged' \in [Threads -> SUBSET Usages]
        /\ counters' \in [Threads -> SUBSET (1..MaxVisits)]
        /\ disabled' \subseteq Providers /\ learned' \subseteq Providers
        /\ window' \in [Providers -> Windows]
    BY DEF TypeOK, JudgeFrame
  <2>6. QED
    BY <2>1, <2>2, <2>3, <2>4, <2>5 DEF TypeOK
<1>2. ExhaustionIsReal'
  BY DEF TypeOK, ExhaustionIsReal
<1>3. BestAnswerReturned'
  <2>1. \A p \in Providers : p # hop[t] /\ score[t][p] # NoScore =>
          score[t][p] < Threshold
    BY DEF CandidateInv, HopInv, Walking
  <2>2. /\ \A p \in Providers : score'[t][p] = IF p = hop[t] THEN s ELSE score[t][p]
        /\ served'[t] = hop[t]
        /\ \A u \in Threads : u # t =>
             /\ pc'[u] = pc[u] /\ served'[u] = served[u]
             /\ score'[u] = score[u]
    BY DEF TypeOK
  <2>3. \A p \in Providers : score[t][p] \in Int
    BY ScoreFacts
  <2>4. QED
    BY <2>1, <2>2, <2>3 DEF BestAnswerReturned
<1>4. WaitsOnOwnCooldown'
  BY DEF TypeOK, WaitsOnOwnCooldown
<1>5. AttemptsAreBounded'
  BY DEF TypeOK, AttemptsAreBounded, AttemptInv
<1>6. DeadProvidersAreSkipped'
  BY DEF TypeOK, DeadProvidersAreSkipped, AttemptInv
<1>7. \A u \in Threads : HopInv(u)'
  <2>1. ASSUME NEW u \in Threads, u # t PROVE HopInv(u)'
    <3>1. /\ pc'[u] = pc[u] /\ call'[u] = call[u] /\ hop'[u] = hop[u]
          /\ outcome'[u] = outcome[u] /\ score'[u] = score[u]
          /\ visit'[u] = visit[u]
      BY <2>1 DEF TypeOK
    <3>2. QED
      BY <3>1, <2>1, HopsKept
  <2>2. HopInv(t)'
    <3>1. pc'[t] = "returned"
      BY DEF TypeOK
    <3>2. QED
      BY <3>1 DEF TypeOK, HopInv, Walking
  <2>3. QED
    BY <2>1, <2>2
<1>8. \A u \in Threads : CandidateInv(u)'
  <2>1. ASSUME NEW u \in Threads, u # t PROVE CandidateInv(u)'
    <3>1. /\ pc'[u] = pc[u] /\ call'[u] = call[u] /\ hop'[u] = hop[u]
          /\ candidates'[u] = candidates[u] /\ score'[u] = score[u]
      BY <2>1 DEF TypeOK
    <3>2. QED
      BY <3>1, <2>1, CandidatesKept
  <2>2. CandidateInv(t)'
    <3>1. pc'[t] = "returned"
      BY DEF TypeOK
    <3>2. QED
      BY <3>1 DEF TypeOK, CandidateInv, Walking
  <2>3. QED
    BY <2>1, <2>2
<1>9. \A u \in Threads : AttemptInv(u)'
  <2>1. ASSUME NEW u \in Threads, u # t PROVE AttemptInv(u)'
    <3>1. /\ pc'[u] = pc[u] /\ waited'[u] = waited[u] /\ hop'[u] = hop[u]
          /\ hint'[u] = hint[u] /\ attempts'[u] = attempts[u]
          /\ deadAtStart'[u] = deadAtStart[u] /\ disabled \subseteq disabled'
      BY <2>1 DEF TypeOK, JudgeFrame
    <3>2. QED
      BY <3>1, <2>1, AttemptsKept
  <2>2. AttemptInv(t)'
    <3>1. pc'[t] = "returned"
      BY DEF TypeOK
    <3>2. QED
      BY <3>1 DEF TypeOK, AttemptInv
  <2>3. QED
    BY <2>1, <2>2
<1>10. QED
  BY <1>1, <1>2, <1>3, <1>4, <1>5, <1>6, <1>7, <1>8, <1>9

\* An answer below the threshold is kept.
LEMMA KeptStep ==
  ASSUME RouterInv, NEW t \in Threads, JudgeFrame(t),
         NEW s \in 0..Top, Judged(t, s), hop[t] < ChainLength, s < Threshold
  PROVE  RouterInv'
<1>a. /\ pc[t] = "judging"
     /\ UNCHANGED <<call, waited, outcome, visit, attempts, deadAtStart>>
     /\ disabled \subseteq disabled'
  BY DEF JudgeFrame
<1>b. hop[t] \in Providers /\ hop[t] \in Int /\ TypeOK
  BY <1>a, AskingFacts
<1>c. /\ pc' = [pc EXCEPT ![t] = "hop"]
     /\ hop' = [hop EXCEPT ![t] = @ + 1]
     /\ candidates' = [candidates EXCEPT ![t] = @ \cup {hop[t]}]
     /\ score' = [score EXCEPT ![t][hop[t]] = s]
     /\ UNCHANGED served
  BY DEF Judged, Return
<1> USE <1>a, <1>b, <1>c DEF RouterInv
<1>1. TypeOK'
  <2>1. /\ hint' \in [Threads -> [Providers -> {"none", "short", "long"}]]
        /\ usage' \in [Threads -> [Providers -> Usages]]
    BY DEF TypeOK, JudgeFrame
  <2>2. pc' \in [Threads -> {"idle", "hop", "asking", "judging", "returned", "raised"}]
    BY DEF TypeOK
  <2>3. hop' \in [Threads -> 1..ChainLength + 1]
    BY DEF TypeOK
  <2>4. candidates' \in [Threads -> SUBSET Providers]
    BY DEF TypeOK
  <2>5. score' \in [Threads -> [Providers -> 0..Top \cup {NoScore}]]
    BY DEF TypeOK
  <2>6. /\ charged' \in [Threads -> SUBSET Usages]
        /\ counters' \in [Threads -> SUBSET (1..MaxVisits)]
        /\ disabled' \subseteq Providers /\ learned' \subseteq Providers
        /\ window' \in [Providers -> Windows]
    BY DEF TypeOK, JudgeFrame
  <2>7. QED
    BY <2>1, <2>2, <2>3, <2>4, <2>5, <2>6 DEF TypeOK
<1>2. ExhaustionIsReal'
  <2>1. /\ pc'[t] = "hop"
        /\ \A u \in Threads : u # t => pc'[u] = pc[u] /\ score'[u] = score[u]
    BY DEF TypeOK
  <2>2. QED
    BY <2>1 DEF ExhaustionIsReal
<1>3. BestAnswerReturned'
  <2>1. /\ served' = served /\ pc'[t] = "hop"
        /\ \A u \in Threads : u # t => pc'[u] = pc[u] /\ score'[u] = score[u]
    BY DEF TypeOK
  <2>2. QED
    BY <2>1 DEF BestAnswerReturned
<1>4. WaitsOnOwnCooldown'
  BY DEF TypeOK, WaitsOnOwnCooldown
<1>5. AttemptsAreBounded'
  BY DEF TypeOK, AttemptsAreBounded, AttemptInv
<1>6. DeadProvidersAreSkipped'
  BY DEF TypeOK, DeadProvidersAreSkipped, AttemptInv
<1>7. \A u \in Threads : HopInv(u)'
  <2>1. ASSUME NEW u \in Threads, u # t PROVE HopInv(u)'
    <3>1. /\ pc'[u] = pc[u] /\ call'[u] = call[u] /\ hop'[u] = hop[u]
          /\ outcome'[u] = outcome[u] /\ score'[u] = score[u]
          /\ visit'[u] = visit[u]
      BY <2>1 DEF TypeOK
    <3>2. QED
      BY <3>1, <2>1, HopsKept
  <2>2. HopInv(t)'
    <3>1. /\ hop'[t] = hop[t] + 1 /\ pc'[t] = "hop" /\ score'[t][hop[t]] # NoScore
          /\ outcome' = outcome /\ visit' = visit
      BY DEF TypeOK
    <3>2. \A p \in Providers : p # hop[t] => score'[t][p] = score[t][p]
      BY DEF TypeOK
    <3>3. QED
      BY <3>1, <3>2 DEF TypeOK, HopInv, Walking, Text
  <2>3. QED
    BY <2>1, <2>2
<1>8. \A u \in Threads : CandidateInv(u)'
  <2>1. ASSUME NEW u \in Threads, u # t PROVE CandidateInv(u)'
    <3>1. /\ pc'[u] = pc[u] /\ call'[u] = call[u] /\ hop'[u] = hop[u]
          /\ candidates'[u] = candidates[u] /\ score'[u] = score[u]
      BY <2>1 DEF TypeOK
    <3>2. QED
      BY <3>1, <2>1, CandidatesKept
  <2>2. CandidateInv(t)'
    <3>1. /\ hop'[t] = hop[t] + 1 /\ pc'[t] = "hop" /\ score'[t][hop[t]] = s
          /\ Text(t)' = Text(t) /\ Text(t) /\ s \in Int
      BY DEF TypeOK, Text, HopInv
    <3>2. \A p \in Providers : p # hop[t] => score'[t][p] = score[t][p]
      BY DEF TypeOK
    <3>3. \A p \in Providers : p >= hop[t] => score[t][p] = NoScore
      BY DEF TypeOK, HopInv, Walking
    <3>4. \A p \in candidates[t] : p \in Providers /\ p \in Int
      BY ScoreFacts DEF TypeOK
    <3>5. \A p \in candidates[t] : p < hop[t] /\ score'[t][p] = score[t][p]
      BY <3>2, <3>3, <3>4 DEF TypeOK, CandidateInv, Walking
    <3>6. candidates'[t] = candidates[t] \cup {hop[t]}
      BY DEF TypeOK
    <3>7. QED
      BY <3>1, <3>2, <3>3, <3>4, <3>5, <3>6 DEF TypeOK, CandidateInv, Walking, KeepsLast
  <2>3. QED
    BY <2>1, <2>2
<1>9. \A u \in Threads : AttemptInv(u)'
  <2>1. ASSUME NEW u \in Threads, u # t PROVE AttemptInv(u)'
    <3>1. /\ pc'[u] = pc[u] /\ waited'[u] = waited[u] /\ hop'[u] = hop[u]
          /\ hint'[u] = hint[u] /\ attempts'[u] = attempts[u]
          /\ deadAtStart'[u] = deadAtStart[u] /\ disabled \subseteq disabled'
      BY <2>1 DEF TypeOK, JudgeFrame
    <3>2. QED
      BY <3>1, <2>1, AttemptsKept
  <2>2. AttemptInv(t)'
    <3>1. /\ hop'[t] = hop[t] + 1 /\ pc'[t] = "hop" /\ attempts' = attempts
          /\ waited' = waited /\ deadAtStart' = deadAtStart
      BY DEF TypeOK
    <3>2. \A p \in Providers : p > hop[t] => attempts[t][p] = 0
      BY DEF TypeOK, AttemptsAreBounded
    <3>3. QED
      BY <3>1, <3>2 DEF TypeOK, AttemptInv
  <2>3. QED
    BY <2>1, <2>2
<1>10. QED
  BY <1>1, <1>2, <1>3, <1>4, <1>5, <1>6, <1>7, <1>8, <1>9

\* The last answer is kept if it beats every candidate.
LEMMA LastJudgedStep ==
  ASSUME RouterInv, NEW t \in Threads, JudgeFrame(t),
         NEW s \in 0..Top, Judged(t, s), hop[t] = ChainLength
  PROVE  RouterInv'
<1>a. /\ pc[t] = "judging"
     /\ UNCHANGED <<call, waited, outcome, visit, attempts, deadAtStart>>
     /\ disabled \subseteq disabled'
  BY DEF JudgeFrame
<1>b. hop[t] \in Providers /\ hop[t] \in Int /\ TypeOK
  BY <1>a, AskingFacts
<1>c. /\ pc' = [pc EXCEPT ![t] = "hop"]
     /\ hop' = [hop EXCEPT ![t] = @ + 1]
     /\ candidates' = [candidates EXCEPT ![t] =
                         IF KeepsLast(t, s) THEN @ \cup {hop[t]} ELSE @]
     /\ score' = [score EXCEPT ![t][hop[t]] = s]
     /\ UNCHANGED served
  BY DEF Judged, Return
<1> USE <1>a, <1>b, <1>c DEF RouterInv
<1>1. TypeOK'
  <2>1. /\ hint' \in [Threads -> [Providers -> {"none", "short", "long"}]]
        /\ usage' \in [Threads -> [Providers -> Usages]]
    BY DEF TypeOK, JudgeFrame
  <2>2. pc' \in [Threads -> {"idle", "hop", "asking", "judging", "returned", "raised"}]
    BY DEF TypeOK
  <2>3. hop' \in [Threads -> 1..ChainLength + 1]
    BY DEF TypeOK
  <2>4. candidates' \in [Threads -> SUBSET Providers]
    BY DEF TypeOK
  <2>5. score' \in [Threads -> [Providers -> 0..Top \cup {NoScore}]]
    BY DEF TypeOK
  <2>6. /\ charged' \in [Threads -> SUBSET Usages]
        /\ counters' \in [Threads -> SUBSET (1..MaxVisits)]
        /\ disabled' \subseteq Providers /\ learned' \subseteq Providers
        /\ window' \in [Providers -> Windows]
    BY DEF TypeOK, JudgeFrame
  <2>7. QED
    BY <2>1, <2>2, <2>3, <2>4, <2>5, <2>6 DEF TypeOK
<1>2. ExhaustionIsReal'
  <2>1. /\ pc'[t] = "hop"
        /\ \A u \in Threads : u # t => pc'[u] = pc[u] /\ score'[u] = score[u]
    BY DEF TypeOK
  <2>2. QED
    BY <2>1 DEF ExhaustionIsReal
<1>3. BestAnswerReturned'
  <2>1. /\ served' = served /\ pc'[t] = "hop"
        /\ \A u \in Threads : u # t => pc'[u] = pc[u] /\ score'[u] = score[u]
    BY DEF TypeOK
  <2>2. QED
    BY <2>1 DEF BestAnswerReturned
<1>4. WaitsOnOwnCooldown'
  BY DEF TypeOK, WaitsOnOwnCooldown
<1>5. AttemptsAreBounded'
  BY DEF TypeOK, AttemptsAreBounded, AttemptInv
<1>6. DeadProvidersAreSkipped'
  BY DEF TypeOK, DeadProvidersAreSkipped, AttemptInv
<1>7. \A u \in Threads : HopInv(u)'
  <2>1. ASSUME NEW u \in Threads, u # t PROVE HopInv(u)'
    <3>1. /\ pc'[u] = pc[u] /\ call'[u] = call[u] /\ hop'[u] = hop[u]
          /\ outcome'[u] = outcome[u] /\ score'[u] = score[u]
          /\ visit'[u] = visit[u]
      BY <2>1 DEF TypeOK
    <3>2. QED
      BY <3>1, <2>1, HopsKept
  <2>2. HopInv(t)'
    <3>1. /\ hop'[t] = hop[t] + 1 /\ pc'[t] = "hop" /\ score'[t][hop[t]] # NoScore
          /\ outcome' = outcome /\ visit' = visit
      BY DEF TypeOK
    <3>2. \A p \in Providers : p # hop[t] => score'[t][p] = score[t][p]
      BY DEF TypeOK
    <3>3. QED
      BY <3>1, <3>2 DEF TypeOK, HopInv, Walking, Text
  <2>3. QED
    BY <2>1, <2>2
<1>8. \A u \in Threads : CandidateInv(u)'
  <2>1. ASSUME NEW u \in Threads, u # t PROVE CandidateInv(u)'
    <3>1. /\ pc'[u] = pc[u] /\ call'[u] = call[u] /\ hop'[u] = hop[u]
          /\ candidates'[u] = candidates[u] /\ score'[u] = score[u]
      BY <2>1 DEF TypeOK
    <3>2. QED
      BY <3>1, <2>1, CandidatesKept
  <2>2. CandidateInv(t)'
    <3>1. /\ hop'[t] = hop[t] + 1 /\ pc'[t] = "hop" /\ score'[t][hop[t]] = s
          /\ Text(t)' = Text(t) /\ Text(t) /\ s \in Int
      BY DEF TypeOK, Text, HopInv
    <3>2. \A p \in Providers : p # hop[t] => score'[t][p] = score[t][p]
      BY DEF TypeOK
    <3>3. \A p \in Providers : p >= hop[t] => score[t][p] = NoScore
      BY DEF TypeOK, HopInv, Walking
    <3>4. \A p \in candidates[t] : p \in Providers /\ p \in Int
      BY ScoreFacts DEF TypeOK
    <3>5. \A p \in candidates[t] : p < hop[t] /\ score'[t][p] = score[t][p]
      BY <3>2, <3>3, <3>4 DEF TypeOK, CandidateInv, Walking
    <3>6. candidates'[t] = IF KeepsLast(t, s) THEN candidates[t] \cup {hop[t]}
                           ELSE candidates[t]
      BY DEF TypeOK
    <3>7. hop[t] = ChainLength /\ candidates[t] # {}
      BY DEF TypeOK, CandidateInv, Walking
    <3>8. CASE KeepsLast(t, s)
      BY <3>1, <3>2, <3>3, <3>4, <3>5, <3>6, <3>7, <3>8
      DEF TypeOK, CandidateInv, Walking
    <3>9. CASE ~KeepsLast(t, s)
      <4>1. PICK c \in candidates[t] : ~(s > score[t][c])
        BY <3>9 DEF KeepsLast
      <4>2. c \in candidates'[t] /\ ~(score'[t][ChainLength] > score'[t][c])
        BY <4>1, <3>1, <3>5, <3>6, <3>7, <3>9
      <4>3. ~KeepsLast(t, score[t][ChainLength])'
        BY <4>2, <3>1, <3>7 DEF KeepsLast
      <4>4. QED
        BY <4>3, <3>1, <3>2, <3>3, <3>4, <3>5, <3>6, <3>7, <3>9
        DEF TypeOK, CandidateInv, Walking
    <3>10. QED
      BY <3>8, <3>9
  <2>3. QED
    BY <2>1, <2>2
<1>9. \A u \in Threads : AttemptInv(u)'
  <2>1. ASSUME NEW u \in Threads, u # t PROVE AttemptInv(u)'
    <3>1. /\ pc'[u] = pc[u] /\ waited'[u] = waited[u] /\ hop'[u] = hop[u]
          /\ hint'[u] = hint[u] /\ attempts'[u] = attempts[u]
          /\ deadAtStart'[u] = deadAtStart[u] /\ disabled \subseteq disabled'
      BY <2>1 DEF TypeOK, JudgeFrame
    <3>2. QED
      BY <3>1, <2>1, AttemptsKept
  <2>2. AttemptInv(t)'
    <3>1. /\ hop'[t] = hop[t] + 1 /\ pc'[t] = "hop" /\ attempts' = attempts
          /\ waited' = waited /\ deadAtStart' = deadAtStart
      BY DEF TypeOK
    <3>2. \A p \in Providers : p > hop[t] => attempts[t][p] = 0
      BY DEF TypeOK, AttemptsAreBounded
    <3>3. QED
      BY <3>1, <3>2 DEF TypeOK, AttemptInv
  <2>3. QED
    BY <2>1, <2>2
<1>10. QED
  BY <1>1, <1>2, <1>3, <1>4, <1>5, <1>6, <1>7, <1>8, <1>9


\* Whatever the score, the invariant is preserved.
LEMMA JudgedStep ==
  ASSUME RouterInv, NEW t \in Threads, JudgeFrame(t), NEW s \in 0..Top, Judged(t, s)
  PROVE  RouterInv'
<1>1. hop[t] \in Providers
  BY AskingFacts DEF JudgeFrame
<1>2. CASE hop[t] < ChainLength /\ s >= Threshold
  BY <1>2, AcceptedStep
<1>3. CASE hop[t] < ChainLength /\ s < Threshold
  BY <1>3, KeptStep
<1>4. CASE hop[t] = ChainLength
  BY <1>4, LastJudgedStep
<1>5. QED
  BY <1>1, <1>2, <1>3, <1>4

\* A judge scores an answer.
LEMMA JudgeScoresStep ==
  ASSUME RouterInv, NEW t \in Threads, JudgeScores(t)
  PROVE  RouterInv'
<1>1. PICK s \in 0..Top : Judged(t, s)
  BY DEF JudgeScores
<1>2. TypeOK
  BY DEF RouterInv
<1>3. usage' \in [Threads -> [Providers -> Usages]]
  BY <1>2 DEF JudgeScores, TypeOK, Usages
<1>4. charged' \in [Threads -> SUBSET Usages]
  BY <1>2 DEF JudgeScores, TypeOK, Usages
<1>5. JudgeFrame(t)
  BY <1>2, <1>3, <1>4 DEF JudgeFrame, JudgeScores, TypeOK
<1>6. QED
  BY <1>1, <1>5, JudgedStep

\* A judge fails, which counts as the highest score.
LEMMA JudgeFailsStep ==
  ASSUME RouterInv, NEW t \in Threads, JudgeFails(t)
  PROVE  RouterInv'
<1> DEFINE judge == JudgeOf(hop[t])
<1>1. /\ TypeOK /\ hop[t] \in Providers /\ visit[t] \in 1..MaxVisits
      /\ pc[t] = "judging"
  <2>1. pc[t] = "judging"
    BY DEF JudgeFails
  <2>2. TypeOK /\ hop[t] \in Providers
    BY <2>1, AskingFacts
  <2>3. visit[t] \in 0..MaxVisits /\ visit[t] >= 1
    BY <2>1, <2>2 DEF RouterInv, HopInv, TypeOK
  <2>4. QED
    BY <2>1, <2>2, <2>3
<1>2. judge \in Providers
  <2>1. hop[t] = ChainLength => candidates[t] # {}
    BY <1>1 DEF RouterInv, CandidateInv, Walking
  <2>2. hop[t] = ChainLength => ChainLength > 1
    BY <1>1, <2>1, ScoreFacts DEF RouterInv, CandidateInv, HopInv, Walking
  <2>3. QED
    BY <1>1, <2>2 DEF JudgeOf
<1>3. PICK failure \in Failures, reported \in Windows :
        /\ RecordErrorResponse(judge, failure, reported)
        /\ hint' = [hint EXCEPT ![t][judge] = CooldownAfter(t, judge, failure)]
        /\ charged' = [charged EXCEPT ![t] =
                         @ \cup ({UsageAfter(t, judge, failure)} \ {"none"})]
        /\ usage' = [usage EXCEPT ![t][judge] = "none"]
  BY DEF JudgeFails
<1> HIDE DEF judge
<1>4. /\ disabled' \subseteq Providers /\ disabled \subseteq disabled'
      /\ learned' \subseteq Providers
      /\ window' \in [Providers -> Windows]
      /\ CooldownAfter(t, judge, failure) \in {"none", "short", "long"}
      /\ UsageAfter(t, judge, failure) \in Usages
  BY <1>1, <1>2, <1>3, FailureFacts
<1>5. /\ hint' \in [Threads -> [Providers -> {"none", "short", "long"}]]
      /\ \A u \in Threads : u # t => hint'[u] = hint[u]
  BY <1>1, <1>3, <1>4 DEF TypeOK
<1>6. usage' \in [Threads -> [Providers -> Usages]]
  BY <1>1, <1>3 DEF TypeOK, Usages
<1>7. charged' \in [Threads -> SUBSET Usages]
  BY <1>1, <1>3, <1>4 DEF TypeOK
<1>8. counters' \in [Threads -> SUBSET (1..MaxVisits)]
  BY <1>1 DEF JudgeFails, Bump, TypeOK
<1>9. JudgeFrame(t)
  BY <1>1, <1>4, <1>5, <1>6, <1>7, <1>8 DEF JudgeFrame, JudgeFails
<1>10. Judged(t, Top) /\ Top \in 0..Top
  BY DEF JudgeFails
<1>11. QED
  BY <1>9, <1>10, JudgedStep

\* RouterInv holds initially and every step preserves it.
THEOREM RouterInvariant == Spec => []RouterInv
<1>1. Init => RouterInv
  <2> SUFFICES ASSUME Init PROVE RouterInv
    OBVIOUS
  <2> USE DEF Init
  <2>1. TypeOK
    <3>1. /\ hint \in [Threads -> [Providers -> {"none", "short", "long"}]]
          /\ usage \in [Threads -> [Providers -> Usages]]
      BY DEF Usages
    <3>2. /\ outcome \in [Threads -> [Providers ->
               {"none", "skipped_disabled", "skipped_for_context", "error"}]]
          /\ score \in [Threads -> [Providers -> 0..Top \cup {NoScore}]]
          /\ attempts \in [Threads -> [Providers -> Nat]]
      OBVIOUS
    <3>3. /\ hop \in [Threads -> 1..ChainLength + 1]
          /\ served \in [Threads -> Providers \cup {0}]
          /\ visit \in [Threads -> 0..MaxVisits]
      OBVIOUS
    <3>4. QED
      BY <3>1, <3>2, <3>3 DEF TypeOK
  <2>2. ExhaustionIsReal /\ BestAnswerReturned /\ WaitsOnOwnCooldown
    BY DEF ExhaustionIsReal, BestAnswerReturned, WaitsOnOwnCooldown
  <2>3. AttemptsAreBounded /\ DeadProvidersAreSkipped
    BY DEF AttemptsAreBounded, DeadProvidersAreSkipped
  <2>4. \A t \in Threads : HopInv(t) /\ CandidateInv(t) /\ AttemptInv(t)
    BY DEF HopInv, CandidateInv, AttemptInv, Walking
  <2>5. QED
    BY <2>1, <2>2, <2>3, <2>4 DEF RouterInv
<1>2. RouterInv /\ [Next]_vars => RouterInv'
  <2> SUFFICES ASSUME RouterInv, [Next]_vars PROVE RouterInv'
    OBVIOUS
  <2>1. CASE Next
    <3>1. PICK t \in Threads : RouterStep(t) \/ NodeStep(t)
      BY <2>1 DEF Next
    <3>2. CASE SkipHop(t) \/ Ask(t)
      BY <3>2, SkipHopStep, AskStep
    <3>3. CASE Answered(t)
      BY <3>3, AnsweredToJudgeStep, AnsweredReturnStep
    <3>4. CASE RetryHop(t) \/ LeaveHop(t)
      BY <3>4, RetryHopStep, LeaveHopStep
    <3>5. CASE JudgeScores(t) \/ JudgeFails(t)
      BY <3>5, JudgeScoresStep, JudgeFailsStep
    <3>6. CASE EndOfChain(t)
      BY <3>6, ChainReturnsStep, ChainExhaustedStep
    <3>7. CASE VisitNode(t) \/ CritiqueAfterVerifying(t)
      BY <3>7, VisitNodeStep, CritiqueStep
    <3>8. CASE DrainCounters(t) \/ NodeRaises(t)
      BY <3>8, DrainCountersStep, NodeRaisesStep
    <3>9. QED
      BY <3>1, <3>2, <3>3, <3>4, <3>5, <3>6, <3>7, <3>8
      DEF RouterStep, NodeStep
  <2>2. CASE UNCHANGED vars
    <3>1. /\ TypeOK' /\ ExhaustionIsReal' /\ BestAnswerReturned'
          /\ WaitsOnOwnCooldown' /\ AttemptsAreBounded'
          /\ DeadProvidersAreSkipped'
      BY <2>2 DEF RouterInv, TypeOK, ExhaustionIsReal, BestAnswerReturned,
         WaitsOnOwnCooldown, AttemptsAreBounded, DeadProvidersAreSkipped
    <3>2. \A t \in Threads : HopInv(t)' /\ CandidateInv(t)' /\ AttemptInv(t)'
      BY <2>2, HopsKept, CandidatesKept, AttemptsKept DEF RouterInv
    <3>3. QED
      BY <3>1, <3>2 DEF RouterInv
  <2>3. QED
    BY <2>1, <2>2
<1>3. QED
  BY <1>1, <1>2, PTL DEF Spec

\* Every part of the state of the router and its clients keeps its type.
THEOREM RouterTypes == Spec => []TypeOK
<1>1. RouterInv => TypeOK
  BY DEF RouterInv
<1>2. QED
  BY <1>1, RouterInvariant, PTL

\* ProviderChainExhausted loses no answer, and the last provider was asked.
THEOREM ExhaustedChainsAnsweredNothing == Spec => []ExhaustionIsReal
<1>1. RouterInv => ExhaustionIsReal
  BY DEF RouterInv
<1>2. QED
  BY <1>1, RouterInvariant, PTL

\* No call returns a worse answer than one it received.
THEOREM BestAnswerWins == Spec => []BestAnswerReturned
<1>1. RouterInv => BestAnswerReturned
  BY DEF RouterInv
<1>2. QED
  BY <1>1, RouterInvariant, PTL

\* The router never sleeps on a cooldown another failure named.
THEOREM NoStaleWait == Spec => []WaitsOnOwnCooldown
<1>1. RouterInv => WaitsOnOwnCooldown
  BY DEF RouterInv
<1>2. QED
  BY <1>1, RouterInvariant, PTL

\* No call asks one provider for an answer more than twice.
THEOREM AttemptsBounded == Spec => []AttemptsAreBounded
<1>1. RouterInv => AttemptsAreBounded
  BY DEF RouterInv
<1>2. QED
  BY <1>1, RouterInvariant, PTL

\* A call that begins after a provider was disabled asks it for no answer.
THEOREM DeadAreSkipped == Spec => []DeadProvidersAreSkipped
<1>1. RouterInv => DeadProvidersAreSkipped
  BY DEF RouterInv
<1>2. QED
  BY <1>1, RouterInvariant, PTL

================================================================================
