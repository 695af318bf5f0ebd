----------------------------- MODULE RetrievalChain -----------------------------
(***************************************************************************)
(* tools/retrieval_chain.py: the ladder of tiers a search worker climbs    *)
(* for one task, with the tools of its tiers (tools/corpus_search.py over  *)
(* retrieval/hybrid.py, make_mcp_tool and make_web_search_tool of          *)
(* tools/mcp_client.py, tools/model_knowledge.py) and the counters it      *)
(* leaves for the worker to report.                                        *)
(*                                                                         *)
(* Abstractions.  A document, page or claim is a name; of its text only    *)
(* the number of distinctive terms it shares with the query is kept, and   *)
(* of the query only how many it has.  Scores are in ten-thousandths.  A   *)
(* worker is a thread of the pool: it runs one task after another.         *)
(***************************************************************************)
EXTENDS WebSearch

CONSTANTS
  Workers,
  Docs, Claims,
  Close,           \* per text asked, the documents similar enough (min_similarity)
  Confidence,      \* of each claim, in hundredths
  Overlap,         \* terms each document, page or claim shares with a long query
  Tasks,           \* [terms, short]: terms of the query, and of its short form
                   \* (NoShort when rephrasing changes nothing)
  Rankings,        \* what one leg may return, best first
  Pages,           \* rows the web engine may return
  Setups,          \* [tiers, reformulate, dense, keyword]: what is wired, and
                   \* which stores were found at construction
  TopK,
  EvidenceFloor,   \* min_evidence_score
  ModelScore       \* model_knowledge_score

NoShort == -1
Optional == {"mcp", "web", "model"}
Tiers == {"corpus", "reformulated"} \cup Optional

ASSUME ChainAssumption ==
  /\ Tasks # {} /\ \A t \in Tasks : t.terms \in Nat /\ t.short \in Nat \cup {NoShort}
  /\ \A r \in Rankings : r \in Seq(Docs)
  /\ \A rows \in Pages : rows \in Seq(Urls \cup {Junk})
  /\ \A s \in Setups : s.tiers \subseteq Optional
                       /\ {s.reformulate, s.dense, s.keyword} \subseteq BOOLEAN
  /\ TopK \in Nat \ {0} /\ EvidenceFloor \in 0..10000 /\ ModelScore \in 0..10000
  /\ \A x \in Docs \cup Urls \cup Claims : Overlap[x] \in Nat

VARIABLES
  setup,
  task,      \* per worker: what it searches for
  trail,     \* per worker: the tiers tried for it, in order
  stage,     \* per worker: idle, climbing, over (the ladder returned), reported
  counts,    \* per thread: the counters of the retriever, the ladder and the router
  reported,  \* per worker: the counters it sent with its result
  outcome,   \* per worker: completed or failed, as the worker reported
  last       \* history, per worker: what the last tier was given and found

vars == <<setup, task, trail, stage, counts, reported, outcome, last>>

AnsweredBy ==
  [corpus |-> "chain_answered_corpus",
   reformulated |-> "chain_answered_corpus_reformulated",
   mcp |-> "chain_answered_mcp", web |-> "chain_answered_web",
   model |-> "chain_answered_model"]
Counters == {"retrieval_calls", "retrieval_leg_unavailable",
             "retrieval_keyword_dropped_off_topic", "chain_tier_failed",
             "llm_provider_calls", "chain_model_insufficient", "chain_exhausted"}
            \cup {AnsweredBy[t] : t \in Tiers}
NoCounts == [n \in Counters |-> 0]
Nothing == [tier |-> "none", got |-> <<>>, found |-> {}]

Init ==
  /\ setup \in Setups
  /\ task = [w \in Workers |-> CHOOSE t \in Tasks : TRUE]
  /\ trail = [w \in Workers |-> <<>>]
  /\ stage = [w \in Workers |-> "idle"]
  /\ counts = [w \in Workers |-> NoCounts]
  /\ reported = [w \in Workers |-> NoCounts]
  /\ outcome = [w \in Workers |-> "none"]
  /\ last = [w \in Workers |-> Nothing]

-----------------------------------------------------------------------------
(* Hybrid retrieval: two rankings fused by reciprocal rank.                *)

Least(a, b) == IF a <= b THEN a ELSE b

\* passes_similarity_floor, on the dense leg only: the places of what passes.
AboveFloor(dense, text) == {i \in DOMAIN dense : dense[i] \in Close[text]}

\* Mutant: the verdict of the floor stays with the dense leg.
OffTopicNever(dense, text) == FALSE

\* D-150: the dense leg answered, and nothing it found is similar enough.
OffTopic(dense, text) == dense # <<>> /\ AboveFloor(dense, text) = {}

\* A leg is [hits, places]: what a store returned and what of it counts.
Rows(leg, d) == {i \in leg.places : leg.hits[i] = d}

\* Mutant: every row of a ranking counts, so a document counts twice.
LegScoreOfRows(leg, d) ==
  IF Rows(leg, d) = {} THEN 0
  ELSE Cardinality(Rows(leg, d)) * (300000 \div (60 + (CHOOSE i \in Rows(leg, d) : TRUE) - 1))

\* rrf_fuse's 1 / (k + rank) times RRF_SQUASH: a document ranks after the
\* distinct documents above its first row.
LegScore(leg, d) ==
  IF Rows(leg, d) = {} THEN 0
  ELSE LET above == {i \in leg.places : \A j \in Rows(leg, d) : i < j}
       IN 300000 \div (60 + Cardinality({leg.hits[i] : i \in above}))

\* The first row of d is above every row of e.
Leads(leg, d, e) == \E i \in Rows(leg, d) : \A j \in Rows(leg, e) : i < j

\* What search() and corpus_search() make of the two rankings.
Fused(dense, keyword) ==
  LET Score(d) == LegScore(dense, d) + LegScore(keyword, d)
      Seen(d, e) == Rows(dense, d) \cup Rows(dense, e) # {}
      Met(d, e) == Leads(dense, d, e) \/ (~Seen(d, e) /\ Leads(keyword, d, e))
      Better(d, e) == Score(d) > Score(e) \/ (Score(d) = Score(e) /\ Met(d, e))
      all == {dense.hits[i] : i \in dense.places} \cup {keyword.hits[i] : i \in keyword.places}
  IN {[id |-> d, score |-> Least(10000, Score(d))] :
        d \in {e \in all : Cardinality({f \in all : f # e /\ Better(f, e)}) < TopK}}

\* A store's search: empty when it was not there at construction, else a
\* ranking, or it fails now.
StoreSearch(available) ==
  IF available
  THEN [failed : {FALSE}, hits : Rankings] \cup {[failed |-> TRUE, hits |-> <<>>]}
  ELSE {[failed |-> FALSE, hits |-> <<>>]}

\* _bump_retrieval_counts counts a store that was never there, _safe_leg one
\* that failed.
Lost(available, leg) == IF leg.failed \/ ~available THEN 1 ELSE 0

-----------------------------------------------------------------------------
(* The gate between tiers.                                                 *)

\* How many terms an item must share with a query of so many.
Need(terms) ==
  LET quarter == IF terms \div 4 >= 2 THEN terms \div 4 ELSE 2
  IN Least(3, Least(terms, quarter))

Shared(x, terms) == Least(Overlap[x], terms)

Sufficient(found, terms) ==
  \E e \in found : /\ e.score > EvidenceFloor
                   /\ terms = 0 \/ Shared(e.id, terms) >= Need(terms)

\* score_for_confidence.
ClaimScore(c) == Least(ModelScore, (ModelScore * Confidence[c]) \div 100 + 500)

\* model_knowledge keeps what the model is sure of and what can cover a goal.
Admitted(claims) ==
  {[id |-> c, score |-> ClaimScore(c)] :
     c \in {d \in claims : Confidence[d] >= 50 /\ ClaimScore(d) > EvidenceFloor}}

Wired(tier) == IF tier \in setup.tiers THEN <<tier>> ELSE <<>>

\* The tiers of a worker's ladder, in order.
Ladder(w) ==
  LET retry == setup.reformulate /\ task[w].short # NoShort
  IN <<"corpus">> \o (IF retry THEN <<"reformulated">> ELSE <<>>)
     \o Wired("mcp") \o Wired("web") \o Wired("model")

TierOf(w) == Ladder(w)[Len(trail[w]) + 1]
Text(tier) == IF tier = "reformulated" THEN "short" ELSE "query"
Terms(w, tier) == IF tier = "reformulated" THEN task[w].short ELSE task[w].terms

-----------------------------------------------------------------------------
(* A worker climbs the ladder.                                             *)

\* Mutant: one dict for all threads.
SharedSlot(w) == CHOOSE v \in Workers : TRUE

\* threading.local: a thread counts for itself.
Slot(w) == w

Adds(names, n) == IF n \in DOMAIN names THEN names[n] ELSE 0
Plus(c, names) == [n \in Counters |-> c[n] + Adds(names, n)]
Once(S) == [n \in S |-> 1]

Start(w) ==
  /\ stage[w] \in {"idle", "reported"}
  /\ \E t \in Tasks : task' = [task EXCEPT ![w] = t]
  /\ trail' = [trail EXCEPT ![w] = <<>>]
  /\ stage' = [stage EXCEPT ![w] = "climbing"]
  /\ reported' = [reported EXCEPT ![w] = NoCounts]
  /\ outcome' = [outcome EXCEPT ![w] = "none"]
  /\ last' = [last EXCEPT ![w] = Nothing]
  /\ UNCHANGED <<setup, counts>>

\* Mutant: only an answer ends the ladder.
OverIfAnswered(w, answered) == answered

Over(w, answered) == answered \/ Len(trail[w]) + 1 = Len(Ladder(w))

\* The counter a tier that ended adds, if it ends the ladder.
Verdict(tier, answered, over) ==
  IF answered THEN {AnsweredBy[tier]}
  ELSE IF tier = "model" THEN {"chain_model_insufficient"}
  ELSE IF over THEN {"chain_exhausted"} ELSE {}

\* _try, extend, _sufficient: what every tier does with what its tool gave.
\* `spent` is what the tool counted; a tool that raised found nothing.
TierEnds(w, got, found, dead, spent) ==
  LET tier == TierOf(w)
      answered == Sufficient(found, Terms(w, tier))
      over == Over(w, answered)
  IN /\ trail' = [trail EXCEPT ![w] =
                    Append(@, [tier |-> tier, answered |-> answered, dead |-> dead,
                               lost |-> Adds(spent, "retrieval_leg_unavailable")])]
     /\ stage' = [stage EXCEPT ![w] = IF over THEN "over" ELSE @]
     /\ counts' = [counts EXCEPT ![Slot(w)] =
                     Plus(Plus(@, spent), Once(Verdict(tier, answered, over)))]
     /\ last' = [last EXCEPT ![w] = [tier |-> tier, got |-> got, found |-> found]]
     /\ UNCHANGED <<setup, task, reported, outcome>>

\* _try catches what the tool raised and counts it.
TierRaises(w, spent) ==
  TierEnds(w, <<>>, {}, TRUE,
           [n \in DOMAIN spent \cup {"chain_tier_failed"} |-> 1])

AtTier(w, tiers) == stage[w] = "climbing" /\ TierOf(w) \in tiers

\* The corpus tool, for the query or for its short form; both legs are
\* isolated, so it never raises.
SearchCorpus(w) ==
  /\ AtTier(w, {"corpus", "reformulated"})
  /\ \E dense \in StoreSearch(setup.dense), keyword \in StoreSearch(setup.keyword) :
       LET text == Text(TierOf(w))
           off == OffTopic(dense.hits, text)
           lost == Lost(setup.dense, dense) + Lost(setup.keyword, keyword)
       IN TierEnds(w, <<dense.hits, keyword.hits>>,
                   Fused([hits |-> dense.hits, places |-> AboveFloor(dense.hits, text)],
                         [hits |-> keyword.hits,
                          places |-> IF off THEN {} ELSE DOMAIN keyword.hits]),
                   lost = 2,
                   [retrieval_calls |-> 1, retrieval_leg_unavailable |-> lost,
                    retrieval_keyword_dropped_off_topic |->
                      IF off THEN Len(keyword.hits) ELSE 0])

\* The corpus server sends the texts the corpus tool found, without scores.
ServerTexts == {{r[i] : i \in DOMAIN r} : r \in Rankings}

\* The MCP tool gives its items the floor itself.
AskMcp(w) ==
  /\ AtTier(w, {"mcp"})
  /\ \/ \E texts \in ServerTexts :
          TierEnds(w, <<>>, {[id |-> d, score |-> EvidenceFloor] : d \in texts},
                   FALSE, Once({}))
     \/ TierRaises(w, Once({}))

\* DDGSProvider.search, whose failure crosses the wire as a tool-level error,
\* which the web tool takes for no results.
EngineRows == Pages \cup {<<>>}

SearchWeb(w) ==
  /\ AtTier(w, {"web"})
  /\ \/ \E rows \in EngineRows :
          TierEnds(w, rows, HitsForQuery(rows), FALSE, Once({}))
     \/ TierRaises(w, Once({}))

\* The model's own knowledge, asked through the router, which counts too.
AskModel(w) ==
  /\ AtTier(w, {"model"})
  /\ \/ \E claims \in SUBSET Claims :
          TierEnds(w, <<>>, Admitted(claims), FALSE, Once({"llm_provider_calls"}))
     \/ TierRaises(w, Once({"llm_provider_calls"}))

\* search_worker, once the ladder returned, whatever happened on it:
\* drain_retrieval_counts reads and resets all three owners.
Report(w) ==
  /\ stage[w] = "over"
  /\ reported' = [reported EXCEPT ![w] = counts[Slot(w)]]
  /\ counts' = [counts EXCEPT ![Slot(w)] = NoCounts]
  /\ stage' = [stage EXCEPT ![w] = "reported"]
  /\ outcome' = [outcome EXCEPT ![w] = "completed"]
  /\ UNCHANGED <<setup, task, trail, last>>

Next == \E w \in Workers :
  \/ Start(w) \/ SearchCorpus(w) \/ AskMcp(w) \/ SearchWeb(w)
  \/ AskModel(w) \/ Report(w)

Spec == Init /\ [][Next]_vars

-----------------------------------------------------------------------------
(* Properties                                                              *)

TypeOK ==
  /\ setup \in Setups /\ task \in [Workers -> Tasks]
  /\ stage \in [Workers -> {"idle", "climbing", "over", "reported"}]
  /\ \A w \in Workers :
       /\ Len(trail[w]) <= Len(Ladder(w))
       /\ stage[w] = "climbing" => Len(trail[w]) < Len(Ladder(w))
       /\ \A i \in DOMAIN trail[w] : trail[w][i].tier = Ladder(w)[i]
  /\ counts \in [Workers -> [Counters -> Nat]]
  /\ reported \in [Workers -> [Counters -> Nat]]
  /\ outcome \in [Workers -> {"none", "completed", "failed"}]

Tried(w, tiers) == {i \in DOMAIN trail[w] : trail[w][i].tier \in tiers}
Answering(w) == {i \in DOMAIN trail[w] : trail[w][i].answered}

\* A tier ends the search only with an item that can cover a goal and shares
\* more than one term with any query that has more than one; from the corpus,
\* only with a document both legs returned; over MCP, never.
AnswersAreEarned ==
  \A w \in Workers : \A i \in Answering(w) :
    LET tier == trail[w][i].tier
        terms == Terms(w, tier)
    IN /\ i = Len(trail[w]) /\ tier # "mcp"
       /\ \E e \in last[w].found :
            /\ e.score > EvidenceFloor
            /\ Shared(e.id, terms) >= Least(2, terms)
            /\ tier \in {"corpus", "reformulated"} /\ EvidenceFloor >= 5000 =>
                 \A leg \in {1, 2} : \E k \in DOMAIN last[w].got[leg] :
                   last[w].got[leg][k] = e.id

\* Documents the dense index knows to be too far from the query do not come
\* in through the keyword leg.
OffTopicCorpusIsSilent ==
  \A w \in Workers :
    last[w].tier \in {"corpus", "reformulated"} /\ last[w].got[1] # <<>> =>
      \/ last[w].found = {}
      \/ \E i \in DOMAIN last[w].got[1] :
           last[w].got[1][i] \in Close[Text(last[w].tier)]

\* What a worker reports is what this task's search did: nothing of another
\* task, another worker or an earlier search, and nothing missing.
CountersAreTheTasks ==
  \A w \in Workers : stage[w] = "reported" =>
    LET said == reported[w]
        verdicts == {n \in Counters \ {"chain_tier_failed"} :
                       n \notin {"retrieval_calls", "retrieval_leg_unavailable",
                                 "retrieval_keyword_dropped_off_topic",
                                 "llm_provider_calls"} /\ said[n] > 0}
        corpus == Tried(w, {"corpus", "reformulated"})
        others == Tried(w, Optional)
        LostAt(i) == IF i \in corpus THEN trail[w][i].lost ELSE 0
    IN /\ verdicts = IF Answering(w) # {}
                     THEN {AnsweredBy[trail[w][i].tier] : i \in Answering(w)}
                     ELSE IF Tried(w, {"model"}) # {} THEN {"chain_model_insufficient"}
                     ELSE {"chain_exhausted"}
       /\ \A n \in verdicts : said[n] = 1
       /\ said["retrieval_calls"] = Cardinality(corpus)
       /\ said["retrieval_leg_unavailable"] = LostAt(1) + LostAt(2)
       /\ said["chain_tier_failed"] = Cardinality({i \in others : trail[w][i].dead})
       /\ said["llm_provider_calls"] = Cardinality(Tried(w, {"model"}))

\* Results of a web search are spread over domains and scored by what is left:
\* each page is listed once, each domain keeps its best rows, up to the cap;
\* scores fall with the engine's order, strictly while the band has room, from
\* the top of the band to its bottom.
WebResultsAreSpread ==
  \A w \in Workers :
    last[w].tier = "web" /\ MaxPerDomain > 0 => Spread(last[w].got, last[w].found)

\* D-16 (agents/gathering.py:154): a search that reached no backend is
\* reported as failed, so that it is tried again in a later lap.
OutagesAreFailures ==
  \A w \in Workers :
    stage[w] = "reported" /\ (\A i \in DOMAIN trail[w] : trail[w][i].dead) =>
      outcome[w] = "failed"
=================================================================================
