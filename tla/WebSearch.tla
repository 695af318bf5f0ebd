------------------------------- MODULE WebSearch -------------------------------
(***************************************************************************)
(* servers/web_search.py over websearch/: what one web search makes of the *)
(* rows an engine returned.                                                *)
(*                                                                         *)
(* Abstractions.  A row is its URL, or Junk when it has no URL or nothing  *)
(* to read; titles and snippets are left out.  What a filter leaves of the *)
(* rows is given by their places.  Scores are counted in ten-thousandths,  *)
(* as the server rounds them to four digits.                               *)
(***************************************************************************)
EXTENDS Integers, Sequences, FiniteSets

CONSTANTS
  Urls,
  Domain,        \* the registrable domain of each, or NoDomain
  MaxResults,    \* web_search_max_results, and never more than the tool's default
  MaxPerDomain,  \* web_search_max_per_domain; 0 or less is no cap
  WebMinScore, WebMaxScore

Junk == "junk"
NoDomain == "none"

ASSUME WebAssumption ==
  /\ \A u \in Urls : u # Junk
  /\ DOMAIN Domain = Urls
  /\ MaxResults \in Nat \ {0} /\ MaxPerDomain \in Int
  /\ WebMinScore \in 0..10000 /\ WebMaxScore \in 0..10000

Before(places, i) == {j \in places : j < i}

\* coerce_results: usable rows only, and no more than were asked for.
Coerced(rows) ==
  LET usable == {i \in DOMAIN rows : rows[i] \in Urls}
  IN {i \in usable : Cardinality(Before(usable, i)) < MaxResults}

DedupeByUrl(rows, places) ==
  {i \in places : \A j \in Before(places, i) : rows[j] # rows[i]}

FromDomain(rows, places, d) == {i \in places : Domain[rows[i]] = d}

\* The first rows of each domain, up to the cap.
CapByDomain(rows, places) ==
  IF MaxPerDomain <= 0 THEN places
  ELSE {i \in places :
          LET d == Domain[rows[i]]
          IN d = NoDomain
             \/ Cardinality(Before(FromDomain(rows, places, d), i)) < MaxPerDomain}

RankToScore(rank, total) ==
  LET lo == IF WebMinScore <= WebMaxScore THEN WebMinScore ELSE WebMaxScore
      hi == IF WebMinScore <= WebMaxScore THEN WebMaxScore ELSE WebMinScore
  IN IF total <= 1 THEN hi ELSE hi - ((rank - 1) * (hi - lo)) \div (total - 1)

Rank(places, i) == Cardinality(Before(places, i)) + 1

\* Mutant: scored by the engine's ranks, before the filters.
HitsScoredFirst(rows) ==
  LET ranked == Coerced(rows)
  IN {[id |-> rows[i], score |-> RankToScore(Rank(ranked, i), Cardinality(ranked))] :
        i \in CapByDomain(rows, DedupeByUrl(rows, ranked))}

\* hits_for_query: filter first, then score the survivors by rank.
HitsForQuery(rows) ==
  LET kept == CapByDomain(rows, DedupeByUrl(rows, Coerced(rows)))
  IN {[id |-> rows[i], score |-> RankToScore(Rank(kept, i), Cardinality(kept))] :
        i \in kept}
-----------------------------------------------------------------------------
(* What a search should answer, in terms of pages and of what was offered. *)

\* The pages kept of the domain of one of them.
Kin(kept, u) == {v \in kept : Domain[v] = Domain[u] /\ Domain[u] # NoDomain}

\* The engine put page u above page v.
Above(rows, u, v) ==
  \E i \in Coerced(rows) : rows[i] = u /\ \A j \in Coerced(rows) : rows[j] = v => i < j

\* The band of scores has a step for each result there can be.
Roomy ==
  {WebMaxScore - WebMinScore, WebMinScore - WebMaxScore} \cap 0..(MaxResults - 2) = {}

Spread(rows, found) ==
  LET kept == {e.id : e \in found}
  IN /\ \A e, f \in found : e.id = f.id => e = f
     /\ \A u \in kept : Cardinality(Kin(kept, u)) <= MaxPerDomain
     /\ \A i \in Coerced(rows) : rows[i] \notin kept =>
          /\ Cardinality(Kin(kept, rows[i])) = MaxPerDomain
          /\ \A v \in Kin(kept, rows[i]) : \E j \in Coerced(rows) : rows[j] = v /\ j < i
     /\ \A e, f \in found : Above(rows, e.id, f.id) =>
          e.score >= f.score /\ (Roomy => e.score > f.score)
     /\ Cardinality(found) >= 2 =>
          {WebMinScore, WebMaxScore} \subseteq {e.score : e \in found}
================================================================================
