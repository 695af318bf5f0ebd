------------------------------ MODULE ReportPasses ------------------------------
(***************************************************************************)
(* The passes every compiled report goes through (reporting/pipeline.py):  *)
(* the guardrails citations.py, attribution.py, hedging.py, sources.py,    *)
(* grounding.py and truncation.py, one operator each, on the reports       *)
(* FigureAudit describes.                                                  *)
(*                                                                         *)
(* The guidance of a redirect never reaches a pass: every node that could  *)
(* set it is followed by one that clears it before the compiler runs, so   *)
(* the topical gate is the goals' alone.                                   *)
(***************************************************************************)
EXTENDS FigureAudit

CONSTANTS
  GoalTerms,        \* the distinctive terms of each goal's description
  MinTermOverlap,   \* what a sentence must share with a goal's evidence
  MinEvidenceScore, \* min_evidence_score
  RecallTarget      \* grounded_recall_target, in percent

NoFigure == [digits |-> <<>>, value |-> -1, half |-> 0]

ASSUME PassesAssumption ==
  /\ MinTermOverlap \in Nat /\ MinEvidenceScore \in Nat /\ RecallTarget \in 0..100
  /\ \A g \in DOMAIN GoalTerms : IsFiniteSet(GoalTerms[g])

StripFence(report) == [report EXCEPT !.fenced = FALSE]

\* A block that names a goal of this run becomes one [gN] for each such goal;
\* one that names none is left as it is.
Settle(line, goals) ==
  IF line.loose \cap Range(goals) = {} THEN line
  ELSE [line EXCEPT !.marks = @ \cup (line.loose \cap Range(goals)), !.loose = {}]

NormaliseForm(report, goals) ==
  [report EXCEPT !.body = [i \in DOMAIN @ |-> Settle(@[i], goals)]]

\* What each goal's own evidence is about; recall speaks for no goal.
GoalTermIndex(goals, evidence) ==
  LET About(g) == UNION {evidence[i].content.terms :
                    i \in {j \in DOMAIN evidence : ~evidence[j].recalled /\ evidence[j].goal = g}}
  IN [g \in {x \in Range(goals) : About(x) # {}} |-> About(g)]

\* The goals a sentence rests on best; a tie between two attributes nothing.
BestGoals(line, index) ==
  LET Shared(g) == Cardinality(line.terms \cap index[g])
  IN {g \in DOMAIN index : /\ Shared(g) >= MinTermOverlap
                           /\ \A h \in DOMAIN index \ {g} : Shared(h) < Shared(g)}

\* What a sentence of the prose rests on.
RestsOn(report, goals, evidence, i) ==
  IF i > Len(ReportBody(report)) \/ IsHeading(report.body[i]) THEN {}
  ELSE BestGoals(report.body[i], GoalTermIndex(goals, evidence))

Attribute(line, rests) == [line EXCEPT !.attached = rests]

\* Only a report that cites nothing is rescued, and only its prose.
AttachCitations(report, goals, evidence) ==
  IF CitedGoalIdsInProse(report) # {} THEN report
  ELSE [report EXCEPT !.body =
          [i \in DOMAIN @ |-> Attribute(@[i], RestsOn(report, goals, evidence, i))]]

\* Verbatim evidence glued to a claim is deleted; markers of this run's goals
\* that retrieved nothing are dropped.
Clean(line, goals, evidence) ==
  [line EXCEPT !.join = IF @ = "paste" /\ evidence # <<>> THEN "none" ELSE @,
               !.marks = @ \ (Range(goals) \ EvidencedGoals(evidence)),
               !.attached = @ \ (Range(goals) \ EvidencedGoals(evidence))]

CleanCitations(report, goals, evidence) ==
  [report EXCEPT !.body = [i \in DOMAIN @ |-> Clean(@[i], goals, evidence)]]

\* A sentence welded to another is given its full stop; code is left alone.
RepairGlue(report) ==
  IF report.fenced THEN report
  ELSE [report EXCEPT !.body = [i \in DOMAIN @ |-> [report.body[i] EXCEPT !.join = "none"]]]

FlaggedFigures(evidence) ==
  {evidence[i].content.flagged : i \in DOMAIN evidence} \ {NoFigure}

Hedge(line, evidence) ==
  IF line.soft THEN line
  ELSE [line EXCEPT !.marked = @ \cup (line.figs \cap FlaggedFigures(evidence))]

EnforceHedging(report, evidence) ==
  [report EXCEPT !.body = [i \in DOMAIN @ |-> Hedge(@[i], evidence)]]

-----------------------------------------------------------------------------
\* Mutant: any page of a cited goal is listed, whatever it is about (D-59).
OnTopicAlways(item, goals, uncited) == TRUE

\* A page must share a term with its goal; under the uncited note with any
\* goal.  A goal without distinctive terms is not tested.
OnTopic(item, goals, uncited) ==
  LET every == UNION {GoalTerms[g] : g \in Range(goals)}
      terms == IF uncited THEN every
               ELSE IF item.goal \in Range(goals) THEN GoalTerms[item.goal] ELSE {}
  IN terms = {} \/ terms \cap item.content.terms # {}

\* Where the evidence has a page.
WebItems(evidence) ==
  {i \in DOMAIN evidence : evidence[i].source = "web" /\ evidence[i].url # "none"}

\* The best item of each page among those at `places`, the first of equals.
BestByUrl(evidence, places) ==
  {evidence[i] : i \in {n \in places : \A m \in places \ {n} :
     evidence[m].url = evidence[n].url =>
       \/ evidence[m].score < evidence[n].score
       \/ evidence[m].score = evidence[n].score /\ n < m}}

\* Listed: pages of the goals the text cites; when it cites none, every page,
\* under a note that says so.
WebSources(report, goals, evidence) ==
  LET cited == CitedIn(report.body)
      uncited == cited = {}
      listed == {i \in WebItems(evidence) : /\ uncited \/ evidence[i].goal \in cited
                                            /\ OnTopic(evidence[i], goals, uncited)}
  IN IF listed = {} THEN report
     ELSE [report EXCEPT !.block = <<[uncited |-> uncited,
                                      entries |-> BestByUrl(evidence, listed)]>>]

-----------------------------------------------------------------------------
\* A document of the corpus above the floor, about the goal, grounds it.
HasGroundedEvidence(g, evidence) ==
  \E i \in DOMAIN evidence :
    /\ ~evidence[i].recalled /\ evidence[i].goal = g /\ evidence[i].source = "corpus"
    /\ evidence[i].score > MinEvidenceScore
    /\ GoalTerms[g] = {} \/ GoalTerms[g] \cap evidence[i].content.terms # {}

GroundedGoals(goals, evidence) == {g \in Range(goals) : HasGroundedEvidence(g, evidence)}

\* The corpus grounds fewer of the goals than the target asks for.
Ungrounded(goals, evidence) ==
  /\ goals # <<>> /\ evidence # <<>>
  /\ 100 * Cardinality(GroundedGoals(goals, evidence)) < RecallTarget * Len(goals)

GroundingNotice(report, goals, evidence) ==
  IF Ungrounded(goals, evidence) THEN [report EXCEPT !.notices = @ \cup {"grounding"}] ELSE report

TruncationNotice(report, budget) ==
  IF budget = "none" THEN report ELSE [report EXCEPT !.notices = @ \cup {"truncation"}]

\* Mutant: sources are listed before the citations are settled.
SourcesFirst(draft, goals, evidence, budget, live) ==
  LET settled == NormaliseForm(StripFence(draft), goals)
      listed  == WebSources(settled, goals, evidence)
      cited   == CleanCitations(AttachCitations(listed, goals, evidence), goals, evidence)
      hedged  == EnforceHedging(RepairGlue(cited), evidence)
      noticed == IF live THEN GroundingNotice(hedged, goals, evidence) ELSE hedged
  IN TruncationNotice(noticed, budget)

\* REPORT_PASSES, in their order.
RunReportPasses(draft, goals, evidence, budget, live) ==
  LET settled == NormaliseForm(StripFence(draft), goals)
      cited   == CleanCitations(AttachCitations(settled, goals, evidence), goals, evidence)
      hedged  == EnforceHedging(RepairGlue(cited), evidence)
      listed  == WebSources(hedged, goals, evidence)
      noticed == IF live THEN GroundingNotice(listed, goals, evidence) ELSE listed
  IN TruncationNotice(noticed, budget)
=================================================================================
