------------------------------ MODULE ReportCycle ------------------------------
(***************************************************************************)
(* How a report is written, judged, rewritten and scored: compiler_node,   *)
(* critic_node and telemetry_node of agents/compilation.py, with the       *)
(* passes, the audit and the prompt budget they call, and score_report of  *)
(* reporting/confidence.py.  ResearchGraph models the graph around them;   *)
(* here a redirect is one step that adds evidence.                         *)
(*                                                                         *)
(* The model's draft, the critic's answer and the judge's are any of those *)
(* given.  A compile, a critique and a record are one step each: they read *)
(* and write the state of one run, which no other task touches.            *)
(***************************************************************************)
EXTENDS ReportPasses, PromptBudget

CONSTANTS
  Goals,         \* the goals of the run, in order
  Gathered,      \* what a run may have gathered before its first compile
  Later,         \* an item a redirect may add
  Drafts,        \* what the compiler model may write
  Critiques,     \* the lists of violations the critic may return
  Settings,      \* the settings runs are started with
  MaxRevisions, MaxReviews

StubDraft == <<>>

ASSUME CycleAssumption ==
  /\ {MaxRevisions, MaxReviews} \subseteq Nat
  /\ Settings \subseteq [live : BOOLEAN, verify : BOOLEAN, hitl : BOOLEAN]

\* A worker labels what it gathers with the goal it works for; only recall
\* carries another run's, and no page is recalled as one.
IsItem(item) ==
  /\ item.score \in Int /\ item.recalled \in BOOLEAN
  /\ item.source \in DOMAIN SourceRank /\ item.content.size \in Nat
  /\ item.recalled \/ item.goal \in Range(Goals)
  /\ item.recalled => item.source = "memory"

ASSUME InputAssumption ==
  /\ Goals \in Seq(DOMAIN GoalTerms)
  /\ \A e \in Gathered : e \in Seq(Range(e)) /\ \A i \in DOMAIN e : IsItem(e[i])
  /\ \A item \in Later : IsItem(item)
  /\ \A v \in Critiques : v \in Seq(Range(v)) /\ \A i \in DOMAIN v : v[i].size \in Nat

\* A draft carries no mark of the program's, and does not begin with a list of
\* sources; a heading has its line of text to itself.
IsDraft(body) ==
  /\ body \in Seq(Range(body))
  /\ \A i \in DOMAIN body :
       /\ IsLine(body[i]) /\ body[i].attached = {}
       /\ IsHeading(body[i]) => body[i].ends /\ (i > 1 => body[i - 1].ends)
       /\ i = 1 => body[i].kind # "sources"

ASSUME DraftAssumption == \A d \in Drafts : IsDraft(d.body)

VARIABLES
  settings,     \* [live, verify, hitl]: llm_mode, claim_verification_enabled, HITL
  pc,
  ending,       \* why there is nothing to judge: planning_error, abort_reason, none
  evidence,
  budget,       \* budget_exhausted
  final_report,
  critique_notes, critique_passed, revision_count,
  last_compile, \* last_compile_guardrails: attached, of the last compile
  attached,     \* the same counter, summed over every compile
  reviews,      \* escalations answered
  telemetry,
  opinion       \* history: what the critique of this report rested on

vars == <<settings, pc, ending, evidence, budget, final_report, critique_notes,
          critique_passed, revision_count, last_compile, attached, reviews,
          telemetry, opinion>>

runVars == <<settings, ending, evidence, reviews>>
verdictVars == <<critique_notes, critique_passed, revision_count>>
compileVars == <<final_report, budget, last_compile, attached>>

Endings == {"none", "planning_error", "abort"}
Nothing == [by |-> "nobody", said |-> FALSE, notes |-> <<>>]

NewReport(kind, body) ==
  [kind |-> kind, fenced |-> FALSE, notices |-> {}, body |-> body, block |-> <<>>]

Init ==
  /\ settings \in Settings
  /\ ending \in Endings
  /\ evidence \in IF ending = "planning_error" THEN {<<>>} ELSE Gathered
  /\ budget \in {"none", "tokens"}
  /\ pc = "compiler"
  /\ final_report = NewReport("none", <<>>)
  /\ critique_notes = <<>> /\ critique_passed = FALSE /\ revision_count = 0
  /\ last_compile = 0 /\ attached = 0 /\ reviews = 0
  /\ telemetry = <<>> /\ opinion = Nothing

-----------------------------------------------------------------------------
(* compiler_node *)

CompileNotice ==
  /\ pc = "compiler" /\ ending # "none"
  /\ final_report' = NewReport(ending, <<>>)
  /\ pc' = "critic" /\ opinion' = Nothing
  /\ UNCHANGED <<runVars, verdictVars, budget, last_compile, attached, telemetry>>

AttachedIn(report) ==
  Cardinality({i \in DOMAIN report.body : report.body[i].attached # {}})

\* The passes read the whole evidence; only the prompt's copy is bounded.
\* What is counted is what the one pass attached.  The budget is looked at
\* after the passes: its notice waits for the next.
CompileReport(draft) ==
  /\ pc = "compiler" /\ ending = "none"
  /\ LET report == [NewReport("compiled", draft.body) EXCEPT !.fenced = draft.fenced]
         settled == NormaliseForm(StripFence(report), Goals)
     IN /\ final_report' = RunReportPasses(report, Goals, evidence, budget, settings.live)
        /\ last_compile' = AttachedIn(AttachCitations(settled, Goals, evidence))
  /\ attached' = attached + last_compile'
  /\ budget' \in IF budget = "none" THEN {"none", "deadline"} ELSE {budget}
  /\ pc' = "critic" /\ opinion' = Nothing
  /\ UNCHANGED <<runVars, verdictVars, telemetry>>

-----------------------------------------------------------------------------
(* critic_node *)

\* Mutant: the bound on reviews is forgotten.
RaisesE4Always(passed, revision) ==
  ~passed /\ revision >= MaxRevisions /\ settings.hitl

RaisesE4(passed, revision) ==
  ~passed /\ revision >= MaxRevisions /\ settings.hitl /\ reviews < MaxReviews

\* route_after_critique, and a memory write when it passed.
Judge(passed, notes, revision) ==
  /\ critique_passed' = passed
  /\ revision_count' = revision
  /\ critique_notes' = IF passed THEN critique_notes ELSE critique_notes \o notes
  /\ pc' = IF RaisesE4(passed, revision) THEN "review"
           ELSE IF passed \/ budget # "none" \/ revision >= MaxRevisions THEN "telemetry"
           ELSE "compiler"
  /\ UNCHANGED <<runVars, compileVars, telemetry>>

WaveThrough ==
  /\ pc = "critic" /\ ending # "none"
  /\ Judge(TRUE, <<>>, revision_count)
  /\ UNCHANGED opinion

CoverageNote == [figs |-> {}, affirms |-> FALSE, size |-> 1]
FigureNote(f) == [figs |-> {f}, affirms |-> FALSE, size |-> 1]

\* Mutant: the Sources block counts as the report's own citations.
NothingCitedOrListed ==
  settings.live /\ evidence # <<>> /\ CitedGoalIdsInProse(final_report) = {}
  /\ final_report.block = <<>>

CitesNothing ==
  settings.live /\ evidence # <<>> /\ CitedGoalIdsInProse(final_report) = {}

ZeroCitationGate ==
  /\ pc = "critic" /\ ending = "none" /\ CitesNothing
  /\ Judge(FALSE, <<CoverageNote>>, revision_count + 1)
  /\ opinion' = [by |-> "zero_citation", said |-> FALSE, notes |-> <<CoverageNote>>]

Audit == AuditCitedFigures(Authored(final_report), Goals, evidence)

\* The judge may only confirm what the audit flagged; when it fails, nothing.
ConfirmFigures ==
  /\ pc = "critic" /\ ending = "none" /\ settings.verify /\ ~CitesNothing
  /\ \E confirmed \in SUBSET OfKind(Audit, "unsupported") :
       LET about == SetToSeq(confirmed \cup OfKind(Audit, "misattributed"))
           notes == [i \in DOMAIN about |-> FigureNote(about[i])]
       IN /\ confirmed # {}
          /\ Judge(FALSE, notes, revision_count + 1)
          /\ opinion' = [by |-> "verifier", said |-> FALSE, notes |-> notes]

\* The critic's own verdict, and the counterweight to a failure of it.
CriticAnswers ==
  /\ pc = "critic" /\ ending = "none" /\ ~CitesNothing
  /\ \E said \in BOOLEAN, violations \in Critiques :
       LET notes == DropAffirmations(violations)
           shown == PromptEvidence(evidence, Goals)
           passed == ResolveVerdict(said, notes, shown, OfKind(Audit, "unsupported"))
       IN /\ Judge(passed, notes, revision_count + 1)
          /\ opinion' = [by |-> "critic", said |-> said, notes |-> notes]

-----------------------------------------------------------------------------
(* The reviewer of E4: a redirect gathers, and may end in an abort there. *)

Ship ==
  /\ pc = "review"
  /\ pc' = "telemetry" /\ reviews' = reviews + 1
  /\ UNCHANGED <<settings, ending, evidence, verdictVars, compileVars, telemetry, opinion>>

Redirect(item, aborted) ==
  /\ pc = "review"
  /\ pc' = "compiler" /\ reviews' = reviews + 1
  /\ evidence' = Append(evidence, item)
  /\ ending' = IF aborted THEN "abort" ELSE ending
  /\ UNCHANGED <<settings, verdictVars, compileVars, telemetry, opinion>>

-----------------------------------------------------------------------------
(* telemetry_node: score_report, in half points *)

RoundHalfEven(halves) ==
  LET down == halves \div 2
  IN IF halves % 2 = 0 \/ down % 2 = 0 THEN down ELSE down + 1

Graded(t) ==
  LET share(part) == IF Goals = <<>> THEN 0 ELSE (60 * part) \div Len(Goals)
  IN share(t.evidenced) + share(t.grounded)
     + (IF t.critique_passed THEN 50 ELSE 0)
     + (IF t.judge = -1 THEN 15 ELSE (30 * t.judge) \div 100)

\* Mutant: D-190 forgotten, a blind audit does not cap.
CapsWithoutBlindAudit(t) ==
  (IF t.ending = "abort" THEN {0} ELSE {})
  \cup (IF t.ending = "planning_error" THEN {10} ELSE {})
  \cup (IF t.evidence /\ ~t.cited THEN {15} ELSE {})
  \cup (IF ~t.critique_passed \/ t.starved THEN {45} ELSE {})
  \cup (IF t.unsupported # {} THEN {40} ELSE {})
  \cup (IF t.attached > 0 THEN {60} ELSE {})

\* The cap for sources listed under the uncited note reads a field telemetry
\* never carries, so it is not among them.
Caps(t) ==
  (IF t.ending = "abort" THEN {0} ELSE {})
  \cup (IF t.ending = "planning_error" THEN {10} ELSE {})
  \cup (IF t.evidence /\ ~t.cited THEN {15} ELSE {})
  \cup (IF ~t.critique_passed \/ t.starved THEN {45} ELSE {})
  \cup (IF t.unsupported # {} THEN {40} ELSE {})
  \cup (IF (t.outside /\ ~t.checked) \/ t.attached > 0 THEN {60} ELSE {})

Score(t) == Min({RoundHalfEven(Graded(t))} \cup Caps(t))

Band(score) == IF score >= 75 THEN "HIGH" ELSE IF score >= 50 THEN "MODERATE"
               ELSE IF score >= 25 THEN "LOW" ELSE "UNRELIABLE"

\* Mutant: read from the counters, which sum every compile (D-162).
CitationsAttachedEver == attached

CitationsAttached == last_compile

NotAudited == [findings |-> {}, checked |-> FALSE, outside |-> FALSE]

\* judge: the mean score of the router's judge, -1 when it was never asked;
\* starved: the relevance floor dropped four fifths of the candidates.
Record(judge, starved) ==
  /\ pc = "telemetry"
  /\ LET audit == IF settings.live
                  THEN AuditCitedFigures(ReportBody(final_report), Goals, evidence)
                  ELSE NotAudited
         t == [ending |-> ending, critique_passed |-> critique_passed,
               evidence |-> evidence # <<>>,
               evidenced |-> Cardinality(Range(Goals) \cap EvidencedGoals(evidence)),
               grounded |-> Cardinality(GroundedGoals(Goals, evidence)),
               cited |-> CitedGoalIdsInProse(final_report) # {},
               attached |-> CitationsAttached,
               unsupported |-> OfKind(audit, "unsupported"),
               checked |-> audit.checked, outside |-> audit.outside,
               judge |-> judge, starved |-> starved, band |-> "none"]
     IN telemetry' = <<[t EXCEPT !.band = Band(Score(t))]>>
  /\ pc' = "end"
  /\ UNCHANGED <<runVars, verdictVars, compileVars, opinion>>

Next ==
  \/ CompileNotice
  \/ \E draft \in IF settings.live THEN Drafts ELSE {[body |-> StubDraft, fenced |-> FALSE]} :
       CompileReport(draft)
  \/ WaveThrough
  \/ ZeroCitationGate
  \/ ConfirmFigures
  \/ CriticAnswers
  \/ Ship
  \/ \E item \in Later, aborted \in BOOLEAN : Redirect(item, aborted)
  \/ \E judge \in {-1, 100}, starved \in BOOLEAN : Record(judge, starved)

Spec == Init /\ [][Next]_vars

-----------------------------------------------------------------------------
(* Properties *)

Compiled == final_report.kind = "compiled"
Ended == pc = "end"

TypeOK ==
  /\ settings \in Settings
  /\ pc \in {"compiler", "critic", "review", "telemetry", "end"}
  /\ ending \in Endings /\ budget \in {"none", "tokens", "deadline"}
  /\ final_report.kind \in Endings \cup {"compiled"}
  /\ final_report.notices \subseteq {"grounding", "truncation"}
  /\ Len(final_report.block) <= 1
  /\ \A i \in DOMAIN final_report.body : final_report.body[i].attached \subseteq Range(Goals)
  /\ critique_passed \in BOOLEAN /\ revision_count \in Nat /\ reviews \in 0..MaxReviews
  /\ {last_compile, attached} \subseteq Nat
  /\ opinion.by \in {"nobody", "zero_citation", "verifier", "critic"}
  /\ Len(telemetry) = (IF Ended THEN 1 ELSE 0)

\* D-57, D-59, D-144: what the Sources block of a report says is true of the
\* text that ships above it.  A page is listed for a goal that text cites, or
\* under a note that the text cites nothing; it is about that goal, or about
\* some goal of the run, unless there are no terms to tell by; and no page is
\* listed twice.
SourcesAreHonest ==
  \A b \in Range(final_report.block) : \A page \in b.entries :
    /\ page \in Range(evidence) /\ page.source = "web"
    /\ LET about == IF b.uncited THEN Range(Goals) ELSE {page.goal}
       IN (\E g \in about : GoalTerms[g] # {}) =>
            \E g \in about : page.content.terms \cap GoalTerms[g] # {}
    /\ IF b.uncited THEN CitedIn(final_report.body) = {}
       ELSE page.goal \in CitedIn(final_report.body)
    /\ \A other \in b.entries : other.url = page.url => other = page

OwnSources == \E i \in DOMAIN final_report.body : final_report.body[i].kind = "sources"

\* D-66, D-91, D-155: a live report that passed cites something when there was
\* evidence to cite; and one that passed although the critic had failed it
\* had no note about anything but figures, and is not recorded with a figure
\* that nothing supports.  (A Sources block the model wrote itself is shown
\* to the record's audit and not to the critic's: see the README.)
PassesAreEarned ==
  Ended /\ ending = "none" /\ settings.live /\ critique_passed =>
    /\ evidence # <<>> => telemetry[1].cited
    /\ opinion.by = "critic"
    /\ ~opinion.said =>
         /\ \A i \in DOMAIN opinion.notes : opinion.notes[i].figs # {}
         /\ telemetry[1].unsupported = {} \/ OwnSources

\* D-145, D-162, D-190: the confidence of a run is about the report it ships,
\* not about an earlier draft of it.  Citations are called synthesised exactly
\* when the program wrote some of those the report carries, and then it wrote
\* all of them, down to the last list of sources of the model's own; and a
\* report rated HIGH was accepted, cites for itself, and does not keep every
\* figure it states away from its citations.
ConfidenceDescribesReport ==
  Ended /\ ending = "none" =>
    LET t == telemetry[1]
        whole == final_report.body
        above == AboveLastSources(whole)
        prose == Authored(final_report)
        body  == ReportBody(final_report)
        stated == {i \in DOMAIN prose : ~IsHeading(prose[i]) /\ prose[i].figs # {}}
    IN /\ t.attached > 0 <=> \E i \in DOMAIN whole : whole[i].attached # {}
       /\ t.attached > 0 => \A i \in DOMAIN above : above[i].marks = {}
       /\ t.band = "HIGH" =>
            /\ t.critique_passed /\ t.unsupported = {} /\ ~t.starved
            /\ \E i \in DOMAIN body : body[i].marks # {}
            /\ (\E i \in stated : CitedBy(prose, i) = {}) =>
                 \E i \in DOMAIN body : body[i].figs # {} /\ CitedBy(body, i) # {}

\* D-131, D-138, D-142: the prompt stays inside its budget, leaves an item out
\* only for items that come before it, recalled items counting as one goal's,
\* loses nothing else of the evidence and no item's best score, and carries
\* the newest notes of the last verdict, all of them where they fit.
PromptIsFair ==
  LET items == DedupeEvidence(evidence)
      In == DOMAIN BudgetEvidence(items, Goals)
      Peers(i) == {j \in DOMAIN items : IF items[i].recalled THEN items[j].recalled
                     ELSE ~items[j].recalled /\ items[j].goal = items[i].goal}
      Better(i) == {j \in Peers(i) : Ahead(items, j, i)}
      First(i, j) == Cardinality(Better(i)) <= Cardinality(Better(j))
      notes == BudgetNotes(critique_notes)
  IN pc = "compiler" =>
     /\ \A e \in Range(evidence) : \E i \in DOMAIN items :
          Identity(items[i]) = Identity(e) /\ items[i].score >= e.score
     /\ PromptMax > 0 => CostOf(items, In) <= PromptMax
     /\ \A i \in DOMAIN items \ In :
          Cost(items[i]) + CostOf(items, {j \in In : First(j, i)}) > PromptMax
     /\ opinion.by # "nobody" /\ ~critique_passed =>
          \A n \in 0..Len(opinion.notes) : NotesFit(opinion.notes, n) =>
            n <= Len(notes) /\ Newest(notes, n) = Newest(opinion.notes, n)
=================================================================================
