--------------------------- MODULE ReportCycle_proofs ---------------------------
(***************************************************************************)
(* Proofs about ReportCycle, for any goals, evidence, drafts, critiques    *)
(* and bounds: a report that passed its critique earned it; what the       *)
(* passes leave is a report, and its Sources are honest; the confidence of *)
(* a run is about the report it ships; and what a prompt carries of the    *)
(* evidence and of the notes is what its budget promises.                  *)
(***************************************************************************)
EXTENDS ReportCycle, RankTheorems

USE DEF vars, runVars, verdictVars, compileVars

-----------------------------------------------------------------------------
(* A pass of the critique.                                                 *)

\* What a verdict that passes rests on.
Grounds ==
  /\ opinion.by = "critic" /\ ~CitesNothing
  /\ ~opinion.said =>
       /\ \A i \in DOMAIN opinion.notes : opinion.notes[i].figs # {}
       /\ OfKind(Audit, "unsupported") = {}

RecordedAudit ==
  IF settings.live THEN AuditCitedFigures(ReportBody(final_report), Goals, evidence)
  ELSE NotAudited

\* A report that passed is past its critique, which passed it for a reason;
\* and a record is about the report it closes.
EarnedInv ==
  /\ critique_passed \in BOOLEAN /\ settings \in Settings
  /\ pc \in {"compiler", "critic", "review", "telemetry", "end"}
  /\ critique_passed => pc \in {"telemetry", "end"}
  /\ critique_passed /\ ending = "none" /\ settings.live => Grounds
  /\ pc = "end" =>
       /\ telemetry[1].cited = (CitedGoalIdsInProse(final_report) # {})
       /\ telemetry[1].unsupported = OfKind(RecordedAudit, "unsupported")

LEMMA EarnedInit == Init => EarnedInv
BY DEF Init, EarnedInv

\* Where a verdict sends the report.
LEMMA JudgeMoves ==
  ASSUME NEW passed \in BOOLEAN, NEW notes, NEW revision, Judge(passed, notes, revision)
  PROVE  /\ critique_passed' = passed
         /\ pc' \in {"review", "telemetry", "compiler"}
         /\ passed => pc' = "telemetry"
         /\ UNCHANGED <<settings, ending, evidence, final_report, telemetry>>
BY DEF Judge, RaisesE4

\* What the critique rests on is of the report and the evidence alone.
LEMMA SameGrounds ==
  ASSUME UNCHANGED <<settings, evidence, final_report>>
  PROVE  CitesNothing' = CitesNothing /\ Audit' = Audit /\ RecordedAudit' = RecordedAudit
         /\ CitedGoalIdsInProse(final_report)' = CitedGoalIdsInProse(final_report)
BY DEF CitesNothing, Audit, RecordedAudit

LEMMA CriticStep ==
  ASSUME EarnedInv, CriticAnswers
  PROVE  EarnedInv'
<1>1. PICK said \in BOOLEAN, violations \in Critiques :
        /\ Judge(ResolveVerdict(said, DropAffirmations(violations),
                                PromptEvidence(evidence, Goals),
                                OfKind(Audit, "unsupported")),
                 DropAffirmations(violations), revision_count + 1)
        /\ opinion' = [by |-> "critic", said |-> said, notes |-> DropAffirmations(violations)]
  BY DEF CriticAnswers
<1> DEFINE notes == DropAffirmations(violations)
           passed == ResolveVerdict(said, notes, PromptEvidence(evidence, Goals),
                                    OfKind(Audit, "unsupported"))
<1>2. passed \in BOOLEAN
  BY DEF ResolveVerdict
<1>3. /\ critique_passed' = passed
      /\ pc' \in {"review", "telemetry", "compiler"} /\ (passed => pc' = "telemetry")
      /\ UNCHANGED <<settings, ending, evidence, final_report, telemetry>>
  BY <1>1, <1>2, JudgeMoves
<1>4. passed /\ ~said =>
        /\ \A i \in DOMAIN notes : notes[i].figs # {}
        /\ OfKind(Audit, "unsupported") = {}
  BY DEF ResolveVerdict, FalsifiedByEvidence
<1>5. passed => Grounds'
  <2> HIDE DEF notes, passed
  <2>1. ~CitesNothing
    BY DEF CriticAnswers
  <2>2. QED
    BY <1>1, <1>3, <1>4, <2>1, SameGrounds DEF Grounds, notes
<1>6. QED
  <2> HIDE DEF notes, passed
  <2>1. QED
    BY <1>2, <1>3, <1>5 DEF EarnedInv

\* Every other verdict fails the report, or waves a notice through.
LEMMA OtherVerdicts ==
  ASSUME EarnedInv, WaveThrough \/ ZeroCitationGate \/ ConfirmFigures
  PROVE  EarnedInv'
<1>1. CASE WaveThrough
  BY <1>1, JudgeMoves DEF WaveThrough, EarnedInv
<1>2. CASE ZeroCitationGate
  BY <1>2, JudgeMoves DEF ZeroCitationGate, EarnedInv
<1>3. CASE ConfirmFigures
  <2>1. \E notes : Judge(FALSE, notes, revision_count + 1)
    BY <1>3 DEF ConfirmFigures
  <2>2. QED
    BY <2>1, JudgeMoves DEF EarnedInv
<1>4. QED
  BY <1>1, <1>2, <1>3

LEMMA RecordStep ==
  ASSUME EarnedInv, NEW judge \in {-1, 100}, NEW starved \in BOOLEAN, Record(judge, starved)
  PROVE  EarnedInv'
<1>1. /\ pc = "telemetry" /\ pc' = "end"
      /\ UNCHANGED <<settings, ending, evidence, final_report, critique_passed, opinion>>
  BY DEF Record
<1>2. /\ telemetry'[1].cited = (CitedGoalIdsInProse(final_report) # {})
      /\ telemetry'[1].unsupported = OfKind(RecordedAudit, "unsupported")
  BY DEF Record, RecordedAudit
<1>3. critique_passed /\ ending = "none" /\ settings.live => Grounds'
  BY <1>1, SameGrounds DEF EarnedInv, Grounds
<1>4. QED
  BY <1>1, <1>2, <1>3, SameGrounds DEF EarnedInv

LEMMA EarnedStep == EarnedInv /\ [Next]_vars => EarnedInv'
<1> SUFFICES ASSUME EarnedInv, [Next]_vars PROVE EarnedInv'
  OBVIOUS
<1>1. CASE CompileNotice
  BY <1>1 DEF CompileNotice, EarnedInv
<1>2. ASSUME NEW draft, CompileReport(draft) PROVE EarnedInv'
  BY <1>2 DEF CompileReport, EarnedInv
<1>3. CASE Ship
  BY <1>3 DEF Ship, EarnedInv
<1>4. ASSUME NEW item, NEW aborted, Redirect(item, aborted) PROVE EarnedInv'
  BY <1>4 DEF Redirect, EarnedInv
<1>5. CASE UNCHANGED vars
  <2>1. Grounds' = Grounds
    BY <1>5, SameGrounds DEF Grounds
  <2>2. QED
    BY <1>5, <2>1, SameGrounds DEF EarnedInv
<1>6. QED
  BY <1>1, <1>2, <1>3, <1>4, <1>5, CriticStep, OtherVerdicts, RecordStep DEF Next

\* Without a block of sources of its own a report is the same to both cuts.
LEMMA SameText == ~OwnSources => ReportBody(final_report) = Authored(final_report)
BY DEF OwnSources, OwnHeadings, ReportBody, Authored, AboveOwnSources, AboveLastSources

\* D-66, D-91, D-155, for any run: see PassesAreEarned.
THEOREM EarnedPasses == Spec => []PassesAreEarned
<1>1. EarnedInv => PassesAreEarned
  <2> SUFFICES ASSUME EarnedInv, Ended, ending = "none", settings.live, critique_passed
               PROVE  /\ evidence # <<>> => telemetry[1].cited
                      /\ opinion.by = "critic"
                      /\ ~opinion.said =>
                           /\ \A i \in DOMAIN opinion.notes : opinion.notes[i].figs # {}
                           /\ telemetry[1].unsupported = {} \/ OwnSources
    BY DEF PassesAreEarned
  <2>1. /\ Grounds
        /\ telemetry[1].cited = (CitedGoalIdsInProse(final_report) # {})
        /\ telemetry[1].unsupported = OfKind(RecordedAudit, "unsupported")
    BY DEF EarnedInv, Ended
  <2>2. OwnSources \/ RecordedAudit = Audit
    BY SameText DEF RecordedAudit, Audit
  <2>3. QED
    BY <2>1, <2>2 DEF Grounds, CitesNothing
<1>2. QED
  BY <1>1, EarnedInit, EarnedStep, PTL DEF Spec

-----------------------------------------------------------------------------
(* The passes of a report, one by one.                                     *)

IsBody(body) == body \in Seq(Range(body)) /\ \A i \in DOMAIN body : IsLine(body[i])

IsReport(report) ==
  /\ DOMAIN report = {"kind", "fenced", "notices", "body", "block"}
  /\ IsBody(report.body)

\* The lines above the first of the model's own "## Sources", and those above
\* the last, by their numbers.
Prefix(body) == {i \in DOMAIN body : \A k \in 1..i : body[k].kind # "sources"}
Upper(body) ==
  {i \in DOMAIN body : OwnHeadings(body) = {} \/ \E k \in OwnHeadings(body) : i < k}

\* A body cut short.
LEMMA CutShort ==
  ASSUME NEW body, IsBody(body), NEW n \in 0..Len(body)
  PROVE  LET top == SubSeq(body, 1, n)
         IN IsBody(top) /\ DOMAIN top = 1..n /\ \A i \in 1..n : top[i] = body[i]
<1> DEFINE L == Range(body)
           top == SubSeq(body, 1, n)
<1>1. body \in Seq(L) /\ \A i \in DOMAIN body : IsLine(body[i])
  BY DEF IsBody
<1>2. DOMAIN body = 1..Len(body) /\ Len(body) \in Nat /\ n \in Nat /\ n <= Len(body)
  BY <1>1
<1> HIDE DEF L
<1>3. /\ top \in Seq(L) /\ DOMAIN top = 1..n
      /\ \A i \in 1..n : top[i] = body[i]
  BY <1>1, <1>2
<1>4. \A i \in 1..n : i \in DOMAIN body
  BY <1>2
<1> HIDE DEF top
<1>5. top \in Seq(Range(top))
  BY <1>3 DEF Range
<1>6. QED
  BY <1>1, <1>3, <1>4, <1>5 DEF IsBody, top

LEMMA Above ==
  ASSUME NEW body, IsBody(body)
  PROVE  /\ IsBody(AboveOwnSources(body))
         /\ DOMAIN AboveOwnSources(body) = Prefix(body)
         /\ \A i \in Prefix(body) : AboveOwnSources(body)[i] = body[i]
<1> DEFINE own == OwnHeadings(body)
<1>0. DOMAIN body = 1..Len(body) /\ Len(body) \in Nat
  BY DEF IsBody
<1>1. CASE own = {}
  <2>1. AboveOwnSources(body) = body
    BY <1>1 DEF AboveOwnSources
  <2>2. \A i \in DOMAIN body : i \in Nat /\ 1..i \subseteq DOMAIN body
    BY <1>0
  <2>3. Prefix(body) = DOMAIN body
    BY <1>1, <2>2 DEF Prefix, OwnHeadings
  <2>4. QED
    BY <2>1, <2>3
<1>2. CASE own # {}
  <2>1. own \subseteq Nat
    BY <1>0 DEF OwnHeadings
  <2>2. PICK m \in own : \A y \in own : m <= y
    <3> HIDE DEF own
    <3>1. QED
      BY <1>2, <2>1, LeastElement
  <2>3. Min(own) \in own /\ \A y \in own : Min(own) <= y
    <3> HIDE DEF own
    <3>1. QED
      BY <2>2 DEF Min
  <2> DEFINE n == Min(own)
  <2>4. AboveOwnSources(body) = SubSeq(body, 1, n - 1)
    BY <1>2 DEF AboveOwnSources
  <2>5. n \in 1..Len(body) /\ body[n].kind = "sources"
    BY <1>0, <2>3 DEF OwnHeadings
  <2>6. \A k \in 1..Len(body) : body[k].kind = "sources" => n <= k
    BY <1>0, <2>3 DEF OwnHeadings
  <2> HIDE DEF n, own
  <2>7. Prefix(body) = 1..(n - 1)
    BY <1>0, <2>5, <2>6 DEF Prefix
  <2>8. n - 1 \in 0..Len(body)
    BY <1>0, <2>5
  <2>9. QED
    BY <2>4, <2>7, <2>8, CutShort
<1>3. QED
  BY <1>1, <1>2

LEMMA AboveLast ==
  ASSUME NEW body, IsBody(body)
  PROVE  /\ IsBody(AboveLastSources(body))
         /\ DOMAIN AboveLastSources(body) = Upper(body)
         /\ \A i \in Upper(body) : AboveLastSources(body)[i] = body[i]
         /\ Prefix(body) \subseteq Upper(body)
<1> DEFINE own == OwnHeadings(body)
<1>0. DOMAIN body = 1..Len(body) /\ Len(body) \in Nat
  BY DEF IsBody
<1>1. CASE own = {}
  <2>1. AboveLastSources(body) = body
    BY <1>1 DEF AboveLastSources
  <2>2. Upper(body) = DOMAIN body
    BY <1>1 DEF Upper
  <2>3. QED
    BY <2>1, <2>2 DEF Prefix
<1>2. CASE own # {}
  <2>1. own \subseteq Int /\ Len(body) \in Int /\ \A y \in own : y <= Len(body)
    BY <1>0 DEF OwnHeadings
  <2>2. PICK m \in own : \A y \in own : y <= m
    <3> HIDE DEF own
    <3>1. QED
      BY <1>2, <2>1, GreatestElement
  <2>3. \A y \in own : m >= y
    BY <2>1, <2>2
  <2>4. Max(own) \in own /\ \A y \in own : Max(own) >= y
    <3> HIDE DEF own
    <3>1. QED
      BY <2>3 DEF Max
  <2> DEFINE n == Max(own)
  <2>5. AboveLastSources(body) = SubSeq(body, 1, n - 1)
    BY <1>2 DEF AboveLastSources
  <2>6. n \in 1..Len(body) /\ body[n].kind = "sources"
    BY <1>0, <2>4 DEF OwnHeadings
  <2>7. n \in own /\ \A k \in own : k \in Int /\ k <= n
    BY <2>1, <2>4
  <2> HIDE DEF n
  <2>8. \A i \in DOMAIN body : i \in Upper(body) <=> i < n
    <3> SUFFICES ASSUME NEW i \in DOMAIN body PROVE i \in Upper(body) <=> i < n
      OBVIOUS
    <3>1. i \in Upper(body) <=> \E k \in own : i < k
      BY <1>2 DEF Upper
    <3>2. i \in Int /\ n \in Int
      BY <1>0, <2>6
    <3> HIDE DEF own
    <3>3. QED
      BY <2>7, <3>1, <3>2
  <2>9. Upper(body) = 1..(n - 1)
    <3>1. \A i \in Upper(body) : i \in DOMAIN body
      BY DEF Upper
    <3>2. \A i \in 1..(n - 1) : i \in DOMAIN body /\ i < n
      BY <1>0, <2>6
    <3>3. \A i \in DOMAIN body : i < n => i \in 1..(n - 1)
      BY <1>0, <2>6
    <3>4. \A i : i \in Upper(body) <=> i \in 1..(n - 1)
      BY <2>8, <3>1, <3>2, <3>3
    <3>5. QED
      BY <3>4
  <2>10. Prefix(body) \subseteq 1..(n - 1)
    BY <1>0, <2>6 DEF Prefix
  <2>11. n - 1 \in 0..Len(body)
    BY <1>0, <2>6
  <2> HIDE DEF own
  <2>12. QED
    BY <2>5, <2>9, <2>10, <2>11, CutShort
<1>3. QED
  BY <1>1, <1>2

\* A body whose lines were edited in place, and their kinds left alone.
Edits(body, new) ==
  /\ IsBody(new) /\ DOMAIN new = DOMAIN body
  /\ \A i \in DOMAIN body : new[i].kind = body[i].kind

LEMMA Edited ==
  ASSUME NEW body, IsBody(body), NEW new, new = [i \in DOMAIN body |-> new[i]],
         \A i \in DOMAIN body : IsLine(new[i]) /\ new[i].kind = body[i].kind
  PROVE  Edits(body, new)
<1>1. body \in Seq(Range(body))
  BY DEF IsBody
<1>2. Len(body) \in Nat /\ DOMAIN body = 1..Len(body)
  BY <1>1
<1> DEFINE n == Len(body)
<1> HIDE DEF n
<1>3. new = [i \in 1..n |-> new[i]] /\ n \in Nat
  BY <1>2 DEF n
<1>4. DOMAIN new = 1..n
  BY <1>3
<1>5. \A i \in 1..n : new[i] \in Range(new)
  BY <1>4 DEF Range
<1>6. new \in Seq(Range(new))
  BY <1>3, <1>5
<1>7. QED
  BY <1>2, <1>4, <1>6 DEF Edits, IsBody, n

LEMMA SameUpper ==
  ASSUME NEW body, NEW new, IsBody(body), Edits(body, new)
  PROVE  Upper(new) = Upper(body)
<1>1. OwnHeadings(new) = OwnHeadings(body)
  BY DEF OwnHeadings, Edits
<1>2. QED
  BY <1>1 DEF Upper, Edits

\* What a pass does to a report: the text is edited in place.
Retouches(report, new) ==
  /\ IsReport(new) /\ Edits(report.body, new.body)
  /\ new.kind = report.kind /\ new.notices = report.notices /\ new.block = report.block

AttachedLines(body) == {i \in DOMAIN body : body[i].attached # {}}
MarkedLines(body) == {i \in DOMAIN body : body[i].marks # {}}

\* What the program attached is left as it is.
SameAttached(body, new) == \A i \in DOMAIN body : new[i].attached = body[i].attached

\* The program attaches only goals of the run that found something.
Attachable(body, goals, items) ==
  \A i \in DOMAIN body : body[i].attached \subseteq Range(goals) \cap EvidencedGoals(items)

LEMMA FenceStripped ==
  ASSUME NEW report, IsReport(report)
  PROVE  Retouches(report, StripFence(report)) /\ StripFence(report).body = report.body
<1>1. Edits(report.body, report.body)
  BY DEF IsReport, Edits
<1>2. QED
  BY <1>1 DEF StripFence, IsReport, Retouches

\* A pass that gives every line of the body a new form.
LEMMA Rewritten ==
  ASSUME NEW report, IsReport(report), NEW body,
         body = [i \in DOMAIN report.body |-> body[i]],
         \A i \in DOMAIN report.body :
           IsLine(body[i]) /\ body[i].kind = report.body[i].kind
  PROVE  LET new == [report EXCEPT !.body = body]
         IN Retouches(report, new) /\ new.body = body
<1>1. Edits(report.body, body)
  BY Edited DEF IsReport
<1>2. QED
  BY <1>1 DEF IsReport, Retouches, Edits

LEMMA FormNormalised ==
  ASSUME NEW report, IsReport(report), NEW goals
  PROVE  LET new == NormaliseForm(report, goals)
         IN Retouches(report, new) /\ SameAttached(report.body, new.body)
<1> DEFINE body == [i \in DOMAIN report.body |-> Settle(report.body[i], goals)]
<1>1. NormaliseForm(report, goals) = [report EXCEPT !.body = body]
  BY DEF NormaliseForm
<1>2. \A i \in DOMAIN report.body : IsLine(report.body[i])
  BY DEF IsReport, IsBody
<1>3. \A i \in DOMAIN report.body :
         /\ IsLine(body[i]) /\ body[i].kind = report.body[i].kind
         /\ body[i].attached = report.body[i].attached
  BY <1>2 DEF IsLine, Settle
<1>4. body = [i \in DOMAIN report.body |-> body[i]] /\ DOMAIN body = DOMAIN report.body
  OBVIOUS
<1> HIDE DEF body
<1>5. QED
  BY <1>1, <1>3, <1>4, Rewritten DEF SameAttached

\* Cleaning drops markers and adds none, and none that the program attached.
LEMMA CitationsCleaned ==
  ASSUME NEW report, IsReport(report), NEW goals, NEW items,
         Attachable(report.body, goals, items)
  PROVE  LET new == CleanCitations(report, goals, items)
         IN /\ Retouches(report, new) /\ SameAttached(report.body, new.body)
            /\ MarkedLines(new.body) \subseteq MarkedLines(report.body)
<1> DEFINE body == [i \in DOMAIN report.body |-> Clean(report.body[i], goals, items)]
<1>1. CleanCitations(report, goals, items) = [report EXCEPT !.body = body]
  BY DEF CleanCitations
<1>2. \A i \in DOMAIN report.body :
         /\ IsLine(report.body[i])
         /\ report.body[i].attached \subseteq Range(goals) \cap EvidencedGoals(items)
  BY DEF IsReport, IsBody, Attachable
<1>3. \A i \in DOMAIN report.body :
         /\ IsLine(body[i]) /\ body[i].kind = report.body[i].kind
         /\ body[i].attached = report.body[i].attached
         /\ body[i].marks \subseteq report.body[i].marks
  BY <1>2 DEF IsLine, Clean
<1>4. body = [i \in DOMAIN report.body |-> body[i]] /\ DOMAIN body = DOMAIN report.body
  OBVIOUS
<1> HIDE DEF body
<1>5. LET new == CleanCitations(report, goals, items)
      IN Retouches(report, new) /\ new.body = body
  <2>1. \A i \in DOMAIN report.body : IsLine(body[i]) /\ body[i].kind = report.body[i].kind
    BY <1>3
  <2>2. QED
    BY <1>1, <1>4, <2>1, Rewritten
<1>6. QED
  BY <1>3, <1>4, <1>5 DEF SameAttached, MarkedLines

LEMMA GlueRepaired ==
  ASSUME NEW report, IsReport(report)
  PROVE  LET new == RepairGlue(report)
         IN /\ Retouches(report, new) /\ SameAttached(report.body, new.body)
            /\ MarkedLines(new.body) = MarkedLines(report.body)
<1>1. CASE report.fenced
  <2>1. Edits(report.body, report.body)
    BY DEF IsReport, Edits
  <2>2. QED
    BY <1>1, <2>1 DEF RepairGlue, IsReport, Retouches, SameAttached
<1>2. CASE ~report.fenced
  <2> DEFINE body == [i \in DOMAIN report.body |-> [report.body[i] EXCEPT !.join = "none"]]
  <2>1. RepairGlue(report) = [report EXCEPT !.body = body]
    BY <1>2 DEF RepairGlue
  <2>2. \A i \in DOMAIN report.body : IsLine(report.body[i])
    BY DEF IsReport, IsBody
  <2>3. \A i \in DOMAIN report.body :
           /\ IsLine(body[i]) /\ body[i].kind = report.body[i].kind
           /\ body[i].attached = report.body[i].attached /\ body[i].marks = report.body[i].marks
    BY <2>2 DEF IsLine, Attribute
  <2>4. body = [i \in DOMAIN report.body |-> body[i]] /\ DOMAIN body = DOMAIN report.body
    OBVIOUS
  <2> HIDE DEF body
  <2>5. QED
    BY <2>1, <2>3, <2>4, Rewritten DEF SameAttached, MarkedLines
<1>3. QED
  BY <1>1, <1>2

LEMMA HedgingEnforced ==
  ASSUME NEW report, IsReport(report), NEW items
  PROVE  LET new == EnforceHedging(report, items)
         IN /\ Retouches(report, new) /\ SameAttached(report.body, new.body)
            /\ MarkedLines(new.body) = MarkedLines(report.body)
<1> DEFINE body == [i \in DOMAIN report.body |-> Hedge(report.body[i], items)]
<1>1. EnforceHedging(report, items) = [report EXCEPT !.body = body]
  BY DEF EnforceHedging
<1>2. \A i \in DOMAIN report.body : IsLine(report.body[i])
  BY DEF IsReport, IsBody
<1>3. \A i \in DOMAIN report.body :
         /\ IsLine(body[i]) /\ body[i].kind = report.body[i].kind
         /\ body[i].attached = report.body[i].attached /\ body[i].marks = report.body[i].marks
  BY <1>2 DEF IsLine, Hedge
<1>4. body = [i \in DOMAIN report.body |-> body[i]] /\ DOMAIN body = DOMAIN report.body
  OBVIOUS
<1> HIDE DEF body
<1>5. LET new == EnforceHedging(report, items)
      IN Retouches(report, new) /\ new.body = body
  <2>1. \A i \in DOMAIN report.body : IsLine(body[i]) /\ body[i].kind = report.body[i].kind
    BY <1>3
  <2>2. QED
    BY <1>1, <1>4, <2>1, Rewritten
<1>6. QED
  BY <1>3, <1>4, <1>5 DEF SameAttached, MarkedLines

\* What a sentence rests on is a goal of the run that found something.
LEMMA RestsOnFound ==
  ASSUME NEW report, NEW goals, NEW items, NEW i
  PROVE  RestsOn(report, goals, items, i) \subseteq Range(goals) \cap EvidencedGoals(items)
<1> DEFINE index == GoalTermIndex(goals, items)
           Of(g) == {j \in DOMAIN items : ~items[j].recalled /\ items[j].goal = g}
           About(g) == UNION {items[j].content.terms : j \in Of(g)}
<1>1. DOMAIN index = {x \in Range(goals) : About(x) # {}}
  BY DEF GoalTermIndex
<1>2. ASSUME NEW g \in DOMAIN index PROVE g \in Range(goals) \cap EvidencedGoals(items)
  <2>1. g \in Range(goals) /\ About(g) # {}
    BY <1>1
  <2>2. PICK j \in Of(g) : TRUE
    BY <2>1
  <2>3. QED
    BY <2>1, <2>2 DEF EvidencedGoals
<1>3. RestsOn(report, goals, items, i) \subseteq DOMAIN index
  BY DEF RestsOn, BestGoals
<1>4. QED
  BY <1>2, <1>3

\* Only a text that cites nothing down to its last own sources is given
\* citations.
LEMMA CitationsAttachedOnce ==
  ASSUME NEW report, IsReport(report), report.block = <<>>,
         AttachedLines(report.body) = {}, NEW goals, NEW items
  PROVE  LET new == AttachCitations(report, goals, items)
         IN /\ Retouches(report, new) /\ Attachable(new.body, goals, items)
            /\ AttachedLines(new.body) # {} => MarkedLines(new.body) \cap Upper(new.body) = {}
<1> DEFINE Rests(i) == RestsOn(report, goals, items, i)
           body == [i \in DOMAIN report.body |-> Attribute(report.body[i], Rests(i))]
<1>0. IsBody(report.body) /\ ReportBody(report) = AboveLastSources(report.body)
  BY DEF IsReport, ReportBody
<1>1. CASE CitedGoalIdsInProse(report) # {}
  <2>1. Edits(report.body, report.body)
    BY DEF IsReport, Edits
  <2>2. AttachCitations(report, goals, items) = report
    BY <1>1 DEF AttachCitations
  <2>3. QED
    BY <2>1, <2>2 DEF IsReport, Retouches, Attachable, AttachedLines
<1>2. CASE CitedGoalIdsInProse(report) = {}
  <2>1. AttachCitations(report, goals, items) = [report EXCEPT !.body = body]
    BY <1>2 DEF AttachCitations
  <2>2. \A i \in DOMAIN report.body : IsLine(report.body[i])
    BY DEF IsReport, IsBody
  <2>3. \A i \in DOMAIN report.body :
           /\ IsLine(body[i]) /\ body[i].kind = report.body[i].kind
           /\ body[i].attached = Rests(i) /\ body[i].marks = report.body[i].marks
    BY <2>2 DEF IsLine, Attribute
  <2>4. body = [i \in DOMAIN report.body |-> body[i]] /\ DOMAIN body = DOMAIN report.body
    OBVIOUS
  <2>5. \A i \in Upper(report.body) : report.body[i].marks = {}
    <3>1. CitedIn(AboveLastSources(report.body)) = {}
      BY <1>0, <1>2 DEF CitedGoalIdsInProse
    <3>2. QED
      BY <1>0, <3>1, AboveLast DEF CitedIn
  <2>6. \A i : Rests(i) \subseteq Range(goals) \cap EvidencedGoals(items)
    BY RestsOnFound
  <2> HIDE DEF body, Rests
  <2>7. Retouches(report, [report EXCEPT !.body = body])
        /\ [report EXCEPT !.body = body].body = body
    <3>1. \A i \in DOMAIN report.body :
             IsLine(body[i]) /\ body[i].kind = report.body[i].kind
      BY <2>3
    <3>2. QED
      BY <2>4, <3>1, Rewritten
  <2>8. Upper(body) = Upper(report.body)
    BY <1>0, <2>7, SameUpper DEF Retouches
  <2>9. Attachable(body, goals, items)
    BY <2>3, <2>4, <2>6 DEF Attachable
  <2>10. MarkedLines(body) \cap Upper(body) = {}
    BY <2>3, <2>4, <2>5, <2>8 DEF MarkedLines
  <2>11. QED
    BY <2>1, <2>7, <2>9, <2>10
<1>3. QED
  BY <1>1, <1>2

\* What SourcesAreHonest says of a report over some evidence.
Honest(report, items) ==
  \A b \in Range(report.block) : \A page \in b.entries :
    /\ page \in Range(items) /\ page.source = "web"
    /\ LET about == IF b.uncited THEN Range(Goals) ELSE {page.goal}
       IN (\E g \in about : GoalTerms[g] # {}) =>
            \E g \in about : page.content.terms \cap GoalTerms[g] # {}
    /\ IF b.uncited THEN CitedIn(report.body) = {}
       ELSE page.goal \in CitedIn(report.body)
    /\ \A other \in b.entries : other.url = page.url => other = page

IsEvidence(items) == items \in Seq(Range(items)) /\ \A i \in DOMAIN items : IsItem(items[i])

\* A page about its goal, or about any.
LEMMA TopicalPage ==
  ASSUME NEW item, IsItem(item), item.source = "web", NEW uncited \in BOOLEAN,
         OnTopic(item, Goals, uncited)
  PROVE  LET about == IF uncited THEN Range(Goals) ELSE {item.goal}
         IN (\E g \in about : GoalTerms[g] # {}) =>
              \E g \in about : item.content.terms \cap GoalTerms[g] # {}
<1>1. item.goal \in Range(Goals)
  BY DEF IsItem
<1>2. CASE uncited
  BY <1>2 DEF OnTopic
<1>3. CASE ~uncited
  BY <1>1, <1>3 DEF OnTopic
<1>4. QED
  BY <1>2, <1>3

\* One item a page.
LEMMA OneOfEachPage ==
  ASSUME NEW items, IsEvidence(items), NEW places \in SUBSET DOMAIN items
  PROVE  /\ \A page \in BestByUrl(items, places) : \E i \in places : page = items[i]
         /\ \A page, other \in BestByUrl(items, places) : other.url = page.url => other = page
<1> DEFINE Worse(m, n) == \/ items[m].score < items[n].score
                          \/ items[m].score = items[n].score /\ n < m
           best == {n \in places : \A m \in places \ {n} :
                      items[m].url = items[n].url => Worse(m, n)}
<1>1. BestByUrl(items, places) = {items[i] : i \in best}
  BY DEF BestByUrl
<1>2. \A i \in DOMAIN items : i \in Int /\ items[i].score \in Int
  BY DEF IsEvidence, IsItem
<1>3. \A m, n \in places : ~ (Worse(m, n) /\ Worse(n, m))
  BY <1>2
<1> HIDE DEF Worse
<1>4. \A m, n \in best : items[m].url = items[n].url => m = n
  BY <1>3
<1>5. \A n \in best : n \in places
  OBVIOUS
<1> HIDE DEF best
<1>6. QED
  BY <1>1, <1>4, <1>5

LEMMA SourcesListed ==
  ASSUME NEW report, IsReport(report), report.block = <<>>, NEW items, IsEvidence(items)
  PROVE  LET new == WebSources(report, Goals, items)
         IN /\ IsReport(new) /\ new.body = report.body /\ new.kind = report.kind
            /\ new.notices = report.notices /\ Len(new.block) <= 1 /\ Honest(new, items)
<1> DEFINE cited == CitedIn(report.body)
           uncited == cited = {}
           listed == {i \in WebItems(items) : /\ uncited \/ items[i].goal \in cited
                                              /\ OnTopic(items[i], Goals, uncited)}
           block == <<[uncited |-> uncited, entries |-> BestByUrl(items, listed)]>>
           new == WebSources(report, Goals, items)
<1>1. CASE listed = {}
  <2>1. new = report
    BY <1>1 DEF WebSources
  <2>2. Range(report.block) = {}
    BY DEF Range
  <2>3. Len(report.block) <= 1
    OBVIOUS
  <2>4. QED
    BY <2>1, <2>2, <2>3 DEF Honest
<1>2. CASE listed # {}
  <2>1. new = [report EXCEPT !.block = block]
    BY <1>2 DEF WebSources
  <2>2. Len(block) = 1 /\ Range(block) = {block[1]}
    <3>1. Len(block) = 1 /\ DOMAIN block = {1}
      OBVIOUS
    <3> HIDE DEF block
    <3>2. QED
      BY <3>1 DEF Range
  <2>3. block[1].uncited = uncited /\ block[1].entries = BestByUrl(items, listed)
    OBVIOUS
  <2>4. listed \in SUBSET DOMAIN items
    BY DEF WebItems
  <2>5. \A i \in listed :
           /\ items[i] \in Range(items) /\ items[i].source = "web" /\ IsItem(items[i])
           /\ uncited \/ items[i].goal \in cited
           /\ OnTopic(items[i], Goals, uncited)
    BY <2>4 DEF WebItems, Range, IsEvidence
  <2> HIDE DEF listed, block
  <2>6. /\ \A page \in block[1].entries : \E i \in listed : page = items[i]
        /\ \A page, other \in block[1].entries : other.url = page.url => other = page
    BY <2>3, <2>4, OneOfEachPage
  <2>7. /\ IsReport(new) /\ new.body = report.body /\ new.kind = report.kind
        /\ new.notices = report.notices /\ new.block = block
    BY <2>1 DEF IsReport
  <2>8. ASSUME NEW page \in block[1].entries
        PROVE  /\ page \in Range(items) /\ page.source = "web"
               /\ LET about == IF uncited THEN Range(Goals) ELSE {page.goal}
                  IN (\E g \in about : GoalTerms[g] # {}) =>
                       \E g \in about : page.content.terms \cap GoalTerms[g] # {}
               /\ IF uncited THEN cited = {} ELSE page.goal \in cited
    <3>1. PICK i \in listed : page = items[i]
      BY <2>6
    <3>2. /\ page \in Range(items) /\ page.source = "web" /\ IsItem(page)
          /\ uncited \/ page.goal \in cited
          /\ OnTopic(page, Goals, uncited)
      BY <2>5, <3>1
    <3>3. uncited \in BOOLEAN
      OBVIOUS
    <3> HIDE DEF uncited
    <3>4. LET about == IF uncited THEN Range(Goals) ELSE {page.goal}
          IN (\E g \in about : GoalTerms[g] # {}) =>
               \E g \in about : page.content.terms \cap GoalTerms[g] # {}
      BY <3>2, <3>3, TopicalPage
    <3>5. QED
      BY <3>2, <3>4 DEF uncited
  <2>9. Honest(new, items)
    <3> SUFFICES ASSUME NEW page \in block[1].entries
                 PROVE  /\ page \in Range(items) /\ page.source = "web"
                        /\ LET about == IF block[1].uncited THEN Range(Goals) ELSE {page.goal}
                           IN (\E g \in about : GoalTerms[g] # {}) =>
                                \E g \in about : page.content.terms \cap GoalTerms[g] # {}
                        /\ IF block[1].uncited THEN cited = {} ELSE page.goal \in cited
                        /\ \A other \in block[1].entries : other.url = page.url => other = page
      BY <2>2, <2>7 DEF Honest
    <3>1. QED
      BY <2>3, <2>6, <2>8
  <2> HIDE DEF new
  <2>10. Len(new.block) <= 1
    <3>1. new.block = block
      BY <2>7
    <3>2. Len(new.block) = 1
      BY <2>2, <3>1
    <3>3. QED
      BY <3>2
  <2>11. QED
    BY <2>7, <2>9, <2>10 DEF new
<1>3. QED
  BY <1>1, <1>2

LEMMA NoticesAdded ==
  ASSUME NEW report, IsReport(report), NEW items, NEW spent
  PROVE  /\ LET new == GroundingNotice(report, Goals, items)
            IN /\ IsReport(new) /\ new.body = report.body /\ new.kind = report.kind
               /\ new.block = report.block
               /\ new.notices \subseteq report.notices \cup {"grounding"}
         /\ LET new == TruncationNotice(report, spent)
            IN /\ IsReport(new) /\ new.body = report.body /\ new.kind = report.kind
               /\ new.block = report.block
               /\ new.notices \subseteq report.notices \cup {"truncation"}
BY DEF GroundingNotice, TruncationNotice, IsReport

\* What the passes make of a draft.
IsPassed(report, items) ==
  /\ IsReport(report) /\ Len(report.block) <= 1 /\ Honest(report, items)
  /\ report.notices \subseteq {"grounding", "truncation"}
  /\ \A i \in DOMAIN report.body : report.body[i].attached \subseteq Range(Goals)
  /\ AttachedLines(report.body) # {} => MarkedLines(report.body) \cap Upper(report.body) = {}

LEMMA Passed ==
  ASSUME NEW draft, IsReport(draft), draft.block = <<>>, draft.notices = {},
         AttachedLines(draft.body) = {}, NEW items, IsEvidence(items), NEW spent,
         NEW live \in BOOLEAN
  PROVE  LET new == RunReportPasses(draft, Goals, items, spent, live)
             settled == NormaliseForm(StripFence(draft), Goals)
         IN /\ IsPassed(new, items) /\ new.kind = draft.kind
            /\ DOMAIN new.body = DOMAIN draft.body
            /\ AttachedIn(AttachCitations(settled, Goals, items)) = AttachedIn(new)
<1> DEFINE r1 == StripFence(draft)
           r2 == NormaliseForm(r1, Goals)
           r3 == AttachCitations(r2, Goals, items)
           r4 == CleanCitations(r3, Goals, items)
           r5 == RepairGlue(r4)
           r6 == EnforceHedging(r5, items)
           r7 == WebSources(r6, Goals, items)
           r8 == IF live THEN GroundingNotice(r7, Goals, items) ELSE r7
           r9 == TruncationNotice(r8, spent)
<1>0. RunReportPasses(draft, Goals, items, spent, live) = r9
  BY DEF RunReportPasses
<1>1. Retouches(draft, r1) /\ r1.body = draft.body
  BY FenceStripped
<1> HIDE DEF r1
<1>2. Retouches(r1, r2) /\ AttachedLines(r2.body) = {}
  BY <1>1, FormNormalised DEF Retouches, Edits, SameAttached, AttachedLines
<1> HIDE DEF r2
<1>3. /\ Retouches(r2, r3) /\ Attachable(r3.body, Goals, items)
      /\ AttachedLines(r3.body) # {} => MarkedLines(r3.body) \cap Upper(r3.body) = {}
  BY <1>1, <1>2, CitationsAttachedOnce DEF Retouches
<1> HIDE DEF r3
<1>4. /\ Retouches(r3, r4) /\ SameAttached(r3.body, r4.body)
      /\ MarkedLines(r4.body) \subseteq MarkedLines(r3.body)
  BY <1>3, CitationsCleaned DEF Retouches
<1> HIDE DEF r4
<1>5. /\ Retouches(r4, r5) /\ SameAttached(r4.body, r5.body)
      /\ MarkedLines(r5.body) = MarkedLines(r4.body)
  BY <1>4, GlueRepaired DEF Retouches
<1> HIDE DEF r5
<1>6. /\ Retouches(r5, r6) /\ SameAttached(r5.body, r6.body)
      /\ MarkedLines(r6.body) = MarkedLines(r5.body)
  BY <1>5, HedgingEnforced DEF Retouches
<1> HIDE DEF r6
<1>7. /\ Upper(r4.body) = Upper(r3.body) /\ Upper(r5.body) = Upper(r4.body)
      /\ Upper(r6.body) = Upper(r5.body)
  BY <1>3, <1>4, <1>5, <1>6, SameUpper DEF Retouches, IsReport
<1>8. /\ IsReport(r6) /\ r6.block = <<>> /\ r6.notices = {} /\ r6.kind = draft.kind
      /\ DOMAIN r6.body = DOMAIN draft.body /\ DOMAIN r6.body = DOMAIN r3.body
  BY <1>1, <1>2, <1>3, <1>4, <1>5, <1>6 DEF Retouches, Edits
<1>9. /\ \A i \in DOMAIN r6.body : r6.body[i].attached = r3.body[i].attached
      /\ \A i \in DOMAIN r6.body : r6.body[i].attached \subseteq Range(Goals)
      /\ AttachedLines(r6.body) # {} => MarkedLines(r6.body) \cap Upper(r6.body) = {}
  <2>1. /\ DOMAIN r4.body = DOMAIN r3.body /\ DOMAIN r5.body = DOMAIN r4.body
        /\ DOMAIN r6.body = DOMAIN r5.body
    BY <1>4, <1>5, <1>6 DEF Retouches, Edits
  <2>2. \A i \in DOMAIN r6.body : r6.body[i].attached = r3.body[i].attached
    BY <1>4, <1>5, <1>6, <2>1 DEF SameAttached
  <2>3. AttachedLines(r6.body) = AttachedLines(r3.body)
    BY <2>1, <2>2 DEF AttachedLines
  <2>4. \A i \in DOMAIN r6.body : r6.body[i].attached \subseteq Range(Goals)
    BY <1>3, <2>1, <2>2 DEF Attachable
  <2>5. MarkedLines(r6.body) \subseteq MarkedLines(r3.body) /\ Upper(r6.body) = Upper(r3.body)
    BY <1>4, <1>5, <1>6, <1>7
  <2>6. QED
    BY <1>3, <2>2, <2>3, <2>4, <2>5
<1>10. /\ IsReport(r7) /\ r7.body = r6.body /\ r7.kind = draft.kind
       /\ r7.notices = {} /\ Len(r7.block) <= 1 /\ Honest(r7, items)
  BY <1>8, SourcesListed
<1> HIDE DEF r7
<1>11. /\ IsReport(r8) /\ r8.body = r7.body /\ r8.kind = r7.kind /\ r8.block = r7.block
       /\ r8.notices \subseteq {"grounding"}
  BY <1>10, NoticesAdded
<1> HIDE DEF r8
<1>12. /\ IsReport(r9) /\ r9.body = r8.body /\ r9.kind = r8.kind /\ r9.block = r8.block
       /\ r9.notices \subseteq r8.notices \cup {"truncation"}
  BY <1>11, NoticesAdded
<1> HIDE DEF r9
<1>13. Honest(r9, items)
  BY <1>10, <1>11, <1>12 DEF Honest
<1>14. r9.body = r6.body
  BY <1>10, <1>11, <1>12
<1>15. AttachedIn(r3) = AttachedIn(r9)
  <2>1. {i \in DOMAIN r3.body : r3.body[i].attached # {}}
          = {i \in DOMAIN r9.body : r9.body[i].attached # {}}
    BY <1>8, <1>9, <1>14
  <2>2. QED
    BY <2>1 DEF AttachedIn
<1>16. r3 = AttachCitations(NormaliseForm(StripFence(draft), Goals), Goals, items)
  BY DEF r1, r2, r3
<1>17. QED
  BY <1>0, <1>8, <1>9, <1>10, <1>11, <1>12, <1>13, <1>14, <1>15, <1>16 DEF IsPassed

-----------------------------------------------------------------------------
(* Types, and the sources of the report.                                   *)

LEMMA EvidenceGrows ==
  ASSUME NEW items, IsEvidence(items), NEW item, IsItem(item)
  PROVE  IsEvidence(Append(items, item)) /\ Range(items) \subseteq Range(Append(items, item))
<1> DEFINE more == Append(items, item)
           L == Range(items) \cup {item}
<1>1. items \in Seq(L) /\ item \in L
  BY DEF IsEvidence
<1>2. items \in Seq(Range(items)) /\ \A i \in DOMAIN items : IsItem(items[i])
  BY DEF IsEvidence
<1> HIDE DEF L
<1>3. /\ more \in Seq(L) /\ DOMAIN more = 1..(Len(items) + 1) /\ Len(items) \in Nat
      /\ DOMAIN items = 1..Len(items)
      /\ \A i \in 1..Len(items) : more[i] = items[i]
      /\ more[Len(items) + 1] = item
  BY <1>1
<1>4. \A i \in DOMAIN more : IsItem(more[i])
  BY <1>2, <1>3
<1>5. Range(items) \subseteq Range(more)
  BY <1>3 DEF Range
<1>6. more \in Seq(Range(more))
  <2>1. \A i \in DOMAIN more : more[i] \in Range(more)
    BY DEF Range
  <2> HIDE DEF more
  <2>2. QED
    BY <1>3, <2>1
<1>7. QED
  BY <1>4, <1>5, <1>6 DEF IsEvidence

LEMMA EmptyThings ==
  /\ IsEvidence(<<>>)
  /\ \A kind : /\ IsReport(NewReport(kind, <<>>)) /\ NewReport(kind, <<>>).kind = kind
               /\ NewReport(kind, <<>>).notices = {} /\ NewReport(kind, <<>>).block = <<>>
               /\ NewReport(kind, <<>>).body = <<>>
  /\ \A report, items : report.block = <<>> => Honest(report, items)
<1>1. DOMAIN <<>> = {} /\ \A S : <<>> \in Seq(S)
  OBVIOUS
<1>2. Range(<<>>) = {}
  BY DEF Range
<1>3. QED
  BY <1>1, <1>2 DEF IsEvidence, IsReport, IsBody, NewReport, Honest

\* What is true of a run besides its types.
CycleInv ==
  /\ TypeOK
  /\ IsEvidence(evidence) /\ IsReport(final_report) /\ Honest(final_report, evidence)
  /\ pc = "review" => reviews < MaxReviews
  /\ pc # "compiler" /\ ending = "none" =>
       /\ IsPassed(final_report, evidence)
       /\ last_compile = AttachedIn(final_report)
       /\ ~settings.live => final_report.body = <<>>

LEMMA CycleInit == Init => CycleInv
<1> SUFFICES ASSUME Init PROVE CycleInv
  OBVIOUS
<1>1. IsEvidence(evidence)
  BY InputAssumption, EmptyThings DEF Init, IsEvidence
<1>2. /\ final_report = NewReport("none", <<>>) /\ IsReport(final_report)
      /\ Honest(final_report, evidence)
  BY EmptyThings DEF Init
<1>3. /\ final_report.kind = "none" /\ final_report.notices = {}
      /\ final_report.block = <<>> /\ final_report.body = <<>>
  BY <1>2, EmptyThings
<1>4. TypeOK
  <2>1. Len(final_report.block) <= 1 /\ DOMAIN final_report.body = {}
    BY <1>3
  <2>2. /\ settings \in Settings /\ pc = "compiler" /\ ending \in Endings
        /\ budget \in {"none", "tokens"} /\ critique_passed = FALSE
        /\ revision_count = 0 /\ reviews = 0 /\ last_compile = 0 /\ attached = 0
        /\ opinion.by = "nobody" /\ Len(telemetry) = 0
    BY DEF Init, Nothing
  <2>3. 0 \in 0..MaxReviews
    BY CycleAssumption
  <2>4. /\ budget \in {"none", "tokens", "deadline"}
        /\ final_report.kind \in Endings \cup {"compiled"}
        /\ final_report.notices \subseteq {"grounding", "truncation"}
        /\ {last_compile, attached} \subseteq Nat
        /\ Len(telemetry) = (IF Ended THEN 1 ELSE 0)
    BY <1>3, <2>2 DEF Endings, Ended
  <2>5. /\ pc \in {"compiler", "critic", "review", "telemetry", "end"}
        /\ \A i \in DOMAIN final_report.body : final_report.body[i].attached \subseteq Range(Goals)
        /\ critique_passed \in BOOLEAN /\ revision_count \in Nat /\ reviews \in 0..MaxReviews
        /\ opinion.by \in {"nobody", "zero_citation", "verifier", "critic"}
    BY <2>1, <2>2, <2>3
  <2>6. QED
    BY <2>1, <2>2, <2>4, <2>5 DEF TypeOK
<1>5. QED
  BY <1>1, <1>2, <1>4 DEF Init, CycleInv

\* How many lines the program attached citations to.
LEMMA AttachedCount ==
  ASSUME NEW report, IsReport(report)
  PROVE  /\ AttachedIn(report) \in Nat
         /\ AttachedIn(report) > 0 <=> AttachedLines(report.body) # {}
<1>1. DOMAIN report.body = 1..Len(report.body) /\ Len(report.body) \in Nat
  BY DEF IsReport, IsBody
<1>2. IsFiniteSet(AttachedLines(report.body))
  <2>1. AttachedLines(report.body) \in SUBSET (1..Len(report.body))
    BY <1>1 DEF AttachedLines
  <2>2. IsFiniteSet(1..Len(report.body))
    <3>1. 1 \in Int /\ Len(report.body) \in Int
      BY <1>1
    <3>2. QED
      BY <3>1, FS_Interval
  <2>3. QED
    BY <2>1, <2>2, FS_Subset
<1>3. AttachedIn(report) = Cardinality(AttachedLines(report.body))
  BY DEF AttachedIn, AttachedLines
<1>4. QED
  BY <1>2, <1>3, FS_CardinalityType, FS_EmptySet

LEMMA CompileStep ==
  ASSUME CycleInv, NEW draft \in IF settings.live THEN Drafts
                                 ELSE {[body |-> StubDraft, fenced |-> FALSE]},
         CompileReport(draft)
  PROVE  CycleInv'
<1> DEFINE report == [NewReport("compiled", draft.body) EXCEPT !.fenced = draft.fenced]
<1>1. /\ IsBody(draft.body) /\ AttachedLines(draft.body) = {}
      /\ ~settings.live => draft.body = <<>>
  <2>1. CASE settings.live
    BY <2>1, DraftAssumption DEF IsDraft, IsBody, AttachedLines
  <2>2. CASE ~settings.live
    BY <2>2, EmptyThings DEF StubDraft, AttachedLines, IsReport, NewReport
  <2>3. QED
    BY <2>1, <2>2
<1>2. /\ IsReport(report) /\ report.block = <<>> /\ report.notices = {}
      /\ report.kind = "compiled" /\ report.body = draft.body
  BY <1>1 DEF NewReport, IsReport
<1>3. settings.live \in BOOLEAN /\ IsEvidence(evidence)
  BY CycleAssumption DEF CycleInv, TypeOK
<1>4. final_report' = RunReportPasses(report, Goals, evidence, budget, settings.live)
  BY DEF CompileReport
<1> HIDE DEF report
<1>5. /\ IsPassed(final_report', evidence) /\ final_report'.kind = "compiled"
      /\ DOMAIN final_report'.body = DOMAIN draft.body
      /\ last_compile' = AttachedIn(final_report')
  <2>1. last_compile' =
          AttachedIn(AttachCitations(NormaliseForm(StripFence(report), Goals), Goals, evidence))
    BY DEF CompileReport, report
  <2>2. QED
    BY <1>1, <1>2, <1>3, <1>4, <2>1, Passed
<1>6. ~settings.live => final_report'.body = <<>>
  <2>1. IsReport(final_report')
    BY <1>5 DEF IsPassed
  <2>2. QED
    BY <1>1, <1>5, <2>1 DEF IsReport, IsBody
<1>7. /\ pc = "compiler" /\ ending = "none" /\ pc' = "critic" /\ opinion' = Nothing
      /\ attached' = attached + last_compile'
      /\ budget' \in {"none", "deadline", budget}
      /\ UNCHANGED <<settings, ending, evidence, reviews, verdictVars, telemetry>>
  BY DEF CompileReport
<1>8. last_compile' \in Nat
  BY <1>5, AttachedCount DEF IsPassed
<1>9. TypeOK'
  <2>1. \A i \in DOMAIN final_report'.body :
           final_report'.body[i].attached \subseteq Range(Goals)
    BY <1>5 DEF IsPassed
  <2>2. /\ Len(final_report'.block) <= 1
        /\ final_report'.notices \subseteq {"grounding", "truncation"}
    BY <1>5 DEF IsPassed
  <2>3. QED
    BY <1>5, <1>7, <1>8, <2>1, <2>2 DEF CycleInv, TypeOK, Nothing, Ended
<1>10. QED
  BY <1>5, <1>6, <1>7, <1>9 DEF CycleInv, IsPassed

\* A verdict sends the report on, to a reviewer only while one may be asked.
LEMMA VerdictStep ==
  ASSUME CycleInv, pc = "critic", NEW passed \in BOOLEAN, NEW notes,
         NEW revision \in {revision_count, revision_count + 1},
         Judge(passed, notes, revision),
         opinion'.by \in {"nobody", "zero_citation", "verifier", "critic"}
  PROVE  CycleInv'
<1>1. /\ UNCHANGED <<settings, ending, evidence, reviews, final_report, budget,
                     last_compile, attached, telemetry>>
      /\ critique_passed' = passed /\ revision_count' = revision
      /\ pc' \in {"review", "telemetry", "compiler"}
      /\ pc' = "review" => reviews < MaxReviews
  BY DEF Judge, RaisesE4
<1>2. TypeOK'
  BY <1>1 DEF CycleInv, TypeOK, Ended
<1>3. QED
  BY <1>1, <1>2 DEF CycleInv, AttachedIn

LEMMA CycleStep == CycleInv /\ [Next]_vars => CycleInv'
<1> SUFFICES ASSUME CycleInv, [Next]_vars PROVE CycleInv'
  OBVIOUS
<1>1. CASE CompileNotice
  <2>1. /\ ending # "none" /\ ending \in Endings /\ pc = "compiler"
        /\ final_report' = NewReport(ending, <<>>) /\ pc' = "critic" /\ opinion' = Nothing
        /\ UNCHANGED <<settings, ending, evidence, reviews, verdictVars, budget,
                       last_compile, attached, telemetry>>
    BY <1>1 DEF CompileNotice, CycleInv, TypeOK
  <2>2. /\ IsReport(final_report') /\ final_report'.kind = ending
        /\ final_report'.notices = {} /\ final_report'.block = <<>>
        /\ final_report'.body = <<>> /\ Honest(final_report', evidence)
    BY <2>1, EmptyThings
  <2>3. TypeOK'
    BY <2>1, <2>2 DEF CycleInv, TypeOK, Nothing, Ended
  <2>4. QED
    BY <2>1, <2>2, <2>3 DEF CycleInv
<1>2. CASE WaveThrough
  BY <1>2, VerdictStep DEF WaveThrough, CycleInv, TypeOK
<1>3. CASE ZeroCitationGate
  BY <1>3, VerdictStep DEF ZeroCitationGate, CycleInv, TypeOK
<1>4. CASE ConfirmFigures
  <2>1. pc = "critic" /\ \E notes : /\ Judge(FALSE, notes, revision_count + 1)
                                    /\ opinion' = [by |-> "verifier", said |-> FALSE, notes |-> notes]
    BY <1>4 DEF ConfirmFigures
  <2>2. PICK notes : /\ Judge(FALSE, notes, revision_count + 1)
                     /\ opinion' = [by |-> "verifier", said |-> FALSE, notes |-> notes]
    BY <2>1
  <2>3. opinion'.by = "verifier"
    BY <2>2
  <2>4. QED
    BY <2>1, <2>2, <2>3, VerdictStep
<1>5. CASE CriticAnswers
  <2>1. pc = "critic" /\ \E passed \in BOOLEAN : \E notes, said :
          /\ Judge(passed, notes, revision_count + 1)
          /\ opinion' = [by |-> "critic", said |-> said, notes |-> notes]
    <3>1. PICK said \in BOOLEAN, violations \in Critiques :
            /\ Judge(ResolveVerdict(said, DropAffirmations(violations),
                                    PromptEvidence(evidence, Goals),
                                    OfKind(Audit, "unsupported")),
                     DropAffirmations(violations), revision_count + 1)
            /\ opinion' = [by |-> "critic", said |-> said,
                           notes |-> DropAffirmations(violations)]
      BY <1>5 DEF CriticAnswers
    <3> DEFINE passed == ResolveVerdict(said, DropAffirmations(violations),
                                        PromptEvidence(evidence, Goals),
                                        OfKind(Audit, "unsupported"))
    <3>2. passed \in BOOLEAN
      BY DEF ResolveVerdict
    <3> HIDE DEF passed
    <3>3. pc = "critic"
      BY <1>5 DEF CriticAnswers
    <3>4. QED
      BY <3>1, <3>2, <3>3 DEF passed
  <2>2. QED
    BY <2>1, VerdictStep
<1>6. CASE Ship
  <2>1. /\ pc = "review" /\ pc' = "telemetry" /\ reviews' = reviews + 1
        /\ UNCHANGED <<settings, ending, evidence, verdictVars, compileVars, telemetry, opinion>>
    BY <1>6 DEF Ship
  <2>2. TypeOK'
    BY <2>1, CycleAssumption DEF CycleInv, TypeOK, Ended
  <2>3. QED
    BY <2>1, <2>2 DEF CycleInv, AttachedIn
<1>7. ASSUME NEW item \in Later, NEW aborted \in BOOLEAN, Redirect(item, aborted)
      PROVE  CycleInv'
  <2>1. /\ pc = "review" /\ pc' = "compiler" /\ reviews' = reviews + 1
        /\ evidence' = Append(evidence, item) /\ ending' \in {"abort", ending}
        /\ UNCHANGED <<settings, verdictVars, compileVars, telemetry, opinion>>
    BY <1>7 DEF Redirect
  <2>2. IsEvidence(evidence') /\ Range(evidence) \subseteq Range(evidence')
    BY <2>1, InputAssumption, EvidenceGrows DEF CycleInv
  <2>3. Honest(final_report', evidence')
    BY <2>1, <2>2 DEF CycleInv, Honest
  <2>4. TypeOK'
    BY <2>1, CycleAssumption DEF CycleInv, TypeOK, Ended, Endings
  <2>5. QED
    BY <2>1, <2>2, <2>3, <2>4 DEF CycleInv
<1>8. ASSUME NEW judge \in {-1, 100}, NEW starved \in BOOLEAN, Record(judge, starved)
      PROVE  CycleInv'
  <2>1. /\ pc = "telemetry" /\ pc' = "end" /\ Len(telemetry') = 1
        /\ UNCHANGED <<runVars, verdictVars, compileVars, opinion>>
    BY <1>8 DEF Record
  <2>2. TypeOK'
    BY <2>1 DEF CycleInv, TypeOK, Ended
  <2>3. QED
    BY <2>1, <2>2 DEF CycleInv, AttachedIn
<1>9. CASE UNCHANGED vars
  BY <1>9 DEF CycleInv, TypeOK, Ended, AttachedIn
<1>10. QED
  BY <1>1, <1>2, <1>3, <1>4, <1>5, <1>6, <1>7, <1>8, <1>9, CompileStep DEF Next

\* The types of a run's state: see TypeOK.
THEOREM TypesHold == Spec => []TypeOK
<1>1. CycleInv => TypeOK
  BY DEF CycleInv
<1>2. QED
  BY <1>1, CycleInit, CycleStep, PTL DEF Spec

\* D-57, D-59, D-144, for any run: see SourcesAreHonest.
THEOREM HonestSources == Spec => []SourcesAreHonest
<1>1. CycleInv => SourcesAreHonest
  BY DEF CycleInv, Honest, SourcesAreHonest
<1>2. QED
  BY <1>1, CycleInit, CycleStep, PTL DEF Spec

-----------------------------------------------------------------------------
(* The confidence of a report.                                             *)

\* What scopes a line is above it.
LEMMA ScopeAbove ==
  ASSUME NEW body, NEW other, NEW i \in Nat \ {0},
         \A k \in 1..i : other[k] = body[k]
  PROVE  CitedBy(other, i) = CitedBy(body, i)
<1> DEFINE Cited(b) == {h \in 1..(i - 1) : IsHeading(b[h]) /\ b[h].marks # {}}
           Closed(b, h) == \E k \in (h + 1)..(i - 1) :
                             IsHeading(b[k]) /\ b[k].depth <= b[h].depth
           h == Max(Cited(body))
<1>1. Cited(other) = Cited(body)
  OBVIOUS
<1>2. Inline(other, i) = Inline(body, i)
  <2>1. i \in 1..i /\ (i # 1 => i - 1 \in 1..i)
    OBVIOUS
  <2>2. other[i] = body[i] /\ (i # 1 => other[i - 1] = body[i - 1])
    BY <2>1
  <2>3. QED
    BY <2>2 DEF Inline
<1>3. CASE Cited(body) = {}
  BY <1>1, <1>2, <1>3 DEF CitedBy, Scope
<1>4. CASE Cited(body) # {}
  <2>1. PICK g \in Cited(body) : \A y \in Cited(body) : y <= g
    <3>1. Cited(body) \subseteq Int /\ i \in Int /\ \A y \in Cited(body) : y <= i
      OBVIOUS
    <3> HIDE DEF Cited
    <3>2. QED
      BY <1>4, <3>1, GreatestElement
  <2>2. \A y \in Cited(body) : g >= y
    BY <2>1
  <2>3. h \in Cited(body)
    <3> HIDE DEF Cited
    <3>1. QED
      BY <2>1, <2>2 DEF Max
  <2>4. h \in 1..(i - 1)
    BY <2>3
  <2> HIDE DEF h
  <2>5. other[h] = body[h] /\ \A k \in (h + 1)..(i - 1) : other[k] = body[k]
    BY <2>4
  <2>6. Closed(other, h) <=> Closed(body, h)
    BY <2>5
  <2>7. Scope(body, i) = IF Closed(body, h) THEN {} ELSE body[h].marks
    BY <1>4 DEF Scope, h
  <2>8. Scope(other, i) = IF Closed(other, h) THEN {} ELSE other[h].marks
    BY <1>1, <1>4 DEF Scope, h
  <2>9. QED
    BY <1>2, <2>5, <2>6, <2>7, <2>8 DEF CitedBy
<1>5. QED
  BY <1>3, <1>4

\* A share of the goals counts for something or nothing, never less.
LEMMA GradeIsNatural ==
  ASSUME NEW t, t.evidenced \in Nat, t.grounded \in Nat, t.judge \in {-1, 100}
  PROVE  /\ RoundHalfEven(Graded(t)) \in Nat
         /\ t.evidenced = 0 /\ t.grounded = 0 => RoundHalfEven(Graded(t)) < 75
<1> DEFINE Share(part) == IF Goals = <<>> THEN 0 ELSE (60 * part) \div Len(Goals)
           accepted == IF t.critique_passed THEN 50 ELSE 0
           judged == IF t.judge = -1 THEN 15 ELSE (30 * t.judge) \div 100
           e == Share(t.evidenced)
           d == Share(t.grounded)
           g == Graded(t)
<1>1. g = e + d + accepted + judged
  BY DEF Graded
<1>2. ASSUME NEW part \in Nat PROVE Share(part) \in Nat /\ (part = 0 => Share(part) = 0)
  <2>1. CASE Goals = <<>>
    BY <2>1
  <2>2. CASE Goals # <<>>
    <3>1. Len(Goals) \in Nat /\ Len(Goals) > 0
      BY <2>2, InputAssumption
    <3>2. 60 * part \in Nat /\ (part = 0 => 60 * part = 0)
      OBVIOUS
    <3> DEFINE n == Len(Goals)
               a == 60 * part
    <3> HIDE DEF n, a
    <3>3. a \div n \in Nat /\ (a = 0 => a \div n = 0)
      BY <3>1, <3>2, Quotient DEF n, a
    <3>4. QED
      BY <2>2, <3>2, <3>3 DEF n, a
  <2>3. QED
    BY <2>1, <2>2
<1>3. accepted \in 0..50
  <2>1. CASE t.critique_passed
    BY <2>1
  <2>2. CASE ~t.critique_passed
    BY <2>2
  <2>3. QED
    BY <2>1, <2>2
<1>4. judged \in 0..30
  <2>1. (30 * 100) \div 100 = 30
    BY Z3
  <2>2. CASE t.judge = -1
    BY <2>2
  <2>3. CASE t.judge = 100
    BY <2>1, <2>3
  <2>4. QED
    BY <2>2, <2>3
<1>5. /\ e \in Nat /\ (t.evidenced = 0 => e = 0)
      /\ d \in Nat /\ (t.grounded = 0 => d = 0)
  BY <1>2
<1> HIDE DEF Share, accepted, judged, e, d, g
<1>6. g \in Nat /\ (t.evidenced = 0 /\ t.grounded = 0 => g <= 80)
  BY <1>1, <1>3, <1>4, <1>5
<1>7. \A n \in Nat : RoundHalfEven(n) \in Nat /\ (n <= 80 => RoundHalfEven(n) < 75)
  BY DEF RoundHalfEven
<1>8. QED
  BY <1>6, <1>7 DEF g

\* No cap lets a report be rated HIGH.
LEMMA HighIsUncapped ==
  ASSUME NEW t, t.evidenced \in Nat, t.grounded \in Nat, t.judge \in {-1, 100},
         Band(Score(t)) = "HIGH"
  PROVE  /\ Caps(t) = {}
         /\ ~ (t.evidenced = 0 /\ t.grounded = 0)
<1> DEFINE r == RoundHalfEven(Graded(t))
           all == {r} \cup Caps(t)
<1>1. r \in Nat /\ (t.evidenced = 0 /\ t.grounded = 0 => r < 75)
  BY GradeIsNatural
<1>2. \A c \in Caps(t) : c \in Nat /\ c < 75
  BY DEF Caps
<1> HIDE DEF r
<1>3. all \subseteq Nat /\ all # {}
  BY <1>1, <1>2
<1>4. PICK m \in all : \A y \in all : m <= y
  <2> HIDE DEF all
  <2>1. QED
    BY <1>3, LeastElement
<1> DEFINE least == Min(all)
<1>5. least \in all /\ \A y \in all : least <= y
  <2> HIDE DEF all
  <2>1. QED
    BY <1>4 DEF Min
<1>6. Score(t) = least
  BY DEF Score, r
<1> HIDE DEF least, all
<1>7. least \in Nat /\ least >= 75
  <2>1. least \in Nat
    BY <1>3, <1>5
  <2>2. Band(least) = "HIGH"
    BY <1>6
  <2>3. QED
    BY <2>1, <2>2 DEF Band
<1>8. \A y \in all : y >= 75
  BY <1>3, <1>5, <1>7
<1>9. r >= 75 /\ \A c \in Caps(t) : c >= 75
  BY <1>8 DEF all
<1>10. Caps(t) = {}
  <2>1. \A c \in Caps(t) : FALSE
    BY <1>2, <1>9
  <2>2. QED
    BY <2>1
<1>11. QED
  BY <1>1, <1>9, <1>10

\* The body a record looks at starts with the text the critic looked at.
LEMMA BodyIsAbove ==
  ASSUME NEW report, IsReport(report)
  PROVE  LET body == ReportBody(report)
         IN /\ DOMAIN body \subseteq DOMAIN report.body
            /\ \A i \in DOMAIN body : body[i] = report.body[i]
            /\ \A i \in Prefix(report.body) : i \in Nat \ {0} /\ 1..i \subseteq DOMAIN body
<1>1. IsBody(report.body)
  BY DEF IsReport
<1>2. \A i \in Prefix(report.body) :
         i \in Nat \ {0} /\ 1..i \subseteq Prefix(report.body)
  BY <1>1 DEF Prefix, IsBody
<1>3. Prefix(report.body) \subseteq DOMAIN report.body
  BY DEF Prefix
<1>4. /\ DOMAIN AboveLastSources(report.body) = Upper(report.body)
      /\ \A i \in Upper(report.body) : AboveLastSources(report.body)[i] = report.body[i]
      /\ Prefix(report.body) \subseteq Upper(report.body)
  BY <1>1, AboveLast
<1>5. Upper(report.body) \subseteq DOMAIN report.body
  BY DEF Upper
<1>6. ReportBody(report) = report.body \/ ReportBody(report) = AboveLastSources(report.body)
  BY DEF ReportBody
<1>7. QED
  BY <1>2, <1>3, <1>4, <1>5, <1>6

\* The goals of a run are finitely many.
LEMMA FiniteGoals ==
  ASSUME NEW S, S \subseteq Range(Goals)
  PROVE  Cardinality(S) \in Nat /\ (S = {} => Cardinality(S) = 0)
<1> DEFINE n == Len(Goals)
<1>1. n \in Nat /\ DOMAIN Goals = 1..n /\ Goals \in [1..n -> Range(Goals)]
  BY InputAssumption DEF Range
<1> HIDE DEF n
<1>2. \A y \in Range(Goals) : \E x \in 1..n : Goals[x] = y
  BY <1>1 DEF Range
<1>3. Goals \in Surjection(1..n, Range(Goals))
  BY <1>1, <1>2, Fun_IsSurj
<1>4. IsFiniteSet(1..n)
  <2>1. 1 \in Int /\ n \in Int
    BY <1>1
  <2>2. QED
    BY <2>1, FS_Interval
<1>5. IsFiniteSet(Range(Goals))
  BY <1>3, <1>4, FS_Surjection
<1>6. S \in SUBSET Range(Goals)
  OBVIOUS
<1>7. IsFiniteSet(S)
  BY <1>5, <1>6, FS_Subset
<1>8. QED
  BY <1>7, FS_CardinalityType, FS_EmptySet

\* What a record's audit leaves unsaid: a figure out of every scope is found
\* out of scope, and an audit that checked anything found a cited figure.
LEMMA AuditSees ==
  ASSUME NEW report, IsReport(report), NEW items, items # <<>>,
         NEW i \in Prefix(report.body), ~IsHeading(report.body[i]),
         report.body[i].figs # {}, CitedBy(report.body, i) = {}
  PROVE  LET body == ReportBody(report)
             audit == AuditCitedFigures(body, Goals, items)
         IN /\ audit.outside
            /\ audit.checked => \E k \in DOMAIN body : body[k].figs # {} /\ CitedBy(body, k) # {}
<1> DEFINE body == ReportBody(report)
           audit == AuditCitedFigures(body, Goals, items)
<1>1. /\ i \in Nat \ {0} /\ 1..i \subseteq DOMAIN body
      /\ \A k \in DOMAIN body : body[k] = report.body[k]
  BY BodyIsAbove
<1>2. /\ audit.checked = (Checked(body, Goals, items) # {})
      /\ audit.outside = (OutsideScope(body) # {})
  BY DEF AuditCitedFigures
<1> HIDE DEF body, audit
<1>3. \A k \in 1..i : body[k] = report.body[k]
  BY <1>1
<1>4. CitedBy(body, i) = CitedBy(report.body, i)
  BY <1>1, <1>3, ScopeAbove
<1>5. i \in OutsideScope(body)
  <2>1. i \in 1..i
    BY <1>1
  <2>2. i \in DOMAIN body /\ body[i] = report.body[i]
    BY <1>1, <2>1
  <2>3. QED
    BY <1>4, <2>2 DEF OutsideScope
<1>6. \A k \in Checked(body, Goals, items) :
         k \in DOMAIN body /\ body[k].figs # {} /\ CitedBy(body, k) # {}
  BY DEF Checked, Checkable
<1>7. QED
  BY <1>2, <1>5, <1>6 DEF body, audit

\* The prose of a report is its body up to the model's own "## Sources".
LEMMA ProseScope ==
  ASSUME NEW report, IsReport(report)
  PROVE  LET prose == Authored(report)
         IN /\ DOMAIN prose = Prefix(report.body)
            /\ \A i \in DOMAIN prose :
                 /\ prose[i] = report.body[i]
                 /\ CitedBy(prose, i) = CitedBy(report.body, i)
<1> DEFINE prose == Authored(report)
<1>1. IsBody(report.body)
  BY DEF IsReport
<1>2. /\ DOMAIN prose = Prefix(report.body)
      /\ \A i \in Prefix(report.body) : prose[i] = report.body[i]
  BY <1>1, Above DEF Authored
<1>3. \A i \in Prefix(report.body) :
         i \in Nat \ {0} /\ 1..i \subseteq Prefix(report.body)
  BY <1>1 DEF Prefix, IsBody
<1> HIDE DEF prose
<1>4. ASSUME NEW i \in Prefix(report.body)
      PROVE  CitedBy(prose, i) = CitedBy(report.body, i)
  <2>1. i \in Nat \ {0} /\ \A k \in 1..i : prose[k] = report.body[k]
    BY <1>2, <1>3
  <2>2. QED
    BY <2>1, ScopeAbove
<1>5. QED
  BY <1>2, <1>4 DEF prose

\* A record is about the report it closes.
LEMMA RecordDescribes ==
  ASSUME CycleInv, NEW judge \in {-1, 100}, NEW starved \in BOOLEAN, Record(judge, starved)
  PROVE  ConfidenceDescribesReport'
<1> DEFINE audit == IF settings.live
                    THEN AuditCitedFigures(ReportBody(final_report), Goals, evidence)
                    ELSE NotAudited
           evidenced == Cardinality(Range(Goals) \cap EvidencedGoals(evidence))
           grounded == Cardinality(GroundedGoals(Goals, evidence))
           some == evidence # <<>>
           cited == CitedGoalIdsInProse(final_report) # {}
           unsupported == OfKind(audit, "unsupported")
           t == [ending |-> ending, critique_passed |-> critique_passed,
                 evidence |-> some, evidenced |-> evidenced, grounded |-> grounded,
                 cited |-> cited, attached |-> CitationsAttached,
                 unsupported |-> unsupported,
                 checked |-> audit.checked, outside |-> audit.outside,
                 judge |-> judge, starved |-> starved, band |-> "none"]
           band == Band(Score(t))
           r == telemetry'[1]
<1>1. telemetry' = <<[t EXCEPT !.band = band]>>
  BY DEF Record
<1>2. /\ UNCHANGED <<final_report, ending, evidence, settings, last_compile>>
      /\ pc = "telemetry" /\ pc' = "end"
  BY DEF Record
<1>3. SUFFICES ASSUME ending = "none" PROVE ConfidenceDescribesReport'
  BY <1>2 DEF ConfidenceDescribesReport
<1>4. /\ IsReport(final_report) /\ last_compile = AttachedIn(final_report)
      /\ AttachedLines(final_report.body) # {} =>
           MarkedLines(final_report.body) \cap Upper(final_report.body) = {}
      /\ ~settings.live => final_report.body = <<>>
      /\ settings.live \in BOOLEAN
  BY <1>2, <1>3, CycleAssumption DEF CycleInv, IsPassed, TypeOK
<1>5. /\ evidenced \in Nat /\ (EvidencedGoals(evidence) = {} => evidenced = 0)
      /\ grounded \in Nat /\ (GroundedGoals(Goals, evidence) = {} => grounded = 0)
  BY FiniteGoals DEF GroundedGoals
<1>6. ~some => evidenced = 0 /\ grounded = 0
  <2>1. ~some => DOMAIN evidence = {}
    OBVIOUS
  <2>2. DOMAIN evidence = {} =>
          EvidencedGoals(evidence) = {} /\ GroundedGoals(Goals, evidence) = {}
    BY DEF EvidencedGoals, GroundedGoals, HasGroundedEvidence
  <2>3. QED
    BY <1>5, <2>1, <2>2
<1>7. some <=> evidence # <<>>
  OBVIOUS
<1>8. cited <=> \E i \in DOMAIN ReportBody(final_report) :
                  \/ ReportBody(final_report)[i].marks # {}
                  \/ ReportBody(final_report)[i].attached # {}
  BY DEF CitedGoalIdsInProse, CitedIn
<1>9. settings.live => audit = AuditCitedFigures(ReportBody(final_report), Goals, evidence)
  OBVIOUS
<1> HIDE DEF audit, evidenced, grounded, some, cited, unsupported
<1>10. /\ t.critique_passed = critique_passed /\ t.evidence = some
       /\ t.evidenced = evidenced /\ t.grounded = grounded /\ t.cited = cited
       /\ t.attached = last_compile /\ t.unsupported = unsupported
       /\ t.checked = audit.checked /\ t.outside = audit.outside
       /\ t.judge = judge /\ t.starved = starved
  BY DEF CitationsAttached
<1>11. DOMAIN t = {"ending", "critique_passed", "evidence", "evidenced", "grounded",
                   "cited", "attached", "unsupported", "checked", "outside", "judge",
                   "starved", "band"}
  OBVIOUS
<1> HIDE DEF t
<1>12. r = [t EXCEPT !.band = band]
  BY <1>1
<1> HIDE DEF r, band
<1>13. /\ r.critique_passed = t.critique_passed /\ r.unsupported = t.unsupported
       /\ r.starved = t.starved /\ r.attached = t.attached /\ r.band = band
  BY <1>11, <1>12
<1>14. band = "HIGH" => Caps(t) = {} /\ ~ (t.evidenced = 0 /\ t.grounded = 0)
  BY <1>5, <1>10, HighIsUncapped DEF band
<1>15. Caps(t) = {} => /\ t.critique_passed /\ ~t.starved /\ t.unsupported = {}
                       /\ ~ (t.attached > 0) /\ ~ (t.outside /\ ~t.checked)
                       /\ ~ (t.evidence /\ ~t.cited)
  BY DEF Caps
<1> DEFINE prose == Authored(final_report)
           body  == ReportBody(final_report)
           stated == {i \in DOMAIN prose : ~IsHeading(prose[i]) /\ prose[i].figs # {}}
<1>16. r.attached > 0 <=> AttachedLines(final_report.body) # {}
  <2>1. AttachedIn(final_report) > 0 <=> AttachedLines(final_report.body) # {}
    BY <1>4, AttachedCount
  <2>2. r.attached = AttachedIn(final_report)
    BY <1>4, <1>10, <1>13
  <2>3. QED
    BY <2>1, <2>2
<1>17. /\ DOMAIN prose = Prefix(final_report.body)
       /\ \A i \in DOMAIN prose : /\ prose[i] = final_report.body[i]
                                  /\ CitedBy(prose, i) = CitedBy(final_report.body, i)
  BY <1>4, ProseScope
<1>18. /\ DOMAIN body \subseteq DOMAIN final_report.body
       /\ \A i \in DOMAIN body : body[i] = final_report.body[i]
  BY <1>4, BodyIsAbove
<1>19. LET whole == final_report.body
           above == AboveLastSources(whole)
       IN /\ r.attached > 0 <=> \E i \in DOMAIN whole : whole[i].attached # {}
          /\ r.attached > 0 => \A i \in DOMAIN above : above[i].marks = {}
  <2>1. r.attached > 0 <=> \E i \in DOMAIN final_report.body : final_report.body[i].attached # {}
    BY <1>16 DEF AttachedLines
  <2>2. Upper(final_report.body) \subseteq DOMAIN final_report.body
    BY DEF Upper
  <2>3. /\ DOMAIN AboveLastSources(final_report.body) = Upper(final_report.body)
        /\ \A i \in Upper(final_report.body) :
             AboveLastSources(final_report.body)[i] = final_report.body[i]
    BY <1>4, AboveLast DEF IsReport
  <2>4. r.attached > 0 => \A i \in Upper(final_report.body) : final_report.body[i].marks = {}
    BY <1>4, <1>16, <2>2 DEF MarkedLines
  <2>5. QED
    BY <2>1, <2>3, <2>4
<1>20. ASSUME r.band = "HIGH"
       PROVE  /\ r.critique_passed /\ r.unsupported = {} /\ ~r.starved
              /\ \E i \in DOMAIN body : body[i].marks # {}
              /\ (\E i \in stated : CitedBy(prose, i) = {}) =>
                   \E i \in DOMAIN body : body[i].figs # {} /\ CitedBy(body, i) # {}
  <2>1. /\ r.critique_passed /\ r.unsupported = {} /\ ~r.starved /\ ~ (r.attached > 0)
        /\ ~ (audit.outside /\ ~audit.checked)
        /\ some => cited
        /\ ~ (evidenced = 0 /\ grounded = 0)
    BY <1>10, <1>13, <1>14, <1>15, <1>20
  <2>2. some /\ cited
    BY <1>6, <2>1
  <2>3. PICK c \in DOMAIN body : body[c].marks # {} \/ body[c].attached # {}
    BY <1>8, <2>2
  <2>4. body[c].marks # {}
    BY <1>16, <1>18, <2>1, <2>3 DEF AttachedLines
  <2>5. settings.live
    <3>1. DOMAIN final_report.body # {}
      BY <1>18, <2>3
    <3>2. final_report.body = <<>> => DOMAIN final_report.body = {}
      OBVIOUS
    <3>3. QED
      BY <1>4, <3>1, <3>2
  <2>6. ASSUME NEW i \in stated, CitedBy(prose, i) = {}
        PROVE  \E k \in DOMAIN body : body[k].figs # {} /\ CitedBy(body, k) # {}
    <3>1. i \in DOMAIN prose /\ ~IsHeading(prose[i]) /\ prose[i].figs # {}
      BY <2>6
    <3> HIDE DEF prose
    <3>2. /\ i \in Prefix(final_report.body) /\ ~IsHeading(final_report.body[i])
          /\ final_report.body[i].figs # {} /\ CitedBy(final_report.body, i) = {}
      BY <1>17, <2>6, <3>1
    <3> DEFINE heard == AuditCitedFigures(body, Goals, evidence)
    <3>3. heard.outside /\ (heard.checked =>
            \E k \in DOMAIN body : body[k].figs # {} /\ CitedBy(body, k) # {})
      BY <1>4, <1>7, <2>2, <3>2, AuditSees
    <3>4. audit = heard
      BY <1>9, <2>5
    <3>5. QED
      BY <2>1, <3>3, <3>4
  <2>7. QED
    BY <2>1, <2>4, <2>6
<1>21. final_report' = final_report
  BY <1>2
<1>22. QED
  BY <1>19, <1>20, <1>21 DEF ConfidenceDescribesReport, r

\* D-145, D-162, D-190, for any run: see ConfidenceDescribesReport.
THEOREM ConfidenceHolds == Spec => []ConfidenceDescribesReport
<1>1. Init => ConfidenceDescribesReport
  BY DEF Init, ConfidenceDescribesReport, Ended
<1>2. ASSUME CycleInv, ConfidenceDescribesReport, [Next]_vars
      PROVE  ConfidenceDescribesReport'
  <2>1. CASE UNCHANGED vars
    BY <1>2, <2>1 DEF ConfidenceDescribesReport, Ended
  <2>2. ASSUME NEW judge \in {-1, 100}, NEW starved \in BOOLEAN, Record(judge, starved)
        PROVE  ConfidenceDescribesReport'
    BY <1>2, <2>2, RecordDescribes
  <2>3. CASE pc' # "end"
    BY <2>3 DEF ConfidenceDescribesReport, Ended
  <2>4. Next => pc' # "end" \/ \E judge \in {-1, 100}, starved \in BOOLEAN : Record(judge, starved)
    BY DEF Next, CompileNotice, CompileReport, WaveThrough, ZeroCitationGate,
           ConfirmFigures, CriticAnswers, Ship, Redirect, Judge
  <2>5. QED
    BY <1>2, <2>1, <2>2, <2>3, <2>4
<1>3. QED
  BY <1>1, <1>2, CycleInit, CycleStep, PTL DEF Spec

-----------------------------------------------------------------------------
(* What a prompt carries: sums.                                            *)

LEMMA Summing ==
  ASSUME NEW n \in Nat, NEW sizes, \A k \in 1..n : sizes[k] \in Nat
  PROVE  \E up \in [0..n -> Nat] :
           /\ up[0] = 0 /\ \A k \in 1..n : up[k] = up[k - 1] + sizes[k]
           /\ Total(sizes, n) = up[n]
<1> DEFINE Sums(g) == g = [k \in 0..n |-> IF k = 0 THEN 0 ELSE g[k - 1] + sizes[k]]
           up == CHOOSE g : Sums(g)
<1>1. \E g : Sums(g)
  <2> DEFINE Step == [p \in (1..n) \X Nat |-> p[2] + sizes[p[1]]]
  <2>1. Step \in [(1..n) \X Nat -> Nat]
    OBVIOUS
  <2>2. PICK g \in [0..n -> Nat] : Follows(g, n, 0, Step)
    <3> HIDE DEF Step
    <3>1. 0 \in Nat
      OBVIOUS
    <3>2. QED
      BY <2>1, <3>1, Sequel
  <2>3. \A k \in 1..n : g[k] = g[k - 1] + sizes[k]
    <3>1. \A k \in 1..n : <<k, g[k - 1]>> \in (1..n) \X Nat
      BY <2>2
    <3>2. QED
      BY <2>2, <3>1 DEF Follows
  <2>4. Sums(g)
    BY <2>2, <2>3 DEF Follows
  <2>5. QED
    BY <2>4
<1>2. Sums(up)
  <2> HIDE DEF Sums
  <2>1. QED
    BY <1>1, Zenon
<1>3. Total(sizes, n) = up[n]
  BY DEF Total
<1> HIDE DEF up
<1>4. up[0] = 0 /\ \A k \in 1..n : up[k] = up[k - 1] + sizes[k]
  BY <1>2
<1>5. up \in [0..n -> Nat]
  <2> DEFINE P == {k \in 0..n : up[k] \in Nat}
  <2>1. 0 \in P /\ \A k \in 1..n : k - 1 \in P => k \in P
    <3>1. 0 \in P
      BY <1>4
    <3>2. ASSUME NEW k \in 1..n, k - 1 \in P PROVE k \in P
      <4>1. up[k - 1] \in Nat /\ sizes[k] \in Nat /\ up[k] = up[k - 1] + sizes[k]
        BY <1>4, <3>2
      <4>2. up[k] \in Nat
        BY <4>1
      <4>3. QED
        BY <4>2
    <3>3. QED
      BY <3>1, <3>2
  <2>2. 0..n \subseteq P
    <3> HIDE DEF P
    <3>1. QED
      BY <2>1, Steps
  <2>3. QED
    BY <1>2, <2>2
<1>6. QED
  BY <1>3, <1>4, <1>5

LEMMA TotalGrows ==
  ASSUME NEW n \in Nat, NEW a, NEW b, \A k \in 1..n : a[k] \in Nat /\ b[k] \in Nat /\ a[k] <= b[k]
  PROVE  Total(a, n) \in Nat /\ Total(b, n) \in Nat /\ Total(a, n) <= Total(b, n)
<1>1. PICK up \in [0..n -> Nat] : /\ up[0] = 0 /\ \A k \in 1..n : up[k] = up[k - 1] + a[k]
                                  /\ Total(a, n) = up[n]
  BY Summing
<1>2. PICK vp \in [0..n -> Nat] : /\ vp[0] = 0 /\ \A k \in 1..n : vp[k] = vp[k - 1] + b[k]
                                  /\ Total(b, n) = vp[n]
  BY Summing
<1> DEFINE P == {k \in 0..n : up[k] <= vp[k]}
<1>3. 0 \in P /\ \A k \in 1..n : k - 1 \in P => k \in P
  <2>1. 0 \in P
    BY <1>1, <1>2
  <2>2. ASSUME NEW k \in 1..n, k - 1 \in P PROVE k \in P
    <3>1. /\ up[k - 1] <= vp[k - 1] /\ a[k] <= b[k] /\ a[k] \in Nat /\ b[k] \in Nat
          /\ vp[k] = vp[k - 1] + b[k] /\ up[k] = up[k - 1] + a[k]
      BY <1>1, <1>2, <2>2
    <3>2. up[k - 1] \in Nat /\ vp[k - 1] \in Nat
      BY <1>1, <1>2
    <3>3. \A u, v, x, y \in Nat : u <= v /\ x <= y => u + x <= v + y
      OBVIOUS
    <3>4. up[k - 1] + a[k] <= vp[k - 1] + b[k]
      BY <3>1, <3>2, <3>3
    <3>5. QED
      BY <3>1, <3>4
  <2>3. QED
    BY <2>1, <2>2
<1>4. 0..n \subseteq P
  <2> HIDE DEF P
  <2>1. QED
    BY <1>3, Steps
<1>5. QED
  BY <1>1, <1>2, <1>4

LEMMA TotalAdds ==
  ASSUME NEW n \in Nat, NEW a, NEW b, NEW i \in 1..n, NEW c \in Nat,
         \A k \in 1..n : a[k] \in Nat, b[i] = a[i] + c, \A k \in (1..n) \ {i} : b[k] = a[k]
  PROVE  Total(b, n) = Total(a, n) + c
<1>0. \A k \in 1..n : b[k] \in Nat
  <2> SUFFICES ASSUME NEW k \in 1..n PROVE b[k] \in Nat
    OBVIOUS
  <2>1. CASE k = i
    BY <2>1
  <2>2. CASE k # i
    BY <2>2
  <2>3. QED
    BY <2>1, <2>2
<1>1. PICK up \in [0..n -> Nat] : /\ up[0] = 0 /\ \A k \in 1..n : up[k] = up[k - 1] + a[k]
                                  /\ Total(a, n) = up[n]
  BY Summing
<1>2. PICK vp \in [0..n -> Nat] : /\ vp[0] = 0 /\ \A k \in 1..n : vp[k] = vp[k - 1] + b[k]
                                  /\ Total(b, n) = vp[n]
  BY <1>0, Summing
<1> DEFINE P == {k \in 0..n : vp[k] = IF k < i THEN up[k] ELSE up[k] + c}
<1>3. 0 \in P /\ \A k \in 1..n : k - 1 \in P => k \in P
  <2>1. 0 \in P
    BY <1>1, <1>2
  <2>2. ASSUME NEW k \in 1..n, k - 1 \in P PROVE k \in P
    <3>1. vp[k - 1] = IF k - 1 < i THEN up[k - 1] ELSE up[k - 1] + c
      BY <2>2
    <3>2. vp[k] = vp[k - 1] + b[k] /\ up[k] = up[k - 1] + a[k]
      BY <1>1, <1>2
    <3>3. /\ up[k - 1] \in Nat /\ vp[k - 1] \in Nat /\ c \in Nat /\ i \in Nat /\ k \in Nat
          /\ a[k] \in Nat
      <4>1. k - 1 \in 0..n /\ k \in Nat /\ i \in Nat
        OBVIOUS
      <4>2. up[k - 1] \in Nat /\ vp[k - 1] \in Nat
        BY <4>1
      <4>3. QED
        BY <4>1, <4>2
    <3>4. b[k] = IF k = i THEN a[k] + c ELSE a[k]
      OBVIOUS
    <3>5. CASE k < i
      <4>1. vp[k - 1] = up[k - 1] /\ b[k] = a[k]
        BY <3>1, <3>3, <3>4, <3>5
      <4>2. QED
        BY <3>2, <3>5, <4>1
    <3>6. PICK u \in Nat, x \in Nat : u = up[k - 1] /\ x = a[k]
      BY <3>3
    <3>7. vp[k - 1] = (IF k - 1 < i THEN u ELSE u + c) /\ up[k] = u + x
      BY <3>1, <3>2, <3>6
    <3>8. CASE k = i
      <4>1. vp[k - 1] = u /\ b[k] = x + c
        BY <3>3, <3>4, <3>6, <3>7, <3>8
      <4>2. vp[k] = u + (x + c)
        BY <3>2, <4>1
      <4>3. QED
        BY <3>7, <3>8, <4>2
    <3>9. CASE k > i
      <4>1. vp[k - 1] = u + c /\ b[k] = x
        BY <3>3, <3>4, <3>6, <3>7, <3>9
      <4>2. vp[k] = (u + c) + x
        BY <3>2, <4>1
      <4>3. vp[k] = up[k] + c
        BY <3>7, <4>2
      <4>4. QED
        BY <3>3, <3>9, <4>3
    <3>10. QED
      BY <3>3, <3>5, <3>8, <3>9
  <2>3. QED
    BY <2>1, <2>2
<1>4. 0..n \subseteq P
  <2> HIDE DEF P
  <2>1. QED
    BY <1>3, Steps
<1>5. n \in P
  <2> HIDE DEF P
  <2>1. QED
    BY <1>4
<1>6. QED
  BY <1>1, <1>2, <1>5

LEMMA TotalNone ==
  ASSUME NEW n \in Nat, NEW a, \A k \in 1..n : a[k] = 0
  PROVE  Total(a, n) = 0
<1>0. \A k \in 1..n : a[k] \in Nat
  OBVIOUS
<1>1. PICK up \in [0..n -> Nat] : /\ up[0] = 0 /\ \A k \in 1..n : up[k] = up[k - 1] + a[k]
                                  /\ Total(a, n) = up[n]
  BY <1>0, Summing
<1> DEFINE P == {k \in 0..n : up[k] = 0}
<1>2. 0 \in P /\ \A k \in 1..n : k - 1 \in P => k \in P
  <2>1. 0 \in P
    BY <1>1
  <2>2. ASSUME NEW k \in 1..n, k - 1 \in P PROVE k \in P
    <3>1. up[k - 1] = 0 /\ up[k] = up[k - 1] + a[k] /\ a[k] = 0
      BY <1>1, <2>2
    <3>2. QED
      BY <3>1
  <2>3. QED
    BY <2>1, <2>2
<1>3. 0..n \subseteq P
  <2> HIDE DEF P
  <2>1. QED
    BY <1>2, Steps
<1>4. QED
  BY <1>1, <1>3

-----------------------------------------------------------------------------
(* What a prompt carries: the evidence.                                    *)

\* What is left of a list of evidence, by place.
IsFiltered(items) ==
  /\ \E n \in Nat : DOMAIN items \subseteq 1..n
  /\ \A i \in DOMAIN items : IsItem(items[i])

LEMMA Costs ==
  ASSUME NEW items, IsFiltered(items)
  PROVE  \E last \in Nat : /\ DOMAIN items \subseteq 1..last
                           /\ \A places : CostOf(items, places) = Total(
                                [n \in 1..last |-> IF n \in places THEN Cost(items[n]) ELSE 0], last)
<1> DEFINE S == {0} \cup DOMAIN items
           last == Max(S)
<1>1. PICK n \in Nat : DOMAIN items \subseteq 1..n
  BY DEF IsFiltered
<1>2. S \subseteq Int /\ S # {} /\ \A x \in S : x <= n
  BY <1>1
<1>3. \E x \in S : \A y \in S : y <= x
  <2>1. n \in Int
    OBVIOUS
  <2> HIDE DEF S
  <2>2. QED
    BY <1>2, <2>1, GreatestElement
<1>4. last \in S /\ \A y \in S : last >= y
  <2>1. \E x \in S : \A y \in S : x >= y
    BY <1>2, <1>3
  <2> HIDE DEF S
  <2>2. QED
    BY <2>1 DEF Max
<1>5. last \in Nat /\ DOMAIN items \subseteq 1..last
  <2>1. 0 \in S /\ DOMAIN items \subseteq S /\ S \subseteq Nat
    BY <1>1
  <2> HIDE DEF last, S
  <2>2. \A i \in DOMAIN items : i \in 1..n
    BY <1>1
  <2>3. QED
    BY <1>4, <2>1, <2>2
<1>6. \A places : CostOf(items, places) = Total(
        [k \in 1..last |-> IF k \in places THEN Cost(items[k]) ELSE 0], last)
  BY DEF CostOf
<1>7. QED
  <2> HIDE DEF last
  <2>1. QED
    BY <1>5, <1>6

LEMMA CostGrows ==
  ASSUME NEW items, IsFiltered(items), NEW A, NEW B, A \subseteq B, B \subseteq DOMAIN items
  PROVE  CostOf(items, A) \in Nat /\ CostOf(items, B) \in Nat /\ CostOf(items, A) <= CostOf(items, B)
<1>1. PICK last \in Nat : /\ DOMAIN items \subseteq 1..last
                          /\ \A places : CostOf(items, places) = Total(
                               [n \in 1..last |-> IF n \in places THEN Cost(items[n]) ELSE 0], last)
  BY Costs
<1> DEFINE a == [n \in 1..last |-> IF n \in A THEN Cost(items[n]) ELSE 0]
           b == [n \in 1..last |-> IF n \in B THEN Cost(items[n]) ELSE 0]
<1>2. \A i \in DOMAIN items : Cost(items[i]) \in Nat
  BY DEF IsFiltered, IsItem, Cost
<1>3. \A k \in 1..last : a[k] \in Nat /\ b[k] \in Nat /\ a[k] <= b[k]
  BY <1>2
<1>4. CostOf(items, A) = Total(a, last) /\ CostOf(items, B) = Total(b, last)
  BY <1>1
<1>5. QED
  <2> HIDE DEF a, b
  <2>1. QED
    BY <1>3, <1>4, TotalGrows

LEMMA CostAdds ==
  ASSUME NEW items, IsFiltered(items), NEW A, A \subseteq DOMAIN items,
         NEW i \in DOMAIN items, i \notin A
  PROVE  CostOf(items, A \cup {i}) = CostOf(items, A) + Cost(items[i])
<1>1. PICK last \in Nat : /\ DOMAIN items \subseteq 1..last
                          /\ \A places : CostOf(items, places) = Total(
                               [n \in 1..last |-> IF n \in places THEN Cost(items[n]) ELSE 0], last)
  BY Costs
<1> DEFINE a == [n \in 1..last |-> IF n \in A THEN Cost(items[n]) ELSE 0]
           b == [n \in 1..last |-> IF n \in A \cup {i} THEN Cost(items[n]) ELSE 0]
           c == Cost(items[i])
<1>2. \A j \in DOMAIN items : Cost(items[j]) \in Nat
  BY DEF IsFiltered, IsItem, Cost
<1>3. i \in 1..last /\ c \in Nat
  BY <1>1, <1>2
<1>4. /\ \A k \in 1..last : a[k] \in Nat
      /\ b[i] = a[i] + c
      /\ \A k \in (1..last) \ {i} : b[k] = a[k]
  BY <1>2, <1>3
<1>5. CostOf(items, A) = Total(a, last) /\ CostOf(items, A \cup {i}) = Total(b, last)
  BY <1>1
<1>6. QED
  <2> HIDE DEF a, b, c
  <2>1. Total(b, last) = Total(a, last) + c
    BY <1>3, <1>4, TotalAdds
  <2>2. QED
    BY <1>5, <2>1 DEF c

LEMMA CostNone ==
  ASSUME NEW items, IsFiltered(items)
  PROVE  CostOf(items, {}) = 0
<1>1. PICK last \in Nat : /\ DOMAIN items \subseteq 1..last
                          /\ \A places : CostOf(items, places) = Total(
                               [n \in 1..last |-> IF n \in places THEN Cost(items[n]) ELSE 0], last)
  BY Costs
<1> DEFINE a == [n \in 1..last |-> IF n \in {} THEN Cost(items[n]) ELSE 0]
<1>2. \A k \in 1..last : a[k] = 0
  OBVIOUS
<1>3. CostOf(items, {}) = Total(a, last)
  BY <1>1
<1>4. QED
  <2> HIDE DEF a
  <2>1. QED
    BY <1>2, <1>3, TotalNone
\* The least of some naturals.
LEMMA LeastOf ==
  ASSUME NEW S, S \subseteq Nat, S # {}
  PROVE  Min(S) \in S /\ \A y \in S : Min(S) <= y
<1>1. \E x \in S : \A y \in S : x <= y
  BY LeastElement
<1>2. QED
  BY <1>1 DEF Min

LEMMA Filtered ==
  ASSUME NEW items, IsFiltered(items)
  PROVE  /\ IsFiniteSet(DOMAIN items) /\ Cardinality(DOMAIN items) \in Nat
         /\ DOMAIN items \subseteq Nat \ {0}
         /\ \A i \in DOMAIN items :
              /\ items[i].score \in Int /\ SourceRank[items[i].source] \in Int
              /\ Cost(items[i]) \in Nat
              /\ ~items[i].recalled => items[i].goal \in Range(Goals)
<1>1. PICK n \in Nat : DOMAIN items \subseteq 1..n
  BY DEF IsFiltered
<1>2. IsFiniteSet(1..n)
  BY FS_Interval
<1>3. IsFiniteSet(DOMAIN items) /\ Cardinality(DOMAIN items) \in Nat
  BY <1>1, <1>2, AtMost
<1>4. DOMAIN items \subseteq Nat \ {0}
  BY <1>1
<1>5. \A source \in DOMAIN SourceRank : SourceRank[source] \in Int
  BY DEF SourceRank
<1>6. QED
  BY <1>3, <1>4, <1>5 DEF IsFiltered, IsItem, Cost

\* The items of one bucket are on different laps, the better ones earlier.
LEMMA LapOrder ==
  ASSUME NEW items, IsFiltered(items), NEW i \in DOMAIN items
  PROVE  /\ Lap(items, i) \in Nat
         /\ \A j \in DOMAIN items : Bucket(items[j]) = Bucket(items[i])
                                     /\ Lap(items, j) = Lap(items, i) => j = i
<1> DEFINE S == {j \in DOMAIN items : Bucket(items[j]) = Bucket(items[i])}
           Below == [c \in S |-> {j \in S : Ahead(items, j, c)}]
<1>1. \A c \in S : Lap(items, c) = Cardinality(Below[c])
  <2>1. ASSUME NEW c \in S
        PROVE  Below[c] = {j \in DOMAIN items : Bucket(items[j]) = Bucket(items[c])
                                               /\ Ahead(items, j, c)}
    OBVIOUS
  <2>2. QED
    BY <2>1 DEF Lap
<1>2. IsFiniteSet(S) /\ i \in S
  <2>1. S \subseteq DOMAIN items /\ IsFiniteSet(DOMAIN items)
    BY Filtered
  <2> HIDE DEF S
  <2>2. IsFiniteSet(S)
    BY <2>1, AtMost
  <2>3. QED
    BY <2>2 DEF S
<1>3. IsOrder(Below, S)
  <2>1. \A c \in S : /\ items[c].score \in Int /\ SourceRank[items[c].source] \in Int
                     /\ c \in Nat
    BY Filtered
  <2>2. \A c \in S : ~Ahead(items, c, c)
    BY <2>1 DEF Ahead
  <2>3. \A c, d, e \in S : Ahead(items, e, d) /\ Ahead(items, d, c) => Ahead(items, e, c)
    BY <2>1 DEF Ahead
  <2>4. \A c, d \in S : c = d \/ Ahead(items, c, d) \/ Ahead(items, d, c)
    BY <2>1 DEF Ahead
  <2> HIDE DEF S
  <2>5. QED
    BY <2>2, <2>3, <2>4 DEF IsOrder
<1>4. /\ \A c \in S : Cardinality(Below[c]) \in 0..(Cardinality(S) - 1)
      /\ \A c, d \in S : Cardinality(Below[c]) = Cardinality(Below[d]) => c = d
  <2> HIDE DEF S, Below
  <2>1. QED
    BY <1>2, <1>3, Ranks
<1>5. QED
  <2>1. Lap(items, i) \in Nat
    <3> HIDE DEF S, Below
    <3>1. Cardinality(Below[i]) \in Nat
      BY <1>2, <1>4
    <3>2. QED
      BY <1>1, <1>2, <3>1
  <2>2. ASSUME NEW j \in S, Lap(items, j) = Lap(items, i) PROVE j = i
    <3> HIDE DEF S, Below
    <3>1. QED
      BY <1>1, <1>2, <1>4, <2>2
  <2>3. QED
    BY <2>1, <2>2

\* Every bucket has a place of its own among the buckets.
LEMMA Buckets ==
  ASSUME NEW items, IsFiltered(items), NEW i \in DOMAIN items
  PROVE  /\ BucketOrder(items, Goals, i) \in Nat
         /\ \A j \in DOMAIN items :
              BucketOrder(items, Goals, j) = BucketOrder(items, Goals, i)
                => Bucket(items[j]) = Bucket(items[i])
<1> DEFINE named(k) == {n \in DOMAIN Goals : ~items[k].recalled /\ Goals[n] = items[k].goal}
           peers(k) == {j \in DOMAIN items : Bucket(items[j]) = Bucket(items[k])}
<1>1. Len(Goals) \in Nat /\ DOMAIN Goals = 1..Len(Goals)
  OBVIOUS
<1>2. ASSUME NEW k \in DOMAIN items, named(k) # {}
      PROVE  /\ BucketOrder(items, Goals, k) \in 1..Len(Goals)
             /\ Bucket(items[k]) = <<FALSE, Goals[BucketOrder(items, Goals, k)]>>
  <2>1. BucketOrder(items, Goals, k) = Min(named(k))
    BY <1>2 DEF BucketOrder
  <2>2. named(k) \subseteq Nat
    BY <1>1
  <2>3. Min(named(k)) \in named(k)
    <3> HIDE DEF named
    <3>1. QED
      BY <1>2, <2>2, LeastOf
  <2>4. QED
    BY <1>1, <2>1, <2>3 DEF Bucket
<1>3. ASSUME NEW k \in DOMAIN items, named(k) = {}
      PROVE  \E p \in DOMAIN items : /\ p \in Nat \ {0}
                                     /\ BucketOrder(items, Goals, k) = Len(Goals) + p
                                     /\ Bucket(items[p]) = Bucket(items[k])
  <2>1. BucketOrder(items, Goals, k) = Len(Goals) + Min(peers(k))
    BY <1>3 DEF BucketOrder
  <2>2. peers(k) \subseteq Nat \ {0} /\ k \in peers(k)
    BY Filtered
  <2>3. Min(peers(k)) \in peers(k)
    <3> HIDE DEF peers
    <3>1. QED
      BY <2>2, LeastOf
  <2>4. QED
    BY <2>1, <2>2, <2>3
<1>4. BucketOrder(items, Goals, i) \in Nat
  <2> HIDE DEF named
  <2>1. CASE named(i) # {}
    <3>1. BucketOrder(items, Goals, i) \in 1..Len(Goals)
      BY <1>2, <2>1
    <3>2. QED
      BY <1>1, <3>1
  <2>2. CASE named(i) = {}
    <3>1. PICK p \in DOMAIN items : /\ p \in Nat \ {0}
                                    /\ BucketOrder(items, Goals, i) = Len(Goals) + p
      BY <1>3, <2>2
    <3>2. QED
      BY <1>1, <3>1
  <2>3. QED
    BY <2>1, <2>2
<1>5. ASSUME NEW j \in DOMAIN items,
             BucketOrder(items, Goals, j) = BucketOrder(items, Goals, i)
      PROVE  Bucket(items[j]) = Bucket(items[i])
  <2> HIDE DEF named
  <2>1. CASE named(i) # {} /\ named(j) # {}
    BY <1>2, <1>5, <2>1
  <2>2. CASE named(i) = {} /\ named(j) = {}
    <3>1. PICK p \in DOMAIN items : /\ p \in Nat \ {0}
                                    /\ BucketOrder(items, Goals, i) = Len(Goals) + p
                                    /\ Bucket(items[p]) = Bucket(items[i])
      BY <1>3, <2>2
    <3>2. PICK q \in DOMAIN items : /\ q \in Nat \ {0}
                                    /\ BucketOrder(items, Goals, j) = Len(Goals) + q
                                    /\ Bucket(items[q]) = Bucket(items[j])
      BY <1>3, <2>2
    <3>3. p = q
      BY <1>1, <1>5, <3>1, <3>2
    <3>4. QED
      BY <3>1, <3>2, <3>3
  <2>3. CASE named(i) # {} /\ named(j) = {}
    <3>1. PICK p \in DOMAIN items : /\ p \in Nat \ {0}
                                    /\ BucketOrder(items, Goals, j) = Len(Goals) + p
      BY <1>3, <2>3
    <3>2. BucketOrder(items, Goals, i) \in 1..Len(Goals)
      BY <1>2, <2>3
    <3>3. QED
      BY <1>1, <1>5, <3>1, <3>2
  <2>4. CASE named(i) = {} /\ named(j) # {}
    <3>1. PICK p \in DOMAIN items : /\ p \in Nat \ {0}
                                    /\ BucketOrder(items, Goals, i) = Len(Goals) + p
      BY <1>3, <2>4
    <3>2. BucketOrder(items, Goals, j) \in 1..Len(Goals)
      BY <1>2, <2>4
    <3>3. QED
      BY <1>1, <1>5, <3>1, <3>2
  <2>5. QED
    BY <2>1, <2>2, <2>3, <2>4
<1>6. QED
  BY <1>4, <1>5

\* One item has each turn, and an earlier lap has an earlier turn.
LEMMA Turns ==
  ASSUME NEW items, IsFiltered(items)
  PROVE  LET turn == Turn(items, Goals)
         IN /\ DOMAIN turn = DOMAIN items
            /\ \A i \in DOMAIN items : turn[i] \in 0..(Cardinality(DOMAIN items) - 1)
            /\ \A i, j \in DOMAIN items : turn[i] = turn[j] => i = j
            /\ \A i, j \in DOMAIN items : turn[j] < turn[i] => Lap(items, j) <= Lap(items, i)
<1> DEFINE D == DOMAIN items
           lap == [i \in D |-> Lap(items, i)]
           bucket == [i \in D |-> BucketOrder(items, Goals, i)]
           Below == [i \in D |-> {j \in D : lap[j] < lap[i]
                                           \/ (lap[j] = lap[i] /\ bucket[j] < bucket[i])}]
           turn == Turn(items, Goals)
<1>1. DOMAIN turn = D /\ \A i \in D : turn[i] = Cardinality(Below[i])
  BY DEF Turn
<1>2. \A i \in D : lap[i] \in Nat /\ bucket[i] \in Nat
  BY LapOrder, Buckets
<1>3. \A i, j \in D : lap[i] = lap[j] /\ bucket[i] = bucket[j] => i = j
  BY LapOrder, Buckets
<1>4. IsFiniteSet(D)
  BY Filtered
<1>5. \A i \in D : lap[i] = Lap(items, i)
  OBVIOUS
<1> HIDE DEF lap, bucket, turn, D
<1>6. IsOrder(Below, D)
  BY <1>2, <1>3 DEF IsOrder
<1>7. /\ \A c \in D : Cardinality(Below[c]) \in 0..(Cardinality(D) - 1)
      /\ \A c, d \in D : d \in Below[c] <=> Cardinality(Below[d]) < Cardinality(Below[c])
      /\ \A c, d \in D : Cardinality(Below[c]) = Cardinality(Below[d]) => c = d
  <2> HIDE DEF Below
  <2>1. QED
    BY <1>4, <1>6, Ranks
<1>8. \A i, j \in D : j \in Below[i] => lap[j] <= lap[i]
  BY <1>2
<1>9. QED
  <2> HIDE DEF Below
  <2>1. QED
    BY <1>1, <1>5, <1>7, <1>8 DEF D, turn
\* The walk keeps what fits, one turn after the other.
LEMMA Walking ==
  ASSUME NEW items, IsFiltered(items)
  PROVE  LET N == Cardinality(DOMAIN items)
             turn == Turn(items, Goals)
         IN \E w \in [0..N -> SUBSET DOMAIN items] :
              /\ w[0] = {} /\ Walk(items, Goals) = w[N]
              /\ \A n \in 1..N : w[n] = w[n - 1] \cup
                   {i \in DOMAIN items :
                      turn[i] = n - 1 /\ CostOf(items, w[n - 1]) + Cost(items[i]) <= PromptMax}
<1> DEFINE N == Cardinality(DOMAIN items)
           V == SUBSET DOMAIN items
           turn == Turn(items, Goals)
           Next1(n, kept) == kept \cup
             {i \in DOMAIN turn : turn[i] = n - 1 /\ CostOf(items, kept) + Cost(items[i]) <= PromptMax}
           Walks(g) == g = [n \in 0..N |-> IF n = 0 THEN {} ELSE Next1(n, g[n - 1])]
           w == CHOOSE g : Walks(g)
<1>1. N \in Nat /\ DOMAIN turn = DOMAIN items
  BY Filtered, Turns
<1> HIDE DEF turn
<1>2. PICK g \in [0..N -> V] : Walks(g)
  <2> DEFINE Step == [p \in (1..N) \X V |-> Next1(p[1], p[2])]
  <2>1. Step \in [(1..N) \X V -> V]
    BY <1>1
  <2>2. PICK g \in [0..N -> V] : Follows(g, N, {}, Step)
    <3> HIDE DEF Step
    <3>1. {} \in V
      OBVIOUS
    <3>2. QED
      BY <1>1, <2>1, <3>1, Sequel
  <2>3. \A n \in 1..N : g[n] = Next1(n, g[n - 1])
    <3> SUFFICES ASSUME NEW n \in 1..N PROVE g[n] = Next1(n, g[n - 1])
      OBVIOUS
    <3>1. n - 1 \in 0..N
      BY <1>1
    <3>2. <<n, g[n - 1]>> \in (1..N) \X V
      BY <2>2, <3>1
    <3>3. Step[<<n, g[n - 1]>>] = Next1(n, g[n - 1])
      BY <3>2
    <3> HIDE DEF Step, Next1
    <3>4. QED
      BY <2>2, <3>3 DEF Follows
  <2>4. g[0] = {}
    BY <2>2 DEF Follows
  <2>5. Walks(g)
    <3> HIDE DEF Step, Next1, V, N
    <3>1. QED
      BY <2>2, <2>3, <2>4
  <2>6. QED
    BY <2>2, <2>5
<1>3. Walks(w)
  <2> HIDE DEF Walks
  <2>1. QED
    BY <1>2, Zenon
<1>4. Walk(items, Goals) = w[N]
  BY <1>1 DEF Walk, turn
<1> HIDE DEF w
<1>5. w[0] = {} /\ \A n \in 1..N : w[n] = Next1(n, w[n - 1])
  <2> HIDE DEF Next1, N
  <2>1. w = [n \in 0..N |-> IF n = 0 THEN {} ELSE Next1(n, w[n - 1])]
    BY <1>3
  <2> HIDE DEF Walks
  <2>2. 0 \in 0..N /\ \A n \in 1..N : n \in 0..N /\ n # 0
    BY <1>1
  <2>3. QED
    BY <2>1, <2>2, Zenon
<1>6. w \in [0..N -> V]
  <2> DEFINE P == {n \in 0..N : w[n] \in V}
  <2>1. 0 \in P
    BY <1>1, <1>5
  <2>2. ASSUME NEW n \in 1..N, n - 1 \in P PROVE n \in P
    <3>1. w[n - 1] \in V /\ w[n] = Next1(n, w[n - 1]) /\ n \in 0..N
      BY <1>1, <1>5, <2>2
    <3>2. w[n] \in V
      BY <1>1, <3>1
    <3>3. QED
      BY <3>1, <3>2
  <2>3. 0..N \subseteq P
    <3> HIDE DEF P, N
    <3>1. QED
      BY <1>1, <2>1, <2>2, Steps
  <2>4. QED
    <3> HIDE DEF N, V, Next1
    <3>1. QED
      BY <1>3, <2>3
<1>7. QED
  BY <1>1, <1>4, <1>5, <1>6 DEF turn

\* What the walk keeps fits, and an item it leaves out does not fit beside
\* what is kept of the laps up to its own.
LEMMA WalkIsFair ==
  ASSUME NEW items, IsFiltered(items)
  PROVE  /\ Walk(items, Goals) \subseteq DOMAIN items
         /\ CostOf(items, Walk(items, Goals)) <= PromptMax
         /\ \A i \in DOMAIN items \ Walk(items, Goals) :
              Cost(items[i]) + CostOf(items, {j \in Walk(items, Goals) :
                                               Lap(items, j) <= Lap(items, i)}) > PromptMax
<1> DEFINE D == DOMAIN items
           N == Cardinality(D)
           turn == Turn(items, Goals)
           Fits(kept, i) == CostOf(items, kept) + Cost(items[i]) <= PromptMax
<1>1. PICK w \in [0..N -> SUBSET D] :
        /\ w[0] = {} /\ Walk(items, Goals) = w[N]
        /\ \A n \in 1..N : w[n] = w[n - 1] \cup {i \in D : turn[i] = n - 1 /\ Fits(w[n - 1], i)}
  BY Walking
<1>2. N \in Nat /\ \A i \in D : Cost(items[i]) \in Nat
  BY Filtered
<1>3. /\ \A i \in D : turn[i] \in 0..(N - 1)
      /\ \A i, j \in D : turn[i] = turn[j] => i = j
      /\ \A i, j \in D : turn[j] < turn[i] => Lap(items, j) <= Lap(items, i)
  BY Turns
<1>4. PromptMax \in Nat
  BY PromptAssumption
<1>5. \A A \in SUBSET D : CostOf(items, A) \in Nat
  BY CostGrows
<1> HIDE DEF turn, N, Fits
<1> DEFINE P == {n \in 0..N : /\ CostOf(items, w[n]) <= PromptMax
                             /\ \A i \in w[n] : turn[i] < n}
<1>6. 0..N \subseteq P
  <2>1. 0 \in P
    <3>1. 0 \in 0..N /\ w[0] = {} /\ 0 <= PromptMax
      BY <1>1, <1>2, <1>4
    <3>2. CostOf(items, {}) = 0
      BY CostNone
    <3>3. QED
      BY <3>1, <3>2
  <2>2. ASSUME NEW n \in 1..N, n - 1 \in P PROVE n \in P
    <3>1. /\ n - 1 \in 0..N /\ n \in 0..N /\ CostOf(items, w[n - 1]) <= PromptMax
          /\ \A i \in w[n - 1] : turn[i] < n - 1
          /\ w[n] = w[n - 1] \cup {i \in D : turn[i] = n - 1 /\ Fits(w[n - 1], i)}
      BY <1>1, <1>2, <2>2
    <3>2. w[n - 1] \in SUBSET D /\ w[n] \in SUBSET D
      BY <1>1, <3>1
    <3>3. \A i \in w[n] : turn[i] < n
      BY <1>2, <1>3, <3>1, <3>2
    <3>4. CASE {i \in D : turn[i] = n - 1 /\ Fits(w[n - 1], i)} = {}
      <4>1. w[n] = w[n - 1]
        BY <3>1, <3>4
      <4>2. QED
        BY <3>1, <3>3, <4>1
    <3>5. ASSUME NEW i \in D, turn[i] = n - 1, Fits(w[n - 1], i)
          PROVE  n \in P
      <4>1. w[n] = w[n - 1] \cup {i}
        BY <1>3, <3>1, <3>5
      <4>2. i \notin w[n - 1]
        BY <1>3, <3>1, <3>5
      <4>3. CostOf(items, w[n]) = CostOf(items, w[n - 1]) + Cost(items[i])
        BY <3>2, <4>1, <4>2, CostAdds
      <4>4. CostOf(items, w[n]) <= PromptMax
        BY <3>5, <4>3 DEF Fits
      <4>5. QED
        BY <3>1, <3>3, <4>4
    <3>6. QED
      BY <3>4, <3>5
  <2>3. QED
    <3> HIDE DEF P
    <3>1. QED
      BY <1>2, <2>1, <2>2, Steps
<1>7. ASSUME NEW m \in 0..N
      PROVE  w[m] \subseteq w[N]
  <2> DEFINE Q == {n \in 0..N : m <= n => w[m] \subseteq w[n]}
  <2>1. 0 \in Q
    BY <1>2
  <2>2. ASSUME NEW n \in 1..N, n - 1 \in Q PROVE n \in Q
    <3>1. n \in 0..N /\ (m <= n - 1 => w[m] \subseteq w[n - 1]) /\ w[n - 1] \subseteq w[n]
      BY <1>1, <1>2, <2>2
    <3>2. m <= n => m <= n - 1 \/ m = n
      BY <1>2
    <3>3. QED
      BY <3>1, <3>2
  <2>3. 0..N \subseteq Q
    <3> HIDE DEF Q
    <3>1. QED
      BY <1>2, <2>1, <2>2, Steps
  <2>4. QED
    BY <1>2, <2>3
<1>8. N \in P /\ w[N] \in SUBSET D
  BY <1>1, <1>2, <1>6
<1>9. ASSUME NEW i \in D \ w[N]
      PROVE  Cost(items[i]) + CostOf(items, {j \in w[N] : Lap(items, j) <= Lap(items, i)}) > PromptMax
  <2> DEFINE t == turn[i]
             kept == {j \in w[N] : Lap(items, j) <= Lap(items, i)}
  <2>1. t \in 0..N /\ t + 1 \in 1..N /\ t + 1 \in 0..N /\ (t + 1) - 1 = t
    BY <1>2, <1>3
  <2>2. i \notin w[t + 1]
    BY <1>7, <2>1
  <2>3. ~Fits(w[t], i)
    <3>1. w[t + 1] = w[t] \cup {j \in D : turn[j] = t /\ Fits(w[t], j)}
      BY <1>1, <2>1
    <3>2. QED
      BY <2>2, <3>1
  <2>4. w[t] \subseteq kept
    <3>1. \A j \in w[t] : j \in D /\ turn[j] < t /\ j \in w[N]
      BY <1>1, <1>6, <1>7, <2>1
    <3>2. QED
      BY <1>3, <3>1
  <2>5. kept \subseteq D
    BY <1>8
  <2>6. w[t] \in SUBSET D
    BY <1>1, <2>1
  <2>7. /\ CostOf(items, w[t]) \in Nat /\ CostOf(items, kept) \in Nat
        /\ CostOf(items, w[t]) <= CostOf(items, kept)
    <3> HIDE DEF kept, t, D
    <3>1. QED
      BY <2>4, <2>5, CostGrows DEF D
  <2>8. CostOf(items, w[t]) + Cost(items[i]) > PromptMax
    BY <1>2, <1>4, <1>5, <2>3, <2>6 DEF Fits
  <2>9. QED
    <3> HIDE DEF kept, t
    <3>1. Cost(items[i]) \in Nat
      BY <1>2
    <3>2. Cost(items[i]) + CostOf(items, kept) > PromptMax
      BY <1>4, <2>7, <2>8, <3>1
    <3>3. QED
      BY <3>2 DEF kept
<1>10. QED
  BY <1>1, <1>8, <1>9

\* Finitely many whole numbers are bounded.
LEMMA Bounded ==
  ASSUME NEW n \in Nat, NEW f, \A k \in 1..n : f[k] \in Int
  PROVE  \E b \in Int : \A k \in 1..n : f[k] <= b
<1> DEFINE P == {m \in 0..n : \E b \in Int : \A k \in 1..m : f[k] <= b}
<1>1. 0 \in P
  BY DEF P
<1>2. ASSUME NEW m \in 1..n, m - 1 \in P PROVE m \in P
  <2>1. PICK b \in Int : \A k \in 1..(m - 1) : f[k] <= b
    BY <1>2
  <2>2. PICK x \in Int : x = f[m]
    OBVIOUS
  <2> DEFINE c == IF x <= b THEN b ELSE x
  <2>3. c \in Int /\ b <= c /\ x <= c
    OBVIOUS
  <2> HIDE DEF c
  <2>4. ASSUME NEW k \in 1..m PROVE f[k] <= c
    <3>1. CASE k = m
      BY <2>2, <2>3, <3>1
    <3>2. CASE k # m
      <4>1. k \in 1..(m - 1) /\ k \in 1..n
        BY <3>2
      <4>2. PICK y \in Int : y = f[k]
        BY <4>1
      <4>3. y <= b
        BY <2>1, <4>1, <4>2
      <4>4. y <= c
        BY <2>3, <4>3
      <4>5. QED
        BY <4>2, <4>4
    <3>3. QED
      BY <3>1, <3>2
  <2>5. \E d \in Int : \A k \in 1..m : f[k] <= d
    BY <2>3, <2>4, Zenon
  <2>6. m \in 0..n
    OBVIOUS
  <2>7. QED
    BY <2>5, <2>6
<1>3. 0..n \subseteq P
  <2> HIDE DEF P
  <2>1. QED
    BY <1>1, <1>2, Steps
<1>4. n \in P
  <2> HIDE DEF P
  <2>1. QED
    BY <1>3
<1>5. QED
  BY <1>4, Zenon

\* Collapsing what is identical loses no item, and no item's best score.
LEMMA DedupeKeeps ==
  ASSUME NEW items, IsEvidence(items)
  PROVE  /\ IsFiltered(DedupeEvidence(items))
         /\ \A e \in Range(items) : \E i \in DOMAIN DedupeEvidence(items) :
              /\ Identity(DedupeEvidence(items)[i]) = Identity(e)
              /\ DedupeEvidence(items)[i].score >= e.score
<1> DEFINE Same(i) == {j \in DOMAIN items : Identity(items[j]) = Identity(items[i])}
           Best(i) == {j \in Same(i) : \A k \in Same(i) : items[k].score <= items[j].score}
           kept == {n \in DOMAIN items : n = Min(Same(n))}
           new == DedupeEvidence(items)
<1>1. new = [i \in kept |-> items[Min(Best(i))]]
  BY DEF DedupeEvidence
<1>2. /\ items \in Seq(Range(items))
      /\ \A i \in DOMAIN items : IsItem(items[i]) /\ items[i].score \in Int
  BY DEF IsEvidence, IsItem
<1>3. Len(items) \in Nat /\ DOMAIN items = 1..Len(items)
  BY <1>2
<1>4. ASSUME NEW i \in DOMAIN items
      PROVE  /\ i \in Same(i) /\ Same(i) \subseteq DOMAIN items /\ Same(i) \subseteq Nat
             /\ \A j \in Same(i) : Same(j) = Same(i)
  BY <1>3
<1>5. ASSUME NEW i \in DOMAIN items PROVE Best(i) # {}
  <2> DEFINE f == [k \in 1..Len(items) |-> items[k].score]
             T == {items[k].score : k \in Same(i)}
  <2>1. \A k \in 1..Len(items) : f[k] \in Int
    BY <1>2, <1>3
  <2>2. PICK b \in Int : \A k \in 1..Len(items) : f[k] <= b
    <3> HIDE DEF f
    <3>1. QED
      BY <1>3, <2>1, Bounded
  <2>3. T \subseteq Int /\ T # {} /\ \A x \in T : x <= b
    BY <1>2, <1>3, <1>4, <2>2
  <2>4. PICK x \in T : \A y \in T : y <= x
    <3> HIDE DEF T
    <3>1. QED
      BY <2>3, GreatestElement
  <2>5. PICK k \in Same(i) : x = items[k].score
    OBVIOUS
  <2>6. k \in Best(i)
    BY <2>4, <2>5
  <2>7. QED
    BY <2>6
<1>6. ASSUME NEW i \in DOMAIN items
      PROVE  Min(Best(i)) \in Best(i) /\ Min(Same(i)) \in Same(i)
  <2>1. Best(i) \subseteq Nat /\ Best(i) # {} /\ Same(i) \subseteq Nat /\ Same(i) # {}
    BY <1>4, <1>5
  <2> HIDE DEF Best, Same
  <2>2. QED
    BY <2>1, LeastOf
<1>7. IsFiltered(new)
  <2>1. DOMAIN new \subseteq 1..Len(items)
    BY <1>1, <1>3
  <2>2. ASSUME NEW i \in DOMAIN new PROVE IsItem(new[i])
    <3>1. i \in DOMAIN items /\ new[i] = items[Min(Best(i))]
      BY <1>1, <2>2
    <3>2. Min(Best(i)) \in DOMAIN items
      BY <1>6, <3>1
    <3> HIDE DEF Best
    <3>3. QED
      BY <1>2, <3>1, <3>2
  <2> HIDE DEF new
  <2>3. QED
    BY <1>3, <2>1, <2>2 DEF IsFiltered
<1>8. ASSUME NEW e \in Range(items)
      PROVE  \E i \in DOMAIN new : Identity(new[i]) = Identity(e) /\ new[i].score >= e.score
  <2>1. PICK j \in DOMAIN items : e = items[j]
    BY DEF Range
  <2> DEFINE i == Min(Same(j))
             b == Min(Best(i))
  <2>2. i \in Same(j) /\ i \in DOMAIN items /\ Same(i) = Same(j)
    BY <1>4, <1>6
  <2>3. i \in kept
    BY <2>2
  <2>4. b \in Same(i) /\ \A k \in Same(i) : items[k].score <= items[b].score
    BY <1>6, <2>2
  <2>5. j \in Same(i) /\ b \in DOMAIN items
    BY <1>4, <2>2, <2>4
  <2>6. Identity(items[b]) = Identity(items[j])
    BY <2>2, <2>4
  <2>7. new[i] = items[b] /\ i \in DOMAIN new
    BY <1>1, <2>3
  <2>8. items[j].score \in Int /\ items[b].score \in Int /\ items[j].score <= items[b].score
    BY <1>2, <2>4, <2>5
  <2>9. QED
    <3> HIDE DEF new, Same, Best, i, b
    <3>1. items[b].score >= items[j].score
      BY <2>8
    <3>2. QED
      BY <2>1, <2>6, <2>7, <3>1
<1>9. QED
  BY <1>7, <1>8

\* The budget keeps what fits: see PromptIsFair.
LEMMA BudgetIsFair ==
  ASSUME NEW items, IsFiltered(items)
  PROVE  LET In == DOMAIN BudgetEvidence(items, Goals)
         IN /\ In \subseteq DOMAIN items
            /\ PromptMax > 0 => CostOf(items, In) <= PromptMax
            /\ \A i \in DOMAIN items \ In :
                 Cost(items[i]) + CostOf(items, {j \in In : Lap(items, j) <= Lap(items, i)}) > PromptMax
<1> DEFINE In == DOMAIN BudgetEvidence(items, Goals)
<1>1. CASE PromptMax = 0 \/ CostOf(items, DOMAIN items) <= PromptMax
  <2>1. In = DOMAIN items
    BY <1>1 DEF BudgetEvidence
  <2>2. PromptMax > 0 => CostOf(items, In) <= PromptMax
    BY <1>1, <2>1
  <2> HIDE DEF In
  <2>3. QED
    BY <2>1, <2>2 DEF In
<1>2. CASE ~ (PromptMax = 0 \/ CostOf(items, DOMAIN items) <= PromptMax)
  <2>1. In = Walk(items, Goals)
    BY <1>2 DEF BudgetEvidence, Restrict
  <2>2. QED
    BY <2>1, WalkIsFair
<1>3. QED
  BY <1>1, <1>2

-----------------------------------------------------------------------------
(* What a prompt carries: the notes.                                       *)

IsNotes(notes) ==
  \E S : notes \in Seq(S) /\ \A note \in S : note.size \in Nat

LEMMA NotesOf ==
  ASSUME NEW notes, IsNotes(notes)
  PROVE  Len(notes) \in Nat /\ \A i \in 1..Len(notes) : notes[i].size \in Nat
<1>1. PICK S : notes \in Seq(S) /\ \A note \in S : note.size \in Nat
  BY DEF IsNotes
<1>2. QED
  BY <1>1

LEMMA LastOf ==
  ASSUME NEW S, NEW v \in Seq(S), NEW m \in 0..Len(v)
  PROVE  /\ Newest(v, m) \in Seq(S) /\ Len(Newest(v, m)) = m
         /\ \A k \in 1..m : Newest(v, m)[k] = v[Len(v) - m + k]
BY DEF Newest

\* The newest of the newest are the newest.
LEMMA NewestOf ==
  ASSUME NEW notes, IsNotes(notes), NEW n \in 0..Len(notes)
  PROVE  /\ Len(Newest(notes, n)) = n
         /\ \A k \in 1..n : Newest(notes, n)[k].size \in Nat
         /\ \A m \in 0..n : Newest(Newest(notes, n), m) = Newest(notes, m)
<1>1. PICK S : notes \in Seq(S) /\ \A note \in S : note.size \in Nat
  BY DEF IsNotes
<1> DEFINE L == Len(notes)
           v == Newest(notes, n)
<1>2. L \in Nat
  BY <1>1
<1>3. v \in Seq(S) /\ Len(v) = n /\ \A k \in 1..n : v[k] = notes[L - n + k]
  BY <1>1, LastOf
<1> HIDE DEF v
<1>4. \A k \in 1..n : v[k] \in S
  BY <1>3
<1>5. ASSUME NEW m \in 0..n
      PROVE  Newest(v, m) = Newest(notes, m)
  <2> DEFINE u == Newest(v, m)
             w == Newest(notes, m)
  <2>1. m \in 0..L /\ n \in Nat /\ m \in Nat
    BY <1>2
  <2>2. w \in Seq(S) /\ Len(w) = m /\ \A k \in 1..m : w[k] = notes[L - m + k]
    BY <1>1, <2>1, LastOf
  <2>3. u \in Seq(S) /\ Len(u) = m /\ \A k \in 1..m : u[k] = v[n - m + k]
    BY <1>3, <2>1, LastOf
  <2> HIDE DEF u, w
  <2>4. ASSUME NEW k \in 1..m PROVE u[k] = w[k]
    <3>1. n - m + k \in 1..n /\ L - n + (n - m + k) = L - m + k
      BY <1>2, <2>1
    <3>2. u[k] = notes[L - m + k]
      BY <1>3, <2>3, <3>1
    <3>3. QED
      BY <2>2, <3>2
  <2>5. u = w
    BY <2>2, <2>3, <2>4
  <2>6. QED
    BY <2>5 DEF u, w
<1>6. QED
  BY <1>1, <1>3, <1>4, <1>5 DEF v

\* As many of the newest notes as fit.
LEMMA NotesBudgeted ==
  ASSUME NEW notes, IsNotes(notes)
  PROVE  \E n \in 0..Len(notes) :
           /\ BudgetNotes(notes) = Newest(notes, n) /\ Len(BudgetNotes(notes)) = n
           /\ \A m \in 0..Len(notes) : NotesFit(notes, m) => m <= n
<1> DEFINE fit == {n \in 0..Len(notes) : NotesFit(notes, n)}
           n == Max(fit)
<1>1. Len(notes) \in Nat
  BY NotesOf
<1>2. 0 \in fit
  <2>1. Total([k \in 1..0 |-> Newest(notes, 0)[k].size], 0) = 0
    <3> DEFINE a == [k \in 1..0 |-> Newest(notes, 0)[k].size]
    <3>1. \A k \in 1..0 : a[k] = 0
      OBVIOUS
    <3> HIDE DEF a
    <3>2. Total(a, 0) = 0
      BY <3>1, TotalNone
    <3>3. QED
      BY <3>2 DEF a
  <2>2. MaxNotes \in Nat /\ MaxNoteChars \in Nat
    BY PromptAssumption
  <2>3. QED
    BY <1>1, <2>1, <2>2 DEF NotesFit
<1>3. fit \subseteq Int /\ fit # {} /\ \A x \in fit : x <= Len(notes)
  BY <1>1, <1>2
<1>4. n \in fit /\ \A m \in fit : m <= n
  <2>1. \E x \in fit : \A y \in fit : y <= x
    <3>1. Len(notes) \in Int
      BY <1>1
    <3> HIDE DEF fit
    <3>2. QED
      BY <1>3, <3>1, GreatestElement
  <2>2. \E x \in fit : \A y \in fit : x >= y
    BY <1>3, <2>1
  <2>3. n \in fit /\ \A y \in fit : n >= y
    <3> HIDE DEF fit
    <3>1. QED
      BY <2>2 DEF Max
  <2> HIDE DEF n
  <2>4. QED
    BY <1>3, <2>3
<1>5. BudgetNotes(notes) = Newest(notes, n)
  BY DEF BudgetNotes
<1> HIDE DEF n
<1>6. Len(BudgetNotes(notes)) = n
  BY <1>4, <1>5, NewestOf
<1>7. QED
  BY <1>4, <1>5, <1>6

\* The newest notes that fit are carried, whatever came before them.
LEMMA NewestCarried ==
  ASSUME NEW notes, IsNotes(notes), NEW n \in 0..Len(notes),
         NEW m \in 0..n, NotesFit(Newest(notes, n), m)
  PROVE  /\ m <= Len(BudgetNotes(notes))
         /\ Newest(BudgetNotes(notes), m) = Newest(Newest(notes, n), m)
<1>1. PICK c \in 0..Len(notes) :
        /\ BudgetNotes(notes) = Newest(notes, c) /\ Len(BudgetNotes(notes)) = c
        /\ \A k \in 0..Len(notes) : NotesFit(notes, k) => k <= c
  BY NotesBudgeted
<1>2. Len(notes) \in Nat /\ m \in 0..Len(notes)
  BY NotesOf
<1>3. Newest(Newest(notes, n), m) = Newest(notes, m)
  BY NewestOf
<1>4. NotesFit(notes, m)
  BY <1>3 DEF NotesFit
<1>5. m <= c
  BY <1>1, <1>2, <1>4
<1>6. m \in 0..c
  BY <1>2, <1>5
<1>7. Newest(Newest(notes, c), m) = Newest(notes, m)
  BY <1>1, <1>6, NewestOf
<1>8. QED
  BY <1>1, <1>3, <1>5, <1>7

\* What is left of a critique's notes is a list of them.
LEMMA Dropped ==
  ASSUME NEW notes, IsNotes(notes)
  PROVE  IsNotes(DropAffirmations(notes))
<1>1. PICK S : notes \in Seq(S) /\ \A note \in S : note.size \in Nat
  BY DEF IsNotes
<1> DEFINE N == Len(notes)
           V == Seq(S)
           Next1(n, v) == IF notes[n].affirms THEN v ELSE Append(v, notes[n])
           Drops(g) == g = [n \in 0..N |-> IF n = 0 THEN <<>> ELSE Next1(n, g[n - 1])]
           kept == CHOOSE g : Drops(g)
<1>2. N \in Nat /\ <<>> \in V /\ \A n \in 1..N : notes[n] \in S
  BY <1>1
<1>3. \A n \in 1..N, v \in V : Next1(n, v) \in V
  BY <1>2
<1>4. PICK g \in [0..N -> V] : Drops(g)
  <2> DEFINE Step == [p \in (1..N) \X V |-> Next1(p[1], p[2])]
  <2> HIDE DEF V, N, Next1
  <2>1. Step \in [(1..N) \X V -> V]
    BY <1>3
  <2>2. PICK g \in [0..N -> V] : Follows(g, N, <<>>, Step)
    <3> HIDE DEF Step
    <3>1. QED
      BY <1>2, <2>1, Sequel
  <2>3. ASSUME NEW n \in 1..N PROVE g[n] = Next1(n, g[n - 1])
    <3>1. n - 1 \in 0..N
      BY <1>2
    <3>2. <<n, g[n - 1]>> \in (1..N) \X V
      BY <2>2, <3>1
    <3>3. Step[<<n, g[n - 1]>>] = Next1(n, g[n - 1])
      BY <3>2
    <3> HIDE DEF Step
    <3>4. QED
      BY <2>2, <3>3 DEF Follows
  <2>4. g[0] = <<>>
    BY <2>2 DEF Follows
  <2>5. Drops(g)
    <3> HIDE DEF Step
    <3>1. QED
      BY <2>2, <2>3, <2>4
  <2>6. QED
    BY <2>2, <2>5
<1>5. Drops(kept)
  <2> HIDE DEF Drops
  <2>1. QED
    BY <1>4, Zenon
<1>6. DropAffirmations(notes) = kept[N]
  BY DEF DropAffirmations
<1> HIDE DEF kept
<1>7. kept[0] = <<>> /\ \A n \in 1..N : kept[n] = Next1(n, kept[n - 1])
  <2> HIDE DEF Next1, N
  <2>1. QED
    BY <1>2, <1>5
<1> DEFINE P == {n \in 0..N : kept[n] \in V}
<1>8. 0..N \subseteq P
  <2> HIDE DEF V, N, Next1
  <2>1. 0 \in P
    BY <1>2, <1>7
  <2>2. \A n \in 1..N : n - 1 \in P => n \in P
    BY <1>2, <1>3, <1>7
  <2> HIDE DEF P
  <2>3. QED
    BY <1>2, <2>1, <2>2, Steps
<1>9. kept[N] \in Seq(S)
  <2>1. N \in P
    <3> HIDE DEF N, P
    <3>1. QED
      BY <1>2, <1>8
  <2>2. QED
    BY <2>1
<1>10. QED
  BY <1>1, <1>6, <1>9 DEF IsNotes

\* One note for each of finitely many figures.
LEMMA FigureNotes ==
  ASSUME NEW S, IsFiniteSet(S)
  PROVE  LET about == SetToSeq(S)
         IN IsNotes([i \in DOMAIN about |-> FigureNote(about[i])])
<1> DEFINE n == Cardinality(S)
           about == SetToSeq(S)
           T == {FigureNote(f) : f \in S}
<1>1. n \in Nat /\ ExistsBijection(1..n, S)
  BY FS_CardinalityType
<1>2. PICK b \in Bijection(1..n, S) : TRUE
  BY <1>1, Fun_ExistsBij
<1>3. b \in [1..n -> S] /\ IsInjective(b)
  BY <1>2 DEF Bijection, Injection
<1>4. about \in [1..n -> S]
  <2> HIDE DEF n
  <2>1. \E f \in [1..n -> S] : IsInjective(f)
    BY <1>3
  <2>2. QED
    BY <2>1 DEF SetToSeq, n
<1> HIDE DEF about, n
<1>5. [i \in DOMAIN about |-> FigureNote(about[i])] \in [1..n -> T]
  BY <1>4
<1>6. \A note \in T : note.size \in Nat
  BY DEF FigureNote
<1> HIDE DEF T
<1>7. [i \in DOMAIN about |-> FigureNote(about[i])] \in Seq(T)
  BY <1>1, <1>5
<1>8. QED
  BY <1>6, <1>7 DEF IsNotes, about

\* An audit finds only figures that the text states, and those are finitely
\* many.
LEMMA FiniteFindings ==
  ASSUME IsReport(final_report), NEW kind
  PROVE  IsFiniteSet(OfKind(Audit, kind))
<1> DEFINE body == Authored(final_report)
           places == DOMAIN body
           lists == {body[i].figs : i \in places}
           of == [i \in places |-> body[i].figs]
<1>1. IsBody(body)
  BY Above DEF Authored, IsReport
<1>2. IsFiniteSet(places)
  <2>1. body \in Seq(Range(body))
    BY <1>1 DEF IsBody
  <2>2. places = 1..Len(body) /\ Len(body) \in Nat
    BY <2>1
  <2>3. IsFiniteSet(1..Len(body))
    <3> HIDE DEF body
    <3>1. QED
      BY <2>2, FS_Interval
  <2>4. QED
    BY <2>2, <2>3
<1>3. \A i \in places : IsFiniteSet(body[i].figs)
  BY <1>1 DEF IsBody, IsLine
<1>4. IsFiniteSet(lists)
  <2>1. of \in [places -> lists] /\ \A x \in lists : \E i \in places : of[i] = x
    OBVIOUS
  <2> HIDE DEF of, lists, places
  <2>2. of \in Surjection(places, lists)
    BY <2>1, Fun_IsSurj
  <2>3. QED
    BY <1>2, <2>2, FS_Surjection
<1>5. IsFiniteSet(UNION lists)
  <2>1. \A x \in lists : IsFiniteSet(x)
    BY <1>3
  <2> HIDE DEF lists
  <2>2. QED
    BY <1>4, <2>1, FS_UNION
<1>6. OfKind(Audit, kind) \subseteq UNION lists
  <2> SUFFICES ASSUME NEW f \in OfKind(Audit, kind) PROVE f \in UNION lists
    OBVIOUS
  <2>1. PICK y \in Audit.findings : f = y.figure
    BY DEF OfKind
  <2>2. evidence # <<>> /\ y \in Findings(body, Goals, evidence)
    BY <2>1 DEF Audit, AuditCitedFigures
  <2>3. \E i \in places : y.figure \in body[i].figs
    <3> DEFINE Cites(i) == Checkable(body, i, Goals, evidence)
               Held(i) == UNION {FiguresUnder(evidence, g) : g \in Cites(i)}
               About(i) == {[figure |-> x, kind |-> KindOf(x, Cites(i), evidence)] :
                              x \in {z \in body[i].figs : ~Confirms(Held(i), z)}}
    <3>1. \E i \in places : y \in About(i)
      <4> HIDE DEF body
      <4>1. QED
        BY <2>2 DEF Findings
    <3>2. PICK i \in places : y \in About(i)
      BY <3>1
    <3> HIDE DEF body, Cites, Held
    <3>3. QED
      BY <3>2
  <2>4. QED
    BY <2>1, <2>3
<1>7. QED
  <2> HIDE DEF lists
  <2>1. QED
    BY <1>5, <1>6, AtMost

\* The last verdict's notes are the newest of the notes of the run.
NotesInv ==
  /\ IsNotes(critique_notes) /\ IsNotes(opinion.notes)
  /\ opinion.by # "nobody" /\ ~critique_passed =>
       /\ Len(opinion.notes) \in 0..Len(critique_notes)
       /\ Newest(critique_notes, Len(opinion.notes)) = opinion.notes

LEMMA NoNotes == IsNotes(<<>>)
<1> DEFINE S == {}
<1>1. <<>> \in Seq(S) /\ \A note \in S : note.size \in Nat
  OBVIOUS
<1> HIDE DEF S
<1>2. QED
  BY <1>1 DEF IsNotes

LEMMA NotesInit == Init => NotesInv
BY NoNotes DEF Init, NotesInv, Nothing

\* A verdict that fails is put after the ones before it.
LEMMA NotesJudged ==
  ASSUME NotesInv, NEW passed \in BOOLEAN, NEW notes, NEW revision, IsNotes(notes),
         Judge(passed, notes, revision), opinion'.notes = notes
  PROVE  NotesInv'
<1>1. critique_passed' = passed
      /\ critique_notes' = IF passed THEN critique_notes ELSE critique_notes \o notes
  BY DEF Judge
<1>2. CASE passed
  BY <1>1, <1>2 DEF NotesInv
<1>3. CASE ~passed
  <2> DEFINE all == critique_notes \o notes
             L == Len(critique_notes)
             n == Len(notes)
  <2>1. PICK S : critique_notes \in Seq(S) /\ \A note \in S : note.size \in Nat
    BY DEF NotesInv, IsNotes
  <2>2. PICK T : notes \in Seq(T) /\ \A note \in T : note.size \in Nat
    BY DEF IsNotes
  <2>3. critique_notes \in Seq(S \cup T) /\ notes \in Seq(S \cup T)
    BY <2>1, <2>2
  <2>4. /\ all \in Seq(S \cup T) /\ Len(all) = L + n /\ L \in Nat /\ n \in Nat
        /\ \A k \in 1..n : all[L + k] = notes[k]
    BY <2>3
  <2>5. IsNotes(all)
    <3>1. \A note \in S \cup T : note.size \in Nat
      BY <2>1, <2>2
    <3> HIDE DEF all
    <3>2. QED
      BY <2>4, <3>1 DEF IsNotes
  <2>6. n \in 0..Len(all)
    <3> HIDE DEF all, L, n
    <3>1. QED
      BY <2>4
  <2>7. Newest(all, n) = notes
    <3> DEFINE v == Newest(all, n)
    <3> HIDE DEF all
    <3>1. v \in Seq(S \cup T) /\ Len(v) = n /\ \A k \in 1..n : v[k] = all[Len(all) - n + k]
      BY <2>4, <2>6, LastOf
    <3>0. Len(notes) = n
      OBVIOUS
    <3> HIDE DEF v, L, n
    <3>2. ASSUME NEW k \in 1..n PROVE v[k] = notes[k]
      <4>1. Len(all) - n + k = L + k
        BY <2>4
      <4>2. QED
        BY <2>4, <3>1, <4>1
    <3>3. v = notes
      BY <2>3, <3>0, <3>1, <3>2
    <3>4. QED
      BY <3>3 DEF v
  <2>8. critique_notes' = all /\ opinion'.notes = notes
    BY <1>1, <1>3
  <2> HIDE DEF all
  <2>9. QED
    BY <2>5, <2>6, <2>7, <2>8 DEF NotesInv
<1>4. QED
  BY <1>2, <1>3

LEMMA NotesStep == CycleInv /\ NotesInv /\ [Next]_vars => NotesInv'
<1> SUFFICES ASSUME CycleInv, NotesInv, [Next]_vars PROVE NotesInv'
  OBVIOUS
<1>1. ASSUME critique_notes' = critique_notes, critique_passed' = critique_passed,
             opinion' = opinion
      PROVE  NotesInv'
  BY <1>1 DEF NotesInv
<1>2. ASSUME critique_notes' = critique_notes, opinion' = Nothing
      PROVE  NotesInv'
  BY <1>2, NoNotes DEF NotesInv, Nothing
<1>3. CASE WaveThrough
  <2>1. critique_notes' = critique_notes /\ critique_passed' = TRUE /\ opinion' = opinion
    BY <1>3 DEF WaveThrough, Judge
  <2>2. QED
    BY <2>1 DEF NotesInv
<1>4. CASE ZeroCitationGate
  <2>1. IsNotes(<<CoverageNote>>)
    <3> DEFINE S == {CoverageNote}
    <3>1. CoverageNote.size \in Nat
      BY DEF CoverageNote
    <3>2. <<CoverageNote>> \in Seq(S) /\ \A note \in S : note.size \in Nat
      BY <3>1
    <3> HIDE DEF S
    <3>3. QED
      BY <3>2 DEF IsNotes
  <2>2. Judge(FALSE, <<CoverageNote>>, revision_count + 1) /\ opinion'.notes = <<CoverageNote>>
    BY <1>4 DEF ZeroCitationGate
  <2>3. QED
    BY <2>1, <2>2, NotesJudged
<1>5. CASE ConfirmFigures
  <2>1. PICK confirmed \in SUBSET OfKind(Audit, "unsupported") :
          LET about == SetToSeq(confirmed \cup OfKind(Audit, "misattributed"))
              notes == [i \in DOMAIN about |-> FigureNote(about[i])]
          IN /\ Judge(FALSE, notes, revision_count + 1)
             /\ opinion' = [by |-> "verifier", said |-> FALSE, notes |-> notes]
    BY <1>5, Zenon DEF ConfirmFigures
  <2> DEFINE figures == confirmed \cup OfKind(Audit, "misattributed")
             about == SetToSeq(figures)
             notes == [i \in DOMAIN about |-> FigureNote(about[i])]
  <2>2. IsFiniteSet(figures)
    <3>1. IsReport(final_report)
      BY DEF CycleInv
    <3>2. IsFiniteSet(OfKind(Audit, "unsupported")) /\ IsFiniteSet(OfKind(Audit, "misattributed"))
      BY <3>1, FiniteFindings
    <3>3. IsFiniteSet(confirmed)
      BY <3>2, AtMost
    <3>4. QED
      BY <3>2, <3>3, FS_Union
  <2>3. IsNotes(notes)
    <3> HIDE DEF figures
    <3>1. QED
      BY <2>2, FigureNotes
  <2>4. Judge(FALSE, notes, revision_count + 1) /\ opinion'.notes = notes
    BY <2>1
  <2> HIDE DEF notes
  <2>5. QED
    BY <2>3, <2>4, NotesJudged
<1>6. CASE CriticAnswers
  <2>1. PICK said \in BOOLEAN, violations \in Critiques :
          /\ Judge(ResolveVerdict(said, DropAffirmations(violations),
                                  PromptEvidence(evidence, Goals),
                                  OfKind(Audit, "unsupported")),
                   DropAffirmations(violations), revision_count + 1)
          /\ opinion'.notes = DropAffirmations(violations)
    BY <1>6 DEF CriticAnswers
  <2> DEFINE passed == ResolveVerdict(said, DropAffirmations(violations),
                                      PromptEvidence(evidence, Goals),
                                      OfKind(Audit, "unsupported"))
             notes == DropAffirmations(violations)
  <2>2. passed \in BOOLEAN
    BY DEF ResolveVerdict
  <2>3. IsNotes(violations)
    <3>1. violations \in Seq(Range(violations)) /\ \A i \in DOMAIN violations : violations[i].size \in Nat
      BY InputAssumption
    <3>2. \A note \in Range(violations) : note.size \in Nat
      BY <3>1 DEF Range
    <3>3. QED
      BY <3>1, <3>2 DEF IsNotes
  <2>4. IsNotes(notes)
    BY <2>3, Dropped
  <2>5. Judge(passed, notes, revision_count + 1) /\ opinion'.notes = notes
    BY <2>1
  <2> HIDE DEF passed, notes
  <2>6. QED
    BY <2>2, <2>4, <2>5, NotesJudged
<1>7. CASE CompileNotice
  BY <1>2, <1>7 DEF CompileNotice
<1>8. ASSUME NEW draft, CompileReport(draft) PROVE NotesInv'
  BY <1>2, <1>8 DEF CompileReport
<1>9. CASE Ship
  BY <1>1, <1>9 DEF Ship
<1>10. ASSUME NEW item, NEW aborted, Redirect(item, aborted) PROVE NotesInv'
  BY <1>1, <1>10 DEF Redirect
<1>11. ASSUME NEW judge, NEW starved, Record(judge, starved) PROVE NotesInv'
  BY <1>1, <1>11 DEF Record
<1>12. CASE UNCHANGED vars
  BY <1>1, <1>12
<1>13. QED
  BY <1>3, <1>4, <1>5, <1>6, <1>7, <1>8, <1>9, <1>10, <1>11, <1>12 DEF Next

LEMMA PromptIsOf == CycleInv /\ NotesInv => PromptIsFair
<1> SUFFICES ASSUME CycleInv, NotesInv PROVE PromptIsFair
  OBVIOUS
<1> DEFINE items == DedupeEvidence(evidence)
           In == DOMAIN BudgetEvidence(items, Goals)
           Peers(i) == {j \in DOMAIN items : IF items[i].recalled THEN items[j].recalled
                          ELSE ~items[j].recalled /\ items[j].goal = items[i].goal}
           Better(i) == {j \in Peers(i) : Ahead(items, j, i)}
           First(i, j) == Cardinality(Better(i)) <= Cardinality(Better(j))
           notes == BudgetNotes(critique_notes)
<1>1. /\ IsFiltered(items)
      /\ \A e \in Range(evidence) : \E i \in DOMAIN items :
           Identity(items[i]) = Identity(e) /\ items[i].score >= e.score
  BY DedupeKeeps DEF CycleInv
<1>2. /\ In \subseteq DOMAIN items
      /\ PromptMax > 0 => CostOf(items, In) <= PromptMax
      /\ \A i \in DOMAIN items \ In :
           Cost(items[i]) + CostOf(items, {j \in In : Lap(items, j) <= Lap(items, i)}) > PromptMax
  <2> HIDE DEF items
  <2>1. QED
    BY <1>1, BudgetIsFair
<1> HIDE DEF items, In
<1>3. ASSUME NEW i \in DOMAIN items PROVE Cardinality(Better(i)) = Lap(items, i)
  <2>1. \A j \in DOMAIN items : items[j].recalled \in BOOLEAN
    BY <1>1 DEF IsFiltered, IsItem
  <2>2. \A g : <<TRUE>> # <<FALSE, g>>
    OBVIOUS
  <2>3. \A j \in DOMAIN items : j \in Peers(i) <=> Bucket(items[j]) = Bucket(items[i])
    BY <2>1, <2>2 DEF Bucket
  <2>4. Better(i) = {j \in DOMAIN items : Bucket(items[j]) = Bucket(items[i])
                                          /\ Ahead(items, j, i)}
    <3>1. Peers(i) \subseteq DOMAIN items
      OBVIOUS
    <3> HIDE DEF Peers
    <3>2. QED
      BY <2>3, <3>1
  <2> HIDE DEF Better
  <2>5. QED
    BY <2>4 DEF Lap
<1>4. ASSUME NEW i \in DOMAIN items \ In
      PROVE  Cost(items[i]) + CostOf(items, {j \in In : First(j, i)}) > PromptMax
  <2>1. {j \in In : First(j, i)} = {j \in In : Lap(items, j) <= Lap(items, i)}
    <3> HIDE DEF Better
    <3>1. QED
      BY <1>2, <1>3
  <2> HIDE DEF First
  <2>2. QED
    BY <1>2, <2>1
<1>5. ASSUME opinion.by # "nobody", ~critique_passed,
             NEW n \in 0..Len(opinion.notes), NotesFit(opinion.notes, n)
      PROVE  n <= Len(notes) /\ Newest(notes, n) = Newest(opinion.notes, n)
  <2>1. /\ IsNotes(critique_notes) /\ Len(opinion.notes) \in 0..Len(critique_notes)
        /\ Newest(critique_notes, Len(opinion.notes)) = opinion.notes
    BY <1>5 DEF NotesInv
  <2>2. QED
    BY <1>5, <2>1, NewestCarried
<1> HIDE DEF First, notes
<1>6. QED
  BY <1>1, <1>2, <1>4, <1>5 DEF PromptIsFair, items, In, Peers, Better, First, notes

\* D-131, D-138, D-142, for any run: see PromptIsFair.
THEOREM FairPrompt == Spec => []PromptIsFair
<1>1. Init => CycleInv /\ NotesInv
  BY CycleInit, NotesInit
<1>2. CycleInv /\ NotesInv /\ [Next]_vars => (CycleInv /\ NotesInv)'
  BY CycleStep, NotesStep
<1>3. QED
  BY <1>1, <1>2, PromptIsOf, PTL DEF Spec
=================================================================================
