------------------------------- MODULE FigureAudit -------------------------------
(***************************************************************************)
(* What a report's text cites and states: guardrails/claims.py, with       *)
(* guardrails/annotations.py and the counterweight of                      *)
(* guardrails/critique.py.                                                 *)
(*                                                                         *)
(* A report is [kind, fenced, notices, body, block].  Its body is a        *)
(* sequence of what the audit tells apart, one sentence or heading each:   *)
(*   kind    "prose", "heading", or "sources" (a line "## Sources" the     *)
(*           model wrote itself)                                           *)
(*   depth   of a heading                                                  *)
(*   ends    TRUE: it is the last of its line of text                      *)
(*   marks   the goals it cites as [gN]                                    *)
(*   loose   the goals it names in one block of another form: "(g1, g4)"   *)
(*   attached  the goal the program cites for it, behind its full stop     *)
(*   terms   its distinctive terms; none if it is too short for a claim or *)
(*           has no full stop                                              *)
(*   figs    the figures it states; denies: it says support is missing     *)
(*   soft    a hedge word stands before its figures                        *)
(*   marked  the figures that carry the "unverified" marker                *)
(*   join    what is glued to it: "none", "paste" (six words or more       *)
(*           verbatim from the evidence) or "weld" (any other sentence)    *)
(* A figure is [digits, value, half]: the characters written, what it      *)
(* denotes, and half the rounding interval its decimals claim.  A          *)
(* percentage has no value to rescale: its value is no other figure's.     *)
(***************************************************************************)
EXTENDS Integers, Sequences, FiniteSetsExt

IsLine(line) ==
  /\ DOMAIN line = {"kind", "depth", "ends", "marks", "loose", "attached", "terms",
                    "figs", "denies", "soft", "marked", "join"}
  /\ line.kind \in {"prose", "heading", "sources"} /\ line.ends \in BOOLEAN
  /\ IsFiniteSet(line.figs)

\* Where the model wrote "## Sources" of its own.
OwnHeadings(body) == {i \in DOMAIN body : body[i].kind = "sources"}

\* The part of a body above the first of them, and above the last.
AboveOwnSources(body) ==
  IF OwnHeadings(body) = {} THEN body ELSE SubSeq(body, 1, Min(OwnHeadings(body)) - 1)

AboveLastSources(body) ==
  IF OwnHeadings(body) = {} THEN body ELSE SubSeq(body, 1, Max(OwnHeadings(body)) - 1)

\* report_body cuts at the last "## Sources" only, which is the program's
\* when it has appended one.
ReportBody(report) ==
  IF report.block # <<>> THEN report.body ELSE AboveLastSources(report.body)

\* strip_machine_annotations cuts at the first.
Authored(report) == AboveOwnSources(report.body)

CitedIn(body) == UNION {body[i].marks \cup body[i].attached : i \in DOMAIN body}

CitedGoalIdsInProse(report) == CitedIn(ReportBody(report))

IsHeading(line) == line.kind # "prose"

\* A heading's citations cover the prose beneath it, until a heading that
\* cites for itself or is no deeper.
Scope(body, i) ==
  LET cited == {h \in 1..(i - 1) : IsHeading(body[h]) /\ body[h].marks # {}}
      Closed(h) == \E k \in (h + 1)..(i - 1) :
                     IsHeading(body[k]) /\ body[k].depth <= body[h].depth
  IN IF cited = {} \/ Closed(Max(cited)) THEN {} ELSE body[Max(cited)].marks

\* A sentence is split off behind its full stop, so what the program attached
\* there is read with the next sentence of the line; after the last one it
\* stands alone and settles nothing.
Inline(body, i) ==
  body[i].marks \cup (IF i = 1 \/ body[i - 1].ends THEN {} ELSE body[i - 1].attached)

CitedBy(body, i) == IF Inline(body, i) # {} THEN Inline(body, i) ELSE Scope(body, i)

\* Exact text first, then a value inside what the figure's own decimals claim.
Confirms(figures, f) ==
  \E g \in figures :
    g.digits = f.digits \/ (f.value - f.half <= g.value /\ g.value <= f.value + f.half)

FiguresUnder(evidence, goal) ==
  UNION {evidence[i].content.figs :
           i \in {j \in DOMAIN evidence : ~evidence[j].recalled /\ evidence[j].goal = goal}}

RecalledFigures(evidence) ==
  UNION {evidence[i].content.figs : i \in {j \in DOMAIN evidence : evidence[j].recalled}}

EvidencedGoals(evidence) ==
  {evidence[i].goal : i \in {j \in DOMAIN evidence : ~evidence[j].recalled}}

\* Only goals that exist and retrieved something settle a figure.
Checkable(body, i, goals, evidence) ==
  CitedBy(body, i) \cap Range(goals) \cap EvidencedGoals(evidence)

\* Why no evidence under the goals a sentence cites holds its figure.
KindOf(f, checkable, evidence) ==
  IF \E g \in EvidencedGoals(evidence) \ checkable : Confirms(FiguresUnder(evidence, g), f)
  THEN "misattributed"
  ELSE IF Confirms(RecalledFigures(evidence), f) THEN "recalled" ELSE "unsupported"

Findings(body, goals, evidence) ==
  LET Cites(i) == Checkable(body, i, goals, evidence)
      audited == {i \in DOMAIN body : ~IsHeading(body[i]) /\ ~body[i].denies /\ Cites(i) # {}}
      Held(i) == UNION {FiguresUnder(evidence, g) : g \in Cites(i)}
  IN UNION {{[figure |-> f, kind |-> KindOf(f, Cites(i), evidence)] :
               f \in {x \in body[i].figs : ~Confirms(Held(i), x)}} : i \in audited}

Checked(body, goals, evidence) ==
  {i \in DOMAIN body : /\ ~IsHeading(body[i]) /\ body[i].figs # {} /\ ~body[i].denies
                       /\ Checkable(body, i, goals, evidence) # {}}

OutsideScope(body) ==
  {i \in DOMAIN body : ~IsHeading(body[i]) /\ body[i].figs # {} /\ CitedBy(body, i) = {}}

\* audit_cited_figures: nothing to audit without evidence.
AuditCitedFigures(body, goals, evidence) ==
  IF evidence = <<>>
  THEN [findings |-> {}, checked |-> FALSE, outside |-> FALSE]
  ELSE [findings |-> Findings(body, goals, evidence),
        checked  |-> Checked(body, goals, evidence) # {},
        outside  |-> OutsideScope(body) # {}]

OfKind(audit, kind) == {x.figure : x \in {y \in audit.findings : y.kind = kind}}

-----------------------------------------------------------------------------
(* The counterweight to the critic (D-155).  A note is [figs, affirms,     *)
(* size]: the figures it disputes, and whether it says a claim is fine.    *)

\* One run of characters occurs in another, inside a longer number too.
OccursIn(part, whole) ==
  \E n \in 0..(Len(whole) - Len(part)) : SubSeq(whole, n + 1, n + Len(part)) = part

\* The evidence refutes a note when its text holds every figure the note names.
FalsifiedByEvidence(note, evidence) ==
  /\ note.figs # {}
  /\ \A f \in note.figs : \E i \in DOMAIN evidence :
       \E g \in evidence[i].content.figs : OccursIn(f.digits, g.digits)

DropAffirmations(notes) ==
  LET kept[n \in 0..Len(notes)] ==
        IF n = 0 THEN <<>>
        ELSE IF notes[n].affirms THEN kept[n - 1] ELSE Append(kept[n - 1], notes[n])
  IN kept[Len(notes)]

\* Mutant: one refuted note is enough.
AnyRefuted(passed, notes, evidence, unsupported) ==
  passed \/ /\ unsupported = {}
            /\ \E i \in DOMAIN notes : FalsifiedByEvidence(notes[i], evidence)

\* A failure stands unless every note is refuted and the audit was clean.
ResolveVerdict(passed, notes, evidence, unsupported) ==
  passed \/ /\ notes # <<>> /\ unsupported = {}
            /\ \A i \in DOMAIN notes : FalsifiedByEvidence(notes[i], evidence)
=================================================================================
