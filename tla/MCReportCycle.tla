----------------------------- MODULE MCReportCycle -----------------------------
(***************************************************************************)
(* Instance of ReportCycle for TLC: two goals, and a handful of drafts,    *)
(* evidence and critiques chosen so that every pass has work to do, alone  *)
(* and against the others.                                                 *)
(***************************************************************************)
EXTENDS ReportCycle, TLC

TwoGoals == <<"g1", "g2">>
TermsOfGoals == ("g1" :> {"armies", "china"}) @@ ("g2" :> {"armies", "india"})

\* The same quantity in full and rounded, a figure nobody holds but for a
\* longer one that contains its characters, and one the model tier invented.
Exact    == [digits |-> <<2, 0, 3>>, value |-> 203, half |-> 0]
Rounded  == [digits |-> <<2>>, value |-> 200, half |-> 5]
Invented == [digits |-> <<0, 3>>, value |-> 3, half |-> 0]
Flagged  == [digits |-> <<7>>, value |-> 7, half |-> 0]

Text(terms, figs, flagged, size) ==
  [terms |-> terms, figs |-> figs, flagged |-> flagged, size |-> size]
Item(goal, source, score, url, content) ==
  [goal |-> goal, recalled |-> FALSE, source |-> source, score |-> score,
   url |-> url, content |-> content]
Recalled(goal, content) ==
  [goal |-> goal, recalled |-> TRUE, source |-> "memory", score |-> 9,
   url |-> "none", content |-> content]

Chinese == Text({"armies", "china", "troops"}, {Exact}, NoFigure, 1)
Indian  == Text({"armies", "india", "border"}, {Flagged}, Flagged, 1)
OffTopic == Text({"redis"}, {}, NoFigure, 5)
Old     == Text({"armies", "china"}, {Invented}, NoFigure, 1)

Doc1  == Item("g1", "corpus", 8, "none", Chinese)
Doc1b == Item("g1", "mcp", 5, "none", Old)
Web1  == Item("g1", "web", 6, "page", Chinese)
Web2  == Item("g2", "web", 7, "page", Indian)
Redis == Item("g1", "web", 7, "other", OffTopic)
Model == Item("g2", "model", 6, "none", Indian)
Mem1  == Recalled("g1", Old)
Mem2  == Recalled("g2", Indian)
Mem3  == Recalled("g3", OffTopic)
Mem4  == Recalled("g4", Chinese)

SomeGathered == {<<>>, <<Doc1, Web1>>, <<Doc1, Doc1b, Web2, Model, Redis>>,
                 <<Web1, Redis, Mem1, Mem2>>, <<Doc1, Doc1, Doc1b, Mem1, Mem2, Mem3, Mem4>>}
SomeLater == {Web2, Item("g2", "corpus", 8, "none", Indian)}

Line(kind, depth, marks, terms, figs) ==
  [kind |-> kind, depth |-> depth, ends |-> TRUE, marks |-> marks, loose |-> {},
   attached |-> {}, terms |-> terms, figs |-> figs, denies |-> FALSE, soft |-> FALSE,
   marked |-> {}, join |-> "none"]
Prose(marks, figs) == Line("prose", 0, marks, {"armies", "china"}, figs)

Bare     == Prose({}, {Rounded})
Plain    == Line("prose", 0, {}, {"armies"}, {Invented})
Cited    == Prose({"g1"}, {Rounded})
Said     == Prose({"g1"}, {})
Misfiled == [Prose({"g2"}, {Exact}) EXCEPT !.join = "paste"]
Made     == Prose({"g1"}, {Invented})
Denied   == [Prose({"g1"}, {Invented}) EXCEPT !.denies = TRUE]
Loose    == [Prose({}, {Flagged}) EXCEPT !.loose = {"g1", "g9"}, !.join = "weld"]
Nowhere  == Prose({"g9"}, {Invented})
Section(marks) == Line("heading", 1, marks, {}, {})
OwnBlock == Line("sources", 2, {}, {}, {})

\* The same sentence with another behind it on its line of text.
Before(line) == [line EXCEPT !.ends = FALSE]

Draft(body) == [body |-> body, fenced |-> FALSE]
SomeDrafts == {Draft(<<Bare>>), Draft(<<Plain>>), Draft(<<Cited, Plain>>), Draft(<<Said, Plain>>),
               Draft(<<Misfiled>>), Draft(<<Section({"g1"}), Bare, Section({}), Plain>>),
               Draft(<<Made, Denied>>), [body |-> <<Loose>>, fenced |-> TRUE],
               Draft(<<Nowhere>>), Draft(<<Cited, OwnBlock, Made>>),
               Draft(<<Plain, OwnBlock, Cited>>), Draft(<<Before(Bare), Plain>>),
               Draft(<<Plain, OwnBlock, Bare, OwnBlock, Made>>)}

Note(figs) == [figs |-> figs, affirms |-> FALSE, size |-> 1]
Fine == [figs |-> {Exact}, affirms |-> TRUE, size |-> 1]
SomeCritiques == {<<>>, <<Note({Exact}), Fine>>, <<Note({Invented}), Note({})>>,
                  <<Note({Rounded, Exact})>>}

Mode(live, verify, hitl) == [live |-> live, verify |-> verify, hitl |-> hitl]
SomeSettings == {Mode(TRUE, TRUE, TRUE), Mode(TRUE, FALSE, FALSE), Mode(FALSE, FALSE, TRUE)}
=================================================================================
