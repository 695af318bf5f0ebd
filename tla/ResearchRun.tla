------------------------------ MODULE ResearchRun ------------------------------
(***************************************************************************)
(* What one research run promises to whoever started it (cli.py and        *)
(* api/server.py rely on nothing else): a run works, may pause for a       *)
(* reviewer a bounded number of times, and ends either failed or done, and *)
(* done only with a report.  Long-term memory is written once, by a run    *)
(* that already has a report, and nothing follows that write but the end.  *)
(* ResearchGraph is shown to implement this module.                        *)
(***************************************************************************)
EXTENDS Naturals

CONSTANT MaxReviews    \* how many times one run may ask a human, a natural number

VARIABLES
  status,      \* "running", "awaiting_review", "done" or "failed"
  reviews,     \* answered reviews
  delivered,   \* the run holds a report
  remembered   \* the run's evidence went to long-term memory

runVars == <<status, reviews, delivered, remembered>>

Init ==
  /\ status = "running"
  /\ reviews = 0
  /\ delivered = FALSE
  /\ remembered = FALSE

\* Research and writing: the only lasting trace is that a report appears.
Work ==
  /\ status = "running" /\ ~remembered
  /\ delivered' \in {delivered, TRUE}
  /\ UNCHANGED <<status, reviews, remembered>>

Remember ==
  /\ status = "running" /\ delivered /\ ~remembered
  /\ remembered' = TRUE
  /\ UNCHANGED <<status, reviews, delivered>>

AskReviewer ==
  /\ status = "running" /\ ~remembered
  /\ reviews < MaxReviews
  /\ status' = "awaiting_review"
  /\ UNCHANGED <<reviews, delivered, remembered>>

Answer ==
  /\ status = "awaiting_review"
  /\ status' = "running"
  /\ reviews' = reviews + 1
  /\ UNCHANGED <<delivered, remembered>>

Finish ==
  /\ status = "running" /\ delivered
  /\ status' = "done"
  /\ UNCHANGED <<reviews, delivered, remembered>>

Fail ==
  /\ status = "running"
  /\ status' = "failed"
  /\ UNCHANGED <<reviews, delivered, remembered>>

Next == Work \/ Remember \/ AskReviewer \/ Answer \/ Finish \/ Fail

Spec == Init /\ [][Next]_runVars
================================================================================
