------------------------ MODULE ResearchSessions_proofs ------------------------
(***************************************************************************)
(* Proofs about ResearchSessions, for any requests, threads and bounds.    *)
(***************************************************************************)
EXTENDS ResearchSessions, TLAPS

USE SessionsAssumption

-----------------------------------------------------------------------------
(* A step of one request at work on a thread.                              *)

\* What every such step leaves alone.
Frame(r) ==
  LET k == where[r] IN
  /\ Active(r) /\ phase'[r] \notin {"new", "checked"}
  /\ where' = where
  /\ unguarded \subseteq unguarded' /\ unguarded' \subseteq unguarded \cup {k}
  /\ \A q \in Requests \ {r} :
       /\ phase'[q] = phase[q] /\ copy'[q] = copy[q]
       /\ rows'[q] = rows[q] /\ answer'[q] = answer[q]
  /\ \A j \in Places \ {k} : saved'[j] = saved[j] /\ told'[j] = told[j]

\* What it does to the thread: the queries it saves are its own or those it
\* loaded; alone on the thread it keeps the run it found, or starts its own,
\* and leaves a finished one as it is.
Work(r) ==
  LET k == where[r] IN
  /\ \A q \in copy'[r].runs \cup saved'[k].runs :
       q = r \/ q \in copy[r].runs \/ q \in saved[k].runs
  /\ k \notin unguarded' =>
       /\ \/ saved'[k].runs = saved[k].runs
          \/ phase[r] = "checked" /\ saved'[k].runs = {r}
       /\ saved[k].next = "end" => saved'[k] = saved[k]
       /\ told'[k] = "interrupted" => saved'[k].next = "review"
       /\ told'[k] = "done" => saved'[k].next = "end"

\* What holds of the request and its thread afterwards.
After(r) ==
  /\ PlaceOK(where[r])' /\ RequestOK(r)'
  /\ RowMatchesAnswer(r)' /\ DoneRowIsFinal(r)'
  /\ where[r] \notin unguarded' /\ Active(r)' => Knows(r)'

\* A request in flight is at work on a thread.
LEMMA ActivePlace ==
  ASSUME SessionsInv, NEW r \in Requests, Active(r)
  PROVE  where[r] \in Places
  BY DEF SessionsInv, RequestOK

\* A step of one request that obeys these three keeps the whole invariant.
LEMMA OwnStep ==
  ASSUME SessionsInv, TypeOK', NEW r \in Requests, Frame(r), Work(r), After(r)
  PROVE  SessionsInv'
<1> DEFINE k == where[r]
<1>0. k \in Places /\ Active(r)
  BY ActivePlace DEF Frame
<1>a. \A j \in Places \ {k} : saved'[j] = saved[j] /\ told'[j] = told[j]
  BY DEF Frame
<1>b. \A q \in Requests \ {r} :
        /\ phase'[q] = phase[q] /\ copy'[q] = copy[q]
        /\ rows'[q] = rows[q] /\ answer'[q] = answer[q]
  BY DEF Frame
<1>c. /\ where' = where /\ unguarded \subseteq unguarded'
      /\ \A j \in Places \ {k} : j \notin unguarded' => j \notin unguarded
  BY DEF Frame
<1>d. k \notin unguarded' => Alone(r) /\ Knows(r)
  BY <1>0, <1>c DEF SessionsInv, SoloOK
<1>1. OneRunPerThread'
  <2>1. SUFFICES ASSUME NEW j \in Places, j \notin unguarded'
                 PROVE  \A p, q \in saved'[j].runs : p = q
    BY <1>c DEF OneRunPerThread
  <2>2. CASE j = k
    BY <2>1, <2>2, <1>0, <1>c DEF Work, SessionsInv, OneRunPerThread
  <2>3. CASE j # k
    BY <2>1, <2>3, <1>a, <1>c DEF SessionsInv, OneRunPerThread
  <2>4. QED
    BY <2>2, <2>3
<1>2. AnswersAreTrue'
  <2>1. SUFFICES ASSUME NEW j \in Places, j \notin unguarded'
                 PROVE  /\ told'[j] = "interrupted" => saved'[j].next = "review"
                        /\ told'[j] = "done" => saved'[j].next = "end"
    BY <1>c DEF AnswersAreTrue
  <2>2. CASE j = k
    BY <2>1, <2>2 DEF Work
  <2>3. CASE j # k
    BY <2>1, <2>3, <1>a, <1>c DEF SessionsInv, AnswersAreTrue
  <2>4. QED
    BY <2>2, <2>3
<1>3. ASSUME NEW q \in Requests
      PROVE  DoneRowIsFinal(q)'
  <2>1. CASE q = r
    BY <2>1 DEF After
  <2>2. CASE q # r
    <3>1. DoneRowIsFinal(q)
      BY DEF SessionsInv, DoneRowsAreFinal
    <3>2. rows'[q] = rows[q] /\ copy'[q] = copy[q]
      BY <2>2, <1>b
    <3>3. CASE where[q] # k
      <4>1. rows[q] # <<>> => where[q] \in Places
        BY DEF SessionsInv, RequestOK
      <4>2. rows[q] = <<"done">> => rows[q] # <<>>
        OBVIOUS
      <4>3. QED
        BY <3>1, <3>2, <3>3, <4>1, <4>2, <1>a, <1>c DEF DoneRowIsFinal
    <3>4. CASE where[q] = k
      <4>1. SUFFICES ASSUME rows[q] = <<"done">>, k \notin unguarded',
                            saved'[k].runs \cap copy[q].runs # {}
                     PROVE  saved'[k].next = "end"
        BY <3>2, <3>4, <1>c DEF DoneRowIsFinal
      <4>2. CASE saved'[k].runs = saved[k].runs
        BY <4>1, <4>2, <3>1, <3>4, <1>c DEF DoneRowIsFinal, Work
      <4>3. CASE phase[r] = "checked" /\ saved'[k].runs = {r}
        BY <4>1, <4>3 DEF SessionsInv, Untouched
      <4>4. QED
        BY <4>1, <4>2, <4>3 DEF Work
    <3>5. QED
      BY <3>3, <3>4
  <2>3. QED
    BY <2>1, <2>2
<1>4. ASSUME NEW q \in Requests
      PROVE  RowMatchesAnswer(q)' /\ RequestOK(q)'
  <2>1. CASE q = r
    BY <2>1 DEF After
  <2>2. CASE q # r
    BY <2>2, <1>b, <1>c
       DEF SessionsInv, RowsMatchAnswers, RowMatchesAnswer, RequestOK, Active
  <2>3. QED
    BY <2>1, <2>2
<1>5. ASSUME NEW j \in Places
      PROVE  PlaceOK(j)'
  <2>1. CASE j = k
    BY <2>1, <1>c DEF After
  <2>2. CASE j # k
    BY <2>2, <1>a, <1>c DEF SessionsInv, PlaceOK
  <2>3. QED
    BY <2>1, <2>2
<1>6. ASSUME NEW q \in Requests
      PROVE  Untouched(q)'
  <2>1. CASE q = r
    BY <2>1 DEF Frame, Untouched
  <2>2. SUFFICES ASSUME q # r, phase[q] \in {"new", "checked"}
                 PROVE  /\ \A p \in Requests : q \notin copy'[p].runs
                        /\ \A j \in Places : q \notin saved'[j].runs
    BY <2>1, <1>b DEF Untouched
  <2>3. /\ \A p \in Requests : q \notin copy[p].runs
        /\ \A j \in Places : q \notin saved[j].runs
    BY <2>2 DEF SessionsInv, Untouched
  <2>4. q \notin copy'[r].runs /\ q \notin saved'[k].runs
    BY <2>2, <2>3, <1>0 DEF Work
  <2>5. QED
    BY <2>3, <2>4, <1>a, <1>b
<1>7. ASSUME NEW q \in Requests
      PROVE  SoloOK(q)'
  <2>1. SUFFICES ASSUME Active(q)', where[q] \notin unguarded'
                 PROVE  /\ \A p \in Requests :
                              Active(p)' /\ where[p] = where[q] => p = q
                        /\ Knows(q)'
    BY <1>c DEF SoloOK, Alone
  <2>2. CASE q = r
    <3>1. \A p \in Requests : Active(p)' /\ where[p] = k => p = r
      BY <2>1, <2>2, <1>b, <1>d DEF Alone, Active
    <3>2. QED
      BY <3>1, <2>1, <2>2, <1>c DEF After
  <2>3. CASE q # r
    <3>1. Active(q) /\ phase'[q] = phase[q] /\ copy'[q] = copy[q]
      BY <2>1, <2>3, <1>b DEF Active
    <3>2. Alone(q) /\ Knows(q)
      BY <3>1, <2>1, <1>c DEF SessionsInv, SoloOK
    <3>3. where[q] # k
      BY <3>2, <2>3, <1>0 DEF Alone
    <3>4. saved'[where[q]] = saved[where[q]] /\ told'[where[q]] = told[where[q]]
      BY <3>1, <3>3, <1>a, ActivePlace
    <3>5. Knows(q)'
      BY <3>1, <3>2, <3>4, <1>c DEF Knows
    <3>6. \A p \in Requests : Active(p)' /\ where[p] = where[q] => p = q
      BY <3>2, <3>3, <1>b DEF Alone, Active
    <3>7. QED
      BY <3>5, <3>6
  <2>4. QED
    BY <2>2, <2>3
<1>8. QED
  BY <1>1, <1>2, <1>3, <1>4, <1>5, <1>6, <1>7
     DEF SessionsInv, DoneRowsAreFinal, RowsMatchAnswers

\* Steps that leave the thread, its checkpoint and the copy as they are.
Quiet(r) ==
  /\ Active(r) /\ phase'[r] \notin {"new", "checked", "running"}
  /\ where' = where /\ unguarded' = unguarded
  /\ saved' = saved /\ copy' = copy /\ told' = told
  /\ \A q \in Requests \ {r} :
       /\ phase'[q] = phase[q] /\ rows'[q] = rows[q] /\ answer'[q] = answer[q]
  /\ phase'[r] \in {"returned", "prompt", "finished"} =>
       phase[r] \in {"returned", "prompt"}
  /\ phase'[r] = "finished" => copy[r].next = "end"
  /\ \/ rows'[r] \in {rows[r], <<"failed">>}
     \/ phase[r] = "returned" /\ copy[r].next = "end"

\* A quiet step keeps the invariant if the request itself stays sound.
LEMMA QuietStep ==
  ASSUME SessionsInv, TypeOK', NEW r \in Requests, Quiet(r),
         RequestOK(r)', RowMatchesAnswer(r)'
  PROVE  SessionsInv'
<1> DEFINE k == where[r]
<1>0. k \in Places /\ Active(r)
  BY ActivePlace DEF Quiet
<1>1. Frame(r)
  BY DEF Quiet, Frame
<1>2. Work(r)
  BY <1>0 DEF Quiet, Work, SessionsInv, AnswersAreTrue
<1>3. PlaceOK(k)'
  BY <1>0 DEF Quiet, PlaceOK, SessionsInv
<1>4. k \notin unguarded => Knows(r)
  BY <1>0 DEF SessionsInv, SoloOK
<1>5. DoneRowIsFinal(r)'
  <2>1. DoneRowIsFinal(r)
    BY DEF SessionsInv, DoneRowsAreFinal
  <2>2. CASE rows'[r] = rows[r]
    BY <2>1, <2>2 DEF Quiet, DoneRowIsFinal
  <2>3. CASE rows'[r] = <<"failed">>
    <3>1. <<"failed">> # <<"done">>
      OBVIOUS
    <3>2. QED
      BY <2>3, <3>1 DEF DoneRowIsFinal
  <2>4. CASE phase[r] = "returned" /\ copy[r].next = "end"
    BY <2>4, <1>4 DEF Quiet, DoneRowIsFinal, Knows
  <2>5. QED
    BY <2>2, <2>3, <2>4 DEF Quiet
<1>6. k \notin unguarded => Knows(r)'
  BY <1>4 DEF Quiet, Knows
<1>7. QED
  BY <1>1, <1>2, <1>3, <1>5, <1>6, OwnStep DEF Quiet, After

-----------------------------------------------------------------------------
(* One lemma per action.                                                   *)

\* A request in flight before its answer has recorded nothing.
LEMMA NothingRecorded ==
  ASSUME SessionsInv, NEW r \in Requests
  PROVE  /\ phase[r] \in {"checked", "resuming", "running", "returned", "prompt", "raised"}
              => rows[r] = <<>>
         /\ phase[r] \in {"returned", "finished", "failed", "raised"} => answer[r] = "none"
  BY DEF SessionsInv, RequestOK

\* A row is added, or none.
LEMMA RowOf ==
  ASSUME TypeOK, NEW r \in Requests, NEW o \in {"done", "failed"},
         rows[r] = <<>>, Record(r, o)
  PROVE  /\ rows' \in [Requests -> Seq({"done", "failed"})]
         /\ rows'[r] = <<o>> \/ rows'[r] = <<>>
         /\ \A q \in Requests \ {r} : rows'[q] = rows[q]
<1>1. Append(rows[r], o) = <<o>>
  OBVIOUS
<1>2. rows' = [rows EXCEPT ![r] = <<o>>] \/ rows' = rows
  BY <1>1 DEF Record
<1>3. rows \in [Requests -> Seq({"done", "failed"})]
  BY DEF TypeOK
<1>4. <<o>> \in Seq({"done", "failed"})
  OBVIOUS
<1>5. QED
  BY <1>2, <1>3, <1>4

\* A failure in the invoke tells nobody anything yet.
LEMMA RaiseStep ==
  ASSUME SessionsInv, NEW r \in Requests, Raise(r)
  PROVE  SessionsInv'
<1>1. TypeOK'
  BY DEF SessionsInv, TypeOK, serverVars, Raise, Phases, Answers, ExitCodes
<1>2. Quiet(r)
  <2>1. phase'[r] = "raised" /\ Active(r)
    BY DEF SessionsInv, TypeOK, Active, Raise
  <2>2. \A q \in Requests \ {r} : phase'[q] = phase[q] /\ answer'[q] = answer[q]
    BY DEF SessionsInv, TypeOK, Raise
  <2>3. QED
    BY <2>1, <2>2 DEF Quiet, Active, Raise
<1>3. RequestOK(r)'
  BY <1>2, ActivePlace DEF SessionsInv, TypeOK, RequestOK, Active, Quiet, serverVars, Raise
<1>4. RowMatchesAnswer(r)'
  BY DEF SessionsInv, TypeOK, RequestOK, RowsMatchAnswers, RowMatchesAnswer,
         ExitCodes, Active, serverVars, Raise
<1>5. QED
  BY <1>1, <1>2, <1>3, <1>4, QuietStep

\* Only a finished run is recorded as completed.
LEMMA FinishStep ==
  ASSUME SessionsInv, NEW r \in Requests, Finish(r)
  PROVE  SessionsInv'
<1>1. rows[r] = <<>> /\ answer[r] = "none"
  BY NothingRecorded DEF Finish
<1>2. /\ rows' \in [Requests -> Seq({"done", "failed"})]
      /\ rows'[r] = <<"done">> \/ rows'[r] = <<>>
      /\ \A q \in Requests \ {r} : rows'[q] = rows[q]
  BY <1>1, RowOf DEF Finish, SessionsInv
<1>3. TypeOK'
  BY <1>2 DEF SessionsInv, TypeOK, serverVars, Finish, Phases
<1>4. Quiet(r)
  BY <1>1, <1>2 DEF SessionsInv, TypeOK, Quiet, Active, serverVars, Finish
<1>5. RequestOK(r)'
  BY <1>1, <1>4, ActivePlace DEF SessionsInv, TypeOK, RequestOK, Active, Quiet, serverVars, Finish
<1>6. RowMatchesAnswer(r)'
  BY <1>1, <1>2 DEF SessionsInv, TypeOK, RowMatchesAnswer, serverVars, Finish
<1>7. QED
  BY <1>3, <1>4, <1>5, <1>6, QuietStep

\* A command line that cannot print has recorded nothing yet.
LEMMA PrintFailsStep ==
  ASSUME SessionsInv, NEW r \in Requests, PrintFails(r)
  PROVE  SessionsInv'
<1>1. TypeOK'
  BY DEF SessionsInv, TypeOK, serverVars, PrintFails, Phases, Answers, ExitCodes
<1>2. Quiet(r)
  BY DEF SessionsInv, TypeOK, Quiet, Active, serverVars, PrintFails
<1>3. RequestOK(r)'
  BY <1>2, ActivePlace DEF SessionsInv, TypeOK, RequestOK, Active, Quiet, serverVars, PrintFails
<1>4. RowMatchesAnswer(r)'
  BY NothingRecorded DEF RowMatchesAnswer, PrintFails
<1>5. QED
  BY <1>1, <1>2, <1>3, <1>4, QuietStep

\* A 500 leaves no row.
LEMMA RespondErrorStep ==
  ASSUME SessionsInv, NEW r \in Requests, RespondError(r)
  PROVE  SessionsInv'
<1>1. TypeOK'
  BY DEF SessionsInv, TypeOK, serverVars, RespondError, Answer, Phases, Answers, ExitCodes
<1>2. Quiet(r)
  <2>1. phase'[r] = "over" /\ Active(r)
    BY DEF SessionsInv, TypeOK, Active, RespondError, Answer
  <2>2. \A q \in Requests \ {r} : phase'[q] = phase[q] /\ answer'[q] = answer[q]
    BY DEF SessionsInv, TypeOK, RespondError, Answer
  <2>3. QED
    BY <2>1, <2>2 DEF Quiet, Active, RespondError
<1>3. RequestOK(r)'
  BY <1>2, ActivePlace DEF SessionsInv, TypeOK, RequestOK, Active, Quiet, serverVars, RespondError, Answer
<1>4. RowMatchesAnswer(r)'
  BY NothingRecorded DEF RowMatchesAnswer, RespondError
<1>5. QED
  BY <1>1, <1>2, <1>3, <1>4, QuietStep

\* A failed command line has one row, or none.
LEMMA RecordFailureStep ==
  ASSUME SessionsInv, NEW r \in Requests, RecordFailure(r)
  PROVE  SessionsInv'
<1>1. rows[r] = <<>> /\ answer[r] = "none"
  BY NothingRecorded DEF RecordFailure
<1>2. /\ rows' \in [Requests -> Seq({"done", "failed"})]
      /\ rows'[r] = <<"failed">> \/ rows'[r] = <<>>
      /\ \A q \in Requests \ {r} : rows'[q] = rows[q]
  BY <1>1, RowOf DEF RecordFailure, SessionsInv
<1>3. TypeOK'
  BY <1>2 DEF SessionsInv, TypeOK, serverVars, RecordFailure, Phases
<1>4. Quiet(r)
  <2>1. phase'[r] = "failed" /\ phase[r] = "raised"
    BY DEF SessionsInv, TypeOK, Active, RecordFailure
  <2>2. \A q \in Requests \ {r} : phase'[q] = phase[q] /\ answer'[q] = answer[q]
    BY DEF SessionsInv, TypeOK, RecordFailure
  <2>3. QED
    BY <1>2, <1>1, <2>1, <2>2 DEF Quiet, Active, RecordFailure
<1>5. RequestOK(r)'
  BY <1>1, <1>4, ActivePlace DEF SessionsInv, TypeOK, RequestOK, Active, Quiet, serverVars, RecordFailure
<1>6. RowMatchesAnswer(r)'
  BY <1>1, <1>2 DEF SessionsInv, TypeOK, RowMatchesAnswer, serverVars, RecordFailure
<1>7. QED
  BY <1>3, <1>4, <1>5, <1>6, QuietStep

\* It exits with the code of a failure.
LEMMA ExitFailedStep ==
  ASSUME SessionsInv, NEW r \in Requests, ExitFailed(r)
  PROVE  SessionsInv'
<1>1. TypeOK'
  BY DEF SessionsInv, TypeOK, serverVars, ExitFailed, Answer, Phases, Answers, ExitCodes
<1>2. Quiet(r)
  <2>1. phase'[r] = "over" /\ Active(r)
    BY DEF SessionsInv, TypeOK, Active, ExitFailed, Answer
  <2>2. \A q \in Requests \ {r} : phase'[q] = phase[q] /\ answer'[q] = answer[q]
    BY DEF SessionsInv, TypeOK, ExitFailed, Answer
  <2>3. QED
    BY <2>1, <2>2 DEF Quiet, Active, ExitFailed
<1>3. RequestOK(r)'
  BY <1>2, ActivePlace DEF SessionsInv, TypeOK, RequestOK, Active, Quiet, serverVars, ExitFailed, Answer
<1>4. RowMatchesAnswer(r)'
  <2>1. rows[r] = <<>> \/ rows[r] = <<"failed">>
    BY NothingRecorded
       DEF SessionsInv, RowsMatchAnswers, RowMatchesAnswer, Exits, ExitFailed
  <2>2. answer'[r] \in ExitCodes /\ rows' = rows
    BY DEF SessionsInv, TypeOK, ExitFailed, Answer
  <2>3. QED
    BY <2>1, <2>2 DEF RowMatchesAnswer
<1>5. QED
  BY <1>1, <1>2, <1>3, <1>4, QuietStep

\* Waiting at the prompt changes nothing.
LEMMA PromptStep ==
  ASSUME SessionsInv, NEW r \in Requests, Prompt(r)
  PROVE  SessionsInv'
<1>1. TypeOK'
  BY DEF SessionsInv, TypeOK, serverVars, Prompt, Phases, Answers, ExitCodes
<1>2. Quiet(r)
  <2>1. phase'[r] = "prompt" /\ phase[r] = "returned"
    BY DEF SessionsInv, TypeOK, Active, Prompt
  <2>2. \A q \in Requests \ {r} : phase'[q] = phase[q] /\ answer'[q] = answer[q]
    BY DEF SessionsInv, TypeOK, Prompt
  <2>3. QED
    BY <2>1, <2>2 DEF Quiet, Active, Prompt
<1>3. RequestOK(r)'
  BY <1>2, ActivePlace DEF SessionsInv, TypeOK, RequestOK, Active, Quiet, serverVars, Prompt
<1>4. RowMatchesAnswer(r)'
  BY DEF SessionsInv, TypeOK, RequestOK, RowsMatchAnswers, RowMatchesAnswer,
         ExitCodes, Active, serverVars, Prompt
<1>5. QED
  BY <1>1, <1>2, <1>3, <1>4, QuietStep

\* Nor does an answer, before the invoke that takes it.
LEMMA PromptAnsweredStep ==
  ASSUME SessionsInv, NEW r \in Requests, PromptAnswered(r)
  PROVE  SessionsInv'
<1>1. TypeOK'
  BY DEF SessionsInv, TypeOK, serverVars, PromptAnswered, Phases, Answers, ExitCodes
<1>2. Quiet(r)
  <2>1. phase'[r] \in {"resuming", "raised"} /\ phase[r] = "prompt"
    BY DEF SessionsInv, TypeOK, Active, PromptAnswered
  <2>2. \A q \in Requests \ {r} : phase'[q] = phase[q] /\ answer'[q] = answer[q]
    BY DEF SessionsInv, TypeOK, PromptAnswered
  <2>3. QED
    BY <2>1, <2>2 DEF Quiet, Active, PromptAnswered
<1>3. RequestOK(r)'
  BY <1>2, ActivePlace DEF SessionsInv, TypeOK, RequestOK, Active, Quiet, serverVars, PromptAnswered
<1>4. RowMatchesAnswer(r)'
  BY DEF SessionsInv, TypeOK, RequestOK, RowsMatchAnswers, RowMatchesAnswer,
         ExitCodes, Active, serverVars, PromptAnswered
<1>5. QED
  BY <1>1, <1>2, <1>3, <1>4, QuietStep

\* A command line may stop anywhere.
LEMMA CliStopsStep ==
  ASSUME SessionsInv, NEW r \in Requests, CliStops(r)
  PROVE  SessionsInv'
<1>1. TypeOK'
  BY DEF SessionsInv, TypeOK, serverVars, CliStops, Answer, Phases, Answers, ExitCodes
<1>2. Quiet(r)
  <2>1. phase'[r] = "over" /\ Active(r)
    BY DEF SessionsInv, TypeOK, Active, CliStops, Answer
  <2>2. \A q \in Requests \ {r} : phase'[q] = phase[q] /\ answer'[q] = answer[q]
    BY DEF SessionsInv, TypeOK, CliStops, Answer
  <2>3. QED
    BY <2>1, <2>2 DEF Quiet, Active, CliStops
<1>3. RequestOK(r)'
  BY <1>2, ActivePlace DEF SessionsInv, TypeOK, RequestOK, Active, Quiet, serverVars, CliStops, Answer
<1>4. RowMatchesAnswer(r)'
  BY DEF SessionsInv, TypeOK, RequestOK, RowsMatchAnswers, RowMatchesAnswer,
         ExitCodes, Active, serverVars, CliStops, Answer
<1>5. QED
  BY <1>1, <1>2, <1>3, <1>4, QuietStep

\* The first checkpoint of a run: alone on its thread it finds nothing there.
LEMMA InvokeFreshStep ==
  ASSUME SessionsInv, NEW r \in Requests, InvokeFresh(r)
  PROVE  SessionsInv'
<1> DEFINE k == where[r]
           held == saved[k]
<1>p. PICK named \in BOOLEAN :
        LET merged == [runs |-> held.runs \cup {r}, named |-> named,
                       reviews |-> held.reviews, next |-> "node"]
        IN  /\ copy' = [copy EXCEPT ![r] = merged]
            /\ saved' = [saved EXCEPT ![k] = merged]
            /\ unguarded' = unguarded \cup (IF named THEN {} ELSE {k})
  BY DEF InvokeFresh
<1> DEFINE merged == [runs |-> held.runs \cup {r}, named |-> named,
                      reviews |-> held.reviews, next |-> "node"]
<1>0. Active(r) /\ k \in Places /\ phase[r] = "checked"
  BY ActivePlace DEF InvokeFresh, Active
<1>1. /\ merged \in Checkpoint /\ merged.runs = saved[k].runs \cup {r}
      /\ merged.next = "node" /\ merged.reviews = saved[k].reviews
      /\ merged.named = named
  <2>1. saved[k] \in Checkpoint
    BY <1>0 DEF SessionsInv, TypeOK
  <2>2. saved[k].runs \cup {r} \in SUBSET Requests
    BY <2>1 DEF Checkpoint
  <2>3. QED
    BY <2>1, <2>2 DEF Checkpoint
<1>2. /\ saved' = [saved EXCEPT ![k] = merged] /\ saved'[k] = merged
      /\ copy' = [copy EXCEPT ![r] = merged] /\ copy'[r] = merged
      /\ told' = [told EXCEPT ![k] = "none"] /\ told'[k] = "none"
      /\ phase' = [phase EXCEPT ![r] = "running"] /\ phase'[r] = "running"
      /\ UNCHANGED <<serverVars, where, answer, rows>>
  BY <1>0, <1>p DEF SessionsInv, TypeOK, InvokeFresh, Forget
<1>u. /\ unguarded \subseteq unguarded' /\ unguarded' \subseteq unguarded \cup {k}
      /\ k \notin unguarded' => k \notin unguarded /\ merged.named
  BY <1>p
<1>3. TypeOK'
  BY <1>0, <1>1, <1>2, <1>u DEF SessionsInv, TypeOK, serverVars, Phases
<1>4. Frame(r)
  BY <1>0, <1>2, <1>u DEF SessionsInv, TypeOK, Frame
<1>5. k \notin unguarded => saved[k].runs = {} /\ saved[k].next = "nothing"
  BY <1>0 DEF SessionsInv, SoloOK, Knows, PlaceOK, Nothing
<1>6. Work(r)
  BY <1>0, <1>1, <1>2, <1>5, <1>u DEF Work
<1>7. rows[r] = <<>> /\ answer[r] = "none"
  BY <1>0 DEF SessionsInv, RequestOK
<1>8. After(r)
  <2>1. merged.runs # {}
    BY <1>1
  <2>2. PlaceOK(k)'
    BY <1>1, <1>2, <1>u, <2>1 DEF PlaceOK
  <2>3. RequestOK(r)' /\ RowMatchesAnswer(r)' /\ DoneRowIsFinal(r)'
    <3>1. rows'[r] = <<>> /\ answer'[r] = "none" /\ where'[r] = where[r]
      BY <1>2, <1>7
    <3>2. copy'[r].runs # {} /\ copy'[r].next = "node"
      BY <1>1, <1>2, <2>1
    <3>3. r \in CliRuns => where[r][1] # "server"
      BY <1>0 DEF SessionsInv, RequestOK
    <3>4. QED
      BY <1>0, <1>2, <3>1, <3>2, <3>3
         DEF RequestOK, RowMatchesAnswer, DoneRowIsFinal
  <2>4. k \notin unguarded' => Knows(r)'
    BY <1>1, <1>2, <1>u DEF Knows
  <2>5. QED
    BY <1>2, <2>2, <2>3, <2>4 DEF After
<1>9. QED
  BY <1>3, <1>4, <1>6, <1>8, OwnStep

\* A continuation takes up what the thread holds, and saves nothing yet.
LEMMA InvokeResumeStep ==
  ASSUME SessionsInv, NEW r \in Requests, InvokeResume(r)
  PROVE  SessionsInv'
<1> DEFINE k == where[r]
           c == saved[k]
           taken == IF c.next = "end" THEN c ELSE AnsweredBy(c)
           stage == CASE c.next = "nothing" -> "raised"
                      [] c.next = "end" -> "returned"
                      [] OTHER -> "running"
<1>0. Active(r) /\ k \in Places /\ phase[r] = "resuming"
  BY ActivePlace DEF InvokeResume, Active
<1>1. c \in Checkpoint /\ PlaceOK(k)
  BY <1>0 DEF SessionsInv, TypeOK
<1>2. /\ taken \in Checkpoint /\ taken.runs = c.runs /\ taken.named = c.named
      /\ c.next \in {"nothing", "node", "end"} => taken = c
      /\ c.next = "review" => taken.reviews = c.reviews + 1 /\ taken.next = "node"
  <2>1. CASE c.next # "review"
    BY <1>1, <2>1 DEF Checkpoint, AnsweredBy
  <2>2. CASE c.next = "review"
    <3>1. taken = [runs |-> c.runs, named |-> c.named, reviews |-> c.reviews + 1,
                  next |-> "node"]
      BY <1>1, <2>2 DEF Checkpoint, AnsweredBy
    <3>2. c.reviews + 1 \in 0..MaxReviews
      BY <1>1, <2>2 DEF Checkpoint, PlaceOK
    <3>3. QED
      BY <1>1, <2>2, <3>1, <3>2 DEF Checkpoint
  <2>3. QED
    BY <2>1, <2>2
<1>3. /\ saved' = saved
      /\ copy' = [copy EXCEPT ![r] = taken] /\ copy'[r] = taken
      /\ told' = [told EXCEPT ![k] = "none"] /\ told'[k] = "none"
      /\ phase' = [phase EXCEPT ![r] = stage] /\ phase'[r] = stage
      /\ UNCHANGED <<serverVars, where, answer, rows, unguarded>>
  BY <1>0 DEF SessionsInv, TypeOK, InvokeResume, Forget
<1>4. /\ stage \in {"raised", "returned", "running"}
      /\ stage = "running" => c.next \in {"node", "review"}
      /\ stage = "returned" => c.next = "end"
  BY <1>1 DEF Checkpoint
<1>5. TypeOK'
  BY <1>0, <1>2, <1>3, <1>4 DEF SessionsInv, TypeOK, serverVars, Phases
<1>6. Frame(r)
  BY <1>0, <1>3, <1>4 DEF SessionsInv, TypeOK, Frame
<1>7. Work(r)
  BY <1>0, <1>2, <1>3 DEF Work
<1>8. rows[r] = <<>> /\ answer[r] = "none"
  BY <1>0 DEF SessionsInv, RequestOK
<1>9. stage = "running" => c.runs # {}
  BY <1>1, <1>4 DEF PlaceOK, Nothing
<1>10. After(r)
  BY <1>0, <1>1, <1>2, <1>3, <1>4, <1>8, <1>9
     DEF SessionsInv, After, PlaceOK, RequestOK, RowMatchesAnswer,
         DoneRowIsFinal, Knows, Active
<1>11. QED
  BY <1>5, <1>6, <1>7, <1>10, OwnStep

\* A request that runs saves its copy, with what runs next.
LEMMA SaveStep ==
  ASSUME SessionsInv, NEW r \in Requests, NEW c, phase[r] = "running",
         Save(r, c), NEW stage, phase' = [phase EXCEPT ![r] = stage],
         c \in Checkpoint, c.runs = copy[r].runs, c.named = copy[r].named,
         c.reviews = copy[r].reviews,
         \/ c.next = "node" /\ stage = "running"
         \/ c.next = "end" /\ stage = "returned"
         \/ c.next = "review" /\ stage = "returned" /\ c.reviews < MaxReviews,
         UNCHANGED <<serverVars, where, answer, rows, told, unguarded>>
  PROVE  SessionsInv'
<1> DEFINE k == where[r]
<1>0. Active(r) /\ k \in Places
  BY ActivePlace DEF Active
<1>1. /\ saved' = [saved EXCEPT ![k] = c] /\ saved'[k] = c
      /\ copy' = [copy EXCEPT ![r] = c] /\ copy'[r] = c
      /\ phase'[r] = stage
  BY <1>0 DEF SessionsInv, TypeOK, Save
<1>2. copy[r].runs # {} /\ rows[r] = <<>> /\ answer[r] = "none"
  BY DEF SessionsInv, RequestOK
<1>3. k \notin unguarded =>
        /\ told[k] = "none" /\ saved[k].runs = copy[r].runs /\ copy[r].named
        /\ saved[k].next \in {"node", "review"}
  BY <1>0 DEF SessionsInv, SoloOK, Knows
<1>4. TypeOK'
  BY <1>0, <1>1 DEF SessionsInv, TypeOK, serverVars, Phases
<1>5. Frame(r)
  BY <1>0, <1>1 DEF SessionsInv, TypeOK, Frame
<1>6. Work(r)
  BY <1>0, <1>1, <1>3 DEF Work
<1>7. After(r)
  <2>1. PlaceOK(k)'
    BY <1>1, <1>2, <1>3 DEF PlaceOK
  <2>2. RequestOK(r)'
    BY <1>0, <1>1, <1>2 DEF SessionsInv, RequestOK, Active
  <2>3. RowMatchesAnswer(r)' /\ DoneRowIsFinal(r)'
    BY <1>2 DEF RowMatchesAnswer, DoneRowIsFinal
  <2>4. k \notin unguarded => Knows(r)'
    BY <1>1, <1>3 DEF Knows
  <2>5. QED
    BY <2>1, <2>2, <2>3, <2>4 DEF After
<1>8. QED
  BY <1>4, <1>5, <1>6, <1>7, OwnStep

\* A super-step saves the copy as it is.
LEMMA SuperstepStep ==
  ASSUME SessionsInv, NEW r \in Requests, Superstep(r)
  PROVE  SessionsInv'
<1>1. copy[r] \in Checkpoint /\ copy[r].next = "node" /\ phase[r] = "running"
  BY DEF SessionsInv, TypeOK, RequestOK, Superstep
<1>2. phase' = [phase EXCEPT ![r] = "running"]
  BY <1>1 DEF SessionsInv, TypeOK, Superstep
<1>3. Save(r, copy[r]) /\ UNCHANGED <<serverVars, where, answer, rows, told, unguarded>>
  BY DEF Superstep
<1>4. QED
  BY <1>1, <1>2, <1>3, SaveStep

\* A stop saves the end of the run, or a review it may still ask for.
LEMMA StopStep ==
  ASSUME SessionsInv, NEW r \in Requests, Stop(r)
  PROVE  SessionsInv'
<1>1. copy[r] \in Checkpoint /\ phase[r] = "running"
  BY DEF SessionsInv, TypeOK, Stop
<1>2. /\ phase' = [phase EXCEPT ![r] = "returned"]
      /\ UNCHANGED <<serverVars, where, answer, rows, told, unguarded>>
  BY DEF Stop
<1>3. CASE Save(r, [copy[r] EXCEPT !.next = "end"])
  <2>1. /\ [copy[r] EXCEPT !.next = "end"] \in Checkpoint
        /\ [copy[r] EXCEPT !.next = "end"].runs = copy[r].runs
        /\ [copy[r] EXCEPT !.next = "end"].named = copy[r].named
        /\ [copy[r] EXCEPT !.next = "end"].reviews = copy[r].reviews
        /\ [copy[r] EXCEPT !.next = "end"].next = "end"
    BY <1>1 DEF Checkpoint
  <2>2. QED
    BY <1>1, <1>2, <1>3, <2>1, SaveStep
<1>4. CASE Save(r, [copy[r] EXCEPT !.next = "review"]) /\ copy[r].reviews < MaxReviews
  <2>1. /\ [copy[r] EXCEPT !.next = "review"] \in Checkpoint
        /\ [copy[r] EXCEPT !.next = "review"].runs = copy[r].runs
        /\ [copy[r] EXCEPT !.next = "review"].named = copy[r].named
        /\ [copy[r] EXCEPT !.next = "review"].reviews = copy[r].reviews
        /\ [copy[r] EXCEPT !.next = "review"].next = "review"
    BY <1>1 DEF Checkpoint
  <2>2. QED
    BY <1>1, <1>2, <1>4, <2>1, SaveStep
<1>5. QED
  BY <1>3, <1>4 DEF Stop

\* An answer about a thread is what its copy, alone on the thread, says.
LEMMA TellStep ==
  ASSUME SessionsInv, NEW r \in Requests, NEW status,
         Answer(r, status), Tell(r, status),
         UNCHANGED <<serverVars, saved, where, copy, rows, unguarded>>,
         \/ status = "interrupted" /\ phase[r] = "returned" /\ copy[r].next = "review"
         \/ status = "done" /\ phase[r] = "finished"
  PROVE  SessionsInv'
<1> DEFINE k == where[r]
<1>0. Active(r) /\ k \in Places
  BY ActivePlace DEF Active
<1>1. /\ told' = [told EXCEPT ![k] = status] /\ told'[k] = status
      /\ phase' = [phase EXCEPT ![r] = "over"] /\ phase'[r] = "over"
      /\ answer' = [answer EXCEPT ![r] = status] /\ answer'[r] = status
  BY <1>0 DEF SessionsInv, TypeOK, Answer, Tell
<1>2. /\ status = "interrupted" => rows[r] = <<>>
      /\ status = "done" => rows[r] = <<>> \/ rows[r] = <<"done">>
  <2>1. phase[r] = "returned" => rows[r] = <<>>
    BY DEF SessionsInv, RequestOK
  <2>2. phase[r] = "finished" => rows[r] = <<>> \/ rows[r] = <<"done">>
    BY DEF SessionsInv, RequestOK, RowsMatchAnswers, RowMatchesAnswer, ExitCodes
  <2>3. QED
    BY <2>1, <2>2
<1>3. k \notin unguarded => saved[k] = copy[r] /\ (phase[r] = "finished" => copy[r].next = "end")
  BY <1>0 DEF SessionsInv, SoloOK, Knows
<1>4. TypeOK'
  BY <1>0, <1>1 DEF SessionsInv, TypeOK, serverVars, Phases, Answers
<1>5. Frame(r)
  BY <1>0, <1>1 DEF SessionsInv, TypeOK, Frame
<1>6. Work(r)
  BY <1>0, <1>1, <1>3 DEF Work
<1>7. After(r)
  <2>1. PlaceOK(k)' /\ RequestOK(r)'
    BY <1>0, <1>1 DEF SessionsInv, PlaceOK, RequestOK, Active
  <2>2. RowMatchesAnswer(r)'
    BY <1>1, <1>2 DEF RowMatchesAnswer, Exits
  <2>3. DoneRowIsFinal(r)'
    BY DEF SessionsInv, DoneRowsAreFinal, DoneRowIsFinal
  <2>4. QED
    BY <1>1, <2>1, <2>2, <2>3 DEF After, Active
<1>8. QED
  BY <1>4, <1>5, <1>6, <1>7, OwnStep

\* The API tells of a pause.
LEMMA RespondInterruptedStep ==
  ASSUME SessionsInv, NEW r \in Requests, RespondInterrupted(r)
  PROVE  SessionsInv'
  BY TellStep DEF RespondInterrupted

\* A command line whose finally raises tells nobody that its run is done.
LEMMA ExitRaisedStep ==
  ASSUME SessionsInv, NEW r \in CliRuns, phase[r] = "finished", Answer(r, "exit 1"),
         UNCHANGED <<serverVars, saved, where, copy, rows, told, unguarded>>
  PROVE  SessionsInv'
<1>0. r \in Requests
  BY DEF Requests
<1>1. TypeOK'
  BY <1>0 DEF SessionsInv, TypeOK, serverVars, Answer, Phases, Answers, ExitCodes
<1>2. Quiet(r)
  <2>1. phase'[r] = "over" /\ Active(r)
    BY <1>0 DEF SessionsInv, TypeOK, Active, Answer
  <2>2. \A q \in Requests \ {r} : phase'[q] = phase[q] /\ answer'[q] = answer[q]
    BY <1>0 DEF SessionsInv, TypeOK, Answer
  <2>3. QED
    BY <2>1, <2>2 DEF Quiet, Active
<1>3. RequestOK(r)'
  BY <1>0, <1>2, ActivePlace
     DEF SessionsInv, TypeOK, RequestOK, Active, Quiet, serverVars, Answer
<1>4. RowMatchesAnswer(r)'
  <2>1. rows[r] = <<>> \/ rows[r] = <<"done">>
    BY <1>0 DEF SessionsInv, RequestOK, RowsMatchAnswers, RowMatchesAnswer, ExitCodes
  <2>2. answer'[r] \in Exits(r, "done")
    BY <1>0 DEF SessionsInv, TypeOK, Answer, Exits
  <2>3. QED
    BY <2>1, <2>2 DEF RowMatchesAnswer
<1>5. QED
  BY <1>0, <1>1, <1>2, <1>3, <1>4, QuietStep

\* A caller is told of a finished run, or its command line ends in an error.
LEMMA DeliverStep ==
  ASSUME SessionsInv, NEW r \in Requests, Deliver(r)
  PROVE  SessionsInv'
<1>1. PICK exit \in Exits(r, "done") :
        /\ Answer(r, exit)
        /\ IF exit = "done" THEN Tell(r, "done") ELSE UNCHANGED told
  BY DEF Deliver
<1>2. phase[r] = "finished" /\ UNCHANGED <<serverVars, saved, where, copy, rows, unguarded>>
  BY DEF Deliver
<1>3. CASE exit = "done"
  BY <1>1, <1>2, <1>3, TellStep
<1>4. CASE exit # "done"
  <2>1. exit = "exit 1" /\ r \in CliRuns
    BY <1>4 DEF Exits
  <2>2. QED
    BY <1>1, <1>2, <2>1, ExitRaisedStep
<1>5. QED
  BY <1>3, <1>4

\* A request that is turned away leaves no trace.
LEMMA RefuseStep ==
  ASSUME SessionsInv, NEW r \in Requests, phase[r] = "new",
         NEW why \in {"unavailable", "in_use", "exit 1"}, Refuse(r, why)
  PROVE  SessionsInv'
<1>1. /\ phase' = [phase EXCEPT ![r] = "over"] /\ phase'[r] = "over"
      /\ answer' = [answer EXCEPT ![r] = why] /\ answer'[r] = why
      /\ UNCHANGED <<serverVars, saved, where, copy, rows, told, unguarded>>
  BY DEF SessionsInv, TypeOK, Refuse
<1>2. \A q \in Requests \ {r} : phase'[q] = phase[q] /\ answer'[q] = answer[q]
  BY <1>1 DEF SessionsInv, TypeOK
<1>3. rows[r] = <<>>
  BY DEF SessionsInv, RequestOK
<1>4. TypeOK'
  BY <1>1 DEF SessionsInv, TypeOK, serverVars, Phases, Answers, ExitCodes
<1>5. OneRunPerThread' /\ AnswersAreTrue' /\ \A k \in Places : PlaceOK(k)'
  BY <1>1 DEF SessionsInv, OneRunPerThread, AnswersAreTrue, PlaceOK
<1>6. ASSUME NEW q \in Requests
      PROVE  DoneRowIsFinal(q)'
  BY <1>1 DEF SessionsInv, DoneRowsAreFinal, DoneRowIsFinal
<1>7. ASSUME NEW q \in Requests
      PROVE  RowMatchesAnswer(q)' /\ RequestOK(q)' /\ Untouched(q)'
  <2>1. CASE q = r
    BY <2>1, <1>1, <1>3 DEF SessionsInv, RowMatchesAnswer, RequestOK, Untouched, Active
  <2>2. CASE q # r
    <3>1. phase'[q] = phase[q] /\ answer'[q] = answer[q]
      BY <2>2, <1>2
    <3>2. RowMatchesAnswer(q)'
      BY <3>1, <1>1 DEF SessionsInv, RowsMatchAnswers, RowMatchesAnswer
    <3>3. RequestOK(q)' /\ Untouched(q)'
      BY <3>1, <1>1 DEF SessionsInv, RequestOK, Untouched, Active
    <3>4. QED
      BY <3>2, <3>3
  <2>3. QED
    BY <2>1, <2>2
<1>8. ASSUME NEW q \in Requests
      PROVE  SoloOK(q)'
  <2>1. CASE q = r
    BY <2>1, <1>1 DEF SoloOK, Active
  <2>2. CASE q # r
    <3>1. SUFFICES ASSUME Active(q)', where[q] \notin unguarded
                   PROVE  Alone(q)' /\ Knows(q)'
      BY <1>1 DEF SoloOK
    <3>2. Active(q) /\ phase'[q] = phase[q]
      BY <2>2, <3>1, <1>2 DEF Active
    <3>3. Alone(q) /\ Knows(q)
      BY <3>1, <3>2 DEF SessionsInv, SoloOK
    <3>4. Alone(q)'
      BY <3>3, <1>1, <1>2 DEF Alone, Active
    <3>5. QED
      BY <3>2, <3>3, <3>4, <1>1 DEF Knows
  <2>3. QED
    BY <2>1, <2>2
<1>9. QED
  BY <1>4, <1>5, <1>6, <1>7, <1>8 DEF SessionsInv, DoneRowsAreFinal, RowsMatchAnswers

\* A server without a bundle refuses.
LEMMA UnavailableStep ==
  ASSUME SessionsInv, NEW r \in Requests, Unavailable(r)
  PROVE  SessionsInv'
  BY RefuseStep DEF Unavailable

\* Where a request is put.
LEMMA PlaceOf ==
  ASSUME NEW r \in Requests, NEW thread \in ThreadIds
  PROVE  /\ <<StoreOf(r), thread>> \in Places
         /\ r \in CliRuns => <<StoreOf(r), thread>>[1] # "server"
  BY DEF StoreOf, Places, Stores, Processes, Requests

\* A request that comes to a thread where another is at work makes it an
\* unguarded one; where nobody is, it is alone.
LEMMA EnterStep ==
  ASSUME SessionsInv, NEW r \in Requests, phase[r] = "new",
         NEW k \in Places, r \in CliRuns => k[1] # "server",
         NEW stage \in {"checked", "resuming"}, Enter(r, k, stage),
         stage = "checked" => k \in unguarded \/ saved[k].runs = {}
  PROVE  SessionsInv'
<1>1. /\ phase' = [phase EXCEPT ![r] = stage] /\ phase'[r] = stage
      /\ where' = [where EXCEPT ![r] = k] /\ where'[r] = k
      /\ UNCHANGED <<serverVars, saved, copy, answer, rows, told>>
  BY DEF SessionsInv, TypeOK, Enter
<1>2. \A q \in Requests \ {r} : phase'[q] = phase[q] /\ where'[q] = where[q]
  BY <1>1 DEF SessionsInv, TypeOK
<1>3. /\ unguarded \subseteq unguarded' /\ unguarded' \subseteq unguarded \cup {k}
      /\ k \notin unguarded' => \A q \in Requests : ~(Active(q) /\ where[q] = k)
  BY DEF Enter
<1>4. rows[r] = <<>> /\ answer[r] = "none"
  BY DEF SessionsInv, RequestOK
<1>5. TypeOK'
  BY <1>1, <1>3 DEF SessionsInv, TypeOK, serverVars, Phases
<1>6. OneRunPerThread' /\ AnswersAreTrue' /\ \A j \in Places : PlaceOK(j)'
  BY <1>1, <1>3 DEF SessionsInv, OneRunPerThread, AnswersAreTrue, PlaceOK
<1>7. ASSUME NEW q \in Requests
      PROVE  DoneRowIsFinal(q)'
  <2>1. CASE q = r
    <3>1. rows'[q] # <<"done">>
      BY <2>1, <1>1, <1>4
    <3>2. QED
      BY <3>1 DEF DoneRowIsFinal
  <2>2. CASE q # r
    BY <2>2, <1>1, <1>2, <1>3 DEF SessionsInv, DoneRowsAreFinal, DoneRowIsFinal
  <2>3. QED
    BY <2>1, <2>2
<1>8. ASSUME NEW q \in Requests
      PROVE  RowMatchesAnswer(q)' /\ RequestOK(q)' /\ Untouched(q)'
  <2>1. CASE q = r
    BY <2>1, <1>1, <1>4 DEF SessionsInv, RowMatchesAnswer, RequestOK, Untouched, Active
  <2>2. CASE q # r
    BY <2>2, <1>1, <1>2
       DEF SessionsInv, RowsMatchAnswers, RowMatchesAnswer, RequestOK, Untouched, Active
  <2>3. QED
    BY <2>1, <2>2
<1>9. ASSUME NEW q \in Requests
      PROVE  SoloOK(q)'
  <2>1. SUFFICES ASSUME Active(q)', where'[q] \notin unguarded'
                 PROVE  Alone(q)' /\ Knows(q)'
    BY DEF SoloOK
  <2>2. CASE q = r
    <3>1. \A p \in Requests : Active(p)' /\ where'[p] = k => p = r
      BY <2>1, <2>2, <1>1, <1>2, <1>3 DEF Active
    <3>2. stage = "checked" => saved'[k].runs = {}
      BY <2>1, <2>2, <1>1, <1>3
    <3>3. QED
      BY <3>1, <3>2, <2>2, <1>1 DEF Alone, Knows
  <2>3. CASE q # r
    <3>1. /\ Active(q) /\ phase'[q] = phase[q] /\ where'[q] = where[q]
          /\ where[q] \notin unguarded /\ where[q] # k
      BY <2>1, <2>3, <1>2, <1>3 DEF Active
    <3>2. Alone(q) /\ Knows(q)
      BY <3>1 DEF SessionsInv, SoloOK
    <3>3. Alone(q)'
      BY <3>1, <3>2, <1>1, <1>2 DEF Alone, Active
    <3>4. QED
      BY <3>1, <3>2, <3>3, <1>1 DEF Knows
  <2>4. QED
    BY <2>2, <2>3
<1>10. QED
  BY <1>5, <1>6, <1>7, <1>8, <1>9 DEF SessionsInv, DoneRowsAreFinal, RowsMatchAnswers

\* A new run is refused, or enters a thread that holds none.
LEMMA ResearchStep ==
  ASSUME SessionsInv, NEW r \in Requests, Research(r)
  PROVE  SessionsInv'
<1>1. PICK thread \in ThreadIds :
        \/ \E exit \in Exits(r, "in_use") : Refuse(r, exit)
        \/ ~InUse(<<StoreOf(r), thread>>) /\ Enter(r, <<StoreOf(r), thread>>, "checked")
  BY DEF Research
<1>2. phase[r] = "new"
  BY DEF Research
<1>3. ASSUME NEW exit \in Exits(r, "in_use"), Refuse(r, exit)
      PROVE  SessionsInv'
  <2>1. exit \in {"in_use", "exit 1"}
    BY DEF Exits
  <2>2. QED
    BY <1>2, <1>3, <2>1, RefuseStep
<1>4. ASSUME ~InUse(<<StoreOf(r), thread>>),
             Enter(r, <<StoreOf(r), thread>>, "checked")
      PROVE  SessionsInv'
  <2> DEFINE k == <<StoreOf(r), thread>>
  <2>1. k \in Places
    BY PlaceOf
  <2>2. k \in unguarded \/ saved[k].runs = {}
    BY <1>4, <2>1 DEF InUse, SessionsInv, PlaceOK
  <2>3. QED
    BY <1>2, <1>4, <2>1, <2>2, PlaceOf, EnterStep
<1>5. QED
  BY <1>1, <1>3, <1>4

\* A continuation enters any thread.
LEMMA ResumeCallStep ==
  ASSUME SessionsInv, NEW r \in Requests, ResumeCall(r)
  PROVE  SessionsInv'
<1>1. PICK thread \in ThreadIds : Enter(r, <<StoreOf(r), thread>>, "resuming")
  BY DEF ResumeCall
<1>2. phase[r] = "new"
  BY DEF ResumeCall
<1>3. QED
  BY <1>1, <1>2, PlaceOf, EnterStep

\* A restart takes the server's requests and what it held in memory; command
\* lines never worked on that.
LEMMA RestartStep ==
  ASSUME SessionsInv, Restart
  PROVE  SessionsInv'
<1> DEFINE lost == {r \in ApiCalls : Active(r)}
<1>1. \A k \in Places :
        /\ k[1] = "server" => saved'[k] = Nothing /\ told'[k] = "none"
        /\ k[1] # "server" => saved'[k] = saved[k] /\ told'[k] = told[k]
  BY DEF Restart
<1>2. /\ \A q \in lost : phase'[q] = "over" /\ answer'[q] = "lost"
      /\ \A q \in Requests \ lost : phase'[q] = phase[q] /\ answer'[q] = answer[q]
      /\ UNCHANGED <<where, copy, rows, unguarded>>
  BY DEF Restart, Requests
<1>3. Nothing \in Checkpoint /\ Nothing.runs = {} /\ Nothing.next = "nothing"
  BY DEF Nothing, Checkpoint
<1>4. TypeOK'
  <2>1. saved' \in [Places -> Checkpoint]
    BY <1>3 DEF SessionsInv, TypeOK, Restart
  <2>2. told' \in [Places -> {"none", "interrupted", "done"}]
    BY DEF SessionsInv, TypeOK, Restart
  <2>3. phase' \in [Requests -> Phases] /\ answer' \in [Requests -> Answers]
    BY DEF SessionsInv, TypeOK, Restart, Phases, Answers
  <2>4. durable' \subseteq Processes /\ built' \in BOOLEAN /\ restarts' \in 0..MaxRestarts
    BY DEF SessionsInv, TypeOK, Restart, Processes
  <2>5. QED
    BY <2>1, <2>2, <2>3, <2>4, <1>2 DEF SessionsInv, TypeOK
<1>5. OneRunPerThread' /\ AnswersAreTrue'
  BY <1>1, <1>2, <1>3 DEF SessionsInv, OneRunPerThread, AnswersAreTrue
<1>6. ASSUME NEW k \in Places
      PROVE  PlaceOK(k)'
  <2>1. CASE k[1] = "server"
    BY <2>1, <1>1, <1>3 DEF PlaceOK
  <2>2. CASE k[1] # "server"
    BY <2>2, <1>1, <1>2 DEF SessionsInv, PlaceOK
  <2>3. QED
    BY <2>1, <2>2
<1>7. ASSUME NEW q \in Requests
      PROVE  DoneRowIsFinal(q)'
  <2>1. SUFFICES ASSUME rows[q] = <<"done">>, where[q] \notin unguarded,
                        saved'[where[q]].runs \cap copy[q].runs # {}
                 PROVE  saved'[where[q]].next = "end"
    BY <1>2 DEF DoneRowIsFinal
  <2>2. where[q] \in Places
    <3>1. rows[q] # <<>>
      BY <2>1
    <3>2. QED
      BY <3>1 DEF SessionsInv, RequestOK
  <2>3. saved'[where[q]] = saved[where[q]]
    BY <2>1, <2>2, <1>1, <1>3
  <2>4. QED
    BY <2>1, <2>3 DEF SessionsInv, DoneRowsAreFinal, DoneRowIsFinal
<1>8. ASSUME NEW q \in Requests
      PROVE  RowMatchesAnswer(q)' /\ RequestOK(q)' /\ Untouched(q)'
  <2>1. Untouched(q)'
    BY <1>1, <1>2, <1>3 DEF SessionsInv, Untouched
  <2>2. CASE q \in lost
    BY <2>1, <2>2, <1>2
       DEF SessionsInv, RowsMatchAnswers, RowMatchesAnswer, RequestOK, Active, ExitCodes
  <2>3. CASE q \notin lost
    BY <2>1, <2>3, <1>2
       DEF SessionsInv, RowsMatchAnswers, RowMatchesAnswer, RequestOK, Active
  <2>4. QED
    BY <2>2, <2>3
<1>9. ASSUME NEW q \in Requests
      PROVE  SoloOK(q)'
  <2>1. SUFFICES ASSUME Active(q)', where[q] \notin unguarded
                 PROVE  Alone(q)' /\ Knows(q)'
    BY <1>2 DEF SoloOK
  <2>2. q \notin lost /\ Active(q) /\ phase'[q] = phase[q]
    BY <2>1, <1>2 DEF Active
  <2>3. Alone(q) /\ Knows(q)
    BY <2>1, <2>2 DEF SessionsInv, SoloOK
  <2>4. where[q] \in Places /\ where[q][1] # "server"
    BY <2>2 DEF SessionsInv, RequestOK, Requests
  <2>5. Knows(q)'
    BY <2>2, <2>3, <2>4, <1>1, <1>2 DEF Knows
  <2>6. \A p \in Requests : Active(p)' => Active(p)
    BY <1>2 DEF Active
  <2>7. QED
    BY <2>3, <2>5, <2>6, <1>2 DEF Alone
<1>10. QED
  BY <1>4, <1>5, <1>6, <1>7, <1>8, <1>9 DEF SessionsInv, DoneRowsAreFinal, RowsMatchAnswers

-----------------------------------------------------------------------------
(* The theorems.                                                           *)

\* Before the first request nothing is held and nobody is at work.
LEMMA InitInv ==
  ASSUME Init
  PROVE  SessionsInv
<1>1. Nothing \in Checkpoint /\ Nothing.runs = {} /\ Nothing.next = "nothing"
  BY DEF Nothing, Checkpoint
<1>2. \A r \in Requests :
        /\ phase[r] = "new" /\ answer[r] = "none" /\ rows[r] = <<>>
        /\ copy[r] = Nothing /\ ~Active(r)
  BY DEF Init, Active
<1>3. \A k \in Places : saved[k] = Nothing /\ told[k] = "none"
  BY DEF Init
<1>4. TypeOK
  <2>1. /\ saved \in [Places -> Checkpoint] /\ copy \in [Requests -> Checkpoint]
        /\ told \in [Places -> {"none", "interrupted", "done"}]
        /\ where \in [Requests -> Places \cup {Nowhere}]
    BY <1>1 DEF Init
  <2>2. phase \in [Requests -> Phases] /\ answer \in [Requests -> Answers]
    BY DEF Init, Phases, Answers
  <2>3. rows \in [Requests -> Seq({"done", "failed"})]
    BY DEF Init
  <2>4. durable \subseteq Processes /\ built \in BOOLEAN /\ restarts \in 0..MaxRestarts
    BY DEF Init
  <2>5. QED
    BY <2>1, <2>2, <2>3, <2>4 DEF TypeOK, Init
<1>5. OneRunPerThread /\ AnswersAreTrue /\ \A k \in Places : PlaceOK(k)
  BY <1>1, <1>3 DEF OneRunPerThread, AnswersAreTrue, PlaceOK
<1>6. ASSUME NEW r \in Requests
      PROVE  DoneRowIsFinal(r)
  <2>1. rows[r] # <<"done">>
    BY <1>2
  <2>2. QED
    BY <2>1 DEF DoneRowIsFinal
<1>7. \A r \in Requests : RowMatchesAnswer(r) /\ RequestOK(r) /\ Untouched(r) /\ SoloOK(r)
  BY <1>1, <1>2, <1>3 DEF RowMatchesAnswer, RequestOK, Untouched, SoloOK, Active
<1>8. QED
  BY <1>4, <1>5, <1>6, <1>7 DEF SessionsInv, DoneRowsAreFinal, RowsMatchAnswers

\* Every step keeps the invariant.
LEMMA NextInv ==
  ASSUME SessionsInv, [Next]_vars
  PROVE  SessionsInv'
<1>1. CASE Restart
  BY <1>1, RestartStep
<1>2. ASSUME NEW r \in Requests, Arrive(r)
      PROVE  SessionsInv'
  BY <1>2, UnavailableStep, ResearchStep, ResumeCallStep DEF Arrive
<1>3. ASSUME NEW r \in Requests, Invoke(r)
      PROVE  SessionsInv'
  BY <1>3, InvokeFreshStep, InvokeResumeStep, SuperstepStep, StopStep, RaiseStep DEF Invoke
<1>4. ASSUME NEW r \in Requests, Reply(r)
      PROVE  SessionsInv'
  BY <1>4, RespondInterruptedStep, FinishStep, DeliverStep, PrintFailsStep,
     RespondErrorStep, RecordFailureStep, ExitFailedStep, PromptStep,
     PromptAnsweredStep, CliStopsStep DEF Reply
<1>5. CASE UNCHANGED vars
  <2>1. /\ UNCHANGED serverVars /\ saved' = saved /\ phase' = phase
        /\ where' = where /\ copy' = copy /\ answer' = answer /\ rows' = rows
        /\ told' = told /\ unguarded' = unguarded
    BY <1>5 DEF vars, requestVars
  <2>2. TypeOK' /\ OneRunPerThread' /\ AnswersAreTrue'
    BY <2>1 DEF SessionsInv, TypeOK, OneRunPerThread, AnswersAreTrue, serverVars
  <2>3. DoneRowsAreFinal' /\ RowsMatchAnswers'
    BY <2>1 DEF SessionsInv, DoneRowsAreFinal, DoneRowIsFinal, RowsMatchAnswers,
         RowMatchesAnswer
  <2>4. \A k \in Places : PlaceOK(k)'
    BY <2>1 DEF SessionsInv, PlaceOK
  <2>5. \A r \in Requests : RequestOK(r)' /\ Untouched(r)'
    BY <2>1 DEF SessionsInv, RequestOK, Untouched, Active
  <2>6. \A r \in Requests : SoloOK(r)'
    BY <2>1 DEF SessionsInv, SoloOK, Alone, Knows, Active
  <2>7. QED
    BY <2>2, <2>3, <2>4, <2>5, <2>6 DEF SessionsInv
<1>6. QED
  BY <1>1, <1>2, <1>3, <1>4, <1>5 DEF Next

\* What callers know of their threads and what the stores hold agree at every
\* step of every request, restarts included (cli.py, api/server.py).
THEOREM SessionsInvariant == Spec => []SessionsInv
<1>1. Init => SessionsInv
  BY InitInv
<1>2. SessionsInv /\ [Next]_vars => SessionsInv'
  BY NextInv
<1>3. QED
  BY <1>1, <1>2, PTL DEF Spec

\* Every part of the state keeps its type.
THEOREM SessionsTypes == Spec => []TypeOK
<1>1. SessionsInv => TypeOK
  BY DEF SessionsInv
<1>2. QED
  BY <1>1, SessionsInvariant, PTL

\* The D-20 check keeps runs apart wherever no two requests overlap and no
\* query is empty.
THEOREM RunsStayApart == Spec => []OneRunPerThread
<1>1. SessionsInv => OneRunPerThread
  BY DEF SessionsInv
<1>2. QED
  BY <1>1, SessionsInvariant, PTL

\* What a caller was last told of a thread remains so.
THEOREM AnswersHold == Spec => []AnswersAreTrue
<1>1. SessionsInv => AnswersAreTrue
  BY DEF SessionsInv
<1>2. QED
  BY <1>1, SessionsInvariant, PTL

\* A run recorded as completed is never taken up again.
THEOREM RecordedRunsAreOver == Spec => []DoneRowsAreFinal
<1>1. SessionsInv => DoneRowsAreFinal
  BY DEF SessionsInv
<1>2. QED
  BY <1>1, SessionsInvariant, PTL

\* The row of a request and what its caller gets never contradict each other: a
\* run recorded as completed ends in success, or with an exit code 1 that names
\* no failure, one recorded as failed never in success.
THEOREM RowsAgree == Spec => []RowsMatchAnswers
<1>1. SessionsInv => RowsMatchAnswers
  BY DEF SessionsInv
<1>2. QED
  BY <1>1, SessionsInvariant, PTL

\* How one step may end a pause.
PauseEnds(k) ==
  saved[k].next = "review" /\ saved'[k].next # "review" =>
    saved'[k] = Nothing \/ saved'[k].reviews = saved[k].reviews + 1

\* A request that works on a guarded thread finds a pause only if it has the
\* answer to it.
LEMMA SavePause ==
  ASSUME SessionsInv, NEW r \in Requests, Active(r), NEW c,
         saved' = [saved EXCEPT ![where[r]] = c], NEW k \in Places \ unguarded,
         \/ phase[r] = "running" /\ c.reviews = copy[r].reviews
         \/ phase[r] = "checked"
  PROVE  PauseEnds(k)
<1>1. CASE k # where[r]
  BY <1>1 DEF SessionsInv, TypeOK, PauseEnds
<1>2. CASE k = where[r]
  <2>1. Knows(r) /\ saved'[k] = c /\ PlaceOK(k)
    BY <1>2 DEF SessionsInv, TypeOK, SoloOK
  <2>2. CASE phase[r] = "checked"
    BY <2>1, <2>2, <1>2 DEF Knows, PlaceOK, PauseEnds, Nothing
  <2>3. CASE phase[r] = "running" /\ c.reviews = copy[r].reviews
    BY <2>1, <2>3, <1>2 DEF Knows, PauseEnds
  <2>4. QED
    BY <2>2, <2>3
<1>3. QED
  BY <1>1, <1>2

\* No step ends a pause otherwise.
LEMMA PauseStep ==
  ASSUME SessionsInv, [Next]_vars, NEW k \in Places \ unguarded'
  PROVE  PauseEnds(k)
<1>1. CASE UNCHANGED saved
  BY <1>1 DEF PauseEnds
<1>2. CASE Restart
  BY <1>2 DEF Restart, PauseEnds
<1>3. ASSUME NEW r \in Requests, InvokeFresh(r)
      PROVE  PauseEnds(k)
  <2>1. Active(r) /\ phase[r] = "checked" /\ k \in Places \ unguarded
    BY <1>3 DEF InvokeFresh, Active
  <2>2. \E c : saved' = [saved EXCEPT ![where[r]] = c]
    BY <1>3 DEF InvokeFresh
  <2>3. QED
    BY <2>1, <2>2, SavePause
<1>4. ASSUME NEW r \in Requests, Superstep(r) \/ Stop(r)
      PROVE  PauseEnds(k)
  <2>1. Active(r) /\ phase[r] = "running" /\ k \in Places \ unguarded
    BY <1>4 DEF Superstep, Stop, Active
  <2>2. copy[r] \in Checkpoint
    BY DEF SessionsInv, TypeOK
  <2>3. \E c : saved' = [saved EXCEPT ![where[r]] = c] /\ c.reviews = copy[r].reviews
    <3>1. /\ [copy[r] EXCEPT !.next = "end"].reviews = copy[r].reviews
          /\ [copy[r] EXCEPT !.next = "review"].reviews = copy[r].reviews
      BY <2>2 DEF Checkpoint
    <3>2. QED
      BY <1>4, <3>1 DEF Superstep, Stop, Save
  <2>4. QED
    BY <2>1, <2>3, SavePause
<1>5. ASSUME NEW r \in Requests, Arrive(r)
      PROVE  UNCHANGED saved
  BY <1>5 DEF Arrive, Unavailable, Research, ResumeCall, Refuse, Enter
<1>6. ASSUME NEW r \in Requests, InvokeResume(r) \/ Raise(r) \/ Reply(r)
      PROVE  UNCHANGED saved
  BY <1>6 DEF InvokeResume, Raise, Reply, RespondInterrupted, Finish, Deliver,
     PrintFails, RespondError, RecordFailure, ExitFailed, Prompt, PromptAnswered,
     CliStops
<1>7. CASE UNCHANGED vars
  BY <1>1, <1>7 DEF vars
<1>8. QED
  BY <1>1, <1>2, <1>3, <1>4, <1>5, <1>6, <1>7 DEF Next, Invoke

\* A pause on a guarded thread is ended by an answer to it, or by the loss of
\* the memory that held it, and by nothing else.
THEOREM PausesAreAnswered == Spec => PausesEndByAnswer
<1>1. SessionsInv /\ [Next]_vars => [\A k \in Places \ unguarded' : PauseEnds(k)]_vars
  BY PauseStep
<1>2. [\A k \in Places \ unguarded' : PauseEnds(k)]_vars
        <=> [\A k \in Places \ unguarded' :
               saved[k].next = "review" /\ saved'[k].next # "review" =>
                 \/ saved'[k] = Nothing
                 \/ saved'[k].reviews = saved[k].reviews + 1]_vars
  BY DEF PauseEnds
<1>3. QED
  BY <1>1, <1>2, SessionsInvariant, PTL DEF Spec, PausesEndByAnswer

=================================================================================
