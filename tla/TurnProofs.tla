----------------------------- MODULE TurnProofs -----------------------------
(***************************************************************************)
(* A turn of the agent, and a request to the provider that it makes.       *)
(*                                                                         *)
(* For every budget: no answer leaves a run past an open gate or a missing *)
(* review, a run is closed once, with the text that it has recorded, every *)
(* tool call is answered once, and the rewrites stay within their budgets. *)
(*                                                                         *)
(* For replies of any length and queues of any size: an answer is the      *)
(* whole reply, and was told on as it came.                                *)
(***************************************************************************)
EXTENDS AgentTurn, ProviderRequest, FiniteSetTheorems, SequenceTheorems, TLAPS

-----------------------------------------------------------------------------
(* The turn. *)

Texts   == {"none", "runtime", "answer", "draft", "unverified", "stopped"}
Asking  == {"turn", "requeue", "ready", "model", "batch", "tail",
            "answer", "judge", "review"}
Leaving == {"memory", "summary", "settle", "record", "close"}

\* The records have their fields.
Shape ==
    /\ pc \in Asking \cup Leaving \cup {"starting", "closing", "failed", "idle"}
    /\ out.text \in Texts
    /\ DOMAIN out = {"reason", "text", "keep", "memory"}
    /\ DOMAIN log = {"finals", "summary", "finished", "settled", "closed"}
    /\ DOMAIN review = {"state", "prepared", "corrected", "preparing"}

\* An answer is never one of the texts that the gate may not replace.
Replaceable == out.text = "answer" => ~ out.keep

\* What has been recorded and told, by the stage of the run.
Recorded == log.finals = <<out.text>>

\* The log before the run is begun: the output of the prompt before may be
\* marked as finished.
Before == [NewLog EXCEPT !.finished = log.finished]

Stage ==
    /\ pc \notin {"idle", "failed"} => cause = "none" /\ log.closed = 0
    /\ pc = "starting" => log = Before
    /\ pc \in Asking \cup {"closing"} => log = NewLog
    /\ pc \in Leaving => Recorded
    /\ pc \in {"memory", "summary"} => ~ log.summary /\ ~ log.finished /\ ~ log.settled
    /\ pc \in {"settle", "record", "close"} => log.summary
    /\ pc = "settle" => ~ log.finished /\ ~ log.settled
    /\ pc \in {"record", "close"} => log.finished
    /\ pc = "record" => ~ log.settled
    /\ pc = "close" => log.settled
    /\ pc = "failed" =>
          \/ log.closed = 1 /\ log.summary /\ log.settled /\ Recorded
          \/ /\ log.closed = 0 /\ cause # "none"
             /\ log = NewLog \/ Recorded \/ (cause = "starting" /\ log = Before)
             /\ log.summary => Recorded
             /\ log.finished => cause \in {"starting", "record", "close"}

Inv == Shape /\ Replaceable /\ Stage /\ BlockedIsNotDelivered /\ ReviewedIsDelivered
             /\ OneTerminal /\ ToldIsRecorded

-----------------------------------------------------------------------------
\* What a step of the loop does to the end of the run: it goes on, or it ends
\* the run with a text, which is the answer only where the review is through.
Goes == pc' \in Asking /\ UNCHANGED out

Ends ==
    /\ pc' = "closing"
    /\ DOMAIN out' = {"reason", "text", "keep", "memory"}
    /\ out'.text \in Texts
    /\ out'.text = "answer" => ~ out'.keep
    /\ out'.text = "answer" /\ "review" \in owners' => review'.state = "done"

LoopStep == pc \in Asking /\ UNCHANGED <<log, cause>> /\ DOMAIN review' = DOMAIN review /\ (Goes \/ Ends)

LEMMA LoopSteps == Inv /\ Loop => LoopStep
<1> SUFFICES ASSUME Inv, Loop PROVE LoopStep
  OBVIOUS
<1>0. DOMAIN review = {"state", "prepared", "corrected", "preparing"}
  BY DEF Inv, Shape
<1>1. CASE StepsUsedUp
  BY <1>0, <1>1 DEF StepsUsedUp, LoopStep, Asking, Finish, Ends, Texts
<1>2. CASE StopForBudget
  BY <1>0, <1>2 DEF StopForBudget, LoopStep, Asking, Finish, Ends, Texts
<1>3. CASE QueueTurn
  <2>1. /\ pc \in Asking /\ UNCHANGED <<log, cause, review>>
    BY <1>3 DEF QueueTurn, Asking
  <2>2. PICK d \in Decisions :
            \/ pc' = "requeue" /\ UNCHANGED out
            \/ Finish("tool_choice_exact_exhausted", FALSE, TRUE)
            \/ Ready
            \/ Finish("tool_choice_queue", FALSE, TRUE)
            \/ Coverage(queue.fresh)
    BY <1>3 DEF QueueTurn
  <2>3. ASSUME Coverage(queue.fresh) 
        PROVE  Ready \/ Finish("unverified_final_gate", FALSE, TRUE)
    BY <2>3 DEF Coverage
  <2>4. Goes \/ Ends
    BY <2>2, <2>3 DEF Ready, Goes, Asking, Finish, Ends, Texts
  <2>. QED BY <1>0, <2>1, <2>4 DEF LoopStep
<1>4. CASE BeginTurn
  <2>1. /\ pc \in Asking /\ UNCHANGED <<log, cause, review>>
    BY <1>4 DEF BeginTurn, Asking
  <2>2. Goes
    BY <1>4 DEF BeginTurn, Goes, Asking, Again
  <2>. QED BY <1>0, <2>1, <2>2 DEF LoopStep
<1>. QED BY <1>1, <1>2, <1>3, <1>4 DEF Loop

LEMMA ReplySteps == Inv /\ Reply => LoopStep
<1> SUFFICES ASSUME Inv, Reply PROVE LoopStep
  OBVIOUS
<1>0. DOMAIN review = {"state", "prepared", "corrected", "preparing"}
  BY DEF Inv, Shape
<1>1. pc \in Asking /\ UNCHANGED <<log, cause, review>>
  BY DEF Reply, ProviderFails, FinalTurnProtocol, OrdinaryArtifact,
         TextInsteadOfTool, Blank, Text, OtherTools, ToolCalls, Settings, Asking
<1>2. NotTheTool => Goes \/ Ends
  BY  DEF NotTheTool, Finish, Ends, Texts, Again, Goes, Asking
<1>3. Goes \/ Ends
  <2>1. CASE ProviderFails
    BY <2>1 DEF ProviderFails, Finish, Ends, Texts, Deliver
  <2>2. CASE FinalTurnProtocol
    BY <2>2 DEF FinalTurnProtocol, Finish, Ends, Texts, Again, Goes, Asking
  <2>3. CASE OrdinaryArtifact
    BY <2>3 DEF OrdinaryArtifact, Finish, Ends, Texts
  <2>4. CASE TextInsteadOfTool \/ OtherTools
    BY <2>4, <1>2 DEF TextInsteadOfTool, OtherTools
  <2>5. CASE Blank
    BY <2>5 DEF Blank, Finish, Ends, Texts, Again, Goes, Asking
  <2>6. CASE Text
    BY <2>6 DEF Text, Goes, Asking, Finish, Ends, Texts
  <2>7. CASE ToolCalls
    BY <2>7 DEF ToolCalls, Goes, Asking, Finish, Ends, Texts
  <2>. QED BY <2>1, <2>2, <2>3, <2>4, <2>5, <2>6, <2>7 DEF Reply
<1>. QED BY <1>0, <1>1, <1>3 DEF LoopStep

LEMMA BatchSteps == Inv /\ Batch => LoopStep
<1> SUFFICES ASSUME Inv, Batch PROVE LoopStep
  OBVIOUS
<1>0. DOMAIN review = {"state", "prepared", "corrected", "preparing"}
  BY DEF Inv, Shape
<1>1. pc \in Asking /\ UNCHANGED <<log, cause, review>>
  BY DEF Batch, BudgetInBatch, RunTool, InterruptTool, EndBatch, Settings, Asking
<1>2. Goes \/ Ends
  <2>1. CASE BudgetInBatch
    BY <2>1 DEF BudgetInBatch, Finish, Ends, Texts
  <2>2. CASE RunTool
    BY <2>2, <1>1 DEF RunTool, Goes, Asking, Finish, Ends, Texts
  <2>3. CASE InterruptTool
    BY <2>3 DEF InterruptTool, Finish, Ends, Texts
  <2>4. CASE EndBatch
    BY <2>4 DEF EndBatch, Again, Goes, Asking
  <2>. QED BY <2>1, <2>2, <2>3, <2>4 DEF Batch
<1>. QED BY <1>0, <1>1, <1>2 DEF LoopStep

LEMMA AnswerSteps == Inv /\ Answer => LoopStep
<1> SUFFICES ASSUME Inv, Answer PROVE LoopStep
  OBVIOUS
<1>0. DOMAIN review = {"state", "prepared", "corrected", "preparing"}
  BY DEF Inv, Shape
<1>1. pc \in Asking /\ UNCHANGED <<log, cause, owners>>
  BY DEF Answer, CloseDirective, Remind, Audit, AuditPasses, Review, Judged, Asking
<1>2. CASE CloseDirective
  BY <1>0, <1>1, <1>2 DEF CloseDirective, Goes, LoopStep, Asking, Again
<1>3. CASE Remind
  BY <1>0, <1>1, <1>3 DEF Remind, LoopStep, Finish, Ends, Texts, Again, Goes, Asking
<1>4. CASE Audit
  BY <1>0, <1>1, <1>4 DEF Audit, Goes, LoopStep, Asking, Again
<1>5. CASE AuditPasses
  BY <1>0, <1>1, <1>5 DEF AuditPasses, Goes, LoopStep, Asking
<1>6. CASE Review
  <2>1. DOMAIN review' = DOMAIN review
    BY <1>0, <1>6 DEF Review, Unverified
  <2>2. CASE UNCHANGED review /\ Deliver("final", "answer")
    <3>1. "review" \notin owners \/ review.state = "done"
      BY <2>2, <1>0, <1>6 DEF Review, Unverified, Finish, Deliver, Again
    <3>. QED BY <2>1, <2>2, <3>1, <1>1 DEF LoopStep, Ends, Texts, Deliver
  <2>3. CASE Unverified
    BY <2>1, <2>3, <1>1 DEF Unverified, LoopStep, Finish, Ends, Texts
  <2>4. CASE Again
    BY <2>1, <2>4, <1>1 DEF LoopStep, Again, Goes, Asking
  <2>5. CASE Deliver("final", "answer") /\ review' = [review EXCEPT !.state = "done"]
    <3>1. review'.state = "done"
      BY <2>5, <1>0
    <3>. QED BY <2>1, <2>5, <3>1, <1>1 DEF LoopStep, Ends, Texts, Deliver
  <2>. QED BY <1>6, <2>2, <2>3, <2>4, <2>5 DEF Review
<1>. QED BY <1>2, <1>3, <1>4, <1>5, <1>6 DEF Answer

\* A step of the loop keeps the invariant.
LEMMA LoopKeeps == Inv /\ LoopStep => Inv'
<1> SUFFICES ASSUME Inv, LoopStep PROVE Inv'
  OBVIOUS
<1>1. pc' \in Asking \cup {"closing"} /\ pc \in Asking
  BY DEF LoopStep, Goes, Ends, Texts
<1>2. log' = NewLog /\ cause' = "none" /\ log = NewLog
  BY <1>1 DEF LoopStep, Inv, Stage, Asking
<1>3. Shape' /\ Replaceable'
  BY <1>1, <1>2 DEF LoopStep, Goes, Ends, Texts, Inv, Shape, Replaceable
<1>4. Stage'
  BY <1>1, <1>2 DEF Stage, Asking, Leaving, NewLog
<1>5. BlockedIsNotDelivered' /\ OneTerminal' /\ ToldIsRecorded'
  BY <1>1, <1>2 DEF BlockedIsNotDelivered, OneTerminal, ToldIsRecorded, Asking, NewLog
<1>6. ReviewedIsDelivered'
  BY <1>1 DEF LoopStep, Goes, Ends, Texts, ReviewedIsDelivered, Asking
<1>. QED BY <1>3, <1>4, <1>5, <1>6 DEF Inv

-----------------------------------------------------------------------------
LEMMA InitInv == Init => Inv
BY DEF Init, Inv, Shape, Replaceable, Stage, NoOut, NewLog, NewReview, Texts,
       Asking, Leaving, BlockedIsNotDelivered, ReviewedIsDelivered, OneTerminal,
       ToldIsRecorded

LEMMA StartRunStep == Inv /\ (StartRun \/ BeginRun) => Inv'
<1> SUFFICES ASSUME Inv, StartRun \/ BeginRun PROVE Inv'
  OBVIOUS
<1>1. CASE StartRun
  <2>1. log' = Before' /\ DOMAIN log' = DOMAIN NewLog /\ log'.closed = 0
    BY <1>1 DEF StartRun, Before, NewLog
  <2>. QED
    BY <1>1, <2>1 DEF StartRun, Inv, Shape, Replaceable, Stage, NoOut, NewLog,
           Texts, Asking, Leaving, BlockedIsNotDelivered, ReviewedIsDelivered,
           OneTerminal, ToldIsRecorded
<1>2. CASE BeginRun
  BY <1>2 DEF BeginRun, Set, Inv, Shape, Replaceable, Stage, NewLog, Asking, Leaving,
              BlockedIsNotDelivered, ReviewedIsDelivered, OneTerminal, ToldIsRecorded
<1>. QED BY <1>1, <1>2

LEMMA Singleton == \A x \in Texts : /\ <<x>> # <<>> /\ Len(<<x>>) = 1
                                     /\ <<x>>[Len(<<x>>)] = x
                                     /\ Append(<<>>, x) = <<x>>
OBVIOUS

LEMMA Second ==
  ASSUME NEW x \in Texts, NEW y \in Texts
  PROVE  /\ Append(<<x>>, y) # <<>>
         /\ Append(<<x>>, y)[Len(Append(<<x>>, y))] = y
<1>1. <<x>> \in Seq(Texts)
  OBVIOUS
<1>. QED BY <1>1

\* The final record: what a gate has left open is replaced.
LEMMA RecordFinalStep == Inv /\ RecordFinal => Inv'
<1> SUFFICES ASSUME Inv, RecordFinal PROVE Inv'
  OBVIOUS
<1>1. /\ pc = "closing" /\ log = NewLog /\ cause = "none"
      /\ pc' \in {"memory", "summary"}
      /\ UNCHANGED <<owners, fin, review, cause>>
  BY DEF RecordFinal, Ran, Inv, Stage, Asking
<1>2. /\ DOMAIN out' = DOMAIN out
      /\ out'.text \in Texts
      /\ out' = out \/ out'.text = "unverified"
      /\ fin.gate /\ ~ out.keep => out'.text = "unverified"
  BY DEF RecordFinal, Inv, Shape, Texts
<1>3. Replaceable'
  BY <1>2 DEF Inv, Replaceable
<1>4. /\ log'.finals = <<out'.text>> /\ log'.closed = 0
      /\ ~ log'.summary /\ ~ log'.finished /\ ~ log'.settled
      /\ DOMAIN log' = DOMAIN log
  BY <1>1, <1>2, Singleton DEF RecordFinal, NewLog
<1>5. Shape'
  BY <1>1, <1>2, <1>4 DEF Inv, Shape, Leaving
<1>6. Stage'
  BY <1>1, <1>4 DEF Stage, Asking, Leaving, Recorded
<1>7. BlockedIsNotDelivered'
  BY <1>1, <1>2 DEF Inv, BlockedIsNotDelivered, Replaceable
<1>8. ReviewedIsDelivered'
  BY <1>1, <1>2 DEF Inv, ReviewedIsDelivered
<1>9. OneTerminal' /\ ToldIsRecorded'
  BY <1>1, <1>4 DEF OneTerminal, ToldIsRecorded
<1>. QED BY <1>3, <1>5, <1>6, <1>7, <1>8, <1>9 DEF Inv

\* Memory, summary, output, settlement: one more mark in the record.
LEMMA ClosingSteps ==
  Inv /\ (Consolidate \/ Summarize \/ FinishOutput \/ Settle) => Inv'
<1> SUFFICES ASSUME Inv, Consolidate \/ Summarize \/ FinishOutput \/ Settle
             PROVE  Inv'
  OBVIOUS
<1>1. /\ pc \in {"memory", "summary", "settle", "record"}
      /\ pc' \in {"summary", "settle", "record", "close"}
      /\ UNCHANGED <<owners, fin, review, out, cause>>
      /\ cause = "none" /\ log.closed = 0
  BY DEF Consolidate, Summarize, FinishOutput, Settle, Ran, Inv, Stage
<1>2. /\ DOMAIN log' = DOMAIN log /\ log'.closed = 0 /\ Recorded'
  BY <1>1 DEF Consolidate, Summarize, FinishOutput, Settle, Inv, Shape, Stage,
              Recorded, Leaving
<1>3. Shape' /\ Replaceable'
  BY <1>1, <1>2 DEF Inv, Shape, Replaceable, Leaving
<1>4. Stage'
  <2>1. CASE Consolidate
    BY <1>1, <1>2, <2>1 DEF Consolidate, Inv, Stage, Asking, Leaving
  <2>2. CASE Summarize
    BY <1>1, <1>2, <2>2 DEF Summarize, Inv, Shape, Stage, Asking, Leaving
  <2>3. CASE FinishOutput
    BY <1>1, <1>2, <2>3 DEF FinishOutput, Inv, Shape, Stage, Asking, Leaving
  <2>4. CASE Settle
    BY <1>1, <1>2, <2>4 DEF Settle, Inv, Shape, Stage, Asking, Leaving
  <2>. QED BY <2>1, <2>2, <2>3, <2>4
<1>5. BlockedIsNotDelivered' /\ ReviewedIsDelivered'
  BY <1>1 DEF Inv, BlockedIsNotDelivered, ReviewedIsDelivered
<1>6. OneTerminal' /\ ToldIsRecorded'
  BY <1>1, <1>2 DEF OneTerminal, ToldIsRecorded
<1>. QED BY <1>3, <1>4, <1>5, <1>6 DEF Inv

LEMMA FinishTurnStep == Inv /\ FinishTurn => Inv'
<1> SUFFICES ASSUME Inv, FinishTurn PROVE Inv'
  OBVIOUS
<1>1. /\ pc = "close" /\ pc' \in {"idle", "failed"} /\ UNCHANGED <<out, cause>>
      /\ cause = "none" /\ log.closed = 0 /\ log.summary /\ log.settled /\ Recorded
  BY DEF FinishTurn, Ran, Inv, Stage, Leaving
<1>2. /\ DOMAIN log' = DOMAIN log /\ log'.closed = 1 /\ log'.summary
      /\ log'.settled /\ Recorded'
  BY <1>1 DEF FinishTurn, Inv, Shape, Recorded
<1>3. DOMAIN review' = {"state", "prepared", "corrected", "preparing"}
  BY DEF FinishTurn, Ran, Forget, NewReview, Inv, Shape
<1>4. Shape' /\ Replaceable'
  BY <1>1, <1>2, <1>3 DEF Inv, Shape, Replaceable
<1>5. Stage' /\ BlockedIsNotDelivered' /\ ReviewedIsDelivered' /\ OneTerminal'
  BY <1>1, <1>2 DEF Stage, Asking, Leaving, BlockedIsNotDelivered,
                    ReviewedIsDelivered, OneTerminal
<1>6. ToldIsRecorded'
  BY <1>1, <1>2, Singleton DEF Inv, Shape, Recorded, ToldIsRecorded
<1>. QED BY <1>4, <1>5, <1>6 DEF Inv

LEMMA FaultStep == Inv /\ Fault => Inv'
<1> SUFFICES ASSUME Inv, Fault PROVE Inv'
  OBVIOUS
<1>1. /\ pc' = "failed" /\ cause' = pc /\ pc # "none"
      /\ UNCHANGED <<owners, fin, review, out, log>>
      /\ log.closed = 0
      /\ log = NewLog \/ Recorded \/ (pc = "starting" /\ log = Before)
      /\ log.summary => Recorded
      /\ log.finished => pc \in {"starting", "record", "close"}
  BY DEF Fault, Inv, Shape, Stage, Asking, Leaving, NewLog, Before
<1>2. Shape' /\ Replaceable' /\ Stage'
  BY <1>1 DEF Inv, Shape, Replaceable, Stage, Asking, Leaving, Recorded, Before
<1>3. BlockedIsNotDelivered' /\ ReviewedIsDelivered' /\ OneTerminal' /\ ToldIsRecorded'
  BY <1>1 DEF BlockedIsNotDelivered, ReviewedIsDelivered, OneTerminal, ToldIsRecorded
<1>. QED BY <1>2, <1>3 DEF Inv

\* The command boundary closes what is open, once, with a text of its own
\* unless the summary is already out.
LEMMA EnsureFailedTurnStep == Inv /\ EnsureFailedTurn => Inv'
<1> SUFFICES ASSUME Inv, EnsureFailedTurn PROVE Inv'
  OBVIOUS
<1>1. pc = "failed" /\ pc' = "idle" /\ UNCHANGED cause
  BY DEF EnsureFailedTurn
<1>2. DOMAIN review' = {"state", "prepared", "corrected", "preparing"}
  BY DEF EnsureFailedTurn, Forget, NewReview
<1>3. BlockedIsNotDelivered' /\ ReviewedIsDelivered'
  BY <1>1 DEF BlockedIsNotDelivered, ReviewedIsDelivered
<1>4. CASE log.closed > 0
  <2>1. UNCHANGED <<log, out>>
    BY <1>4 DEF EnsureFailedTurn
  <2>2. log.closed = 1 /\ log.summary /\ log.settled
    BY <1>1, <1>4 DEF Inv, Stage
  <2>3. Shape' /\ Replaceable' /\ Stage'
    BY <1>1, <1>2, <2>1 DEF Inv, Shape, Replaceable, Stage, Asking, Leaving
  <2>4. OneTerminal' /\ ToldIsRecorded'
    BY <1>1, <2>1, <2>2 DEF Inv, OneTerminal, ToldIsRecorded
  <2>. QED BY <1>3, <2>3, <2>4 DEF Inv
<1>5. CASE ~ (log.closed > 0)
  <2>1. /\ log.closed = 0 /\ cause # "none"
        /\ log = NewLog \/ Recorded \/ (cause = "starting" /\ log = Before)
        /\ log.summary => Recorded
        /\ log.finished => cause \in {"starting", "record", "close"}
    BY <1>1, <1>5 DEF Inv, Stage
  <2>2. /\ DOMAIN log' = DOMAIN log /\ log'.summary
        /\ \/ log'.closed = 1 /\ log'.settled
           \/ log'.closed = 0 /\ log.finished
    <3>1. DOMAIN log = {"finals", "summary", "finished", "settled", "closed"}
      BY DEF Inv, Shape
    <3>2. PICK l : /\ log' = Closed(l)
                   /\ l = log \/ l = [log EXCEPT !.finals = Append(@, "stopped")]
      BY <1>5 DEF EnsureFailedTurn
    <3>3. /\ DOMAIN l = DOMAIN log /\ l.closed = 0 /\ (l.finished <=> log.finished)
      BY <2>1, <3>1, <3>2
    <3>. QED BY <3>1, <3>2, <3>3 DEF Closed
  <2>3. \/ /\ log.summary /\ UNCHANGED out
           /\ log'.finals = log.finals
        \/ /\ out' = StoppedOut
           /\ log'.finals = Append(log.finals, "stopped")
    <3>1. "finals" \in DOMAIN log
      BY DEF Inv, Shape
    <3>2. ASSUME NEW l, "finals" \in DOMAIN l PROVE Closed(l).finals = l.finals
      BY DEF Closed
    <3>3. CASE log.summary
      BY <1>5, <3>1, <3>2, <3>3 DEF EnsureFailedTurn
    <3>4. CASE ~ log.summary
      <4>1. /\ out' = StoppedOut
            /\ log' = Closed([log EXCEPT !.finals = Append(@, "stopped")])
        BY <1>5, <3>4 DEF EnsureFailedTurn
      <4>. QED BY <3>1, <3>2, <4>1
    <3>. QED BY <3>3, <3>4
  <2>4. StoppedOut.text = "stopped" /\ DOMAIN StoppedOut = {"reason", "text", "keep", "memory"}
    BY DEF StoppedOut, NoOut
  <2>5. /\ log'.finals # <<>>
        /\ log'.finals[Len(log'.finals)] = out'.text
    <3>1. "stopped" \in Texts /\ out.text \in Texts
      BY DEF Inv, Shape, Texts
    <3>2. CASE log.summary /\ UNCHANGED out /\ log'.finals = log.finals
      BY <2>1, <3>1, <3>2, Singleton DEF Recorded
    <3>3. CASE out' = StoppedOut /\ log'.finals = Append(log.finals, "stopped")
      <4>1. log.finals = <<>> \/ log.finals = <<out.text>>
        BY <2>1 DEF NewLog, Before, Recorded
      <4>. QED BY <2>4, <3>1, <3>3, <4>1, Singleton, Second
    <3>. QED BY <2>3, <3>2, <3>3
  <2>6. Shape' /\ Replaceable' /\ Stage'
    BY <1>1, <1>2, <2>2, <2>3, <2>4
    DEF Inv, Shape, Replaceable, Stage, Asking, Leaving, Texts
  <2>7. OneTerminal' /\ ToldIsRecorded'
    BY <1>1, <2>1, <2>2, <2>5 DEF OneTerminal, ToldIsRecorded
  <2>. QED BY <1>3, <2>6, <2>7 DEF Inv
<1>. QED BY <1>4, <1>5

\* What the invariant reads stays as it is.
LEMMA SameStep ==
  Inv /\ UNCHANGED <<pc, owners, fin, review, out, log, cause>> => Inv'
BY DEF Inv, Shape, Replaceable, Stage, Recorded, Before, BlockedIsNotDelivered,
       ReviewedIsDelivered, OneTerminal, ToldIsRecorded

LEMMA NextStep == Inv /\ [Next]_vars => Inv'
<1> SUFFICES ASSUME Inv, [Next]_vars PROVE Inv'
  OBVIOUS
<1>1. CASE StartRun \/ BeginRun
  BY <1>1, StartRunStep
<1>2. CASE Loop \/ Reply \/ Batch \/ Answer
  BY <1>2, LoopSteps, ReplySteps, BatchSteps, AnswerSteps, LoopKeeps
<1>3. CASE Ending
  BY <1>3, RecordFinalStep, ClosingSteps, FinishTurnStep, EnsureFailedTurnStep
  DEF Ending
<1>4. CASE Fault
  BY <1>4, FaultStep
<1>5. CASE Tick
  BY <1>5, SameStep DEF Tick
<1>6. CASE UNCHANGED vars
  BY <1>6, SameStep DEF vars
<1>. QED BY <1>1, <1>2, <1>3, <1>4, <1>5, <1>6 DEF Next, Work

-----------------------------------------------------------------------------
(* The budgets of the finalization coordinator. *)

Fins == {"pending", "cont", "agg", "blank", "protocol", "hard", "gate"}

\* The rewrites that the owners have asked for stay within their budgets.
Within(f) ==
    /\ DOMAIN f = Fins
    /\ f.agg \in 0..MaxAggregate
    /\ f.cont \in 0..MaxContinuations

LEMMA Constants == MaxAggregate \in Nat /\ MaxContinuations \in Nat
BY BudgetAssumption

LEMMA RequestedWithin ==
  ASSUME NEW f, NEW h, Within(f), ~ Spent(f)
  PROVE  Within(Requested(f, h))
BY Constants DEF Within, Spent, Requested, Fins

LEMMA BlockWithin ==
  ASSUME NEW f, Within(f)
  PROVE  /\ Within([f EXCEPT !.gate = TRUE])
         /\ Within(Cleared(f))
         /\ Within(AfterTool(f))
         /\ Within(RequestOrBlock(f))
<1>1. /\ Within([f EXCEPT !.gate = TRUE])
      /\ Within(Cleared(f))
      /\ Within(AfterTool(f))
  BY Constants DEF Within, Cleared, AfterTool, Fins
<1>. QED BY <1>1, RequestedWithin DEF RequestOrBlock

LEMMA TruthfulWithin ==
  ASSUME NEW f, NEW t, Within(f)
  PROVE  Within(Truthful(f, t).fin)
BY RequestedWithin, BlockWithin DEF Truthful

LEMMA DirectiveWithin ==
  ASSUME NEW f, NEW t, NEW ok, Within(f)
  PROVE  /\ Within(Activate(f, t).fin)
         /\ Within(BeginDirective(f, t).fin)
         /\ Within(Attempt(f, t, ok).fin)
         /\ Within(FinishDirective(f, t).fin)
<1>1. \A u : Within(Truthful(f, u).fin) /\ Quietly(f, u).fin = f
  BY TruthfulWithin DEF Quietly
<1>2. Within(Activate(f, t).fin)
  BY <1>1 DEF Activate
<1>3. Within(BeginDirective(f, t).fin)
  BY <1>1 DEF BeginDirective
<1>4. Within(Attempt(f, t, ok).fin)
  BY <1>1 DEF Attempt
<1>5. Within(FinishDirective(f, t).fin)
  BY <1>1 DEF FinishDirective
<1>. QED BY <1>2, <1>3, <1>4, <1>5

LEMMA CorrectionWithin ==
  ASSUME NEW f, NEW t, NEW rule \in Kinds, NEW form \in Forms(rule), Within(f)
  PROVE  Within(Correction(rule, form, f, t).fin)
<1>1. form \in {"rewrite", "tools", "polish"}
  BY DEF Forms
<1>2. CASE form = "tools"
  <2>1. Within(Activate(Cleared(f), t).fin)
    BY BlockWithin, DirectiveWithin
  <2>2. Correction(rule, form, f, t).fin = Activate(Cleared(f), t).fin
    BY <1>2 DEF Correction, Activate, Truthful, Quietly
  <2>. QED BY <2>1, <2>2
<1>3. CASE form # "tools" /\ Spent(f)
  BY <1>1, <1>3, BlockWithin DEF Correction, Quietly
<1>4. CASE form # "tools" /\ ~ Spent(f)
  BY <1>1, <1>4, RequestedWithin DEF Correction
<1>. QED BY <1>2, <1>3, <1>4

BudgetInv == Within(fin)

LEMMA BudgetStep == BudgetInv /\ [Next]_vars => BudgetInv'
<1> SUFFICES ASSUME Within(fin), [Next]_vars PROVE Within(fin')
  BY DEF BudgetInv
<1>1. Within(NewFin)
  BY Constants DEF Within, NewFin, Fins
<1>2. CASE UNCHANGED fin
  BY <1>2
<1>3. CASE fin' = NewFin
  BY <1>1, <1>3
<1>4. CASE QueueTurn
  <2>1. ASSUME Coverage(queue.fresh) PROVE Within(fin')
    <3>1. \/ UNCHANGED fin
          \/ fin' = Cleared(RequestOrBlock(fin))
          \/ ~ Spent(fin) /\ fin' = Requested(fin, TRUE)
      BY <2>1 DEF Coverage
    <3>. QED BY <3>1, RequestedWithin, BlockWithin
  <2>2. fin' \in {fin, RequestOrBlock(fin)} \/ Coverage(queue.fresh)
    BY <1>4 DEF QueueTurn
  <2>. QED BY <2>1, <2>2, BlockWithin
<1>5. CASE BeginTurn
  <2>1. \A f : Within(f) => Within([f EXCEPT !.pending = FALSE])
    BY DEF Within, Fins
  <2>2. Within(BeginDirective(fin, temp).fin)
    BY DirectiveWithin
  <2>. QED BY <1>5, <2>1, <2>2 DEF BeginTurn
<1>6. CASE FinalTurnProtocol
  <2> DEFINE f == [fin EXCEPT !.protocol = @ + 1]
  <2>1. Within(f) /\ Within([f EXCEPT !.pending = FALSE])
    BY DEF Within, Fins
  <2>2. ~ Spent(f) => Within(Requested(f, f.hard))
    BY <2>1, RequestedWithin
  <2>. QED BY <1>6, <2>1, <2>2 DEF FinalTurnProtocol
<1>7. CASE Blank \/ Text
  BY <1>7 DEF Blank, Text, Cleared, Within, Fins
<1>8. CASE RunTool
  <2>1. PICK ok \in BOOLEAN :
          LET r == Attempt(AfterTool(fin), temp, ok) IN
             \/ fin' = r.fin
             \/ \E rule \in {"audit", "loop"} : \E form \in Forms(rule) :
                    fin' = Correction(rule, form, r.fin, r.temp).fin
    BY <1>8 DEF RunTool
  <2>2. Within(Attempt(AfterTool(fin), temp, ok).fin)
    BY BlockWithin, DirectiveWithin
  <2>. QED BY <2>1, <2>2, CorrectionWithin DEF Kinds
<1>9. CASE EndBatch \/ CloseDirective
  BY <1>9, DirectiveWithin DEF EndBatch, CloseDirective
<1>10. CASE Audit
  <2>1. \E rule \in {"audit", "structure"} : \E form \in Forms(rule) :
            fin' = Correction(rule, form, fin, temp).fin
    BY <1>10 DEF Audit
  <2>. QED BY <2>1, CorrectionWithin DEF Kinds
<1>11. CASE Review
  <2>1. UNCHANGED fin \/ (~ Spent(fin) /\ fin' = Requested(fin, TRUE))
    BY <1>11 DEF Review
  <2>. QED BY <2>1, RequestedWithin
<1>12. CASE FinishTurn \/ EnsureFailedTurn
  BY <1>1, <1>12 DEF FinishTurn, EnsureFailedTurn, Forget, Ran
<1>. QED
  <2>1. CASE StartRun \/ BeginRun \/ StepsUsedUp \/ StopForBudget \/ ProviderFails \/ OrdinaryArtifact
             \/ TextInsteadOfTool \/ OtherTools \/ ToolCalls
    BY <1>2, <2>1 DEF StartRun, BeginRun, Set, StepsUsedUp, StopForBudget, ProviderFails, OrdinaryArtifact,
         TextInsteadOfTool, OtherTools, ToolCalls
  <2>2. CASE BudgetInBatch \/ InterruptTool \/ Remind \/ AuditPasses \/ RecordFinal
             \/ Consolidate \/ Summarize \/ FinishOutput \/ Settle \/ Fault \/ Tick
             \/ UNCHANGED vars
    BY <1>2, <2>2 DEF BudgetInBatch, InterruptTool, Remind, AuditPasses, RecordFinal,
         Consolidate, Summarize, FinishOutput, Settle, Fault, Tick, Ran, vars
  <2>. QED BY <2>1, <2>2, <1>4, <1>5, <1>6, <1>7, <1>8, <1>9, <1>10, <1>11, <1>12
           DEF Next, Work, Loop, Reply, Batch, Answer, Ending

-----------------------------------------------------------------------------
(* The tool calls of a message. *)

\* The first k of n calls are answered.
Prefix(c, n, k) == DOMAIN c = 1..n /\ \A i \in 1..n : c[i] = IF i <= k THEN 1 ELSE 0

Begun == \E n \in Nat : \E k \in 0..n : calls \in Seq(Nat) /\ Prefix(calls, n, k)
AllAnswered == \A i \in DOMAIN calls : calls[i] = 1

CallsInv ==
    /\ cause # "none" => pc \in {"failed", "idle"}
    /\ pc = "batch" => Begun
    /\ pc # "batch" /\ cause = "none" => AllAnswered

LEMMA NoneBegun ==
  ASSUME NEW n \in Nat
  PROVE  None(n) \in Seq(Nat) /\ Prefix(None(n), n, 0)
BY DEF None, Prefix

LEMMA CurrentIs ==
  ASSUME NEW n \in Nat, NEW k \in 0..n, calls \in Seq(Nat), Prefix(calls, n, k)
  PROVE  Current = k + 1 /\ Len(calls) = n
<1>1. {j \in DOMAIN calls : calls[j] > 0} = 1..k
  BY DEF Prefix
<1>2. Cardinality(1..k) = k
  BY FS_Interval
<1>3. Len(calls) = n
  BY DEF Prefix
<1>. QED BY <1>1, <1>2, <1>3 DEF Current

\* Whatever cuts a batch short answers what is left of it.
LEMMA RestAnswered ==
  ASSUME Begun, calls' = DoneAll(Current)
  PROVE  AllAnswered'
<1>n. PICK n \in Nat : \E k \in 0..n : calls \in Seq(Nat) /\ Prefix(calls, n, k)
  BY DEF Begun
<1>k. PICK k \in 0..n : calls \in Seq(Nat) /\ Prefix(calls, n, k)
  BY <1>n
<1>1. Current = k + 1
  BY <1>k, CurrentIs
<1>. QED BY <1>k, <1>1 DEF DoneAll, AllAnswered, Prefix

LEMMA OneAnswered ==
  ASSUME Begun, Current <= Len(calls), calls' = Done(Current)
  PROVE  Begun'
<1>n. PICK n \in Nat : \E k \in 0..n : calls \in Seq(Nat) /\ Prefix(calls, n, k)
  BY DEF Begun
<1>k. PICK k \in 0..n : calls \in Seq(Nat) /\ Prefix(calls, n, k)
  BY <1>n
<1>1. Current = k + 1 /\ Len(calls) = n
  BY <1>k, CurrentIs
<1>2. k + 1 \in 0..n /\ k + 1 \in 1..n
  BY <1>k, <1>1
<1>3. calls' = [calls EXCEPT ![k + 1] = @ + 1]
  BY <1>1 DEF Done
<1>4. calls' \in Seq(Nat)
  BY <1>k, <1>2, <1>3 DEF Prefix
<1>5. Prefix(calls', n, k + 1)
  BY <1>k, <1>2, <1>3 DEF Prefix
<1>. QED BY <1>2, <1>4, <1>5 DEF Begun

LEMMA BatchIsAnswered ==
  ASSUME Begun, Current > Len(calls)
  PROVE  AllAnswered
<1>n. PICK n \in Nat : \E k \in 0..n : calls \in Seq(Nat) /\ Prefix(calls, n, k)
  BY DEF Begun
<1>k. PICK k \in 0..n : calls \in Seq(Nat) /\ Prefix(calls, n, k)
  BY <1>n
<1>. QED BY <1>k, CurrentIs DEF AllAnswered, Prefix

LEMMA CallsStep == CallsInv /\ [Next]_vars => CallsInv'
<1> SUFFICES ASSUME CallsInv, [Next]_vars PROVE CallsInv'
  OBVIOUS
<1>1. ASSUME UNCHANGED <<calls, cause>>, pc # "batch", pc' # "batch", pc \notin {"failed", "idle"}
      PROVE  CallsInv'
  BY <1>1 DEF CallsInv, AllAnswered
<1>2. CASE StartRun \/ BeginRun
  BY <1>2 DEF StartRun, BeginRun, Set, CallsInv, AllAnswered
<1>3. CASE Loop
  BY <1>1, <1>3 DEF Loop, StepsUsedUp, StopForBudget, QueueTurn, BeginTurn, Finish, Again, Ready, Coverage
<1>4. CASE ProviderFails \/ FinalTurnProtocol \/ OrdinaryArtifact \/ Blank
  BY <1>1, <1>4 DEF ProviderFails, FinalTurnProtocol, OrdinaryArtifact, Blank, Finish, Deliver, Again,
                      Settings
<1>5. CASE TextInsteadOfTool \/ Text \/ OtherTools
  <2>1. pc = "model" /\ UNCHANGED cause /\ pc' # "batch"
    BY <1>5 DEF TextInsteadOfTool, Text, OtherTools, NotTheTool, Finish, Again, Settings
  <2>2. AllAnswered'
    <3>1. calls' = <<>> \/ \E n \in 1..MaxBatch : calls' = All(n)
      BY <1>5 DEF TextInsteadOfTool, Text, OtherTools
    <3>. QED BY <3>1 DEF AllAnswered, All
  <2>. QED BY <2>1, <2>2 DEF CallsInv
<1>6. CASE ToolCalls
  <2>1. pc = "model" /\ UNCHANGED cause
    BY <1>6 DEF ToolCalls, Settings
  <2>2. PICK n \in 1..MaxBatch :
          \/ calls' = None(n) /\ pc' = "batch"
          \/ calls' = All(n) /\ pc' = "closing"
    BY <1>6 DEF ToolCalls, Finish
  <2>3. n \in Nat /\ 0 \in 0..n
    BY BudgetAssumption
  <2>4. CASE calls' = None(n) /\ pc' = "batch"
    BY <2>1, <2>3, <2>4, NoneBegun DEF CallsInv, Begun
  <2>5. CASE calls' = All(n) /\ pc' = "closing"
    BY <2>1, <2>5 DEF CallsInv, AllAnswered, All
  <2>. QED BY <2>2, <2>4, <2>5
<1>7. CASE BudgetInBatch \/ InterruptTool
  <2>1. /\ pc = "batch" /\ pc' = "closing" /\ calls' = DoneAll(Current) /\ UNCHANGED cause
    BY <1>7 DEF BudgetInBatch, InterruptTool, Finish, Settings
  <2>. QED BY <2>1, RestAnswered DEF CallsInv
<1>8. CASE RunTool
  <2>1. /\ pc = "batch" /\ UNCHANGED cause /\ Current <= Len(calls)
        /\ \/ calls' = DoneAll(Current) /\ pc' \in {"tail", "closing"}
           \/ calls' = Done(Current) /\ pc' = "batch"
    BY <1>8 DEF RunTool, Finish
  <2>. QED BY <2>1, RestAnswered, OneAnswered DEF CallsInv
<1>9. CASE EndBatch
  <2>1. /\ pc' = "turn" /\ UNCHANGED <<calls, cause>>
        /\ pc = "tail" \/ (pc = "batch" /\ Current > Len(calls))
    BY <1>9 DEF EndBatch, Again, Settings
  <2>2. AllAnswered
    BY <2>1, BatchIsAnswered DEF CallsInv
  <2>. QED BY <2>1, <2>2 DEF CallsInv, AllAnswered
<1>10. CASE Answer
  BY <1>1, <1>10 DEF Answer, CloseDirective, Remind, Audit, AuditPasses, Review, Unverified,
                     Finish, Deliver, Again, Judged
<1>11. CASE Ending
  BY <1>1, <1>11 DEF Ending, RecordFinal, Consolidate, Summarize, FinishOutput, Settle,
                     FinishTurn, EnsureFailedTurn, Ran, Forget, CallsInv, AllAnswered
<1>12. CASE Fault
  BY <1>12 DEF Fault, CallsInv, AllAnswered
<1>13. CASE Tick \/ UNCHANGED vars
  BY <1>13 DEF Tick, vars, CallsInv, Begun, AllAnswered
<1>. QED BY <1>2, <1>3, <1>4, <1>5, <1>6, <1>7, <1>8, <1>9, <1>10, <1>11, <1>12, <1>13
         DEF Next, Work, Reply, Batch

-----------------------------------------------------------------------------
(* The theorems. *)

\* In every state of every run the parts of Inv hold: where the run is, what is
\* asked, gated, reviewed and recorded of it fit together (agent.py, _run_prompt).
THEOREM Invariance == Spec => []Inv
<1>. QED BY InitInv, NextStep, PTL DEF Spec

\* An answer that a hard check wanted rewritten is never handed over as the
\* answer (_finish_run and unresolved_final_answer_gate).
THEOREM GateHolds == Spec => []BlockedIsNotDelivered
<1>1. Inv => BlockedIsNotDelivered
  BY DEF Inv
<1>. QED BY <1>1, Invariance, PTL

\* Where the contract wants the isolated review, no answer leaves the run
\* without it (runtime/review.py, review_candidate).
THEOREM ReviewHolds == Spec => []ReviewedIsDelivered
<1>1. Inv => ReviewedIsDelivered
  BY DEF Inv
<1>. QED BY <1>1, Invariance, PTL

\* A prompt is closed once, also when an exception strikes while it is being
\* closed (runtime/commands.py, _ensure_failed_turn).
THEOREM ClosedOnce == Spec => []OneTerminal
<1>1. Inv => OneTerminal
  BY DEF Inv
<1>. QED BY <1>1, Invariance, PTL

\* What the closed turn tells the user is what the session has recorded last
\* (emit_runtime_delivery, _ensure_failed_turn).
THEOREM ToldAsRecorded == Spec => []ToldIsRecorded
<1>1. Inv => ToldIsRecorded
  BY DEF Inv
<1>. QED BY <1>1, Invariance, PTL

\* Whatever cuts a message's tool calls short, each is answered exactly once
\* before the next request (agent.py, the batch loop).
THEOREM CallsAnswered == Spec => []Paired
<1>1. Init => CallsInv
  BY DEF Init, CallsInv, AllAnswered
<1>2. CallsInv => Paired
  BY DEF CallsInv, Paired, AllAnswered
<1>. QED BY <1>1, <1>2, CallsStep, PTL DEF Spec

\* However the owners interleave, the rewrites they ask for in a run stay
\* within the coordinator's budgets (finalization.py, rewrite_skip_reason).
THEOREM RewritesStayBounded == Spec => []RewritesBounded
<1>1. Init => BudgetInv
  BY BudgetAssumption DEF Init, BudgetInv, NewFin, Within, Fins
<1>2. BudgetInv => RewritesBounded
  BY Constants DEF BudgetInv, Within, RewritesBounded
<1>. QED BY <1>1, <1>2, BudgetStep, PTL DEF Spec
-----------------------------------------------------------------------------
(* The request. *)

\* What is on the way from the reader to the screen, in order: the delta the
\* run holds, the queue, the item the worker holds.
InHand  == IF Is("tell") THEN 1 ELSE 0
Holding == worker.pc \in {"publish", "put"}
Held    == IF Holding /\ worker.item.type = "delta" THEN 1 ELSE 0

\* A reply of which nothing is missing.
Entire ==
    \/ got.mode = "json" /\ got.texts = 0
    \/ got.finish # "none" /\ \E n \in 0..MaxCalls : got.calls = Indexed(n)

Server ==
    /\ got.finish = "stop" => AllSent
    /\ got.mode \in {"none", "json"} => got.texts = 0

\* The pieces of the text are told, held and queued without a gap.
Chain ==
    /\ \A i \in DOMAIN told : told[i] = i
    /\ Is("tell") => caller.hand = Len(told) + 1
    /\ \A i \in DOMAIN items :
          items[i].type = "delta" => items[i].text = Len(told) + InHand + i
    /\ Holding /\ worker.item.type = "delta" => worker.item.text = got.texts
    /\ ~ At("end") => got.texts = Len(told) + InHand + Len(items) + Held

\* What ends the reply comes last, and only a whole one is complete.
ReplyEnds ==
    /\ \A i \in DOMAIN items : items[i].type # "delta" => i = Len(items) /\ At("end")
    /\ \A i \in DOMAIN items :
          items[i].type = "complete" =>
             Entire /\ got.texts = Len(told) + InHand + Len(items) - 1
    /\ Holding /\ worker.item.type = "complete" => Entire

\* Once the request has ended the worker may go on alone.
Running  == ~ Is("ended") => caller.result = "none" /\ Chain /\ ReplyEnds
Standing == caller.result = "answer" => At("end") /\ AnswerIsWhole

RequestInv == RequestTypeOK /\ Server /\ Running /\ Standing

-----------------------------------------------------------------------------
LEMMA TypeInit == RequestInit => RequestTypeOK
<1> SUFFICES ASSUME RequestInit PROVE RequestTypeOK
  OBVIOUS
<1>1. got \in Received
  BY DEF RequestInit, Nothing, Received
<1>2. Error \in Item
  BY DEF Error, Item
<1>3. worker \in Worker /\ caller \in Caller
  BY <1>2 DEF RequestInit, Worker, Caller
<1>4. items \in Seq(Item) /\ told \in Seq(Nat)
  BY DEF RequestInit
<1>. QED BY <1>1, <1>3, <1>4 DEF RequestInit, RequestTypeOK

LEMMA InitHolds == RequestInit => RequestInv
<1> SUFFICES ASSUME RequestInit PROVE RequestInv
  OBVIOUS
<1>1. RequestTypeOK
  BY TypeInit
<1>2. Server
  BY DEF RequestInit, Server, Nothing
<1>3. Chain /\ ReplyEnds
  BY DEF RequestInit, Chain, ReplyEnds, Nothing, Error, Is, At, Holding, Held, InHand
<1>4. Running /\ Standing
  BY <1>3 DEF RequestInit, Running, Standing, Is
<1>. QED BY <1>1, <1>2, <1>4 DEF RequestInv

-----------------------------------------------------------------------------
\* The worker's records stay in their sets.
LEMMA Going ==
  ASSUME worker \in Worker, NEW place \in {"next", "connect", "read", "publish", "put", "end"}, Go(place)
  PROVE  worker' \in Worker
BY DEF Worker, Go

LEMMA Publishing ==
  ASSUME NEW item \in Item, Publish(item)
  PROVE  worker' \in Worker
BY DEF Worker, Publish

LEMMA Items ==
  /\ \A n \in Nat : Delta(n) \in Item
  /\ Whole \in Item /\ Error \in Item
BY DEF Delta, Whole, Error, Item

LEMMA TypeStep == RequestTypeOK /\ [RequestNext]_requestVars => RequestTypeOK'
<1> SUFFICES ASSUME RequestTypeOK, [RequestNext]_requestVars PROVE RequestTypeOK'
  OBVIOUS
<1> USE DEF RequestTypeOK
<1>1. CASE UNCHANGED requestVars
  BY <1>1 DEF requestVars, Replies, Worker, Caller, Received, Item
<1>2. CASE WorkerNext
  <2>1. CASE Resume \/ Connect \/ LookAgain \/ Full
    <3>1. worker' \in Worker
      BY <2>1, Going, Publishing, Items DEF Resume, Connect, LookAgain, Full
    <3>. QED BY <1>2, <2>1, <3>1 DEF WorkerNext, Resume, Connect, LookAgain, Full, Replies
  <2>2. CASE Put
    <3>1. items' \in Seq(Item)
      BY <2>2 DEF Put, Worker
    <3>2. worker' \in Worker
      BY <2>2, Going DEF Put
    <3>. QED BY <1>2, <2>2, <3>1, <3>2 DEF WorkerNext, Put, Replies
  <2>3. CASE Read
    <3>1. items' = items
      BY <2>3 DEF Read, Piece, EndMark, Eof, Body, Break, Fragment, EndReason, Reading
    <3>2. worker' \in Worker
      <4>1. got.texts + 1 \in Nat
        BY DEF Received
      <4>. QED BY <2>3, <4>1, Publishing, Items DEF Read, Piece, EndMark, Eof, Body, Break, Fragment, EndReason
    <3>3. got' \in Received
      <4>1. CASE Piece
        <5>1. got.texts + 1 \in Nat
          BY DEF Received
        <5>. QED BY <4>1, <5>1 DEF Received, Piece
      <4>4. CASE EndMark \/ Eof \/ Body \/ Break
        BY <4>4 DEF Received, EndMark, Eof, Body, Break
      <4>2. ASSUME NEW i \in Call, Fragment(i) PROVE got' \in Received
        <5>1. got.calls \in [Call -> Nat] /\ got.calls[i] + 1 \in Nat
          BY DEF Received
        <5>2. [got.calls EXCEPT ![i] = got.calls[i] + 1] \in [Call -> Nat]
          BY <5>1
        <5>. QED BY <4>2, <5>2 DEF Received, Fragment
      <4>3. ASSUME NEW reason \in {"stop", "length"}, EndReason(reason) PROVE got' \in Received
        BY <4>3 DEF Received, EndReason
      <4>. QED BY <2>3, <4>1, <4>2, <4>3, <4>4 DEF Read
    <3>. QED BY <1>2, <3>1, <3>2, <3>3 DEF WorkerNext, Replies
  <2>. QED BY <1>2, <2>1, <2>2, <2>3 DEF WorkerNext, Thread
<1>3. CASE CallerNext
  <2>1. CASE Enter \/ Check \/ GetNothing
    <3>1. caller' \in Caller /\ abandoned' \in BOOLEAN
      BY <2>1 DEF Enter, Check, GetNothing, To, End, Caller
    <3>. QED BY <1>3, <2>1, <3>1 DEF CallerNext, Enter, Check, GetNothing, Replies
  <2>2. CASE Get
    <3>1. items' \in Seq(Item) /\ Head(items) \in Item
      BY <2>2 DEF Get
    <3>2. Head(items).text \in Nat
      BY <3>1 DEF Item
    <3>3. caller' \in Caller /\ abandoned' \in BOOLEAN
      BY <2>2, <3>2 DEF Get, Take, End, Caller
    <3>. QED BY <1>3, <2>2, <3>1, <3>3 DEF CallerNext, Get, Replies
  <2>3. CASE Tell
    <3>1. told' \in Seq(Nat)
      <4>1. caller.hand \in Nat
        BY DEF Caller
      <4>. QED BY <2>3, <4>1 DEF Tell
    <3>2. caller' \in Caller /\ abandoned' \in BOOLEAN
      BY <2>3 DEF Tell, To, Caller
    <3>. QED BY <1>3, <2>3, <3>1, <3>2 DEF CallerNext, Tell, Replies
  <2>. QED BY <1>3, <2>1, <2>2, <2>3 DEF CallerNext
<1>4. CASE Interrupted
  <2>1. caller' \in Caller /\ abandoned' \in BOOLEAN
    BY <1>4 DEF Interrupted, Interrupt, End, Caller
  <2>. QED BY <1>4, <2>1 DEF Interrupted, Interrupt, Replies
<1>5. CASE Others
  BY <1>5 DEF Others, Request, Clear, Expire, Replies
<1>. QED BY <1>1, <1>2, <1>3, <1>4, <1>5 DEF RequestNext

-----------------------------------------------------------------------------
\* What the provider has said stays what it means to say.
LEMMA ServerStep == RequestTypeOK /\ Server /\ Read /\ reply' = reply => Server'
<1> SUFFICES ASSUME RequestTypeOK, Server, Read, reply' = reply PROVE Server'
  OBVIOUS
<1> USE DEF Server, AllSent, RequestTypeOK, Received
<1>1. CASE Piece \/ EndMark \/ Eof \/ Body \/ Break
  BY <1>1 DEF Piece, EndMark, Eof, Body, Break, Open, Reading
<1>2. ASSUME NEW i \in Call, Fragment(i) PROVE Server'
  BY <1>2 DEF Fragment, Open
<1>3. ASSUME NEW reason \in {"stop", "length"}, EndReason(reason) PROVE Server'
  BY <1>3 DEF EndReason, Open
<1>. QED BY <1>1, <1>2, <1>3 DEF Read

\* While the worker is at work, nothing in the queue ends the reply.
LEMMA Ahead ==
  ASSUME RequestTypeOK, ReplyEnds, ~ At("end")
  PROVE  \A i \in DOMAIN items : items[i].type = "delta"
BY DEF RequestTypeOK, ReplyEnds

LEMMA ThreadStep ==
  ASSUME RequestTypeOK, Chain, ReplyEnds, Resume \/ Connect \/ LookAgain \/ Full,
         UNCHANGED <<caller, told>>
  PROVE  Chain' /\ ReplyEnds'
<1>1. ~ At("end") /\ UNCHANGED <<got, items>>
  BY DEF Resume, Connect, LookAgain, Full, At
<1>2. \A i \in DOMAIN items : items[i].type = "delta"
  BY <1>1, Ahead
<1>3. \/ At("end")'
      \/ /\ ~ At("end")' /\ Held' = Held
         /\ Holding' /\ worker'.item.type \in {"delta", "complete"} =>
               Holding /\ worker'.item = worker.item
  BY DEF Resume, Connect, LookAgain, Full, At, Go, Publish, Error, Held, Holding, RequestTypeOK, Worker
<1>4. InHand' = InHand /\ (Is("tell") <=> Is("tell")')
  BY DEF InHand, Is
<1>5. At("end")' => ~ Holding'
  BY DEF At, Holding
<1>6. Entire' <=> Entire
  BY <1>1 DEF Entire
<1>7. Chain'
  <2>1. \A i \in DOMAIN items' :
           items'[i].type = "delta" => items'[i].text = Len(told') + InHand' + i
    BY <1>1, <1>4 DEF Chain
  <2>2. Holding' /\ worker'.item.type = "delta" => worker'.item.text = got'.texts
    BY <1>1, <1>3, <1>5 DEF Chain
  <2>3. ~ At("end")' => got'.texts = Len(told') + InHand' + Len(items') + Held'
    BY <1>1, <1>3, <1>4 DEF Chain
  <2>. QED BY <1>4, <2>1, <2>2, <2>3 DEF Chain
<1>8. Holding' /\ worker'.item.type = "complete" => Entire'
  BY <1>3, <1>5, <1>6 DEF ReplyEnds
<1>. QED BY <1>1, <1>2, <1>7, <1>8 DEF ReplyEnds

LEMMA PutStep ==
  ASSUME RequestTypeOK, Chain, ReplyEnds, Put, UNCHANGED <<caller, told>>
  PROVE  Chain' /\ ReplyEnds'
<1> DEFINE n == Len(items)  item == worker.item
<1>1. At("put") /\ ~ At("end") /\ Holding /\ ~ Holding' /\ UNCHANGED got
  BY DEF Put, At, Go, Holding, RequestTypeOK, Worker
<1>2. \A i \in DOMAIN items : items[i].type = "delta"
  BY <1>1, Ahead
<1>3. item \in Item /\ n \in Nat /\ DOMAIN items = 1..n
  BY DEF RequestTypeOK, Worker
<1>4. /\ Len(items') = n + 1 /\ DOMAIN items' = 1..(n + 1)
      /\ \A i \in 1..n : items'[i] = items[i]
      /\ items'[n + 1] = item
  BY <1>3 DEF Put, RequestTypeOK
<1>5. InHand' = InHand /\ InHand \in Nat /\ Len(told) \in Nat /\ (Is("tell") <=> Is("tell")')
  BY DEF InHand, Is, RequestTypeOK
<1>6. /\ got.texts = Len(told) + InHand + n + Held
      /\ Held' = 0 /\ got.texts \in Nat
  BY <1>1 DEF Chain, Held, RequestTypeOK, Received
<1>7. CASE item.type = "delta"
  <2>1. Held = 1 /\ item.text = got.texts
    BY <1>1, <1>7 DEF Held, Chain
  <2>2. ~ At("end")'
    BY <1>7 DEF Put, Go, At, RequestTypeOK, Worker
  <2>3. Chain'
    BY <1>1, <1>3, <1>4, <1>5, <1>6, <2>1 DEF Chain
  <2>. QED BY <1>1, <1>2, <1>3, <1>4, <1>7, <2>3 DEF ReplyEnds
<1>8. CASE item.type # "delta"
  <2>1. Held = 0 /\ (item.type = "complete" => Entire)
    BY <1>1, <1>8 DEF Held, ReplyEnds
  <2>2. At("end")'
    BY <1>8 DEF Put, Go, At, RequestTypeOK, Worker
  <2>3. Chain'
    BY <1>1, <1>3, <1>4, <1>5, <1>8, <2>2 DEF Chain
  <2>4. Entire' <=> Entire
    BY <1>1 DEF Entire
  <2>5. \A i \in DOMAIN items' : items'[i].type # "delta" => i = Len(items') /\ items'[i] = item
    BY <1>2, <1>3, <1>4
  <2>6. got'.texts = Len(told') + InHand' + Len(items') - 1
    BY <1>1, <1>3, <1>4, <1>5, <1>6, <2>1
  <2>7. \A i \in DOMAIN items' :
           items'[i].type = "complete" => Entire' /\ got'.texts = Len(told') + InHand' + Len(items') - 1
    BY <2>1, <2>4, <2>5, <2>6
  <2>. QED BY <1>1, <2>2, <2>3, <2>5, <2>7 DEF ReplyEnds
<1>. QED BY <1>7, <1>8

LEMMA ReadStep ==
  ASSUME RequestTypeOK, Server, Chain, ReplyEnds, Read, UNCHANGED <<caller, told>>
  PROVE  Chain' /\ ReplyEnds'
<1>1. At("read") /\ ~ At("end") /\ ~ Holding /\ Held = 0 /\ items' = items
  BY DEF Read, Piece, EndMark, Eof, Body, Break, Fragment, EndReason, Reading, At, Holding, Held
<1>2. \A i \in DOMAIN items : items[i].type = "delta"
  BY <1>1, Ahead
<1>3. InHand' = InHand /\ InHand \in Nat /\ Len(told) \in Nat /\ Len(items) \in Nat
      /\ (Is("tell") <=> Is("tell")')
  BY DEF InHand, Is, RequestTypeOK
<1>4. got.texts = Len(told) + InHand + Len(items) /\ got.texts \in Nat
  BY <1>1, <1>3 DEF Chain, RequestTypeOK, Received
<1>5. CASE Piece
  <2>1. got'.texts = got.texts + 1
    BY <1>5 DEF Piece, RequestTypeOK, Received
  <2>2. Holding' /\ Held' = 1 /\ worker'.item = Delta(got.texts + 1) /\ ~ At("end")'
    BY <1>5 DEF Piece, Publish, Holding, Held, Delta, At
  <2>3. worker'.item.text = got.texts + 1 /\ worker'.item.type = "delta"
    BY <2>2 DEF Delta
  <2>4. Chain'
    BY <1>1, <1>3, <1>4, <2>1, <2>2, <2>3 DEF Chain
  <2>. QED BY <1>1, <1>2, <2>3, <2>4 DEF ReplyEnds
<1>6. CASE EndMark \/ (\E i \in Call : Fragment(i)) \/ \E reason \in {"stop", "length"} : EndReason(reason)
  <2>1. got'.texts = got.texts /\ worker' = worker
    BY <1>6 DEF EndMark, Fragment, EndReason, RequestTypeOK, Received
  <2>2. ~ Holding' /\ Held' = 0 /\ ~ At("end")'
    BY <1>1, <2>1 DEF Holding, Held, At
  <2>3. Chain'
    BY <1>1, <1>3, <1>4, <2>1, <2>2 DEF Chain
  <2>. QED BY <1>1, <1>2, <2>2, <2>3 DEF ReplyEnds
<1>7. CASE Eof \/ Body \/ Break
  <2>1. got'.texts = got.texts /\ ~ At("end")'
    BY <1>7 DEF Eof, Body, Break, Publish, At, RequestTypeOK, Received
  <2>2. worker'.item \in {Whole, Error} /\ worker'.item.type # "delta" /\ Held' = 0
    BY <1>7 DEF Eof, Body, Break, Publish, Whole, Error, Held, Holding
  <2>3. worker'.item.type = "complete" => Entire'
    <3>1. CASE Eof
      BY <3>1 DEF Eof, Publish, Whole, Error, Complete, Entire
    <3>2. CASE Body
      BY <3>2 DEF Body, Entire, Server, RequestTypeOK, Received
    <3>3. CASE Break
      BY <3>3 DEF Break, Publish, Error
    <3>. QED BY <1>7, <3>1, <3>2, <3>3
  <2>4. Chain'
    BY <1>1, <1>3, <1>4, <2>1, <2>2 DEF Chain
  <2>. QED BY <1>1, <1>2, <2>3, <2>4 DEF ReplyEnds
<1>. QED BY <1>5, <1>6, <1>7 DEF Read

LEMMA WorkerStep == RequestInv /\ WorkerNext => Server' /\ Running' /\ Standing'
<1> SUFFICES ASSUME RequestInv, WorkerNext PROVE Server' /\ Running' /\ Standing'
  OBVIOUS
<1> USE DEF RequestInv
<1>1. UNCHANGED <<caller, told, reply>> /\ (Is("ended") <=> Is("ended")')
  BY DEF WorkerNext, Is
<1>2. ~ At("end") /\ caller.result # "answer"
  BY DEF WorkerNext, Thread, Resume, Connect, LookAgain, Put, Full, Read, Piece, EndMark, Eof,
         Body, Break, Fragment, EndReason, Reading, At, Standing
<1>3. Standing'
  BY <1>1, <1>2 DEF Standing
<1>4. Server'
  <2>1. CASE Thread
    BY <1>1, <2>1 DEF Thread, Resume, Connect, LookAgain, Put, Full, Server, AllSent
  <2>2. CASE Read
    BY <1>1, <2>2, ServerStep
  <2>. QED BY <2>1, <2>2 DEF WorkerNext
<1>5. ASSUME ~ Is("ended")' PROVE caller'.result = "none" /\ Chain' /\ ReplyEnds'
  <2>1. caller.result = "none" /\ Chain /\ ReplyEnds
    BY <1>1, <1>5 DEF Running
  <2>2. Chain' /\ ReplyEnds'
    BY <1>1, <2>1, ThreadStep, PutStep, ReadStep DEF WorkerNext, Thread
  <2>. QED BY <1>1, <2>1, <2>2
<1>. QED BY <1>3, <1>4, <1>5 DEF Running

-----------------------------------------------------------------------------
\* What is left in the queue when its first item is taken.
LEMMA Taking ==
  ASSUME RequestTypeOK, items # <<>>, items' = Tail(items)
  PROVE  /\ Len(items) \in Nat \ {0} /\ DOMAIN items = 1..Len(items)
         /\ Len(items') = Len(items) - 1 /\ DOMAIN items' = 1..(Len(items) - 1)
         /\ Head(items) = items[1] /\ Head(items) \in Item
         /\ \A i \in DOMAIN items' : items'[i] = items[i + 1]
BY DEF RequestTypeOK

\* The end of a reply is the last thing in the queue: everything else of it
\* was told.
LEMMA AnswerStep ==
  ASSUME RequestTypeOK, Server, Chain, ReplyEnds, Is("get"), items # <<>>,
         Head(items).type = "complete", items' = Tail(items),
         UNCHANGED <<got, worker, told, reply>>
  PROVE  At("end")' /\ AnswerIsWhole'
<1>1. 1 \in DOMAIN items /\ items[1].type = "complete" /\ Len(items) \in Nat
  BY Taking
<1>2. Len(items) = 1 /\ At("end") /\ Entire
  BY <1>1 DEF ReplyEnds
<1>3. InHand = 0 /\ Len(told) \in Nat
  BY DEF InHand, Is, RequestTypeOK
<1>4. got.texts = Len(told)
  BY <1>1, <1>2, <1>3 DEF ReplyEnds
<1>5. told = [i \in 1..got.texts |-> i]
  BY <1>4 DEF Chain, RequestTypeOK
<1>6. CASE got.mode = "json" /\ got.texts = 0
  <2>1. told = <<>>
    BY <1>4, <1>6, EmptySeq DEF RequestTypeOK
  <2>. QED BY <1>2, <1>6, <2>1 DEF AnswerIsWhole, At
<1>7. CASE got.finish # "none" /\ \E n \in 0..MaxCalls : got.calls = Indexed(n)
  <2>1. AllSent \/ got.finish = "length"
    BY <1>7 DEF Server, RequestTypeOK, Received
  <2>. QED BY <1>2, <1>5, <1>7, <2>1 DEF AnswerIsWhole, AllSent, At
<1>. QED BY <1>2, <1>6, <1>7 DEF Entire

LEMMA TakeStep ==
  ASSUME RequestTypeOK, Chain, ReplyEnds, Is("get"), items # <<>>,
         Head(items).type = "delta", items' = Tail(items), Take(Head(items).text),
         UNCHANGED <<got, worker, told>>
  PROVE  Chain' /\ ReplyEnds'
<1>1. /\ Len(items) \in Nat \ {0} /\ DOMAIN items = 1..Len(items)
      /\ Len(items') = Len(items) - 1 /\ DOMAIN items' = 1..(Len(items) - 1)
      /\ Head(items) = items[1]
      /\ \A i \in DOMAIN items' : items'[i] = items[i + 1]
  BY Taking
<1>2. InHand = 0 /\ InHand' = 1 /\ Len(told) \in Nat /\ got.texts \in Nat /\ Held \in Nat
  BY DEF InHand, Is, Take, RequestTypeOK, Caller, Received, Held
<1>3. Is("tell")' => caller'.hand = Len(told) + 1
  <2>1. items[1].text = Len(told) + 1
    BY <1>1, <1>2 DEF Chain
  <2>. QED BY <1>1, <2>1 DEF Take, RequestTypeOK, Caller
<1>4. \A i \in DOMAIN items' : i + 1 \in DOMAIN items /\ i \in Nat
  BY <1>1
<1>5. Held' = Held /\ (Holding' <=> Holding) /\ (At("end")' <=> At("end")) /\ (Entire' <=> Entire)
  BY DEF Held, Holding, At, Entire
<1>6. Chain'
  <2>1. \A i \in DOMAIN items' :
           items'[i].type = "delta" => items'[i].text = Len(told') + InHand' + i
    BY <1>1, <1>2, <1>4 DEF Chain
  <2>2. ~ At("end") => got.texts = Len(told) + 1 + Len(items') + Held
    BY <1>1, <1>2 DEF Chain
  <2>. QED BY <1>2, <1>3, <1>5, <2>1, <2>2 DEF Chain
<1>7. ReplyEnds'
  <2>1. \A i \in DOMAIN items' : items'[i].type # "delta" => i = Len(items') /\ At("end")'
    BY <1>1, <1>4, <1>5 DEF ReplyEnds
  <2>2. \A i \in DOMAIN items' :
           items'[i].type = "complete" => Entire' /\ got'.texts = Len(told') + InHand' + Len(items') - 1
    BY <1>1, <1>2, <1>4, <1>5 DEF ReplyEnds
  <2>. QED BY <1>5, <2>1, <2>2 DEF ReplyEnds
<1>. QED BY <1>6, <1>7

LEMMA TellStep ==
  ASSUME RequestTypeOK, Chain, ReplyEnds, Tell, UNCHANGED <<got, worker>>
  PROVE  Chain' /\ ReplyEnds'
<1>1. caller.hand \in Nat /\ caller.hand = Len(told) + 1 /\ InHand = 1 /\ InHand' = 0 /\ ~ Is("tell")'
  BY DEF Tell, To, Is, InHand, Chain, RequestTypeOK, Caller
<1>2. Len(told) \in Nat /\ Len(items) \in Nat /\ got.texts \in Nat /\ Held \in Nat /\ items' = items
  BY DEF Tell, RequestTypeOK, Received, Held
<1>3. /\ Len(told') = Len(told) + 1 /\ DOMAIN told' = 1..(Len(told) + 1)
      /\ DOMAIN told = 1..Len(told)
      /\ \A i \in 1..Len(told) : told'[i] = told[i]
      /\ told'[Len(told) + 1] = caller.hand
  BY <1>1 DEF Tell, RequestTypeOK
<1>4. \A i \in DOMAIN told' : told'[i] = i
  BY <1>1, <1>2, <1>3 DEF Chain
<1>5. Len(told') + InHand' = Len(told) + InHand
  BY <1>1, <1>2, <1>3
<1>6. Held' = Held /\ (Holding' <=> Holding) /\ (At("end")' <=> At("end")) /\ (Entire' <=> Entire)
  BY DEF Held, Holding, At, Entire
<1>7. Chain'
  <2>1. \A i \in DOMAIN items' :
           items'[i].type = "delta" => items'[i].text = Len(told') + InHand' + i
    BY <1>2, <1>5 DEF Chain
  <2>2. ~ At("end")' => got'.texts = Len(told') + InHand' + Len(items') + Held'
    BY <1>2, <1>5, <1>6 DEF Chain
  <2>3. Holding' /\ worker'.item.type = "delta" => worker'.item.text = got'.texts
    BY <1>6 DEF Chain
  <2>. QED BY <1>1, <1>4, <2>1, <2>2, <2>3 DEF Chain
<1>8. ReplyEnds'
  BY <1>2, <1>5, <1>6 DEF ReplyEnds
<1>. QED BY <1>7, <1>8

\* The request goes on with nothing taken and nothing told.
LEMMA WaitStep ==
  ASSUME RequestTypeOK, Chain, ReplyEnds, Enter \/ Check \/ GetNothing, UNCHANGED <<got, worker>>
  PROVE  \/ Is("ended")' /\ caller'.result # "answer"
         \/ Chain' /\ ReplyEnds' /\ caller'.result = caller.result
<1>1. UNCHANGED <<items, told>> /\ ~ Is("tell") /\ InHand = 0
  BY DEF Enter, Check, GetNothing, Is, InHand
<1>2. \/ Is("ended")' /\ caller'.result # "answer"
      \/ ~ Is("tell")' /\ caller'.result = caller.result
  BY DEF Enter, Check, GetNothing, To, End, Is, RequestTypeOK, Caller
<1>3. ASSUME ~ Is("tell")' PROVE Chain' /\ ReplyEnds'
  <2>1. InHand' = 0 /\ Held' = Held /\ (Holding' <=> Holding) /\ (At("end")' <=> At("end"))
        /\ (Entire' <=> Entire)
    BY <1>3 DEF InHand, Held, Holding, At, Entire
  <2>. QED BY <1>1, <1>3, <2>1 DEF Chain, ReplyEnds
<1>. QED BY <1>2, <1>3

LEMMA CallerStep == RequestInv /\ CallerNext => Server' /\ Running' /\ Standing'
<1> SUFFICES ASSUME RequestInv, CallerNext PROVE Server' /\ Running' /\ Standing'
  OBVIOUS
<1> USE DEF RequestInv
<1>1. UNCHANGED <<got, worker, reply>> /\ ~ Is("ended")
  BY DEF CallerNext, Enter, Check, GetNothing, Get, Tell, Is
<1>2. caller.result = "none" /\ Chain /\ ReplyEnds
  BY <1>1 DEF Running
<1>3. Server'
  BY <1>1 DEF Server, AllSent
<1>4. CASE Enter \/ Check \/ GetNothing
  BY <1>1, <1>2, <1>3, <1>4, WaitStep DEF Running, Standing
<1>5. CASE Tell
  <2>1. caller'.result = "none"
    BY <1>2, <1>5 DEF Tell, To, RequestTypeOK, Caller
  <2>. QED BY <1>1, <1>2, <1>3, <1>5, <2>1, TellStep DEF Running, Standing
<1>6. CASE Get
  <2>1. items # <<>> /\ items' = Tail(items) /\ Is("get") /\ told' = told
    BY <1>6 DEF Get
  <2>2. CASE Head(items).type = "complete" /\ End("answer")
    <3>1. At("end")' /\ AnswerIsWhole'
      BY <1>1, <1>2, <2>1, <2>2, AnswerStep
    <3>2. Is("ended")'
      BY <2>2 DEF End, Is, RequestTypeOK, Caller
    <3>. QED BY <1>3, <3>1, <3>2 DEF Running, Standing
  <2>3. CASE End("error") \/ End("cancelled")
    <3>1. Is("ended")' /\ caller'.result # "answer"
      BY <2>3 DEF End, Is, RequestTypeOK, Caller
    <3>. QED BY <1>3, <3>1 DEF Running, Standing
  <2>4. CASE Head(items).type = "delta" /\ Take(Head(items).text)
    <3>1. Chain' /\ ReplyEnds'
      BY <1>1, <1>2, <2>1, <2>4, TakeStep
    <3>2. caller'.result = "none"
      BY <1>2, <2>4 DEF Take, RequestTypeOK, Caller
    <3>. QED BY <1>3, <3>1, <3>2 DEF Running, Standing
  <2>. QED BY <1>6, <2>2, <2>3, <2>4 DEF Get
<1>. QED BY <1>4, <1>5, <1>6 DEF CallerNext

LEMMA StepHolds == RequestInv /\ [RequestNext]_requestVars => RequestInv'
<1> SUFFICES ASSUME RequestInv, [RequestNext]_requestVars PROVE RequestInv'
  OBVIOUS
<1>1. RequestTypeOK'
  BY TypeStep DEF RequestInv
<1>2. Server' /\ Running' /\ Standing'
  <2>1. CASE WorkerNext
    BY <2>1, WorkerStep
  <2>2. CASE CallerNext
    BY <2>2, CallerStep
  <2>3. CASE Interrupted
    <3>1. Is("ended")' /\ caller'.result # "answer" /\ UNCHANGED <<got, reply>>
      BY <2>3 DEF Interrupted, Interrupt, End, Is, RequestInv, RequestTypeOK, Caller
    <3>. QED BY <3>1 DEF RequestInv, Server, AllSent, Running, Standing
  <2>4. CASE Others \/ UNCHANGED requestVars
    <3>1. UNCHANGED <<got, reply, worker, items, caller, told>>
      BY <2>4 DEF Others, requestVars
    <3>2. Server'
      BY <3>1 DEF RequestInv, Server, AllSent
    <3>3. (Chain' <=> Chain) /\ (ReplyEnds' <=> ReplyEnds) /\ (AnswerIsWhole' <=> AnswerIsWhole)
      BY <3>1 DEF Chain, ReplyEnds, Entire, Is, At, InHand, Held, Holding, AnswerIsWhole, AllSent
    <3>. QED BY <3>1, <3>2, <3>3 DEF RequestInv, Running, Standing, Is, At
  <2>. QED BY <2>1, <2>2, <2>3, <2>4 DEF RequestNext
<1>. QED BY <1>1, <1>2 DEF RequestInv

\* In every request the invariant holds that ties what was told, what is
\* queued and what was read (_call_stream_with_timeout).
THEOREM RequestInvariance == RequestSpec => []RequestInv
<1>. QED BY InitHolds, StepHolds, PTL DEF RequestSpec

\* An answer is whole, and its text is what the run told on, for replies of
\* any length, queues of any size and a cancel, a deadline or an interrupt at
\* any point (_call_stream_with_timeout, _ChatCompletionAccumulator.complete).
THEOREM WholeAnswer == RequestSpec => []AnswerIsWhole
<1>1. RequestInv => AnswerIsWhole
  BY DEF RequestInv, Standing, AnswerIsWhole
<1>. QED BY <1>1, RequestInvariance, PTL
=============================================================================
