------------------------------ MODULE AgentTurn -----------------------------
(***************************************************************************)
(* One prompt after another in the agent loop (agent.py, _run_prompt): the *)
(* queue of tool requirements, the model's turn, its tool calls, and the   *)
(* owners that may refuse an answer and ask for another.  Every owner has  *)
(* a budget of its own; the finalization coordinator counts the rewrites   *)
(* they request together.  A prompt ends in one final record, one summary, *)
(* one settlement and one TurnFinished, also after an exception.           *)
(*                                                                         *)
(* The provider, the tools and the checks that read prose (audits, the     *)
(* isolated review, the rule that picks the required tool) are inputs.     *)
(***************************************************************************)
EXTENDS Naturals, FiniteSets, Sequences

CONSTANTS
    MaxAggregate,       \* rewrites in a run (8 in finalization.py)
    MaxContinuations,   \* rewrites without a tool in between (8)
    MaxBlank,           \* retries of a reply that is no answer (3)
    MaxProtocol,        \* retries of tool protocol in a final turn (3)
    MaxExact,           \* turns in which one tool is forced (3)
    MaxDirectiveTurns,  \* turns of a temporary tool restriction (2)
    MaxDirectiveCalls,  \* calls under a temporary tool restriction (3)
    MaxSoft,            \* reminders to read the named document (3)
    MaxSteers,          \* corrections by one audit, or by one loop guard (2)
    MaxSteps,           \* max_steps, where it is configured
    MaxBatch,           \* bound: tool calls in one message
    MaxOwners           \* bound: owners with something to say in one run

Owners == {"steps", "deadline", "queue", "soft", "audit",
           "structure", "loop", "coverage", "roots", "review"}
Tools     == {"first", "second"}     \* two different exact requirements
Decisions == Tools \cup {"free", "final", "stop"}

ASSUME BudgetAssumption ==
    /\ {MaxAggregate, MaxContinuations, MaxBlank, MaxProtocol, MaxExact,
        MaxDirectiveTurns, MaxDirectiveCalls, MaxSoft, MaxSteers, MaxSteps,
        MaxBatch, MaxOwners} \subseteq Nat
    /\ MaxExact > 0 /\ MaxBatch > 0

VARIABLES
    pc,        \* where the run is
    owners,    \* the owners that this prompt and configuration wake
    clock,     \* "none", "ample", "reserve" (too late to rewrite), "over"
    step,      \* the step, where steps are limited
    fin,       \* the finalization coordinator
    forced,    \* this turn is a forced final turn
    queue,     \* the decision of the tool-choice queue, and what it has seen
    exact,     \* the requirement of one exact tool
    unlocated, \* the requirements given up as unlocated in their root
    temp,      \* the temporary tool directive
    soft,      \* reminders of the soft requirement so far
    steers,    \* corrections so far, of each kind
    cover,     \* cross-root coverage: "open", "covered", "final"
    review,    \* the isolated review of a read-only answer
    calls,     \* the calls of the last message: how often each is answered
    out,       \* how the run ends
    log,       \* what the run has recorded and told the frontend
    cause      \* history: where an exception struck this run, or "none"

vars == <<pc, owners, clock, step, fin, forced, queue, exact, unlocated, temp,
          soft, steers, cover, review, calls, out, log, cause>>

NewFin    == [pending |-> FALSE, cont |-> 0, agg |-> 0, blank |-> 0,
              protocol |-> 0, hard |-> TRUE, gate |-> FALSE]
NewQueue  == [now |-> "free", fresh |-> TRUE, forcedHere |-> FALSE]
NoExact   == [tool |-> "none", tries |-> 0, next |-> FALSE, ok |-> FALSE, err |-> FALSE]
NewTemp   == [on |-> FALSE, begun |-> FALSE, called |-> FALSE, good |-> FALSE,
              count |-> 0, turns |-> 0, ignored |-> FALSE, told |-> FALSE]
NewReview == [state |-> "new", prepared |-> FALSE, corrected |-> FALSE, preparing |-> FALSE]
NewLog    == [finals |-> <<>>, summary |-> FALSE, finished |-> FALSE,
              settled |-> FALSE, closed |-> 0]
NoOut     == [reason |-> "none", text |-> "none", keep |-> FALSE, memory |-> FALSE]
Kinds     == {"audit", "structure", "loop"}

Init ==
    /\ pc = "idle" /\ owners = {} /\ clock = "none" /\ step = 0
    /\ fin = NewFin /\ forced = FALSE /\ queue = NewQueue /\ exact = NoExact
    /\ unlocated = {} /\ temp = NewTemp /\ soft = 0 /\ steers = [k \in Kinds |-> 0]
    /\ cover = "open" /\ review = NewReview /\ calls = <<>>
    /\ out = NoOut /\ log = NewLog /\ cause = "none"

\* A prompt arrives.  Its baseline and its requirements are worked out before
\* anything of the run is set up: the output of the prompt before is still
\* marked as finished.
StartRun ==
    /\ pc = "idle"
    /\ \E S \in SUBSET Owners :
          /\ Cardinality(S) <= MaxOwners
          /\ owners' = S
          /\ clock' = IF "deadline" \in S THEN "ample" ELSE "none"
    /\ pc' = "starting" /\ calls' = <<>> /\ out' = NoOut /\ cause' = "none"
    /\ log' = [NewLog EXCEPT !.finished = log.finished]
    /\ UNCHANGED <<step, fin, forced, queue, exact, unlocated, temp, soft, steers,
                   cover, review>>

Set == <<owners, clock, step, fin, forced, queue, exact, unlocated, temp, soft,
         steers, cover, review, calls, out, cause>>

\* Faulty: the output lifecycle is left as the prompt before has left it.
BeginWithoutOutput ==
    /\ pc = "starting"
    /\ pc' = "turn"
    /\ UNCHANGED <<Set, log>>

\* The state of the run, its output lifecycle too, begins anew.
BeginRun ==
    /\ pc = "starting"
    /\ pc' = "turn"
    /\ log' = NewLog
    /\ UNCHANGED Set

\* What belongs to the run alone goes with it.
Forget ==
    /\ owners' = {} /\ clock' = "none" /\ step' = 0 /\ fin' = NewFin /\ forced' = FALSE
    /\ queue' = NewQueue /\ exact' = NoExact /\ unlocated' = {} /\ temp' = NewTemp
    /\ soft' = 0 /\ steers' = [k \in Kinds |-> 0] /\ cover' = "open" /\ review' = NewReview

-----------------------------------------------------------------------------
(* The finalization coordinator. *)

\* rewrite_skip_reason: why no further answer can be asked for.
Spent(f) == \/ clock \in {"reserve", "over"}
            \/ f.agg >= MaxAggregate
            \/ f.cont >= MaxContinuations

Requested(f, isHard) ==
    [f EXCEPT !.agg = @ + 1, !.cont = @ + 1, !.pending = TRUE, !.hard = isHard]

Cleared(f) == [f EXCEPT !.pending = FALSE, !.hard = TRUE]

\* A hard request that cannot be queued leaves the answer unverified.
RequestOrBlock(f) == IF Spent(f) THEN [f EXCEPT !.gate = TRUE] ELSE Requested(f, TRUE)

\* A real tool result: the answers start to be counted again.
AfterTool(f) == [Cleared(f) EXCEPT !.cont = 0, !.protocol = 0]

-----------------------------------------------------------------------------
(* Ending a run.  Every return of the loop is one call of _finish_run. *)

Finish(reason, keep, memory) ==
    /\ pc' = "closing"
    /\ out' = [reason |-> reason, text |-> "runtime", keep |-> keep, memory |-> memory]

Deliver(reason, text) ==
    /\ pc' = "closing"
    /\ out' = [reason |-> reason, text |-> text, keep |-> FALSE, memory |-> TRUE]

Again ==
    /\ pc' = "turn"
    /\ step' = IF "steps" \in owners THEN step + 1 ELSE step
    /\ UNCHANGED out

\* The loop condition and the deadline, before anything else in a step.
StepsUsedUp ==
    /\ pc = "turn"
    /\ "steps" \in owners /\ step >= MaxSteps
    /\ Finish("max_steps", FALSE, TRUE)
    /\ UNCHANGED <<owners, clock, step, fin, forced, queue, exact, temp, soft,
                   unlocated, steers, cover, review, calls, log, cause>>

StopForBudget ==
    /\ pc = "turn"
    /\ clock = "over"
    /\ Finish("budget", FALSE, TRUE)
    /\ UNCHANGED <<owners, clock, step, fin, forced, queue, exact, temp, soft,
                   unlocated, steers, cover, review, calls, log, cause>>

-----------------------------------------------------------------------------
(* The temporary tool directive.  A step of it yields the coordinator, the  *)
(* directive, and whether an answer without tools has been asked for.       *)

\* A directive that is used up asks once for an answer from what there is.
Truthful(f, t) ==
    LET off == [t EXCEPT !.on = FALSE, !.told = TRUE] IN
    IF t.told       THEN [fin |-> f, temp |-> off, again |-> FALSE]
    ELSE IF Spent(f) THEN [fin |-> [f EXCEPT !.gate = TRUE], temp |-> off, again |-> FALSE]
    ELSE                 [fin |-> Requested(f, TRUE), temp |-> off, again |-> TRUE]

Quietly(f, t) == [fin |-> f, temp |-> t, again |-> FALSE]

Exhausted(t) == t.count >= MaxDirectiveCalls \/ t.turns >= MaxDirectiveTurns

Activate(f, t) ==
    IF t.ignored         THEN Quietly(f, [t EXCEPT !.on = FALSE])
    ELSE IF Exhausted(t) THEN Truthful(f, t)
    ELSE Quietly(f, [t EXCEPT !.on = TRUE, !.begun = FALSE, !.called = FALSE, !.good = FALSE])

BeginDirective(f, t) ==
    IF ~ t.on THEN Quietly(f, t)
    ELSE IF t.turns >= MaxDirectiveTurns THEN Truthful(f, t)
    ELSE Quietly(f, [t EXCEPT !.begun = TRUE, !.called = FALSE, !.turns = @ + 1])

\* One call: it is counted before it runs, and the last one closes the directive.
Attempt(f, t, ok) ==
    IF ~ t.on THEN Quietly(f, t)
    ELSE LET more == [t EXCEPT !.called = TRUE, !.count = @ + 1] IN
         IF more.count >= MaxDirectiveCalls
         THEN Truthful(f, more)
         ELSE Quietly(f, [more EXCEPT !.good = @ \/ ok])

FinishDirective(f, t) ==
    LET off == [t EXCEPT !.on = FALSE] IN
    IF ~ t.on \/ ~ t.begun   THEN Quietly(f, t)
    ELSE IF t.good           THEN Quietly(f, off)
    ELSE IF ~ t.called       THEN Quietly(f, [off EXCEPT !.ignored = TRUE])
    ELSE IF t.turns >= MaxDirectiveTurns THEN Truthful(f, off)
    ELSE Quietly(f, off)

-----------------------------------------------------------------------------
(* The tool-choice queue, the exact-tool directive and the coverage of roots. *)

\* What the queue may decide: something new only after new results.
Decide(d) ==
    /\ d \in (IF "queue" \in owners THEN Decisions \ unlocated ELSE {"free"})
    /\ queue.fresh \/ d = queue.now

\* begin_decision: the requirement a decision leaves behind, and what it asks.
Escalate(d) ==
    LET kept == [exact EXCEPT !.ok = FALSE, !.err = FALSE] IN
    IF d \notin Tools                    THEN [left |-> NoExact, act |-> "none"]
    ELSE IF exact.tool # d               THEN [left |-> [NoExact EXCEPT !.tool = d], act |-> "none"]
    ELSE IF exact.ok                     THEN [left |-> NoExact, act |-> "none"]
    ELSE IF ~ exact.err                  THEN [left |-> kept, act |-> "none"]
    ELSE IF exact.tries >= MaxExact - 1  THEN [left |-> NoExact, act |-> "exhausted"]
    ELSE [left |-> [kept EXCEPT !.tries = @ + 1, !.next = TRUE], act |-> "force"]

\* observe_turn, for a message that did not keep to the required tool.
Refuse ==
    IF exact.tries >= MaxExact
    THEN [left |-> NoExact, act |-> "exhausted"]
    ELSE [left |-> [exact EXCEPT !.tries = @ + 1, !.next = TRUE], act |-> "force"]

\* An exhausted read of a root's candidate is recorded as unlocated in the
\* root, which gives the queue something new to decide on.
GivenUp(escalation) == escalation.act = "exhausted" /\ "roots" \in owners

Ready == pc' = "ready" /\ UNCHANGED out

\* Nothing is required: has the evidence of all roots been read long enough?
Coverage(fresh) ==
    \/ /\ cover' \in (IF "coverage" \in owners /\ cover = "open" /\ clock \in {"none", "ample"}
                      THEN {"open", "covered"} ELSE {cover})
       /\ cover = "covered" => clock \in {"none", "ample"}
       /\ Ready
       /\ UNCHANGED <<fin, temp>>
    \/ /\ "coverage" \in owners /\ cover # "final"
       /\ clock \in {"reserve", "over"} \/ (cover = "covered" /\ fresh)
       /\ cover' = "final"
       /\ temp' = [temp EXCEPT !.on = FALSE]
       /\ IF Spent(fin)
          THEN fin' = Cleared(RequestOrBlock(fin)) /\ Finish("unverified_final_gate", FALSE, TRUE)
          ELSE fin' = Requested(fin, TRUE) /\ Ready

QueueTurn ==
    /\ pc \in {"turn", "requeue"}
    /\ pc = "turn" => clock # "over" /\ ("steps" \in owners => step < MaxSteps)
    /\ \E d \in Decisions :
          LET first == ~ queue.forcedHere \/ queue.fresh
              e     == Escalate(d)
          IN
          /\ Decide(d)
          /\ exact' = e.left
          /\ queue' = [now        |-> d,
                       fresh      |-> GivenUp(e),
                       forcedHere |-> d = "final" \/ (queue.forcedHere /\ ~ queue.fresh)]
          /\ unlocated' = IF GivenUp(e) THEN unlocated \cup {d} ELSE unlocated
          /\ CASE GivenUp(e) ->
                    /\ pc' = "requeue"
                    /\ UNCHANGED <<out, fin, temp, cover>>
               [] e.act = "exhausted" /\ ~ GivenUp(e) ->
                    /\ Finish("tool_choice_exact_exhausted", FALSE, TRUE)
                    /\ UNCHANGED <<fin, temp, cover>>
               [] d = "final" ->
                    /\ fin' = IF first THEN RequestOrBlock(fin) ELSE fin
                    /\ Ready
                    /\ UNCHANGED <<temp, cover>>
               [] d = "stop" ->
                    /\ Finish("tool_choice_queue", FALSE, TRUE)
                    /\ UNCHANGED <<fin, temp, cover>>
               [] d = "free" -> Coverage(queue.fresh)
               [] OTHER ->
                    /\ Ready
                    /\ UNCHANGED <<fin, temp, cover>>
    /\ UNCHANGED <<owners, clock, step, forced, soft, steers, review, calls, log, cause>>

\* The request: a pending final answer makes this a turn without tools.
BeginTurn ==
    /\ pc = "ready"
    /\ LET r == BeginDirective(fin, temp) IN
       /\ temp' = r.temp
       /\ IF r.again
          THEN /\ Again
               /\ fin' = r.fin
               /\ UNCHANGED <<forced, exact>>
          ELSE /\ pc' = "model"
               /\ forced' = r.fin.pending
               /\ fin' = [r.fin EXCEPT !.pending = FALSE]
               /\ exact' = [exact EXCEPT !.next = FALSE]
               /\ UNCHANGED <<step, out>>
    /\ UNCHANGED <<owners, clock, queue, unlocated, soft, steers, cover, review,
                   calls, log, cause>>

-----------------------------------------------------------------------------
(* The provider's reply. *)

Settings == <<owners, clock, queue, soft, steers, cover, review, log, cause>>

\* An error or a timeout.  Only a reworded draft may stand in for an answer.
ProviderFails ==
    /\ pc = "model"
    /\ IF clock = "over" THEN Finish("budget", FALSE, TRUE)
       ELSE IF forced /\ fin.hard THEN Finish("forced_final_timeout_unverified", FALSE, TRUE)
       ELSE \/ forced /\ Deliver("forced_final_timeout_fallback", "draft")
            \/ Finish("provider_error", FALSE, FALSE)
    /\ UNCHANGED <<Settings, step, fin, forced, exact, unlocated, temp, calls>>

\* Tool protocol in a turn that has no tools: rejected, nothing is executed.
FinalTurnProtocol ==
    /\ pc = "model"
    /\ forced
    /\ LET f == [fin EXCEPT !.protocol = @ + 1] IN
       IF f.protocol <= MaxProtocol /\ ~ Spent(f)
       THEN fin' = Requested(f, f.hard) /\ Again
       ELSE /\ fin' = [f EXCEPT !.pending = FALSE]
            /\ Finish("forced_final_protocol_violation", TRUE, FALSE)
            /\ UNCHANGED step
    /\ UNCHANGED <<Settings, forced, exact, unlocated, temp, calls>>

OrdinaryArtifact ==
    /\ pc = "model"
    /\ ~ forced
    /\ Finish("provider_protocol_violation", TRUE, FALSE)
    /\ UNCHANGED <<Settings, step, fin, forced, exact, unlocated, temp, calls>>

\* The reply ignores the exact tool.
NotTheTool ==
    /\ exact' = Refuse.left
    /\ queue' = [queue EXCEPT !.fresh = @ \/ GivenUp(Refuse)]
    /\ unlocated' = IF GivenUp(Refuse) THEN unlocated \cup {exact.tool} ELSE unlocated
    /\ IF Refuse.act = "force" \/ GivenUp(Refuse)
       THEN Again
       ELSE Finish("tool_choice_exact_exhausted", FALSE, FALSE) /\ UNCHANGED step

TextInsteadOfTool ==
    /\ pc = "model"
    /\ exact.tool # "none"
    /\ NotTheTool
    /\ calls' = <<>>
    /\ UNCHANGED <<owners, clock, fin, forced, temp, soft, steers, cover, review, log, cause>>

\* Faulty: a retry is granted without being counted.
BlankUncounted ==
    /\ pc = "model"
    /\ exact.tool = "none"
    /\ fin' = [fin EXCEPT !.pending = forced]
    /\ Again
    /\ UNCHANGED <<Settings, forced, exact, unlocated, temp, calls>>

\* A reply that cannot be an answer; the count is for the whole run.
Blank ==
    /\ pc = "model"
    /\ exact.tool = "none"
    /\ IF fin.blank < MaxBlank
       THEN /\ fin' = [fin EXCEPT !.blank = @ + 1, !.pending = forced]
            /\ Again
       ELSE /\ Finish("provider_non_substantive_response", TRUE, FALSE)
            /\ UNCHANGED <<fin, step>>
    /\ UNCHANGED <<Settings, forced, exact, unlocated, temp, calls>>

Text ==
    /\ pc = "model"
    /\ exact.tool = "none"
    /\ fin' = LET f == [fin EXCEPT !.blank = 0, !.protocol = 0] IN
              IF forced THEN Cleared(f) ELSE f
    /\ calls' = <<>>
    /\ \/ pc' = "answer" /\ UNCHANGED out
       \/ Finish("length", FALSE, TRUE)
    /\ UNCHANGED <<Settings, step, forced, exact, unlocated, temp>>

None(n) == [i \in 1..n |-> 0]
All(n)  == [i \in 1..n |-> 1]

\* Calls of other tools than the required one are answered, not run.
OtherTools ==
    /\ pc = "model" /\ ~ forced
    /\ exact.tool # "none"
    /\ NotTheTool
    /\ \E n \in 1..MaxBatch : calls' = All(n)
    /\ UNCHANGED <<owners, clock, fin, forced, temp, soft, steers, cover, review, log, cause>>

\* Faulty: the calls of a truncated message are left alone.
ToolCallsTruncated ==
    /\ pc = "model" /\ ~ forced
    /\ \E n \in 1..MaxBatch : calls' = None(n)
    /\ \/ pc' = "batch" /\ UNCHANGED out
       \/ Finish("length", FALSE, TRUE)
    /\ UNCHANGED <<Settings, step, fin, forced, exact, unlocated, temp>>

ToolCalls ==
    /\ pc = "model" /\ ~ forced
    /\ \E n \in 1..MaxBatch :
          \/ calls' = None(n) /\ pc' = "batch" /\ UNCHANGED out
          \/ calls' = All(n) /\ Finish("length", FALSE, TRUE)
    /\ UNCHANGED <<Settings, step, fin, forced, exact, unlocated, temp>>

-----------------------------------------------------------------------------
(* Corrections: what an audit of the answer, a review of the diff or a loop *)
(* guard may ask for.                                                       *)

\* [fin, temp, again] after a decision of one kind and form.  A loop guard
\* lifts the temporary restriction also when it may not ask for an answer.
Correction(kind, form, f, t) ==
    CASE form = "rewrite" /\ Spent(f) ->
            Quietly([f EXCEPT !.gate = TRUE], [t EXCEPT !.on = @ /\ kind # "loop"])
      [] form = "polish" /\ Spent(f)  -> Quietly(f, t)
      [] form = "tools" -> [Activate(Cleared(f), t) EXCEPT !.again = TRUE]
      [] OTHER -> [fin |-> Requested(f, form = "rewrite"),
                   temp |-> [t EXCEPT !.on = FALSE], again |-> TRUE]

Forms(kind) == CASE kind = "audit"     -> {"rewrite", "tools"}
                 [] kind = "structure" -> {"polish"}
                 [] OTHER              -> {"rewrite", "tools"}

Due(kind) == kind \in owners /\ steers[kind] < MaxSteers

-----------------------------------------------------------------------------
(* The tool calls of a message, one after another. *)

Done(i)    == [calls EXCEPT ![i] = @ + 1]
DoneAll(i) == [j \in DOMAIN calls |-> IF j >= i THEN calls[j] + 1 ELSE calls[j]]
Current    == Cardinality({j \in DOMAIN calls : calls[j] > 0}) + 1

\* The deadline is looked at before a call, and after it.
BudgetInBatch ==
    /\ pc = "batch"
    /\ clock = "over"
    /\ calls' = DoneAll(Current)
    /\ Finish("budget", FALSE, TRUE)
    /\ UNCHANGED <<Settings, step, fin, forced, exact, unlocated, temp>>

\* What a tool's result changes before anything is decided about the rest.
Join(ok) ==
    /\ queue' = [queue EXCEPT !.fresh = TRUE, !.forcedHere = FALSE]
    /\ exact' = IF exact.tool = "none" THEN exact
                ELSE [exact EXCEPT !.ok = @ \/ ok, !.err = @ \/ ~ ok]
    /\ owners' \in {owners} \cup (IF ok THEN {owners \ {"soft"}} ELSE {})

\* A call runs; then the next one, or the rest is skipped for some reason.
RunTool ==
    /\ pc = "batch" /\ clock # "over" /\ Current <= Len(calls)
    /\ \E ok \in BOOLEAN :
          /\ Join(ok)
          /\ LET r == Attempt(AfterTool(fin), temp, ok) IN
             \/ /\ r.again \/ "roots" \in owners    \* used up, or explored enough
                /\ fin' = r.fin /\ temp' = r.temp
                /\ calls' = DoneAll(Current)
                /\ pc' = "tail" /\ UNCHANGED <<out, steers>>
             \/ /\ ~ r.again
                /\ fin' = r.fin /\ temp' = r.temp
                /\ calls' = Done(Current)
                /\ UNCHANGED <<pc, out, steers>>
             \/ /\ ~ r.again                          \* patch review, loop guard
                /\ \E kind \in {"audit", "loop"} :
                     /\ Due(kind)
                     /\ \E form \in Forms(kind) :
                          LET c == Correction(kind, form, r.fin, r.temp) IN
                          /\ fin' = c.fin /\ temp' = c.temp
                          /\ steers' = IF c.again \/ kind = "loop"
                                       THEN [steers EXCEPT ![kind] = @ + 1] ELSE steers
                /\ calls' = DoneAll(Current)
                /\ pc' = "tail" /\ UNCHANGED out
             \/ /\ ~ r.again /\ "loop" \in owners     \* the guard has had enough
                /\ fin' = r.fin /\ temp' = r.temp
                /\ calls' = DoneAll(Current)
                /\ Finish("loop_guard", FALSE, TRUE) /\ UNCHANGED steers
    /\ UNCHANGED <<clock, step, forced, unlocated, soft, cover, review, log, cause>>

\* A cancel in a tool: its call and the rest are answered, and the run stops.
InterruptTool ==
    /\ pc = "batch" /\ clock # "over" /\ Current <= Len(calls)
    /\ calls' = DoneAll(Current)
    /\ Finish("interrupt", TRUE, FALSE)
    /\ UNCHANGED <<Settings, step, fin, forced, exact, unlocated, temp>>

EndBatch ==
    /\ pc = "tail" \/ (pc = "batch" /\ clock # "over" /\ Current > Len(calls))
    /\ LET r == FinishDirective(fin, temp) IN fin' = r.fin /\ temp' = r.temp
    /\ Again
    /\ UNCHANGED <<Settings, forced, exact, unlocated, calls>>

-----------------------------------------------------------------------------
(* A text that could be the answer. *)

Judged == <<owners, clock, queue, cover, log, cause, forced, exact, unlocated, calls>>

CloseDirective ==
    /\ pc = "answer"
    /\ LET r == FinishDirective(fin, temp) IN
       /\ fin' = r.fin /\ temp' = r.temp
       /\ IF r.again THEN Again ELSE pc' = "judge" /\ UNCHANGED <<step, out>>
    /\ UNCHANGED <<Judged, soft, steers, review>>

Remind ==
    /\ pc = "judge"
    /\ "soft" \in owners
    /\ IF soft < MaxSoft
       THEN soft' = soft + 1 /\ Again
       ELSE Finish("soft_tool_requirement", FALSE, TRUE) /\ UNCHANGED <<soft, step>>
    /\ UNCHANGED <<Judged, fin, temp, steers, review>>

\* An audit wants something else, unless the review waits for its rewrite.
Audit ==
    /\ pc = "judge"
    /\ "soft" \notin owners
    /\ ~ review.preparing
    /\ \E kind \in {"audit", "structure"} :
          /\ Due(kind)
          /\ \E form \in Forms(kind) :
               LET c == Correction(kind, form, fin, temp) IN
               /\ fin' = c.fin /\ temp' = c.temp
               /\ IF c.again
                  THEN steers' = [steers EXCEPT ![kind] = @ + 1] /\ Again
                  ELSE pc' = "review" /\ UNCHANGED <<steers, step, out>>
    /\ UNCHANGED <<Judged, soft, review>>

AuditPasses ==
    /\ pc = "judge"
    /\ "soft" \notin owners
    /\ pc' = "review"
    /\ UNCHANGED <<Judged, step, fin, temp, soft, steers, review, out>>

Unverified == Finish("read_only_reviewer_unverified", FALSE, FALSE)

\* Faulty: once reviewed, any later text will do.
ReviewOnce ==
    /\ pc = "review"
    /\ \/ /\ "review" \notin owners \/ review.state # "new"
          /\ Deliver("final", "answer")
          /\ UNCHANGED <<fin, review, step>>
       \/ /\ "review" \in owners /\ review.state = "new" /\ ~ Spent(fin)
          /\ fin' = Requested(fin, TRUE)
          /\ review' = [review EXCEPT !.state = "asked"]
          /\ Again
    /\ UNCHANGED <<Judged, temp, soft, steers>>

\* The isolated review: prepared once, then a verdict, then the closure check.
Review ==
    /\ pc = "review"
    /\ \/ /\ "review" \notin owners \/ review.state = "done"
          /\ Deliver("final", "answer")
          /\ UNCHANGED <<fin, review, step>>
       \/ /\ "review" \in owners /\ review.state # "done"
          /\ \/ Unverified /\ UNCHANGED <<fin, review, step>>      \* whatever fails
             \/ /\ ~ review.prepared /\ ~ review.preparing /\ ~ Spent(fin)
                /\ fin' = Requested(fin, TRUE)
                /\ review' = [review EXCEPT !.preparing = TRUE]
                /\ Again
             \/ /\ review.state = "new" => ~ Spent(fin)
                /\ Deliver("final", "answer")
                /\ review' = [review EXCEPT !.state = "done"]
                /\ UNCHANGED <<fin, step>>
             \/ /\ ~ Spent(fin)
                /\ review.state = "asked" => ~ review.corrected
                /\ fin' = Requested(fin, TRUE)
                /\ review' = [review EXCEPT !.state = "asked",
                                !.corrected = review.state = "asked",
                                !.prepared = @ \/ review.preparing,
                                !.preparing = FALSE]
                /\ Again
    /\ UNCHANGED <<Judged, temp, soft, steers>>

-----------------------------------------------------------------------------
(* The end of a run: _finish_run, and the command boundary behind it. *)

Ran == <<owners, clock, step, fin, forced, queue, exact, unlocated, soft, steers,
         cover, review, calls, cause>>

\* Faulty: an answer that could not be corrected is handed over as it is.
RecordDraft ==
    /\ pc = "closing"
    /\ temp' = [temp EXCEPT !.on = FALSE]
    /\ log' = [log EXCEPT !.finals = Append(@, out.text)]
    /\ pc' = IF out.memory THEN "memory" ELSE "summary"
    /\ UNCHANGED <<Ran, out>>

\* An open hard gate, or deliverables that are not closed, replace the answer;
\* what evidence there is replaces a draft that the review should have seen.
RecordFinal ==
    /\ pc = "closing"
    /\ temp' = [temp EXCEPT !.on = FALSE]
    /\ out' \in
         IF fin.gate /\ ~ out.keep
         THEN {[out EXCEPT !.text = "unverified",
                           !.reason = IF @ = "final" THEN "unverified_final_gate" ELSE @]}
         ELSE {out} \cup (IF out.reason = "final" /\ "audit" \in owners
                          THEN {[out EXCEPT !.text = "unverified", !.reason = "incomplete_delivery"]}
                          ELSE IF out.text = "draft" /\ "review" \in owners
                          THEN {[out EXCEPT !.text = "unverified"]}
                          ELSE {})
    /\ log' = [log EXCEPT !.finals = Append(@, out'.text)]
    /\ pc' = IF out.memory THEN "memory" ELSE "summary"
    /\ UNCHANGED Ran

Consolidate ==
    /\ pc = "memory"
    /\ pc' = "summary"
    /\ UNCHANGED <<Ran, temp, out, log>>

Summarize ==
    /\ pc = "summary"
    /\ log' = [log EXCEPT !.summary = TRUE]
    /\ pc' = "settle"
    /\ UNCHANGED <<Ran, temp, out>>

\* The output is finished, then the settlement recorded, then the turn closed.
FinishOutput ==
    /\ pc = "settle"
    /\ log' = [log EXCEPT !.finished = TRUE]
    /\ pc' = "record"
    /\ UNCHANGED <<Ran, temp, out>>

Settle ==
    /\ pc = "record"
    /\ log' = [log EXCEPT !.settled = TRUE]
    /\ pc' = "close"
    /\ UNCHANGED <<Ran, temp, out>>

\* After an interrupted tool the exception goes on to the command boundary.
FinishTurn ==
    /\ pc = "close"
    /\ log' = [log EXCEPT !.closed = @ + 1]
    /\ IF out.reason = "interrupt"
       THEN pc' = "failed" /\ UNCHANGED <<Ran, temp>>
       ELSE pc' = "idle" /\ Forget /\ UNCHANGED <<calls, cause>>
    /\ UNCHANGED out

\* An exception nobody in the run handles: a cancel while it waits, a signal
\* anywhere, a record that cannot be written.
Fault ==
    /\ pc \notin {"idle", "failed"}
    /\ cause = "none"
    /\ cause' = pc
    /\ pc' = "failed"
    /\ UNCHANGED <<owners, clock, step, fin, forced, queue, exact, unlocated, temp,
                   soft, steers, cover, review, calls, out, log>>

\* The delivery at the command boundary.  An output that is marked as finished
\* cannot be finished again: that exception escapes, and nothing is told.
Closed(l) ==
    IF l.finished THEN [l EXCEPT !.summary = TRUE]
    ELSE [l EXCEPT !.summary = TRUE, !.finished = TRUE, !.settled = TRUE, !.closed = @ + 1]

StoppedOut == [NoOut EXCEPT !.reason = "stopped", !.text = "stopped"]

\* Faulty: a run that has told its summary is reported with the generic text.
EnsureFailedTurnGeneric ==
    /\ pc = "failed"
    /\ pc' = "idle"
    /\ IF log.closed > 0
       THEN UNCHANGED <<log, out>>
       ELSE /\ out' = StoppedOut
            /\ log' = Closed(IF log.summary THEN log
                             ELSE [log EXCEPT !.finals = Append(@, "stopped")])
    /\ Forget /\ UNCHANGED <<calls, cause>>

\* The command boundary: a turn that is still open is closed, with its own
\* final record if its summary is out.
EnsureFailedTurn ==
    /\ pc = "failed"
    /\ pc' = "idle"
    /\ IF log.closed > 0
       THEN UNCHANGED <<log, out>>
       ELSE IF log.summary
       THEN log' = Closed(log) /\ UNCHANGED out
       ELSE /\ out' = StoppedOut
            /\ log' = Closed([log EXCEPT !.finals = Append(@, "stopped")])
    /\ Forget /\ UNCHANGED <<calls, cause>>

-----------------------------------------------------------------------------
\* Time passes, where the run has a deadline.
Tick ==
    /\ pc # "idle"
    /\ clock \in {"ample", "reserve"}
    /\ clock' = IF clock = "ample" THEN "reserve" ELSE "over"
    /\ UNCHANGED <<pc, owners, step, fin, forced, queue, exact, unlocated, temp,
                   soft, steers, cover, review, calls, out, log, cause>>

Reply  == ProviderFails \/ FinalTurnProtocol \/ OrdinaryArtifact \/ TextInsteadOfTool
          \/ Blank \/ Text \/ OtherTools \/ ToolCalls
Batch  == BudgetInBatch \/ RunTool \/ InterruptTool \/ EndBatch
Answer == CloseDirective \/ Remind \/ Audit \/ AuditPasses \/ Review
Ending == RecordFinal \/ Consolidate \/ Summarize \/ FinishOutput \/ Settle
          \/ FinishTurn \/ EnsureFailedTurn
Loop   == StepsUsedUp \/ StopForBudget \/ QueueTurn \/ BeginTurn

Work == BeginRun \/ Loop \/ Reply \/ Batch \/ Answer \/ Ending
Next == StartRun \/ Work \/ Fault \/ Tick

\* The thread goes on, and every provider request has a timeout.
Spec == Init /\ [][Next]_vars /\ WF_vars(Work)

-----------------------------------------------------------------------------
(* Properties. *)

\* Ten owners ask for rewrites and reset each other's counters; in one run they
\* get no more than the coordinator grants (finalization.py, rewrite_skip_reason).
RewritesBounded == fin.agg <= MaxAggregate /\ fin.cont <= MaxContinuations

\* A provider refuses a transcript in which a tool call has no result, or has
\* two: whatever cuts a message's calls short (deadline, cancel, a used-up
\* directive, a loop guard, a truncated reply), the next request and the
\* next prompt find each call answered exactly once (agent.py, the batch
\* loop and _append_synthetic_tool_results).
Paired ==
    pc \in {"turn", "ready", "model", "answer", "closing", "idle"} /\ cause = "none"
        => \A i \in DOMAIN calls : calls[i] = 1

\* An answer that a hard check wanted rewritten, when no rewrite was left, is
\* never handed over as the answer, by whichever way the run ends later
\* (_finish_run and unresolved_final_answer_gate).
BlockedIsNotDelivered ==
    pc \in {"memory", "summary", "settle", "record", "close"} /\ out.text = "answer"
        => ~ fin.gate

\* Where the contract wants the isolated review, no answer leaves the run
\* without it: neither a rewrite nor tools in between, nor a failed review
\* (runtime/review.py, review_candidate).
ReviewedIsDelivered ==
    pc \in {"closing", "memory", "summary", "settle", "record", "close"}
        /\ out.text = "answer" /\ "review" \in owners
        => review.state = "done"

\* A prompt is closed once, after its summary and its settlement, also when
\* an exception strikes in the middle of closing it, or what it was running.
\* Two exceptions leave it open: one between the finished output and
\* TurnFinished, and one before the run is begun (agent.py:305-326), when the
\* prompt before has left its output finished (runtime/commands.py,
\* _ensure_failed_turn; runtime/run_output.py, finish).
OneTerminal ==
    pc = "idle" /\ log # NewLog =>
        /\ log.summary
        /\ \/ log.closed = 1 /\ log.settled
           \/ log.closed = 0 /\ cause \in {"starting", "record", "close"}

\* What the closed turn tells the user is what the session has recorded last
\* as its final text, and there is one text unless an exception replaced it
\* (emit_runtime_delivery, _ensure_failed_turn).
ToldIsRecorded ==
    log.closed > 0 =>
        /\ log.finals # <<>> /\ log.finals[Len(log.finals)] = out.text
        /\ cause = "none" => Len(log.finals) = 1

\* Owners ask for rewrites, retries, forced tools and reminders against each
\* other, and one of them may clear what another has requested.  Unless the
\* model goes on calling tools for ever, the prompt still ends.
Answered == <>[](pc # "batch") => []<>(pc = "idle")

\* project-status.md:453: only a rewrite for the sake of presentation may fall
\* back on the draft; where a hard check is not closed in time, the answer is
\* unverified.  So a draft that is handed over has passed every hard check.
DraftIsClosed ==
    pc \in {"memory", "summary", "settle", "record", "close"} /\ out.text = "draft"
        => ~ Due("audit") /\ ("review" \in owners => review.state = "done")

\* architecture.md:418: a forced final turn is terminal, it has no tools.  So it
\* must not be one that is refused for not calling a tool.
ForcedTurnAnswerable == ~ (pc = "model" /\ forced /\ exact.tool # "none")
=============================================================================
