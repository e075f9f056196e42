----------------------------- MODULE TuiSession -----------------------------
(***************************************************************************)
(* The interactive session: the UI thread (TuiController), the worker      *)
(* thread (TuiWorker around CommandDispatcher), the cancellation token     *)
(* they share (RunCancellation), the bridge by which a run asks the user   *)
(* (TuiInteractionBridge), and the mailbox between them.                   *)
(*                                                                         *)
(* A step of either thread is what it does between two points where the    *)
(* other can interfere: one lock region, one queue or mailbox operation.   *)
(* The UI handles one message or one key at a time.  The mailbox is not    *)
(* full here (TuiMailbox says what happens when it is).                    *)
(*                                                                         *)
(* A prompt stands for the text the user types once, and for the command   *)
(* that submits it.  "session" is any command that is not a prompt.        *)
(***************************************************************************)
EXTENDS Naturals, Sequences, SequencesExt, FiniteSets

CONSTANTS
    Prompt,     \* the texts the user types
    MaxAsks     \* bound: the questions asked by the runs of the session

ASSUME SessionAssumption ==
    /\ MaxAsks \in Nat
    /\ Prompt \cap {"empty", "query", "session", "stop", "none"} = {}

Command == Prompt \cup {"session"}
Text    == Prompt \cup {"empty", "query"}
Asks    == 1..MaxAsks

VARIABLES
    (* the UI thread *)
    ui,         \* its next step; "ready" for a key or a message
    quit,       \* _exit_requested
    focus,      \* view.focus
    input,      \* view.input_text
    draft,      \* _composer_before_search, {} or a singleton
    held,       \* _composer_before_interaction, likewise
    applied,    \* view.search_query is not empty
    slot,       \* the queued follow-up, "empty" or a prompt
    shown,      \* _pending_interaction: 0 or the number of a question
    inFlight,   \* _in_flight
    promptIds,  \* _prompt_command_ids
    restoring,  \* _restore_pending_after_run
    (* the worker thread *)
    worker,     \* its next step
    cmd,        \* the command it took last
    result,     \* how that command ended
    queue,      \* the command queue
    active,     \* _active_prompt
    prompts,    \* _prompt_commands
    closed,     \* TuiWorker._closed
    (* shared *)
    token,      \* RunCancellation: its _active, _pending and _event
    bridge,     \* [ask: pending question or 0, done, closed, asked: how many so far]
    mail,       \* the mailbox
    (* the user's intent *)
    aimed,      \* prompts in flight when Ctrl-C was pressed
    sent        \* prompts handed to the worker

composer   == <<focus, input, draft, held, applied, shown>>
flight     == <<inFlight, promptIds, restoring, sent>>
workerVars == <<worker, cmd, result>>
worked     == <<queue, active, prompts, closed, token, bridge>>
vars == <<ui, quit, composer, slot, flight, workerVars, worked, mail, aimed>>

Mail == [type : {"pending", "closed"}, ask : Asks]
            \cup [type : {"completed"}, cmd : Command, ok : BOOLEAN]

Init ==
    /\ ui = "ready" /\ quit = FALSE /\ focus = "chat" /\ input = "empty"
    /\ draft = {} /\ held = {} /\ applied = FALSE
    /\ slot = "empty" /\ shown = 0 /\ inFlight = 0 /\ promptIds = {}
    /\ restoring = FALSE
    /\ worker = "idle" /\ cmd = "none" /\ result = "none"
    /\ queue = <<>> /\ active = FALSE /\ prompts = 0 /\ closed = FALSE
    /\ token = [run |-> FALSE, latched |-> FALSE, event |-> FALSE]
    /\ bridge = [ask |-> 0, done |-> FALSE, closed |-> FALSE, asked |-> 0]
    /\ mail = <<>>
    /\ aimed = {} /\ sent = {}

-----------------------------------------------------------------------------
(* What the handlers of the UI thread share. *)

Post(m)  == mail' = Append(mail, m)
Only(S)  == IF S = {} THEN "empty" ELSE CHOOSE t \in S : TRUE

\* _submit_command, when "counted" commands are in flight and "ids" are the
\* prompts among them.  The queue has room: one is in flight at most.
Submit(c, counted, ids) ==
    /\ queue' = Append(queue, c)
    /\ inFlight' = counted + 1
    /\ promptIds' = ids \cup ({c} \cap Prompt)
    /\ prompts' = IF c \in Prompt THEN prompts + 1 ELSE prompts
    /\ sent' = sent \cup ({c} \cap Prompt)

\* _restore_pending_to_composer: the slot's prompt moves to the composer, or
\* stays when the composer holds a draft.
RestoreSlot ==
    /\ restoring' = FALSE
    /\ IF slot # "empty" /\ input = "empty"
       THEN input' = slot /\ slot' = "empty"
       ELSE UNCHANGED <<input, slot>>

\* Faulty: what was typed under the question is not brought back.
ClearEmpty ==
    /\ shown' = 0
    /\ focus' = "chat"
    /\ input' = "empty"
    /\ held' = {}
    /\ UNCHANGED <<draft, applied>>

\* _clear_interaction
ClearInteraction ==
    /\ shown' = 0
    /\ focus' = "chat"
    /\ input' = Only(held)
    /\ held' = {}
    /\ UNCHANGED <<draft, applied>>

\* Faulty: the waiting worker is not notified.
ResolveAsleep(ask) == UNCHANGED bridge

\* TuiInteractionBridge.resolve: nothing when the question was withdrawn.
Resolve(ask) ==
    bridge' = IF bridge.ask = ask THEN [bridge EXCEPT !.done = TRUE] ELSE bridge

-----------------------------------------------------------------------------
(* poll: the UI thread handles the messages. *)

ShowQuestion(ask) ==
    /\ shown' = ask
    /\ held' = {input}
    /\ focus' = "ask"
    /\ input' = "empty"
    /\ UNCHANGED <<draft, applied, slot, flight, queue, prompts>>

CloseQuestion(ask) ==
    /\ IF shown = ask THEN ClearInteraction ELSE UNCHANGED composer
    /\ UNCHANGED <<slot, flight, queue, prompts>>

\* TuiCommandCompleted, or TuiWorkerFailed (never ok): a follow-up is submitted
\* after a prompt that ended well and was not cancelled, and restored otherwise.
CommandEnded(c, ok) ==
    LET count == inFlight - 1
        ids   == promptIds \ {c}
    IN
    /\ \/ /\ c \in Prompt /\ ok /\ ~ restoring /\ slot # "empty"
          /\ Submit(slot, count, ids)
          /\ slot' = "empty"
          /\ UNCHANGED <<input, restoring>>
       \/ /\ inFlight' = count
          /\ promptIds' = ids
          /\ \/ c \in Prompt /\ ok /\ ~ restoring /\ slot = "empty"
                /\ UNCHANGED <<input, slot, restoring>>
             \/ c \in Prompt /\ (~ ok \/ restoring) /\ RestoreSlot
             \/ c \notin Prompt /\ UNCHANGED <<input, slot, restoring>>
          /\ UNCHANGED <<queue, prompts, sent>>
    /\ UNCHANGED <<focus, draft, held, applied, shown>>

Poll ==
    /\ ui = "ready" /\ ~ quit /\ mail # <<>>
    /\ mail' = Tail(mail)
    /\ LET m == Head(mail) IN
       \/ m.type = "pending"   /\ ShowQuestion(m.ask)
       \/ m.type = "closed"    /\ CloseQuestion(m.ask)
       \/ m.type = "completed" /\ CommandEnded(m.cmd, m.ok)
    /\ UNCHANGED <<ui, quit, workerVars, active, closed, token, bridge, aimed>>

-----------------------------------------------------------------------------
(* Keys.  They leave the worker's side alone but for what each one says. *)

Key == ui = "ready" /\ UNCHANGED <<workerVars, active, closed, token, mail>>

Fresh(p) == p \notin sent \cup {input, slot} \cup draft \cup held

Type(p) ==
    /\ Key
    /\ focus = "chat" /\ input = "empty" /\ Fresh(p)
    /\ input' = p
    /\ UNCHANGED <<ui, quit, focus, draft, held, applied, shown, slot, flight, queue, prompts,
                   bridge, aimed>>

TypeQuery ==
    /\ Key
    /\ focus = "search" /\ input = "empty"
    /\ input' = "query"
    /\ UNCHANGED <<ui, quit, focus, draft, held, applied, shown, slot, flight, queue, prompts,
                   bridge, aimed>>

Erase ==
    /\ Key
    /\ focus \in {"chat", "search"} /\ input # "empty"
    /\ input' = "empty"
    /\ UNCHANGED <<ui, quit, focus, draft, held, applied, shown, slot, flight, queue, prompts,
                   bridge, aimed>>

\* Enter in the composer, with nothing in flight.
SubmitPrompt ==
    /\ Key
    /\ focus = "chat" /\ input \in Prompt /\ inFlight = 0
    /\ Submit(input, 0, promptIds)
    /\ input' = "empty"
    /\ UNCHANGED <<ui, quit, focus, draft, held, applied, shown, slot, restoring, bridge, aimed>>

\* Enter while a prompt runs: the text waits in the slot if that is free.
QueueFollowUp ==
    /\ Key
    /\ focus = "chat" /\ input \in Prompt /\ inFlight > 0
    /\ promptIds # {} /\ slot = "empty"
    /\ slot' = input
    /\ input' = "empty"
    /\ UNCHANGED <<ui, quit, focus, draft, held, applied, shown, flight, queue, prompts, bridge,
                   aimed>>

\* A slash command for the Runtime.
SubmitSession ==
    /\ Key
    /\ focus = "chat" /\ input = "empty" /\ inFlight = 0
    /\ Submit("session", 0, promptIds)
    /\ UNCHANGED <<ui, quit, composer, slot, restoring, bridge, aimed>>

\* Alt-Up: _restore_queued_prompt
AltUp ==
    /\ Key
    /\ focus = "chat" /\ shown = 0 /\ slot # "empty" /\ input = "empty"
    /\ input' = slot
    /\ slot' = "empty"
    /\ UNCHANGED <<ui, quit, focus, draft, held, applied, shown, flight, queue, prompts, bridge,
                   aimed>>

\* Enter, Esc or Ctrl-C while a question is shown.
Answer ==
    /\ Key
    /\ shown # 0
    /\ Resolve(shown)
    /\ ClearInteraction
    /\ UNCHANGED <<ui, quit, slot, flight, queue, prompts, aimed>>

\* Ctrl-F: _toggle_search, opening
OpenSearch ==
    /\ Key
    /\ shown = 0 /\ focus = "chat"
    /\ draft' = {input}
    /\ focus' = "search"
    /\ input' = IF applied THEN "query" ELSE "empty"
    /\ UNCHANGED <<ui, quit, held, applied, shown, slot, flight, queue, prompts, bridge, aimed>>

\* Enter in the search box: the query is applied, the draft comes back.
ApplySearch ==
    /\ Key
    /\ focus = "search"
    /\ applied' = (input # "empty")
    /\ input' = Only(draft)
    /\ draft' = {}
    /\ focus' = "chat"
    /\ UNCHANGED <<ui, quit, held, shown, slot, flight, queue, prompts, bridge, aimed>>

\* Esc or Ctrl-F in the search box, or Esc while a query is applied:
\* _close_search.  Without a saved draft the composer is left alone.
CloseSearch ==
    /\ Key
    /\ shown = 0 /\ (focus = "search" \/ applied)
    /\ input' = IF draft = {} THEN input ELSE Only(draft)
    /\ applied' = FALSE
    /\ draft' = {}
    /\ focus' = "chat"
    /\ UNCHANGED <<ui, quit, held, shown, slot, flight, queue, prompts, bridge, aimed>>

\* Ctrl-Q
Quit ==
    /\ Key
    /\ inFlight = 0 /\ shown = 0
    /\ quit' = TRUE
    /\ UNCHANGED <<ui, composer, slot, flight, queue, prompts, bridge, aimed>>

-----------------------------------------------------------------------------
(* request_cancel: _prompt_lock, then the token's lock. *)

\* RunCancellation.request
Request(includeNext) ==
    token' = IF token.run THEN [token EXCEPT !.event = TRUE]
             ELSE IF includeNext THEN [token EXCEPT !.latched = TRUE] ELSE token

\* Faulty: it asks the worker whether a run is active.
HoldBackIfRunning ==
    /\ restoring' = (restoring \/ token.run)
    /\ UNCHANGED <<inFlight, promptIds, sent>>

\* Ctrl-C keeps the follow-up of a prompt from being submitted.
HoldBack ==
    /\ restoring' = (restoring \/ promptIds # {})
    /\ UNCHANGED <<inFlight, promptIds, sent>>

\* Ctrl-C with a command in flight.
CtrlC ==
    /\ Key
    /\ shown = 0 /\ inFlight > 0
    /\ aimed' = aimed \cup promptIds
    /\ \/ prompts = 0 /\ HoldBack /\ UNCHANGED ui
       \/ prompts > 0 /\ ui' = (IF active THEN "cancel" ELSE "cancel_next") /\ UNCHANGED flight
    /\ UNCHANGED <<quit, composer, slot, queue, prompts, bridge>>

CancelRun ==
    /\ ui \in {"cancel", "cancel_next"}
    /\ ui' = "ready"
    /\ Request(ui = "cancel_next")
    /\ HoldBack
    /\ UNCHANGED <<quit, composer, slot, workerVars, queue, active, prompts, closed, bridge, mail,
                   aimed>>

-----------------------------------------------------------------------------
(* TuiWorker.close, when the screen ends: after Ctrl-Q, or on a signal. *)

uiAlone == <<quit, composer, slot, flight, workerVars, aimed>>

Leave ==
    /\ \/ ui = "ready" /\ quit
       \/ ui \in {"ready", "cancel", "cancel_next"}     \* SIGTERM, SIGHUP
    /\ ui' = "close"
    /\ UNCHANGED <<uiAlone, worked, mail>>

CloseWorker ==
    /\ ui = "close"
    /\ ui' = "close_read"
    /\ closed' = TRUE
    /\ UNCHANGED <<uiAlone, queue, active, prompts, token, bridge, mail>>

CloseReadsActive ==
    /\ ui = "close_read"
    /\ ui' = IF prompts = 0 THEN "close_bridge"
             ELSE IF active THEN "close_cancel" ELSE "close_cancel_next"
    /\ UNCHANGED <<uiAlone, worked, mail>>

CloseCancels ==
    /\ ui \in {"close_cancel", "close_cancel_next"}
    /\ ui' = "close_bridge"
    /\ Request(ui = "close_cancel_next")
    /\ UNCHANGED <<uiAlone, queue, active, prompts, closed, bridge, mail>>

\* Faulty: later questions are refused, a pending one is left.
CloseBridgeOnly ==
    /\ ui = "close_bridge"
    /\ ui' = "close_queue"
    /\ bridge' = [bridge EXCEPT !.closed = TRUE]
    /\ UNCHANGED <<uiAlone, queue, active, prompts, closed, token, mail>>

\* TuiInteractionBridge.close: a pending question gets the answer "eof".
CloseBridge ==
    /\ ui = "close_bridge"
    /\ ui' = "close_queue"
    /\ LET pending == bridge.ask # 0 /\ ~ bridge.done IN
       /\ bridge' = [bridge EXCEPT !.closed = TRUE, !.done = @ \/ pending]
       /\ IF pending THEN Post([type |-> "closed", ask |-> bridge.ask]) ELSE UNCHANGED mail
    /\ UNCHANGED <<uiAlone, queue, active, prompts, closed, token>>

CloseQueue ==
    /\ ui = "close_queue"
    /\ ui' = "gone"
    /\ queue' = Append(queue, "stop")
    /\ UNCHANGED <<uiAlone, active, prompts, closed, token, bridge, mail>>

-----------------------------------------------------------------------------
(* TuiWorker._run.  Its steps leave the UI thread's state alone. *)

Worker == UNCHANGED <<ui, quit, composer, slot, flight, closed, aimed>>

Check ==
    /\ Worker
    /\ worker = "idle"
    /\ worker' = IF closed THEN "stopped" ELSE "get"
    /\ UNCHANGED <<cmd, result, queue, active, prompts, token, bridge, mail>>

\* Queue.get: a command, the sentinel, or nothing within 0.1 s.
Take ==
    /\ Worker
    /\ worker = "get"
    /\ \/ /\ queue = <<>>
          /\ worker' = IF closed THEN "stopped" ELSE "idle"
          /\ UNCHANGED <<cmd, queue>>
       \/ /\ queue # <<>>
          /\ queue' = Tail(queue)
          /\ \/ Head(queue) = "stop" /\ worker' = "stopped" /\ UNCHANGED cmd
             \/ Head(queue) # "stop" /\ worker' = "taken" /\ cmd' = Head(queue)
    /\ UNCHANGED <<result, active, prompts, token, bridge, mail>>

\* A prompt becomes the active one; any other command is simply dispatched.
Activate ==
    /\ Worker
    /\ worker = "taken"
    /\ \/ /\ cmd \in Prompt
          /\ active' = TRUE
          /\ worker' = "dispatch"
          /\ UNCHANGED result
       \/ /\ cmd \notin Prompt
          /\ worker' = "put"
          /\ result' \in {"ok", "error"}
          /\ UNCHANGED active
    /\ UNCHANGED <<cmd, queue, prompts, token, bridge, mail>>

\* RunCancellation.begin
Begin ==
    /\ Worker
    /\ worker = "dispatch"
    /\ token' = [run |-> TRUE, latched |-> FALSE, event |-> token.latched]
    /\ worker' = "run"
    /\ UNCHANGED <<cmd, result, queue, active, prompts, bridge, mail>>

\* The run ends, well or not, a cancelled one as soon as it looks:
\* RunCancellation.finish.
EndRun ==
    /\ Worker
    /\ worker = "run"
    /\ result' \in {"ok", "error"}
    /\ token' = [run |-> FALSE, latched |-> FALSE, event |-> FALSE]
    /\ worker' = "put"
    /\ UNCHANGED <<cmd, queue, active, prompts, bridge, mail>>

\* The UI hears of the end before the worker has let go of the command.
PutResult ==
    /\ Worker
    /\ worker = "put"
    /\ Post([type |-> "completed", cmd |-> cmd, ok |-> result = "ok"])
    /\ worker' = "settle"
    /\ UNCHANGED <<cmd, result, queue, active, prompts, token, bridge>>

\* _finish_prompt
Settle ==
    /\ Worker
    /\ worker = "settle"
    /\ IF cmd \in Prompt
       THEN active' = FALSE /\ prompts' = (IF prompts = 0 THEN 0 ELSE prompts - 1)
       ELSE UNCHANGED <<active, prompts>>
    /\ worker' = "idle"
    /\ cmd' = "none"
    /\ result' = "none"
    /\ UNCHANGED <<queue, token, bridge, mail>>

-----------------------------------------------------------------------------
(* request_interaction: the run asks, and waits. *)

\* The question is registered, unless the bridge is closed ("eof" at once).
Ask ==
    /\ Worker
    /\ worker = "run"
    /\ ~ bridge.closed /\ bridge.ask = 0 /\ bridge.asked < MaxAsks
    /\ bridge' = [bridge EXCEPT !.ask = bridge.asked + 1, !.done = FALSE, !.asked = @ + 1]
    /\ worker' = "announce"
    /\ UNCHANGED <<cmd, result, queue, active, prompts, token, mail>>

Announce ==
    /\ Worker
    /\ worker = "announce"
    /\ Post([type |-> "pending", ask |-> bridge.ask])
    /\ worker' = "wait"
    /\ UNCHANGED <<cmd, result, queue, active, prompts, token, bridge>>

Answered ==
    /\ Worker
    /\ worker = "wait" /\ bridge.done
    /\ bridge' = [bridge EXCEPT !.ask = 0, !.done = FALSE]
    /\ worker' = "run"
    /\ UNCHANGED <<cmd, result, queue, active, prompts, token, mail>>

\* A question with a timeout runs out of time and is withdrawn.  An answer that
\* comes between the clock and the lock is ignored, like one that comes later.
Expire ==
    /\ Worker
    /\ worker = "wait" /\ ~ bridge.done
    /\ bridge' = [bridge EXCEPT !.ask = 0]
    /\ Post([type |-> "closed", ask |-> bridge.ask])
    /\ worker' = "run"
    /\ UNCHANGED <<cmd, result, queue, active, prompts, token>>

-----------------------------------------------------------------------------
Keys ==
    \/ \E p \in Prompt : Type(p)
    \/ TypeQuery \/ Erase \/ SubmitPrompt \/ QueueFollowUp \/ SubmitSession \/ AltUp
    \/ Answer \/ OpenSearch \/ CloseSearch \/ ApplySearch \/ Quit \/ CtrlC

Closing == CloseWorker \/ CloseReadsActive \/ CloseCancels \/ CloseBridge \/ CloseQueue

Working == \/ Check \/ Take \/ Activate \/ Begin \/ EndRun \/ PutResult \/ Settle
           \/ Announce \/ Answered

Next == Poll \/ Keys \/ CancelRun \/ Leave \/ Closing \/ Working \/ Ask \/ Expire

Spec == Init /\ [][Next]_vars

\* The worker thread runs while it can, but need not ask or be timed out; the
\* UI thread finishes what a key started and polls once per turn of its loop,
\* however many keys arrive.
FairSpec ==
    /\ Spec
    /\ WF_vars(Working)
    /\ WF_vars(CancelRun \/ Closing)
    /\ SF_vars(Poll)

-----------------------------------------------------------------------------
(* Properties. *)

\* The worker never waits for an answer nobody can give: the question is on
\* the screen or on its way there, and after the bridge is closed it is settled.
QuestionReachesUser ==
    worker = "wait" /\ ~ bridge.done =>
        /\ ~ bridge.closed
        /\ ui \in {"ready", "cancel", "cancel_next"} /\ ~ quit =>
               \/ shown = bridge.ask
               \/ \E i \in 1..Len(mail) : mail[i] = [type |-> "pending", ask |-> bridge.ask]

Copies(p) ==
    Cardinality({x \in {"input", "draft", "held", "slot", "sent"} :
        \/ x = "input" /\ input = p
        \/ x = "draft" /\ p \in draft
        \/ x = "held"  /\ p \in held
        \/ x = "slot"  /\ slot = p
        \/ x = "sent"  /\ p \in sent})

Kept == \A p \in Prompt : Copies(p) = 1 => (Copies(p) = 1)'

\* While the search box is closed a typed text leaves the composer, the draft
\* saved under a question or the follow-up slot only to be submitted, or
\* because the user erases it.
TextKeptInChat == [][Erase \/ focus = "search" \/ draft # {} \/ Kept]_vars

\* "Cancel and worker failure restore the composer" (docs/project-status.md:41),
\* and "Esc restores the composer" (controller.py:494): the same without the
\* exception for the search box, unless Enter makes a filter of what it holds.
TypedTextKept == [][Erase \/ ApplySearch \/ Kept]_vars

\* A Ctrl-C pressed while the screen still shows a prompt as running keeps its
\* follow-up from being submitted, even if the prompt had already ended well.
FollowUpHeldBack ==
    [][\A p \in Prompt :
          slot = p /\ p \in sent' => \A c \in promptIds : c \notin aimed]_vars

\* "does not latch cancel for next prompt" (tests/test_tui_worker.py:52): a run
\* is cancelled only if Ctrl-C was pressed, or the screen ended, while it was
\* the prompt in flight.
CancelHitsItsRun == token.run /\ token.event => cmd \in aimed \/ closed

\* A command in flight comes back, unless the user is asked or leaves.
CommandsEnd ==
    inFlight > 0 ~> \/ inFlight = 0 \/ shown # 0
                    \/ quit \/ ui \notin {"ready", "cancel", "cancel_next"}

\* After the screen has gone the worker stops, whatever it was doing.
WorkerStops == ui = "gone" ~> worker = "stopped"

\* Nobody waits for ever: neither the user for a command, nor the end of the
\* program for the worker (TuiController._handle_worker_message,
\* TuiInteractionBridge.close).
WorkEnds == CommandsEnd /\ WorkerStops

=============================================================================
