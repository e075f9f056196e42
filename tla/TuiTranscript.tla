--------------------------- MODULE TuiTranscript ---------------------------
(***************************************************************************)
(* What the user of the TUI reads: the Runtime thread streams the messages *)
(* of the provider and says which of them it delivers, if any              *)
(* (runtime/assistant_message.py, runtime/run_output.py, agent.py); the    *)
(* mailbox carries that, and may lose some of it; the projector of the UI  *)
(* thread makes the transcript of what arrives (frontends/tui/model.py).   *)
(*                                                                         *)
(* An entry is provisional or settled: settled ones are printed to the     *)
(* scrollback for good, provisional ones are redrawn under them.  A text   *)
(* is the sequence of its pieces, <<m, i>> for the i-th piece of message m *)
(* and <<0, r>> for the words of the Runtime about run r.                  *)
(***************************************************************************)
EXTENDS TuiMailbox, FiniteSetsExt

CONSTANTS
    Runs,       \* bound: the prompts
    MaxPieces,  \* bound: the deltas of a message
    MaxOther    \* bound: messages that the projector takes nothing from

ASSUME TranscriptAssumption ==
    /\ Runs \in Nat \ {0}
    /\ MaxPieces \in Nat
    /\ MaxOther \in Nat

VARIABLES
    run,        \* the Runtime: the run, its open message and its latest one
    view        \* the UI: the projector and its transcript

transcriptVars == <<items, closed, dropped, stream, sent, got, run, view>>

-----------------------------------------------------------------------------
Text(m, k)  == [i \in 1..k |-> <<m, i - 1>>]
Words(r)    == <<<<0, r>>>>
NoMessage   == [id |-> 0, text |-> <<>>]
NoText      == <<<<0, 0>>>>

\* What is put into the mailbox: "index" and "message" as the mailbox needs
\* them, the rest for the projector.
Tell(kind, type, r, m, text) ==
    [kind |-> kind, type |-> type, run |-> r, message |-> m, index |-> 0, text |-> text]

-----------------------------------------------------------------------------
(* The Runtime: CommandDispatcher, the loop of a run, and the lifecycle of *)
(* the message it is asking for.                                           *)

TurnStarted ==
    /\ ~ run.on /\ run.n < Runs
    /\ Put(Tell("turn", "started", run.n + 1, 0, <<>>))
    /\ run' = [run EXCEPT !.n = @ + 1, !.on = TRUE, !.asked = FALSE, !.latest = NoMessage]
    /\ UNCHANGED <<stream, view>>

UserMessage ==
    /\ run.on /\ ~ run.asked
    /\ Put(Tell("tool", "user", run.n, 0, <<>>))
    /\ run' = [run EXCEPT !.asked = TRUE]
    /\ UNCHANGED <<stream, view>>

\* A request to the provider: a new message.
OpenMessage ==
    /\ run.on /\ run.asked /\ ~ run.open
    /\ stream.message < Streams
    /\ stream' = [message |-> stream.message + 1, index |-> 0]
    /\ run' = [run EXCEPT !.open = TRUE]
    /\ UNCHANGED <<items, closed, dropped, sent, got, view>>

AssistantDelta ==
    /\ run.open /\ ~ run.failed /\ stream.index < MaxPieces
    /\ Put([Tell("delta", "delta", run.n, stream.message, <<>>) EXCEPT !.index = stream.index])
    /\ stream' = [stream EXCEPT !.index = @ + 1]
    /\ UNCHANGED <<run, view>>

Observe(calls, m, text) == IF calls THEN NoMessage ELSE [id |-> m, text |-> text]

\* The answer of the provider, whose pieces have all been told, or none was.
AssistantMessage ==
    /\ run.open /\ ~ run.failed
    /\ \E calls \in BOOLEAN,
          k \in IF stream.index = 0 THEN {0, 1} ELSE {stream.index} :
          LET text == Text(stream.message, k) IN
          /\ Put(Tell("final", "message", run.n, stream.message, text))
          /\ run' = [run EXCEPT !.open = FALSE, !.latest = Observe(calls, stream.message, text)]
    /\ UNCHANGED <<stream, view>>

\* An error is told.  When a message is open, that is because its text is
\* refused or an exception strikes, and its abort comes next.
ErrorEvent ==
    /\ run.on /\ ~ run.failed
    /\ Put(Tell("final", "error", run.n, 0, <<>>))
    /\ run' = [run EXCEPT !.failed = run.open]
    /\ UNCHANGED <<stream, view>>

\* The request fails, or what it brought is refused.
AssistantMessageAborted ==
    /\ run.open
    /\ Put(Tell("final", "aborted", run.n, stream.message, <<>>))
    /\ run' = [run EXCEPT !.open = FALSE, !.failed = FALSE, !.latest = NoMessage]
    /\ UNCHANGED <<stream, view>>

\* The delivery: the latest message, or words of the Runtime in its place; if
\* there is none to name, words of the Runtime only.
TurnFinished ==
    /\ run.on /\ ~ run.open
    /\ \E text \in {run.latest.text, Words(run.n)} \ {<<>>} :
          Put(Tell("final", "finished", run.n, run.latest.id, text))
    /\ run' = [run EXCEPT !.on = FALSE]
    /\ UNCHANGED <<stream, view>>

\* Tools, steering, questions and completions of commands.
Other(kind) ==
    /\ run.others < MaxOther
    /\ Put(Tell(kind, "other", run.n, 0, <<>>))
    /\ run' = [run EXCEPT !.others = @ + 1]
    /\ UNCHANGED <<stream, view>>

-----------------------------------------------------------------------------
(* TuiProjector: what one message makes of the view v. *)

Entry(id, text, provisional) == [id |-> id, text |-> text, provisional |-> provisional]
Added(v, e)   == [v EXCEPT !.entries = Append(@, e)]
IsLast(v, id) == v.entries # <<>> /\ Last(v.entries).id = id /\ Last(v.entries).provisional
Place(es, id) == SelectLastInSeq(es, LAMBDA e : e.id = id)

\* The entries of es that are in S, in their order.
Among(es, S) ==
    LET among[i \in 0..Len(es)] ==
            IF i = 0 THEN <<>>
            ELSE IF es[i] \in S THEN Append(among[i - 1], es[i]) ELSE among[i - 1]
    IN among[Len(es)]

Started(v, e) ==
    [v EXCEPT !.run = e.run, !.candidate = 0, !.last = NoText, !.busy = TRUE,
              !.next = [m \in DOMAIN @ |-> 0]]

\* Faulty: whatever delta arrives is taken for the next one.
AnyDelta(v, m, index) == TRUE

Expected(v, m, index) == index = v.next[m]

\* A delta, or several in one, of which "covers" are the sends.
Streamed(v, m, index, covers) ==
    LET text == [i \in 1..Len(covers) |-> <<m, sent[covers[i]].index>>]
        w    == [v EXCEPT !.next[m] = @ + Len(covers)] IN
    IF ~ Expected(v, m, index) THEN v
    ELSE IF IsLast(v, m)
    THEN [w EXCEPT !.entries = Append(Front(@), Entry(m, Last(@).text \o text, TRUE))]
    ELSE Added(w, Entry(m, text, TRUE))

\* Faulty: each candidate is settled when it is complete.
SettledAtOnce == FALSE

Provisional == TRUE

\* The candidate before this one is taken out.
Completed(v, e) ==
    LET kept  == {x \in ToSet(v.entries) :
                    v.candidate \in {0, e.message} \/ x.id # v.candidate \/ ~ x.provisional}
        es    == Among(v.entries, kept)
        place == Place(es, e.message)
        entry == Entry(e.message, e.text, Provisional) IN
    [v EXCEPT !.last = e.text, !.candidate = e.message, !.next[e.message] = 0,
              !.entries = IF place # 0 THEN [es EXCEPT ![place] = entry]
                          ELSE IF e.text # <<>> THEN Append(es, entry) ELSE es]

\* Faulty: what was streamed of it stays.
AbortedSilently(v, e) ==
    [v EXCEPT !.candidate = IF @ = e.message THEN 0 ELSE @, !.next[e.message] = 0]

Aborted(v, e) ==
    [v EXCEPT !.entries = IF IsLast(v, e.message) THEN Front(@) ELSE @,
              !.candidate = IF @ = e.message THEN 0 ELSE @,
              !.next[e.message] = 0]

OnlyDelivered(v, e) ==
    Among(v.entries, {x \in ToSet(v.entries) : x.provisional => x.id = e.message})

\* A delivery that names a message.
DeliveredOf(v, e) ==
    LET es    == OnlyDelivered(v, e)
        place == Place(es, e.message)
        entry == Entry(e.message, e.text, FALSE) IN
    IF place # 0 THEN [es EXCEPT ![place] = entry] ELSE Append(es, entry)

\* A delivery that names none: an entry of its own, unless that text is on
\* the screen; what is provisional at the end is settled with it.
DeliveredWords(v, e) ==
    LET tail == v.entries # <<>> /\ Last(v.entries).provisional
        es   == IF tail THEN Append(Front(v.entries), [Last(v.entries) EXCEPT !.provisional = FALSE])
                ELSE v.entries IN
    IF tail /\ Last(v.entries).text = e.text THEN es
    ELSE IF e.text = v.last THEN v.entries
    ELSE Append(es, Entry(0 - e.run, e.text, FALSE))

Finished(v, e) ==
    [v EXCEPT !.entries = IF e.message # 0 THEN DeliveredOf(v, e) ELSE DeliveredWords(v, e),
              !.run = 0, !.candidate = 0, !.busy = FALSE]

\* The user's words and errors are entries of no message.
Applied(v, item) ==
    LET e == sent[item.covers[1]] IN
    CASE e.type = "started" -> Started(v, e)
      [] e.type \in {"user", "error"} -> Added(v, Entry(0, <<>>, FALSE))
      [] e.type = "other" \/ (e.type \notin {"started", "user", "error"} /\ e.run # v.run) -> v
      [] e.type = "delta" /\ e.run = v.run -> Streamed(v, item.message, item.index, item.covers)
      [] e.type = "message" /\ e.run = v.run -> Completed(v, e)
      [] e.type = "aborted" /\ e.run = v.run -> Aborted(v, e)
      [] e.type = "finished" /\ e.run = v.run -> Finished(v, e)

\* poll: what is drained is applied in its order.
Poll(limit) ==
    /\ Drain(limit)
    /\ LET count == IF limit < Len(items) THEN limit ELSE Len(items)
           views[i \in 0..count] == IF i = 0 THEN view ELSE Applied(views[i - 1], items[i])
       IN view' = views[count]
    /\ UNCHANGED run

-----------------------------------------------------------------------------
TranscriptInit ==
    /\ items = <<>> /\ closed = FALSE /\ dropped = 0 /\ sent = <<>> /\ got = <<>>
    /\ stream = [message |-> 0, index |-> 0]
    /\ run = [n |-> 0, on |-> FALSE, asked |-> FALSE, open |-> FALSE, failed |-> FALSE,
              latest |-> NoMessage, others |-> 0]
    /\ view = [run |-> 0, candidate |-> 0, last |-> NoText, busy |-> FALSE,
               next |-> [m \in 1..Streams |-> 0], entries |-> <<>>]

TranscriptNext ==
    \/ TurnStarted \/ UserMessage \/ OpenMessage \/ AssistantDelta \/ AssistantMessage
    \/ ErrorEvent \/ AssistantMessageAborted \/ TurnFinished
    \/ \E kind \in {"output", "reply"} : Other(kind)
    \/ \E limit \in 1..Capacity : Poll(limit)

TranscriptSpec == TranscriptInit /\ [][TranscriptNext]_transcriptVars

-----------------------------------------------------------------------------
Told(type)  == {n \in DOMAIN sent : sent[n].type = type}
Heard(type) == {n \in ToSet(got) : sent[n].type = type}
Queued(n)   == \E i \in DOMAIN items : n \in ToSet(items[i].covers)

\* The runs of which the UI has got every message that closes something.
Kept == {r \in 1..Runs :
            /\ \E n \in Heard("started") : sent[n].run = r
            /\ \A n \in DOMAIN sent :
                  sent[n].run = r /\ sent[n].kind \in Critical => Queued(n) \/ n \in ToSet(got)}

RunOf(m) == CHOOSE r \in 1..Runs :
                \E n \in DOMAIN sent : sent[n].message = m /\ sent[n].run = r

TranscriptTypeOK ==
    /\ run.n \in 0..Runs /\ run.latest.id \in 0..stream.message
    /\ view.run \in 0..run.n /\ view.candidate \in 0..stream.message
    /\ \A i \in DOMAIN view.entries : view.entries[i].provisional \in BOOLEAN

\* Text that is shown has no gap and no repetition, whichever deltas were
\* merged or lost on the way: what stands for a message is a beginning of its
\* text, or the words the Runtime put in its place (TuiProjector._apply_delta,
\* TuiMailbox._coalesce_delta).
ShownTextIsWhole ==
    \A i \in DOMAIN view.entries :
        LET e == view.entries[i] IN
        e.id > 0 => \/ e.text = Text(e.id, Len(e.text))
                    \/ ~ e.provisional /\ e.text = Words(RunOf(e.id))

\* The last complete message of run r.
LastMessage(r) ==
    LET all == {n \in Told("message") : sent[n].run = r} IN
    {sent[n].message : n \in {n \in all : \A k \in all : k <= n}}

\* What is settled was delivered: drafts that were refused, texts that went
\* with tool calls and half answers never stay on the screen as an answer,
\* except for the last message before a delivery that names none, which is
\* settled although it was not delivered (_apply_assistant_message,
\* _apply_turn_finished).
SettledIsDelivered ==
    \A i \in DOMAIN view.entries :
        LET e == view.entries[i] IN
        e.id > 0 /\ ~ e.provisional /\ RunOf(e.id) \in Kept =>
            \E n \in Heard("finished") :
                /\ sent[n].run = RunOf(e.id)
                /\ \/ e.text = sent[n].text
                   \/ sent[n].message = 0 /\ e.id \in LastMessage(RunOf(e.id))

\* The answer of a run stands in the transcript once, and settled, when its
\* end has been received (_apply_turn_finished).
AnswerShownOnce ==
    \A n \in Heard("finished") :
        sent[n].run \in Kept =>
            Cardinality({i \in DOMAIN view.entries : /\ view.entries[i].text = sent[n].text
                                                     /\ ~ view.entries[i].provisional}) = 1

\* What stays on the screen as an answer is the answer, the whole of it and
\* once.
AnswerStays == SettledIsDelivered /\ AnswerShownOnce

\* After a run nothing of it is left that is neither settled nor taken out,
\* except for a message that an error was told after: the error is the last
\* entry then, and neither the abort nor the delivery finds the message
\* behind it (_apply_assistant_message_aborted, _apply_turn_finished).
NothingLeftOver ==
    ~ view.busy =>
        \A i \in DOMAIN view.entries :
            LET e == view.entries[i] IN
            e.provisional /\ RunOf(e.id) \in Kept =>
                \E k \in Told("error") :
                    /\ sent[k].run = RunOf(e.id)
                    /\ \E n \in 1..k : sent[n].message = e.id

\* SettledIsDelivered without its exception, as the docs have it: a refused
\* draft is never settled (docs/project-status.md:59).  Violated; see the
\* README, "Findings".
DraftsAreDiscarded ==
    \A i \in DOMAIN view.entries :
        LET e == view.entries[i] IN
        e.id > 0 /\ ~ e.provisional /\ RunOf(e.id) \in Kept =>
            \E n \in Heard("finished") : e.text = sent[n].text

\* NothingLeftOver without its exception: an aborted message is closed before
\* the delivery (tests/test_tui_model.py:193).  Violated; see the README,
\* "Findings".
TailIsCleared ==
    ~ view.busy =>
        \A i \in DOMAIN view.entries :
            view.entries[i].provisional => RunOf(view.entries[i].id) \notin Kept
=============================================================================
