-------------------------- MODULE ProviderRequest --------------------------
(***************************************************************************)
(* One request to the model provider (providers/deadline.py): a worker     *)
(* thread reads the reply and hands it over through a bounded queue, and   *)
(* the thread of the run tells each delta on, until the reply is complete, *)
(* the request fails, the run is cancelled, the deadline passes or Ctrl-C  *)
(* strikes.  With the worker goes what it reads with: the HTTP response of *)
(* llm.py and the decoder of stream.py.                                    *)
(*                                                                         *)
(* The n-th piece of text is the number n.  A tool call has two fragments: *)
(* its id and name, and its arguments.  A provider says "stop" only when   *)
(* all of its reply was sent; it may cut the reply with "length", and the  *)
(* line may end or break anywhere.  Comments, empty choices and roles      *)
(* change nothing and are left out.                                        *)
(***************************************************************************)
EXTENDS Integers, Sequences

CONSTANTS
    MaxTexts,  \* bound: pieces of text in a reply
    MaxCalls,  \* bound: tool calls in a reply
    Capacity   \* items in the queue, 256 in the code

ASSUME RequestAssumption ==
    /\ MaxTexts \in Nat /\ MaxCalls \in Nat
    /\ Capacity \in Nat \ {0}

VARIABLES
    kind,       \* "stream", or "chat" for a reply in one piece
    reply,      \* what the provider means to say
    got,        \* what the worker has read of it
    worker,     \* the worker thread, and the item it is about to put
    items,      \* result_queue
    caller,     \* the thread of the run, and the delta it holds
    told,       \* the deltas that were told on
    abandoned,  \* the Event "cancelled" of this request
    cancel,     \* the Event of the run, which later runs use again
    late        \* the deadline has passed

requestVars == <<kind, reply, got, worker, items, caller, told, abandoned, cancel, late>>

-----------------------------------------------------------------------------
Call == 1..MaxCalls

Replies == [texts : 0..MaxTexts, calls : 0..MaxCalls]

Nothing == [mode |-> "none", texts |-> 0, calls |-> [i \in Call |-> 0],
            finish |-> "none", done |-> FALSE]

Delta(n) == [type |-> "delta", text |-> n]
Whole    == [type |-> "complete", text |-> 0]
Error    == [type |-> "error", text |-> 0]

RequestInit ==
    /\ kind \in {"stream", "chat"} /\ reply \in Replies
    /\ got = Nothing /\ items = <<>> /\ told = <<>>
    /\ worker = [pc |-> IF kind = "stream" THEN "next" ELSE "connect", item |-> Error]
    /\ caller = [pc |-> "begun", result |-> "none", hand |-> 0]
    /\ abandoned = FALSE /\ cancel = FALSE /\ late = FALSE

-----------------------------------------------------------------------------
(* The worker: publish() and worker(). *)

Stopped == abandoned \/ cancel

At(pc) == worker.pc = pc
Go(pc) == worker' = [worker EXCEPT !.pc = pc]

\* A plain chat does not look at the events, and its queue has room.
Publish(item) ==
    worker' = [pc |-> IF kind = "stream" THEN "publish" ELSE "put", item |-> item]

\* When the loop is left the stream is closed.
Resume ==
    /\ At("next")
    /\ Go(IF Stopped THEN "end" ELSE IF got.mode = "none" THEN "connect" ELSE "read")
    /\ UNCHANGED <<got, items>>

Connect ==
    /\ At("connect")
    /\ Go("read") \/ Publish(Error)
    /\ UNCHANGED <<got, items>>

LookAgain ==
    /\ At("publish")
    /\ Go(IF Stopped THEN "end" ELSE "put")
    /\ UNCHANGED <<got, items>>

Put ==
    /\ At("put") /\ Len(items) < Capacity
    /\ items' = Append(items, worker.item)
    /\ Go(IF worker.item.type = "delta" THEN "next" ELSE "end")
    /\ UNCHANGED got

\* put() times out after 50 ms.
Full ==
    /\ At("put") /\ Len(items) >= Capacity
    /\ Go("publish")
    /\ UNCHANGED <<got, items>>

-----------------------------------------------------------------------------
(* What the worker reads: iter_chat_completion_response. *)

Reading == At("read") /\ UNCHANGED items

\* Choices may come: a stream, without a finish reason and [DONE] so far.
Open == kind = "stream" /\ got.mode # "json" /\ got.finish = "none" /\ ~ got.done

Piece ==
    /\ Reading /\ Open /\ got.texts < reply.texts
    /\ got' = [got EXCEPT !.mode = "sse", !.texts = @ + 1]
    /\ Publish(Delta(got.texts + 1))

Fragment(i) ==
    /\ Reading /\ Open /\ i <= reply.calls /\ got.calls[i] < 2
    /\ got' = [got EXCEPT !.mode = "sse", !.calls[i] = @ + 1]
    /\ UNCHANGED worker

Indexed(n) == [i \in Call |-> IF i <= n THEN 2 ELSE 0]

AllSent == got.texts = reply.texts /\ got.calls = Indexed(reply.calls)

EndReason(reason) ==
    /\ Reading /\ Open
    /\ reason = "stop" => AllSent
    /\ got' = [got EXCEPT !.mode = "sse", !.finish = reason]
    /\ UNCHANGED worker

\* Gateways say [DONE] after an error of the provider, too.
EndMark ==
    /\ Reading /\ kind = "stream" /\ ~ got.done
    /\ got' = [got EXCEPT !.mode = "sse", !.done = TRUE]
    /\ UNCHANGED worker

\* Faulty: [DONE] is taken for the end of the reply.
CompleteAtDone(g) == g.done

\* The end of the stream; each tool call has an id, a name and arguments.
Complete(g) ==
    g.done /\ g.finish # "none" /\ \E n \in 0..MaxCalls : g.calls = Indexed(n)

Eof ==
    /\ Reading /\ kind = "stream"
    /\ Publish(IF Complete(got) THEN Whole ELSE Error)
    /\ UNCHANGED got

\* The reply in one piece: asked for, or instead of a stream.
Body ==
    /\ Reading /\ got.mode = "none"
    /\ got' = [got EXCEPT !.mode = "json"]
    /\ Publish(Whole)

\* The line breaks, the socket times out, or what comes cannot be taken:
\* half a character, bad JSON, a second finish, data after [DONE].
Break ==
    /\ Reading
    /\ Publish(Error)
    /\ UNCHANGED got

Read ==
    \/ Piece \/ EndMark \/ Eof \/ Body \/ Break
    \/ \E i \in Call : Fragment(i)
    \/ \E reason \in {"stop", "length"} : EndReason(reason)

-----------------------------------------------------------------------------
(* The thread of the run. *)

Is(pc) == caller.pc = pc
To(pc) == caller' = [caller EXCEPT !.pc = pc] /\ UNCHANGED abandoned

\* Faulty: the worker is left to the Event of the run.
EndOnly(result) ==
    /\ caller' = [caller EXCEPT !.pc = "ended", !.result = result]
    /\ UNCHANGED abandoned

\* With the finally, which a plain chat has no use for.
End(result) ==
    /\ caller' = [caller EXCEPT !.pc = "ended", !.result = result]
    /\ abandoned' = (kind = "stream")

\* The thread was started; the try comes after it.
Enter == Is("begun") /\ To("check") /\ UNCHANGED <<items, told>>

Check ==
    /\ Is("check")
    /\ IF cancel THEN End("cancelled") ELSE IF late THEN End("timeout") ELSE To("get")
    /\ UNCHANGED <<items, told>>

GetNothing ==
    /\ Is("get") /\ items = <<>>
    /\ IF late /\ kind = "stream" THEN End("timeout") ELSE To("check")
    /\ UNCHANGED <<items, told>>

Take(n) == caller' = [caller EXCEPT !.pc = "tell", !.hand = n] /\ UNCHANGED abandoned

Get ==
    /\ Is("get") /\ items # <<>>
    /\ items' = Tail(items)
    /\ \/ Head(items).type = "complete" /\ End("answer")
       \/ Head(items).type = "error" /\ End("error")
       \/ Head(items).type = "delta" /\ cancel /\ End("cancelled")
       \/ Head(items).type = "delta" /\ ~ cancel /\ Take(Head(items).text)
    /\ UNCHANGED told

\* on_text_delta, which numbers the deltas.
Tell ==
    /\ Is("tell")
    /\ told' = Append(told, caller.hand) /\ To("check")
    /\ UNCHANGED items

\* Before the try nobody tells the worker.
Interrupt ==
    /\ ~ Is("ended")
    /\ IF Is("begun")
       THEN caller' = [caller EXCEPT !.pc = "ended", !.result = "early"] /\ UNCHANGED abandoned
       ELSE End("interrupt")
    /\ UNCHANGED <<items, told>>

-----------------------------------------------------------------------------
(* RunCancellation.request, and finish after the run. *)
Request == ~ cancel /\ cancel' = TRUE /\ UNCHANGED late
Clear   == Is("ended") /\ cancel /\ cancel' = FALSE /\ UNCHANGED late

Expire  == ~ late /\ late' = TRUE /\ UNCHANGED cancel

-----------------------------------------------------------------------------
Thread == Resume \/ Connect \/ LookAgain \/ Put \/ Full

WorkerNext == (Thread \/ Read) /\ UNCHANGED <<kind, reply, caller, told, abandoned, cancel, late>>

CallerNext ==
    /\ Enter \/ Check \/ GetNothing \/ Get \/ Tell
    /\ UNCHANGED <<kind, reply, got, worker, cancel, late>>

Interrupted == Interrupt /\ UNCHANGED <<kind, reply, got, worker, cancel, late>>

Others ==
    /\ Request \/ Clear \/ Expire
    /\ UNCHANGED <<kind, reply, got, worker, items, caller, told, abandoned>>

RequestNext == WorkerNext \/ CallerNext \/ Interrupted \/ Others

RequestSpec == RequestInit /\ [][RequestNext]_requestVars

\* Both threads are scheduled, and the clock runs.  Nothing is asked of the
\* provider.
FairRequest ==
    /\ RequestSpec
    /\ WF_requestVars(CallerNext)
    /\ WF_requestVars(Thread /\ WorkerNext)
    /\ WF_requestVars(Expire /\ Others)

-----------------------------------------------------------------------------
Item     == [type : {"delta", "complete", "error"}, text : Nat]
Received == [mode : {"none", "sse", "json"}, texts : Nat, calls : [Call -> Nat],
             finish : {"none", "stop", "length"}, done : BOOLEAN]
Worker   == [pc : {"next", "connect", "read", "publish", "put", "end"}, item : Item]
Caller   == [pc : {"begun", "check", "get", "tell", "ended"},
             result : {"none", "answer", "error", "cancelled", "timeout", "interrupt", "early"},
             hand : Nat]

RequestTypeOK ==
    /\ kind \in {"stream", "chat"} /\ reply \in Replies
    /\ got \in Received /\ worker \in Worker /\ items \in Seq(Item)
    /\ caller \in Caller /\ told \in Seq(Nat)
    /\ abandoned \in BOOLEAN /\ cancel \in BOOLEAN /\ late \in BOOLEAN

\* An answer is what the provider meant to say, unless it says itself that it
\* is cut, and its text is what was told on while it came: no cut line, early
\* [DONE], full queue, late cancel or deadline makes an answer of half a
\* reply, or one whose deltas were lost (_call_stream_with_timeout,
\* _ChatCompletionAccumulator.complete).
AnswerIsWhole ==
    caller.result = "answer" =>
        \/ got.mode = "json" /\ told = <<>>
        \/ /\ told = [i \in 1..got.texts |-> i]
           /\ \E n \in 0..MaxCalls : got.calls = Indexed(n)
           /\ AllSent \/ got.finish = "length"

\* The run goes on after a request, whatever the provider does, and the worker
\* does not outlive it for ever when each read returns (the socket has a
\* timeout): it does not wait at a full queue nobody empties any more, also
\* when the Event of the run is cleared for the next one.  Except after a
\* Ctrl-C between the start of the thread and the try.
RequestEnds ==
    /\ <>Is("ended")
    /\ WF_requestVars(Read /\ WorkerNext) => <>(At("end") \/ caller.result = "early")
=============================================================================
