--------------------------- MODULE SessionHistory ---------------------------
(***************************************************************************)
(* The history of a session, twice: the messages that the running process  *)
(* sends to the provider (agent.py, _messages), and the JSONL log from     *)
(* which a later process rebuilds them (session/jsonl_store.py,            *)
(* session/assistant_history.py).  Every step writes first one and then    *)
(* the other; a signal or a crash may come in between.  A draft becomes an *)
(* answer only by the settlement of its run; a compaction replaces the     *)
(* messages and leaves a checkpoint, which replay takes only if the log    *)
(* before it vouches for each of its messages.                             *)
(*                                                                         *)
(* A text is its message's id; a tool result also says whether it is as    *)
(* the log has it, carries the process's own keys, or has been shortened.  *)
(***************************************************************************)
EXTENDS Integers, FiniteSets, SequencesExt

CONSTANTS
    Window,          \* messages that a resumed session keeps (80)
    MaxRuns,         \* bound: prompts
    MaxReplies,      \* bound: replies of the model to one prompt
    MaxCalls,        \* bound: tool calls in one reply
    MaxCompactions,  \* bound: compactions
    MaxTroubles      \* bound: crashes, and cancels or errors that end a run

ASSUME HistoryAssumption ==
    {Window, MaxRuns, MaxReplies, MaxCalls, MaxCompactions, MaxTroubles}
        \subseteq Nat

VARIABLES
    stage,       \* where the process is
    live,     \* the messages of the process
    log,      \* the session's file
    run,      \* the prompt being answered, or the last one
    replies,  \* replies to it so far
    next,     \* the id of the next reply
    batch,    \* the tool calls being answered
    latest,   \* the text that would be delivered now: its id, or 0
    counts,    \* what has happened of each bounded kind
    torn,     \* history: how many times a batch was cut by a crash, by a signal
    unlogged, \* history: what a signal has kept out of the log: the prompt of
              \* a run, or its draft
    told,     \* history: the text that each run told the user
    gone      \* history: runs whose answers a compaction summed up, or the window left out

historyVars == <<stage, live, log, run, replies, next, batch, latest, counts, torn, unlogged, told, gone>>

-----------------------------------------------------------------------------
(* Messages and records. *)

Message(t, r, id, k, form) == [t |-> t, run |-> r, id |-> id, k |-> k, form |-> form]

User          == Message("user", run, 0, 0, "plain")
Steer         == Message("steer", run, 0, 0, "plain")    \* in the process only
Summary       == Message("summary", 0, 0, 0, "plain")
Calls(id, n)  == Message("calls", run, id, n, "plain")
Draft(id)     == Message("draft", run, id, 0, "plain")
Result(id, k) == Message("result", run, id, k, "plain")
Delivered(r, id) == Message("answer", r, id, 0, "plain")
Settlement(r, id) == Message("settlement", r, id, 0, "plain")
Checkpoint(msgs)  == [t |-> "checkpoint", msgs |-> msgs]
HalfLine          == Message("half", 0, 0, 0, "plain")

IsResult(m) == m.t = "result"
FromUser(m) == m.t \in {"user", "steer", "summary"}
Newest(s, n) == IF n >= Len(s) THEN s ELSE SubSeq(s, Len(s) - n + 1, Len(s))
Plain(m)    == [m EXCEPT !.form = "plain"]

\* The messages of s that are in S, in their order.
Only(s, S) ==
    LET only[n \in 0..Len(s)] ==
            IF n = 0 THEN <<>>
            ELSE IF s[n] \in S THEN Append(only[n - 1], s[n]) ELSE only[n - 1]
    IN only[Len(s)]

DropLeadingResults(s) ==
    LET first == {i \in DOMAIN s : ~ IsResult(s[i])} IN
    IF first = {} THEN <<>> ELSE SubSeq(s, Min(first), Len(s))

\* The calls of s[i] have their results before the next message with calls.
Paired(s, i) ==
    \A k \in 1..s[i].k : \E j \in i+1..Len(s) :
        /\ IsResult(s[j]) /\ s[j].id = s[i].id /\ s[j].k = k
        /\ \A l \in i+1..j : s[l].t # "calls"

\* From the end, while the last message with calls lacks a result: cut there.
DropTrailingUnpaired(s) ==
    LET withCalls == {i \in DOMAIN s : s[i].t = "calls"}
        cut       == {i \in withCalls : \A j \in withCalls : j >= i => ~ Paired(s, j)}
    IN IF cut = {} THEN s ELSE SubSeq(s, 1, Min(cut) - 1)

\* Faulty: a message whose calls were never answered stays.
ValidUnpaired(s) == DropLeadingResults(s)

Valid(s) == DropTrailingUnpaired(DropLeadingResults(s))

-----------------------------------------------------------------------------
(* Replay: the log is read once, in order. *)

Nothing == [msgs |-> <<>>, drafts |-> {}, settled |-> <<>>, bad |-> {}, seen |-> <<>>]

SettledOnce(h, r) ==
    r \notin h.bad /\ Cardinality({i \in DOMAIN h.settled : h.settled[i].run = r}) = 1

\* The log before a checkpoint has all the results of these calls, once each.
KnownPair(h, calls) ==
    /\ calls \in ToSet(h.seen)
    /\ \A k \in 1..calls.k :
          Cardinality({i \in DOMAIN h.seen : h.seen[i] =
                         [calls EXCEPT !.t = "result", !.k = k]}) = 1

\* Each call is followed by its results, as the log has them, and by these
\* alone; each answer is that of a run settled once.
Vouched(h, msgs) ==
    /\ \A i \in DOMAIN msgs : msgs[i].t = "calls" =>
          /\ KnownPair(h, msgs[i])
          /\ i + msgs[i].k <= Len(msgs)
          /\ {msgs[j] : j \in i+1..i+msgs[i].k} =
                {[msgs[i] EXCEPT !.t = "result", !.k = k] : k \in 1..msgs[i].k}
    /\ \A j \in DOMAIN msgs : IsResult(msgs[j]) =>
          \E i \in 1..j-1 : msgs[i].t = "calls" /\ j <= i + msgs[i].k
    /\ \A i \in DOMAIN msgs : msgs[i].t = "answer" =>
          /\ SettledOnce(h, msgs[i].run)
          /\ [msgs[i] EXCEPT !.t = "settlement"] \in ToSet(h.settled)

\* Faulty: only a draft can have been delivered.
DeliverDrafts(h, e) ==
    LET counted == [h EXCEPT !.settled = Append(@, e)] IN
    IF e.id \in h.drafts
    THEN [counted EXCEPT !.msgs = Append(@, [e EXCEPT !.t = "answer"])]
    ELSE [counted EXCEPT !.bad = @ \cup {e.run}]

Deliver(h, e) ==
    LET counted == [h EXCEPT !.settled = Append(@, e)] IN
    IF e.id = 0 \/ e.id \in h.drafts
    THEN [counted EXCEPT !.msgs = Append(@, [e EXCEPT !.t = "answer"])]
    ELSE [counted EXCEPT !.bad = @ \cup {e.run}]

\* Faulty: a draft counts as history when it is read.
ReplayDrafts(h, e) ==
    [CASE e.t \in {"user", "calls", "result", "draft"} -> [h EXCEPT !.msgs = Append(@, e)]
       [] e.t = "settlement" -> Deliver(h, e)
       [] e.t = "checkpoint" /\ Vouched(h, e.msgs) -> [h EXCEPT !.msgs = e.msgs, !.drafts = {}]
       [] OTHER -> h
     EXCEPT !.seen = Append(@, e)]

Replay(h, e) ==
    [CASE e.t \in {"user", "calls", "result"} -> [h EXCEPT !.msgs = Append(@, e)]
       [] e.t = "draft" -> [h EXCEPT !.drafts = @ \cup {e.id}]
       [] e.t = "settlement" -> Deliver(h, e)
       [] e.t = "checkpoint" /\ Vouched(h, e.msgs) -> [h EXCEPT !.msgs = e.msgs, !.drafts = {}]
       [] OTHER -> h
     EXCEPT !.seen = Append(@, e)]

Replayed(lines) ==
    LET upTo[n \in 0..Len(lines)] ==
            IF n = 0 THEN Nothing ELSE Replay(upTo[n - 1], lines[n])
    IN upTo[Len(lines)]

History(lines) ==
    LET h == Replayed(lines) IN
    Only(h.msgs, {m \in ToSet(h.msgs) : m.t = "answer" => SettledOnce(h, m.run)})

Load(lines) == Valid(Newest(History(lines), Window))

-----------------------------------------------------------------------------
Fresh == [compactions |-> 0, troubles |-> 0]
Whole == [crash |-> 0, signal |-> 0, loads |-> 0]
NoBatch == [id |-> 0, n |-> 0, done |-> 0]

HistoryInit ==
    /\ stage = "idle" /\ live = <<>> /\ log = <<>> /\ run = 0 /\ replies = 0 /\ next = 1
    /\ batch = NoBatch /\ latest = 0 /\ counts = Fresh /\ torn = Whole
    /\ unlogged = {} /\ told = <<>> /\ gone = {}

\* The run is over.
Idle == stage' = "idle" /\ replies' = 0 /\ latest' = 0

\* A prompt is in the process first, and then in the log.
Submit ==
    /\ stage = "idle" /\ run < MaxRuns
    /\ run' = run + 1
    /\ live' = Append(live, User')
    /\ stage' = "asking" /\ replies' = 0 /\ latest' = 0 /\ batch' = NoBatch
    /\ told' = Append(told, "nothing")
    /\ UNCHANGED <<log, next, counts, torn, gone, unlogged>>

LogPrompt ==
    /\ stage = "asking"
    /\ log' = Append(log, User)
    /\ stage' = "model"
    /\ UNCHANGED <<live, run, replies, next, batch, latest, counts, torn, told, gone, unlogged>>

\* What the provider gets: no drafts of other runs.
Visible(s, r) == Only(s, {m \in ToSet(s) : m.t = "draft" => m.run = r})
HasDraft == \E i \in DOMAIN live : live[i].t = "draft" /\ live[i].run = run

\* The newest message of the user, and about c messages around it.
Recent(s, c) ==
    LET u      == Max({i \in DOMAIN s : FromUser(s[i])})
        after  == Valid(Newest(SubSeq(s, u + 1, Len(s)), c - 1))
        before == Valid(Newest(SubSeq(s, 1, u - 1), Max({0, c - 1 - Len(after)})))
    IN before \o <<s[u]>> \o after

Shorten(s) == [i \in DOMAIN s |-> IF IsResult(s[i]) THEN [s[i] EXCEPT !.form = "cut"] ELSE s[i]]

\* The compacted messages replace the history, and the log gets a checkpoint.
Install(msgs) ==
    /\ live' = msgs
    /\ log' = Append(log, Checkpoint(msgs))
    /\ gone' = gone \cup {live[i].run : i \in {j \in DOMAIN live : live[j].t = "answer"}}
    /\ counts' = [counts EXCEPT !.compactions = @ + 1]

\* Faulty: a draft that may still be delivered is no reason to wait.
CompactAtOnce ==
    /\ stage = "model" /\ counts.compactions < MaxCompactions
    /\ \E c \in 1..Len(live), shorten \in BOOLEAN :
          LET kept == Recent(Visible(live, 0), c) IN
          Install(<<Summary>> \o (IF shorten THEN Shorten(kept) ELSE kept))
    /\ UNCHANGED <<stage, run, replies, next, batch, latest, torn, told, unlogged>>

\* While the run has a draft, a compaction serves one request only.
Compact ==
    /\ stage = "model" /\ counts.compactions < MaxCompactions
    /\ ~ HasDraft
    /\ \E c \in 1..Len(live), shorten \in BOOLEAN :
          LET kept == Recent(Visible(live, run), c) IN
          Install(<<Summary>> \o (IF shorten THEN Shorten(kept) ELSE kept))
    /\ UNCHANGED <<stage, run, replies, next, batch, latest, torn, told, unlogged>>

\* A reply is in the process first, and then in the log.
ReplyCalls ==
    /\ stage = "model" /\ replies < MaxReplies
    /\ \E n \in 1..MaxCalls :
          /\ live' = Append(live, Calls(next, n))
          /\ batch' = [id |-> next, n |-> n, done |-> 0]
    /\ next' = next + 1 /\ replies' = replies + 1 /\ latest' = 0
    /\ stage' = "logging"
    /\ UNCHANGED <<log, run, counts, torn, told, gone, unlogged>>

ReplyText ==
    /\ stage = "model" /\ replies < MaxReplies
    /\ live' = Append(live, Draft(next))
    /\ latest' = next /\ next' = next + 1 /\ replies' = replies + 1
    /\ stage' = "logging"
    /\ UNCHANGED <<log, run, batch, counts, torn, told, gone, unlogged>>

\* No further answer: the last reply was thrown away, or there is no time.
NoReply ==
    /\ stage = "model"
    /\ latest' \in {0, latest}
    /\ stage' = "settle"
    /\ UNCHANGED <<live, log, run, replies, next, batch, counts, torn, told, gone, unlogged>>

LogReply ==
    /\ stage = "logging"
    /\ log' = Append(log, Last(live))
    /\ stage' = IF Last(live).t = "calls" THEN "batch" ELSE "answer"
    /\ UNCHANGED <<live, run, replies, next, batch, latest, counts, torn, told, gone, unlogged>>

\* A result, real or synthetic, is in the log first, and then in the process.
LogResult ==
    /\ stage = "batch" /\ batch.done < batch.n
    /\ log' = Append(log, Result(batch.id, batch.done + 1))
    /\ stage' = "joining"
    /\ UNCHANGED <<live, run, replies, next, batch, latest, counts, torn, told, gone, unlogged>>

JoinResult ==
    /\ stage = "joining"
    /\ live' = Append(live, [Result(batch.id, batch.done + 1) EXCEPT !.form = "live"])
    /\ batch' = [batch EXCEPT !.done = @ + 1]
    /\ stage' = "batch"
    /\ UNCHANGED <<log, run, replies, next, latest, counts, torn, told, gone, unlogged>>

\* The run goes on, with or without a word of the runtime, or it ends.
EndBatch ==
    /\ stage = "batch" /\ batch.done = batch.n
    /\ batch' = NoBatch
    /\ \/ stage' = "model" /\ live' \in {live, Append(live, Steer)}
       \/ stage' = "settle" /\ UNCHANGED live
    /\ UNCHANGED <<log, run, replies, next, latest, counts, torn, told, gone, unlogged>>

\* The draft is refused: it stays, and the runtime says why.
Rewrite ==
    /\ stage = "answer"
    /\ live' = Append(live, Steer)
    /\ stage' = "model"
    /\ UNCHANGED <<log, run, replies, next, batch, latest, counts, torn, told, gone, unlogged>>

Ended == IF stage = "failed" THEN "stopped" ELSE "answer"

\* The settlement is recorded only if the process still has its draft.
RecordSettlement ==
    /\ stage \in {"answer", "settle", "failed"}
    /\ IF latest = 0 \/ Draft(latest) \in ToSet(live)
       THEN /\ log' = Append(log, Settlement(run, latest))
            /\ stage' = "settling"
            /\ UNCHANGED <<replies, latest>>
       ELSE Idle /\ UNCHANGED log
    /\ told' = [told EXCEPT ![run] = Ended]
    /\ UNCHANGED <<live, run, next, batch, counts, torn, gone, unlogged>>

InstallSettlement ==
    /\ stage = "settling"
    /\ live' = Append(Only(live, {m \in ToSet(live) : ~ (m.t = "draft" /\ m.run = run)}),
                      Delivered(run, latest))
    /\ Idle
    /\ UNCHANGED <<log, run, next, batch, counts, torn, told, gone, unlogged>>

\* A cancel or an error between two steps, caught at the command boundary.
\* Once the output is finished there is nothing left to be done for the run.
Signal ==
    /\ stage \in {"asking", "model", "logging", "batch", "joining", "answer", "settle", "settling"}
    /\ counts.troubles < MaxTroubles
    /\ counts' = [counts EXCEPT !.troubles = @ + 1]
    /\ torn' = IF batch.id # 0 THEN [torn EXCEPT !.signal = @ + 1] ELSE torn
    /\ unlogged' = unlogged \cup (IF stage = "asking" THEN {<<run, "user">>}
                                 ELSE IF stage = "logging" THEN {<<run, "answer">>}
                                 ELSE {})
    /\ batch' = NoBatch
    /\ IF stage = "settling"
       THEN Idle /\ told' = [told EXCEPT ![run] = "stopped"]
       ELSE /\ stage' = "failed"
            /\ latest' \in (IF stage = "model" THEN {0, latest} ELSE {latest})
            /\ UNCHANGED <<told, replies>>
    /\ UNCHANGED <<live, log, run, next, gone>>

\* The process dies, perhaps in the middle of a line.
Crash ==
    /\ stage \notin {"down", "refused"}
    /\ counts.troubles < MaxTroubles
    /\ counts' = [counts EXCEPT !.troubles = @ + 1]
    /\ torn' = IF stage \in {"batch", "joining"} THEN [torn EXCEPT !.crash = @ + 1] ELSE torn
    /\ log' \in {log} \cup (IF stage = "idle" THEN {} ELSE {Append(log, HalfLine)})
    /\ live' = <<>> /\ stage' = "down" /\ batch' = NoBatch /\ replies' = 0 /\ latest' = 0
    /\ UNCHANGED <<run, next, told, gone, unlogged>>

\* The runs whose answers are older than the window.
LeftOut(s) == {m.run : m \in {m \in ToSet(s) \ ToSet(Newest(s, Window)) : m.t = "answer"}}

\* A process opens the session: after a crash, or after an orderly end.
Resume ==
    /\ stage \in {"down", "idle"}
    /\ IF HalfLine \in ToSet(log)
       THEN stage' = "refused" /\ live' = <<>> /\ UNCHANGED gone
       ELSE stage' = "idle" /\ live' = Load(log) /\ gone' = gone \cup LeftOut(History(log))
    /\ torn' = [torn EXCEPT !.loads = IF torn.crash = 0 THEN 0 ELSE Min({2, @ + 1})]
    /\ UNCHANGED <<log, run, replies, next, batch, latest, counts, told, unlogged>>

\* The session cannot be opened: all that is left is a new one.
NewSession ==
    /\ stage = "refused"
    /\ stage' = "idle" /\ live' = <<>> /\ log' = <<>> /\ gone' = {} /\ torn' = Whole /\ unlogged' = {}
    /\ told' = [r \in DOMAIN told |-> "nothing"]
    /\ UNCHANGED <<run, replies, next, batch, latest, counts>>

HistoryNext ==
    \/ Submit \/ LogPrompt \/ Compact \/ ReplyCalls \/ ReplyText \/ NoReply \/ LogReply
    \/ LogResult \/ JoinResult \/ EndBatch \/ Rewrite \/ RecordSettlement
    \/ InstallSettlement \/ Signal \/ Crash \/ Resume \/ NewSession

HistorySpec == HistoryInit /\ [][HistoryNext]_historyVars

-----------------------------------------------------------------------------
(* Properties. *)

Unbroken == HalfLine \notin ToSet(log)
Clean    == torn.signal = 0 /\ torn.crash = 0
Short    == Len(History(log)) <= Window

\* A provider refuses a request in which a call lacks its result or a result
\* its call.  Windows, compactions, cancels in a tool and one crash in the
\* middle of a batch do not lead to one (_trim_recent_messages,
\* valid_recent_messages).  Nothing is said once a signal has cut a batch, as
\* the live list then keeps its unanswered calls, nor once a log that a crash
\* had cut was opened twice, which may lead to one: see the findings.
RequestWellFormed ==
    stage = "model" /\ torn.signal = 0 /\ torn.loads <= 1 =>
        LET s == Visible(live, run) IN
        /\ \A i \in DOMAIN s : s[i].t = "calls" => Paired(s, i)
        /\ \A j \in DOMAIN s : IsResult(s[j]) =>
              \E i \in 1..j-1 : s[i].t = "calls" /\ s[i].id = s[j].id

\* A text that was only ever a draft has no place in a resumed session, and a
\* resumed answer is the one its run settled on, also where a checkpoint
\* brings it back (architecture.md: settled assistant history).
OnlySettledIsRestored ==
    stage = "idle" /\ Unbroken =>
        \A m \in ToSet(Load(log)) :
            /\ m.t # "draft"
            /\ m.t = "answer" => {e \in ToSet(log) : e.t = "settlement" /\ e.run = m.run}
                                    = {[m EXCEPT !.t = "settlement"]}

\* An answer that was told stays in the conversation, whichever process goes
\* on with it, unless a compaction has summed it up or a resumed session had no
\* place for it in its window.
AnswersSurvive ==
    stage \in {"idle", "model"} /\ Clean =>
        \A r \in DOMAIN told : told[r] = "answer" /\ r \notin gone =>
            \E m \in ToSet(live) : m.t = "answer" /\ m.run = r

\* Opening the session again loses nothing of what the process has, and does
\* not change its order: the log, its checkpoints and the process agree.  A
\* prompt, or a draft, that a signal met between the process and the log is in
\* the process only (agent.py:346-348, 572-573).  Not once a batch was cut.
Spoken(s) ==
    SelectSeq([i \in DOMAIN s |-> Plain(s[i])],
              LAMBDA m : m.t \in {"user", "calls", "result", "answer"}
                         /\ <<m.run, m.t>> \notin unlogged)

ResumeAgrees ==
    stage = "idle" /\ Clean /\ Unbroken /\ Short =>
        LET kept == Spoken(live) IN
        kept = SelectSeq(Spoken(Load(log)), LAMBDA m : m \in ToSet(kept))

\* README: a compaction is followed by a durable checkpoint, and a resumed
\* session goes on from it.
CheckpointRestored ==
    \A i \in DOMAIN log : log[i].t = "checkpoint" =>
        Vouched(Replayed(SubSeq(log, 1, i - 1)), log[i].msgs)
=============================================================================
