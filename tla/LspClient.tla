----------------------------- MODULE LspClient -----------------------------
(***************************************************************************)
(* The client of external language servers (lsp/client.py) and the calls   *)
(* that the tools make of it: one server per project root is started on    *)
(* demand, kept in _CLIENTS, asked one thing at a time by the thread of    *)
(* the Runtime, and given up when it does not answer in time.  A reader    *)
(* thread moves what the server writes into a queue; the pipe, the reader  *)
(* and the queue are one sequence here.  What the thread writes goes into  *)
(* a pipe that a server may leave full: then a write does not return, and  *)
(* neither does the close of the pipe, which writes what is left.          *)
(*                                                                         *)
(* One root and one file, whose text is the number of its version.  The    *)
(* server answers in any order, asks and tells what it likes, dies, or     *)
(* stops reading.  Ctrl-C interrupts a call of the chat anywhere; the TUI  *)
(* waits two seconds for its worker and then ends the process.             *)
(***************************************************************************)
EXTENDS Integers, Sequences

CONSTANTS
    MaxCalls,    \* bound: calls of the tools
    MaxQueue,    \* bound: messages in a queue when a server talks on
    MaxTrouble,  \* bound: failing writes, deaths, interrupts
    MaxEdits     \* bound: edits of the file

ASSUME BoundAssumption == {MaxCalls, MaxQueue, MaxTrouble, MaxEdits} \subseteq Nat

VARIABLES
    pc,      \* where the thread of the Runtime is
    call,    \* the call it is in
    answer,  \* what the last call answered
    cache,   \* the client in _CLIENTS, 0 for none
    client,  \* the clients that were made, in order
    server,  \* the process of each
    text,    \* the version of the file on disk
    spent,   \* what has happened of each bounded kind
    lost     \* history: the clients nobody will close any more

clientVars == <<pc, call, answer, cache, client, server, text, spent, lost>>

-----------------------------------------------------------------------------
NoText == -1
NoCall == [n |-> 0, kind |-> "none", client |-> 0, id |-> 0, read |-> NoText, then |-> "none",
           blocked |-> FALSE]

Closed    == [next |-> 0, healthy |-> FALSE, closed |-> TRUE, opened |-> FALSE,
              diagnostics |-> NoText]
NewClient == [next |-> 1, healthy |-> TRUE, closed |-> FALSE, opened |-> FALSE,
              diagnostics |-> NoText]
Gone      == [up |-> FALSE, deaf |-> FALSE, full |-> FALSE, mute |-> TRUE, todo |-> {},
              doc |-> NoText, out |-> <<>>, born |-> NoText]
NewServer == [up |-> TRUE, deaf |-> FALSE, full |-> FALSE, mute |-> FALSE, todo |-> {},
              doc |-> NoText, out |-> <<>>, born |-> text]

Reply(r, v, ok) == [type |-> "reply", id |-> r.id, of |-> r.of, text |-> v, ok |-> ok]
Tell            == [type |-> "note", text |-> NoText]
Publish(v)      == [type |-> "note", text |-> v]
Demand             == [type |-> "request"]
Eof             == [type |-> "eof"]

Mine  == client[call.client]
Peer  == server[call.client]
Alive(c) == client[c].healthy /\ server[c].up

\* Nothing more goes into the pipe.
Full(c)  == server[c].up /\ server[c].full

Trouble  == spent.trouble < MaxTrouble
Troubled == spent' = [spent EXCEPT !.trouble = @ + 1]

Nothing            == [status |-> "none"]
Unanswered(status) == [status |-> status]
Result(of, v)      == [status |-> "ok", n |-> call.n, kind |-> call.kind, of |-> of, text |-> v,
                       since |-> Peer.born]

End(a) == pc' = "idle" /\ answer' = a /\ call' = NoCall

\* close marks the client; what it knew is of no use any more.
Close(c) == client' = [client EXCEPT ![c] = Closed]

\* A transport failure: the client is closed, and the call fails.
Fail ==
    /\ Close(call.client)
    /\ pc' = "closing" /\ call' = [call EXCEPT !.then = "failed"]
    /\ UNCHANGED <<answer, cache, text, lost>>

-----------------------------------------------------------------------------
(* get_client *)

Call(kind) ==
    /\ pc = "idle" /\ spent.calls < MaxCalls
    /\ call' = [NoCall EXCEPT !.n = spent.calls + 1, !.kind = kind]
    /\ spent' = [spent EXCEPT !.calls = @ + 1]
    /\ pc' = "get" /\ answer' = Nothing
    /\ UNCHANGED <<cache, client, server, text, lost>>

AfterGet == IF call.kind = "query" THEN "send" ELSE "open"

GetCached ==
    /\ pc = "get" /\ cache # 0 /\ Alive(cache)
    /\ call' = [call EXCEPT !.client = cache] /\ pc' = AfterGet
    /\ UNCHANGED <<answer, cache, client, server, text, spent, lost>>

\* The dead one is closed, which does nothing if somebody has begun to.
GetDead ==
    /\ pc = "get" /\ cache # 0 /\ ~ Alive(cache)
    /\ IF client[cache].closed
       THEN pc' = "spawn" /\ UNCHANGED <<call, client>>
       ELSE /\ Close(cache)
            /\ pc' = "closing" /\ call' = [call EXCEPT !.client = cache, !.then = "spawn"]
    /\ UNCHANGED <<answer, cache, server, text, spent, lost>>

GetNone ==
    /\ pc = "get" /\ cache = 0
    /\ pc' = "spawn"
    /\ UNCHANGED <<call, answer, cache, client, server, text, spent, lost>>

Born ==
    /\ client' = Append(client, NewClient)
    /\ server' = Append(server, NewServer)

Spawn ==
    /\ pc = "spawn" /\ Born
    /\ pc' = "built" /\ call' = [call EXCEPT !.client = Len(client) + 1]
    /\ UNCHANGED <<answer, cache, text, spent, lost>>

SpawnFails ==
    /\ pc = "spawn" /\ Trouble /\ Troubled
    /\ End(Unanswered("failed"))
    /\ UNCHANGED <<cache, client, server, text, lost>>

\* The pipe is closed, then TERM, wait, KILL, wait: the group of the process
\* is gone.
Kill ==
    /\ pc = "closing" /\ ~ call.blocked /\ ~ Full(call.client)
    /\ server' = [server EXCEPT ![call.client] = Gone]
    /\ \/ call.then = "spawn" /\ pc' = "spawn" /\ UNCHANGED <<call, answer, cache>>
       \/ call.then = "none" /\ cache' = 0 /\ End(answer)
       \/ call.then = "exit" /\ cache' = 0 /\ pc' = "gone" /\ UNCHANGED <<call, answer>>
       \/ /\ call.then \in {"failed", "interrupted"}
          /\ End(Unanswered(call.then)) /\ UNCHANGED cache
    /\ UNCHANGED <<client, text, spent, lost>>

-----------------------------------------------------------------------------
(* request, notify: a write fails if the server is gone, or by itself.  It *)
(* does not return if the server does not read and the pipe is full.       *)

\* Faulty: every request has the same id.
SameId == 1

NextId == Mine.next

SendRequest(from, to) ==
    /\ pc = from /\ ~ call.blocked /\ ~ Full(call.client)
    /\ LET id == NextId
           of == IF from = "built" THEN 0 ELSE call.n IN
       \/ /\ Peer.up
          /\ server' = [server EXCEPT ![call.client].todo = @ \cup {[id |-> id, of |-> of]}]
          /\ client' = [client EXCEPT ![call.client].next = @ + 1]
          /\ pc' = to /\ call' = [call EXCEPT !.id = id]
          /\ UNCHANGED <<answer, cache, text, spent, lost>>
       \/ /\ ~ Peer.up
          /\ Fail /\ UNCHANGED <<server, spent>>
       \/ /\ Trouble /\ Troubled
          /\ Fail /\ UNCHANGED server

Initialize == SendRequest("built", "handshake")
Send       == SendRequest("send", "wait")

\* ensure_open reads the file, sends its text, and remembers that it did.
OpenFile ==
    /\ pc = "open"
    /\ IF Mine.opened
       THEN pc' = (IF call.kind = "ask" THEN "send" ELSE "drain") /\ UNCHANGED call
       ELSE pc' = "opening" /\ call' = [call EXCEPT !.read = text]
    /\ UNCHANGED <<answer, cache, client, server, text, spent, lost>>

OpenFails ==
    /\ pc = "open" /\ ~ Mine.opened /\ Trouble /\ Troubled
    /\ End(Unanswered("failed"))
    /\ UNCHANGED <<cache, client, server, text, lost>>

DidOpen ==
    /\ pc = "opening" /\ ~ call.blocked /\ ~ Full(call.client)
    /\ \/ /\ Peer.up
          /\ server' = [server EXCEPT ![call.client].doc = call.read]
          /\ client' = [client EXCEPT ![call.client].opened = TRUE]
          /\ pc' = IF call.kind = "ask" THEN "send" ELSE "drain"
          /\ UNCHANGED <<call, answer, cache, text, spent, lost>>
       \/ /\ ~ Peer.up
          /\ Fail /\ UNCHANGED <<server, spent>>
       \/ /\ Trouble /\ Troubled
          /\ Fail /\ UNCHANGED server

-----------------------------------------------------------------------------
(* _read_message: what the thread does with the next message, or without.  *)

Waiting == pc \in {"handshake", "load", "wait", "drain"} /\ ~ call.blocked
Taken   == [server EXCEPT ![call.client].out = Tail(@)]
Has(t)  == Waiting /\ Peer.out # <<>> /\ Head(Peer.out).type = t

TakeNote ==
    /\ Has("note")
    /\ server' = Taken
    /\ client' = [client EXCEPT ![call.client].diagnostics =
                     IF Head(Peer.out).text = NoText THEN @ ELSE Head(Peer.out).text]
    /\ UNCHANGED <<pc, call, answer, cache, text, spent, lost>>

\* The server's own requests are answered at once.  A failing write is a
\* transport failure, but not where diagnostics are awaited: there, the
\* OSError ends the call and the client is kept.
TakeRequest ==
    /\ Has("request") /\ ~ Full(call.client)
    /\ server' = Taken
    /\ \/ Peer.up /\ UNCHANGED <<pc, call, answer, cache, client, text, spent, lost>>
       \/ /\ \/ ~ Peer.up /\ UNCHANGED spent
             \/ Trouble /\ Troubled
          /\ IF pc = "drain"
             THEN End(Unanswered("failed")) /\ UNCHANGED <<cache, client, text, lost>>
             ELSE Fail

\* Faulty: the next reply is taken for the answer.
AnyReply(m) == TRUE

IsAnswer(m) == m.id = call.id

\* While diagnostics or the loading of the project are awaited, replies are
\* dropped.
SkipReply ==
    /\ Has("reply")
    /\ pc \in {"load", "drain"} \/ ~ IsAnswer(Head(Peer.out))
    /\ server' = Taken
    /\ UNCHANGED <<pc, call, answer, cache, client, text, spent, lost>>

Outcome(m) == IF m.ok THEN Result(m.of, m.text) ELSE Unanswered("refused")

TakeAnswer ==
    /\ Has("reply") /\ pc = "wait" /\ IsAnswer(Head(Peer.out))
    /\ server' = Taken
    /\ End(Outcome(Head(Peer.out)))
    /\ UNCHANGED <<cache, client, text, spent, lost>>

\* Faulty: the constructor raises and leaves the process alone.
BuildFailsOpen ==
    /\ End(Unanswered("failed"))
    /\ UNCHANGED <<cache, client, text, lost>>

BuildFails == Fail

\* The reply to initialize; "initialized" is sent.
TakeHandshake ==
    /\ Has("reply") /\ pc = "handshake" /\ IsAnswer(Head(Peer.out))
    /\ Head(Peer.out).ok => ~ Full(call.client)
    /\ server' = Taken
    /\ \/ /\ Head(Peer.out).ok /\ Peer.up
          /\ pc' = "load"
          /\ UNCHANGED <<call, answer, cache, client, text, spent, lost>>
       \/ ~ Head(Peer.out).ok /\ BuildFails /\ UNCHANGED spent
       \/ ~ Peer.up /\ BuildFails /\ UNCHANGED spent
       \/ Trouble /\ Troubled /\ BuildFails

TakeEof ==
    /\ Has("eof")
    /\ server' = Taken
    /\ Fail /\ UNCHANGED spent

\* Faulty: no deadline for a request.
NoDeadline == FALSE

\* A request has run out of time when it finds the queue empty; with nothing
\* to wait for, get still returns a message that is there.
Deadline == Waiting /\ (pc \in {"handshake", "wait"} => Peer.out = <<>>)

\* The deadlines: of a request, of the loading of the project (nothing was
\* heard of it, or it takes too long), and of diagnostics, which then are
\* those that are known, or none.  The last two are looked at before each
\* message.
TimeUp ==
    /\ Deadline
    /\ \/ pc \in {"handshake", "wait"} /\ Fail
       \/ /\ pc = "load" /\ pc' = "keep"
          /\ UNCHANGED <<call, answer, cache, client, text, lost>>
       \/ /\ pc = "drain"
          /\ End(Result(call.n, Mine.diagnostics))
          /\ UNCHANGED <<cache, client, text, lost>>
    /\ UNCHANGED <<server, spent>>

LoopEnds == pc \in {"load", "drain"} /\ TimeUp

\* A write, or the close of the pipe, to a server that does not read: what is
\* written is more than the pipe has room for.
Block ==
    /\ \/ pc \in {"opening", "send"} \/ Has("request")
       \/ Has("reply") /\ pc = "handshake" /\ IsAnswer(Head(Peer.out)) /\ Head(Peer.out).ok
       \/ pc = "closing" /\ Peer.full
    /\ Peer.up /\ Peer.deaf /\ ~ call.blocked
    /\ server' = [server EXCEPT ![call.client].full = TRUE]
    /\ call' = [call EXCEPT !.blocked = TRUE]
    /\ UNCHANGED <<pc, answer, cache, client, text, spent, lost>>

\* The server has died, and the write fails.
Unblock ==
    /\ pc # "gone" /\ call.blocked /\ ~ Peer.up
    /\ call' = [call EXCEPT !.blocked = FALSE]
    /\ UNCHANGED <<pc, answer, cache, client, server, text, spent, lost>>

Keep ==
    /\ pc = "keep"
    /\ cache' = call.client /\ pc' = AfterGet
    /\ UNCHANGED <<call, answer, client, server, text, spent, lost>>

Drained ==
    /\ pc = "drain" /\ ~ call.blocked /\ Mine.diagnostics # NoText
    /\ End(Result(call.n, Mine.diagnostics))
    /\ UNCHANGED <<cache, client, server, text, spent, lost>>

-----------------------------------------------------------------------------
(* The language server and the editors. *)

\* What comes from a closed one is read by nobody.
Heard(c)  == server[c].up /\ ~ server[c].mute /\ ~ client[c].closed
Put(c, m) == server' = [server EXCEPT ![c].out = Append(@, m)]

Serve(c) ==
    /\ Heard(c) /\ ~ server[c].deaf
    /\ \E r \in server[c].todo, ok \in BOOLEAN :
          server' = [server EXCEPT ![c].todo = @ \ {r},
                                   ![c].out = Append(@, Reply(r, server[c].doc, ok))]
    /\ UNCHANGED <<pc, call, answer, cache, client, text, spent, lost>>

Talk(c) ==
    /\ Heard(c) /\ Len(server[c].out) < MaxQueue
    /\ \/ Put(c, Tell)
       \/ Put(c, Demand)
       \/ server[c].doc # NoText /\ Put(c, Publish(server[c].doc))
    /\ UNCHANGED <<pc, call, answer, cache, client, text, spent, lost>>

\* It dies, or writes what is no message, which ends the reader as well; or
\* it stops reading.
Break(c) ==
    /\ Heard(c) \/ (c = call.client /\ call.blocked /\ Peer.up)
    /\ Trouble /\ Troubled
    /\ \/ \E up \in BOOLEAN :
             server' = [server EXCEPT ![c].up = up, ![c].mute = TRUE,
                                      ![c].out = Append(@, Eof)]
       \/ server' = [server EXCEPT ![c].deaf = TRUE]
    /\ UNCHANGED <<pc, call, answer, cache, client, text, lost>>

Edit ==
    /\ text < MaxEdits
    /\ text' = text + 1
    /\ UNCHANGED <<pc, call, answer, cache, client, server, spent, lost>>

-----------------------------------------------------------------------------
(* Ctrl-C, /move, and the end of the process. *)

\* Outside the constructor the client stays as it is, with what it has asked;
\* a message that was taken, or half of one that was sent, may be lost.
InterruptCall ==
    /\ pc \in {"get", "open", "opening", "send", "wait", "drain"} /\ Trouble /\ Troubled
    /\ \/ UNCHANGED <<server, client>>
       \/ /\ pc \in {"opening", "send"}
          /\ server' = [server EXCEPT ![call.client].deaf = TRUE]
          /\ UNCHANGED client
       \/ pc \in {"wait", "drain"} /\ Peer.out # <<>> /\ server' = Taken /\ UNCHANGED client
       \/ /\ pc = "opening" /\ Peer.up
          /\ server' = [server EXCEPT ![call.client].doc = call.read]
          /\ UNCHANGED client
    /\ End(Unanswered("interrupted"))
    /\ UNCHANGED <<cache, text, lost>>

\* In the constructor the client is closed, except before the try.
InterruptBuild ==
    /\ pc \in {"spawn", "built", "handshake", "load"} /\ Trouble /\ Troubled
    /\ IF pc = "spawn"
       THEN Born /\ lost' = lost \cup {Len(client) + 1} /\ End(Unanswered("interrupted"))
       ELSE /\ Close(call.client)
            /\ pc' = "closing"
            /\ call' = [call EXCEPT !.then = "interrupted", !.blocked = FALSE]
            /\ UNCHANGED <<answer, server, lost>>
    /\ UNCHANGED <<cache, text>>

\* Before the new client is in _CLIENTS, and within close, which has already
\* marked the client as closed.
InterruptLate ==
    /\ pc \in {"keep", "closing"} /\ call.then # "exit" /\ Trouble /\ Troubled
    /\ lost' = lost \cup {call.client}
    /\ End(IF call.n = 0 THEN answer ELSE Unanswered("interrupted"))
    /\ UNCHANGED <<cache, client, server, text>>

\* close_all_clients, for /move and at exit.
CloseAll ==
    /\ pc = "idle"
    /\ \E then \in {"none", "exit"} :
          IF cache # 0 /\ ~ client[cache].closed
          THEN /\ Close(cache)
               /\ call' = [NoCall EXCEPT !.client = cache, !.then = then]
               /\ pc' = "closing" /\ UNCHANGED cache
          ELSE /\ cache' = 0 /\ pc' = (IF then = "exit" THEN "gone" ELSE "idle")
               /\ UNCHANGED <<client, call>>
    /\ UNCHANGED <<answer, server, text, spent, lost>>

\* The screen has ended, the worker did not stop in time: the clients that
\* are kept are closed, and the thread is gone in the middle of the call.
ExitInCall ==
    /\ pc \notin {"idle", "gone"} /\ call.n # 0
    /\ pc' = "gone" /\ cache' = 0
    /\ LET killed == {c \in {cache} \ {0} : ~ client[c].closed} IN
       /\ \A c \in killed : ~ Full(c)
       /\ server' = [c \in DOMAIN server |-> IF c \in killed THEN Gone ELSE server[c]]
       /\ lost' = lost \cup ({call.client} \ (killed \cup {0}))
    /\ UNCHANGED <<call, answer, client, text, spent>>

-----------------------------------------------------------------------------
ClientInit ==
    /\ pc = "idle" /\ call = NoCall /\ answer = Nothing /\ cache = 0
    /\ client = <<>> /\ server = <<>> /\ text = 0 /\ lost = {}
    /\ spent = [calls |-> 0, trouble |-> 0]

\* What the thread does when nothing goes wrong around it.
Thread ==
    \/ GetCached \/ GetDead \/ GetNone \/ Spawn \/ Kill \/ Initialize \/ Send
    \/ OpenFile \/ DidOpen \/ TakeNote \/ TakeRequest \/ SkipReply \/ TakeAnswer
    \/ TakeHandshake \/ TakeEof \/ TimeUp \/ Keep \/ Drained \/ Block \/ Unblock

ClientNext ==
    \/ Thread
    \/ \E kind \in {"ask", "query", "diagnose"} : Call(kind)
    \/ SpawnFails \/ OpenFails
    \/ \E c \in DOMAIN server : Serve(c) \/ Talk(c) \/ Break(c)
    \/ Edit \/ InterruptCall \/ InterruptBuild \/ InterruptLate \/ CloseAll \/ ExitInCall

ClientSpec == ClientInit /\ [][ClientNext]_clientVars /\ WF_clientVars(Thread) /\ WF_clientVars(LoopEnds)

-----------------------------------------------------------------------------
Places == {"idle", "get", "spawn", "built", "handshake", "load", "keep", "open", "opening",
           "send", "wait", "drain", "closing", "gone"}

TypeOK ==
    /\ pc \in Places
    /\ Len(client) = Len(server) /\ Len(client) <= MaxCalls
    /\ cache \in 0..Len(client) /\ call.client \in 0..Len(client)
    /\ lost \subseteq DOMAIN client
    /\ call.kind \in {"none", "ask", "query", "diagnose"}
    /\ text \in 0..MaxEdits

\* A result is the server's result for this call, however many requests of
\* interrupted calls are still to be answered, and it is about the text that
\* this client has given to this server: not older than the server itself
\* (StdioLspClient.request, ensure_open).
AnswersOwn ==
    answer.status = "ok" =>
        /\ answer.of = answer.n
        /\ answer.kind = "ask" => answer.text \in answer.since..text

\* Between two calls the only server that runs is the one in _CLIENTS, and
\* after the process none does: however a call ended, except for a client
\* that an interrupt or the end of the process met before it was kept or
\* after its close had begun (StdioLspClient.__init__, close, get_client).
NoServerLeft ==
    pc \in {"idle", "gone"} =>
        \A c \in DOMAIN server :
            server[c].up => c \in lost \/ (pc = "idle" /\ c = cache /\ ~ client[c].closed)

\* A call ends, whatever its server does, with two exceptions.  A write to a
\* server that does not read, and the close of the pipe to it, have no deadline
\* and end with the server only.  And while a server talks on, a request that
\* waits for its reply does not look at the time (request, diagnostics,
\* _wait_for_project_load, _read_message).
CallEnds ==
    \/ pc # "idle" ~> pc \in {"idle", "gone"} \/ call.blocked
    \/ []<><<pc \in {"handshake", "wait"} /\ Talk(call.client)>>_clientVars

\* Closing a client ends with its server killed, in a bounded time: what the
\* documentation says of it (StdioLspClient.close, _terminate_lsp_process).
CloseKills == pc = "closing" ~> pc # "closing"

=============================================================================
