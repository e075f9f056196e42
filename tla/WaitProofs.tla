----------------------------- MODULE WaitProofs -----------------------------
(***************************************************************************)
(* Proofs about the two components in which a thread waits for somebody    *)
(* outside the program: the session of the terminal user interface, where  *)
(* the run waits for the user (TuiSession), and the client of language     *)
(* servers, where a call of a tool waits for a server (LspClient).  Both   *)
(* may be given up from elsewhere while they wait, and what is proved is   *)
(* that nothing is mixed up or left behind then.                           *)
(***************************************************************************)
EXTENDS TuiSession, LspClient, FiniteSetTheorems, SequenceTheorems, TLAPS

Saved  == {{}} \cup {{t} : t \in Text}
Bridge == [ask : 0..MaxAsks, done : BOOLEAN, closed : BOOLEAN, asked : 0..MaxAsks]

SessionTypeOK ==
    /\ input \in Text /\ slot \in Prompt \cup {"empty"}
    /\ draft \in Saved /\ held \in Saved
    /\ shown \in 0..MaxAsks
    /\ sent \subseteq Prompt /\ aimed \subseteq sent /\ promptIds \subseteq sent
    /\ cmd \in Command \cup {"none"}
    /\ queue \in Seq(Command \cup {"stop"}) /\ mail \in Seq(Mail)
    /\ bridge \in Bridge

\* A typed text is in one place.
Apart ==
    \A p \in Prompt :
        /\ input = p => p \notin draft \cup held \cup sent /\ slot # p
        /\ slot = p => p \notin draft \cup held \cup sent
        /\ p \in sent => p \notin draft \cup held
        /\ p \in draft => p \notin held

\* While a question is shown, what was typed is under it.
Under ==
    /\ shown = 0 => held = {}
    /\ shown # 0 => held # {} /\ focus = "ask" /\ input = "empty"

\* The command in flight is in the queue, with the worker, or on its way back.
Busy        == worker \in {"taken", "dispatch", "run", "announce", "wait", "put"}
Queued(i)   == i \in DOMAIN queue /\ queue[i] # "stop"
Back(i)     == i \in DOMAIN mail /\ mail[i].type = "completed"
InFlight(c) == inFlight = 1 /\ promptIds = {c} \cap Prompt

Flight ==
    /\ inFlight \in {0, 1} /\ (inFlight = 0 => promptIds = {})
    /\ \A i \in DOMAIN queue :
          Queued(i) => /\ InFlight(queue[i]) /\ ~ Busy
                       /\ \A k \in DOMAIN queue : Queued(k) => k = i
                       /\ \A m \in DOMAIN mail : ~ Back(m)
    /\ Busy => cmd \in Command /\ InFlight(cmd) /\ \A k \in DOMAIN mail : ~ Back(k)
    /\ \A i \in DOMAIN mail :
          Back(i) => InFlight(mail[i].cmd) /\ \A k \in DOMAIN mail : Back(k) => k = i

\* A Ctrl-C that was meant for the prompt in flight is remembered.
HeldBack == ui = "ready" => restoring \/ promptIds \cap aimed = {}

\* The bridge has a question while the worker asks.
Bridged ==
    /\ IF worker \in {"announce", "wait"}
       THEN /\ bridge.ask = bridge.asked /\ bridge.ask # 0
            /\ bridge.closed => bridge.done
       ELSE bridge.ask = 0 /\ ~ bridge.done
    /\ bridge.closed => ui \in {"close_queue", "gone"}
    /\ worker = "announce" /\ ~ bridge.closed => ~ bridge.done

Opens(i)  == i \in DOMAIN mail /\ mail[i].type = "pending"
Shuts(i)  == i \in DOMAIN mail /\ mail[i].type = "closed"
Waited(a) == worker = "wait" /\ ~ bridge.done /\ bridge.ask = a

\* After the i-th message, the question is withdrawn before another is asked
\* or a command ends.
Withdrawn(a, i) ==
    \E j \in DOMAIN mail :
        /\ i < j /\ mail[j] = [type |-> "closed", ask |-> a]
        /\ \A k \in DOMAIN mail : i < k /\ k < j => Shuts(k)

\* The questions come one after another, and each that the user sees, or will,
\* is waited for or withdrawn.
Order ==
    /\ shown <= bridge.asked
    /\ \A i \in DOMAIN mail : Opens(i) => shown < mail[i].ask /\ mail[i].ask <= bridge.asked
    /\ \A i \in DOMAIN mail : Shuts(i) => mail[i].ask <= bridge.asked
    /\ \A i, k \in DOMAIN mail : Opens(i) /\ Opens(k) /\ i < k => mail[i].ask < mail[k].ask
    /\ worker = "announce" \/ (worker = "wait" /\ ~ bridge.done) =>
          \A i \in DOMAIN mail : Shuts(i) => mail[i].ask < bridge.asked
    /\ worker = "announce" =>
          shown < bridge.asked /\ \A i \in DOMAIN mail : Opens(i) => mail[i].ask < bridge.asked

Seen ==
    /\ shown # 0 => Waited(shown) \/ Withdrawn(shown, 0)
    /\ \A i \in DOMAIN mail : Opens(i) => Waited(mail[i].ask) \/ Withdrawn(mail[i].ask, i)
    /\ worker = "wait" /\ ~ bridge.done =>
          shown = bridge.ask \/ \E i \in DOMAIN mail : Opens(i) /\ mail[i].ask = bridge.ask

Questions == ~ bridge.closed => Order /\ Seen

SessionInv ==
    /\ SessionTypeOK /\ Apart /\ Under /\ Flight /\ HeldBack /\ Bridged /\ Questions

-----------------------------------------------------------------------------
\* The one text of a set of one.
LEMMA OnlyOne == ASSUME NEW t PROVE Only({t}) = t
BY DEF Only

\* What was put aside is a text or nothing.
LEMMA OnlyOf ==
  ASSUME NEW S \in Saved
  PROVE  /\ Only(S) \in Text
         /\ S = {Only(S)} \/ (S = {} /\ Only(S) = "empty")
<1>1. ASSUME S = {} PROVE Only(S) = "empty"
  BY <1>1 DEF Only
<1>2. ASSUME NEW t \in Text, S = {t} PROVE Only(S) = t
  BY <1>2, OnlyOne
<1>. QED BY <1>1, <1>2 DEF Saved, Text

\* The words of the screen are no texts of the user.
LEMMA Words == {"empty", "query", "session", "stop", "none"} \cap Prompt = {}
BY SessionAssumption

\* At the start every variable has its type.
LEMMA TypesInit == Init => SessionTypeOK
<1>1. <<>> \in Seq(Mail) /\ <<>> \in Seq(Command \cup {"stop"})
  OBVIOUS
<1>2. MaxAsks \in Nat
  BY SessionAssumption
<1>. QED BY <1>1, <1>2 DEF Init, SessionTypeOK, Saved, Text, Bridge

\* A sequence with one more at its end.
LEMMA Appended ==
  ASSUME NEW S, NEW s \in Seq(S), NEW e \in S
  PROVE  /\ Append(s, e) \in Seq(S)
         /\ DOMAIN Append(s, e) = 1..Len(s) + 1 /\ DOMAIN s = 1..Len(s)
         /\ \A i \in DOMAIN s : Append(s, e)[i] = s[i]
         /\ Append(s, e)[Len(s) + 1] = e
         /\ Len(s) \in Nat
OBVIOUS

\* A sequence without its first.
LEMMA Shifted ==
  ASSUME NEW S, NEW s \in Seq(S), s # <<>>
  PROVE  /\ Tail(s) \in Seq(S) /\ Head(s) \in S /\ Head(s) = s[1]
         /\ Len(s) \in Nat /\ Len(s) >= 1
         /\ DOMAIN s = 1..Len(s) /\ DOMAIN Tail(s) = 1..Len(s) - 1
         /\ \A i \in DOMAIN Tail(s) : Tail(s)[i] = s[i + 1]
OBVIOUS

\* The first message and what it carries.
LEMMA HeadTypes ==
  ASSUME SessionTypeOK, Poll
  PROVE  /\ Head(mail) \in Mail
         /\ Head(mail).type = "pending" => Head(mail).ask \in Asks
         /\ Head(mail).type = "closed" => Head(mail).ask \in Asks
         /\ Head(mail).type = "completed" => Head(mail).cmd \in Command
         /\ mail' \in Seq(Mail)
<1>1. mail \in Seq(Mail) /\ mail # <<>> /\ mail' = Tail(mail)
  BY DEF SessionTypeOK, Poll
<1>2. Head(mail) \in Mail /\ mail' \in Seq(Mail)
  BY <1>1, Shifted
<1>. QED BY <1>2 DEF Mail

\* Sending a command keeps the types of what it changes.
LEMMA SubmitTypes ==
  ASSUME SessionTypeOK, NEW c \in Command, NEW n, NEW ids \in SUBSET sent, Submit(c, n, ids)
  PROVE  /\ queue' \in Seq(Command \cup {"stop"})
         /\ sent' \subseteq Prompt /\ aimed \subseteq sent' /\ promptIds' \subseteq sent'
BY DEF SessionTypeOK, Submit

\* So does the end of a command.
LEMMA CommandEndedTypes ==
  ASSUME SessionTypeOK, NEW c \in Command, NEW ok, CommandEnded(c, ok), UNCHANGED aimed
  PROVE  /\ input' \in Text /\ slot' \in Prompt \cup {"empty"}
         /\ queue' \in Seq(Command \cup {"stop"})
         /\ sent' \subseteq Prompt /\ aimed' \subseteq sent' /\ promptIds' \subseteq sent'
<1>1. CASE slot # "empty" /\ Submit(slot, inFlight - 1, promptIds \ {c}) /\ slot' = "empty" /\ UNCHANGED input
  <2>1. slot \in Command /\ promptIds \ {c} \in SUBSET sent
    BY <1>1 DEF SessionTypeOK, Command
  <2>2. /\ queue' \in Seq(Command \cup {"stop"})
        /\ sent' \subseteq Prompt /\ aimed \subseteq sent' /\ promptIds' \subseteq sent'
    BY <1>1, <2>1, SubmitTypes
  <2>. QED BY <1>1, <2>2 DEF SessionTypeOK
<1>2. CASE promptIds' = promptIds \ {c} /\ UNCHANGED <<queue, sent>>
           /\ (RestoreSlot \/ UNCHANGED <<input, slot>>)
  BY <1>2 DEF SessionTypeOK, RestoreSlot, Text
<1>3. \/ slot # "empty" /\ Submit(slot, inFlight - 1, promptIds \ {c}) /\ slot' = "empty" /\ UNCHANGED input
      \/ /\ promptIds' = promptIds \ {c} /\ UNCHANGED <<queue, sent>>
         /\ RestoreSlot \/ UNCHANGED <<input, slot>>
  BY DEF CommandEnded
<1>. QED BY <1>1, <1>2, <1>3

\* So does what happens at the bridge.
LEMMA BridgeTypes ==
  ASSUME bridge \in Bridge
  PROVE  /\ Ask => bridge' \in Bridge
         /\ Answered => bridge' \in Bridge
         /\ Expire => bridge' \in Bridge
<1>1. MaxAsks \in Nat
  BY SessionAssumption
<1>2. CASE Ask
  <2>1. bridge.asked + 1 \in 0..MaxAsks
    BY <1>1, <1>2 DEF Ask, Bridge
  <2>. QED BY <1>1, <1>2, <2>1 DEF Ask, Bridge
<1>3. CASE Answered \/ Expire
  <2>1. 0 \in 0..MaxAsks
    BY <1>1
  <2>2. CASE bridge' = [bridge EXCEPT !.ask = 0, !.done = FALSE]
    BY <2>1, <2>2 DEF Bridge
  <2>3. CASE bridge' = [bridge EXCEPT !.ask = 0]
    BY <2>1, <2>3 DEF Bridge
  <2>. QED BY <1>3, <2>2, <2>3 DEF Answered, Expire
<1>. QED BY <1>2, <1>3

\* No step leaves the types.
LEMMA TypesStep ==
  ASSUME SessionTypeOK, Flight, Bridged, [Next]_vars
  PROVE  SessionTypeOK'
<1> USE DEF SessionTypeOK
<1>n. MaxAsks \in Nat
  BY SessionAssumption
<1>1. CASE Poll
  <2>1. CASE Head(mail).type = "pending"   /\ ShowQuestion(Head(mail).ask)
    <3>1. held' \in Saved
      BY <2>1 DEF ShowQuestion, Saved
    <3>2. shown' \in 0..MaxAsks
      BY <1>1, <2>1, <1>n, HeadTypes DEF ShowQuestion, Asks
    <3>3. mail' \in Seq(Mail)
      BY <1>1, HeadTypes
    <3>. QED BY <1>1, <2>1, <3>1, <3>2, <3>3 DEF Poll, ShowQuestion, flight, workerVars, Text
  <2>2. CASE Head(mail).type = "closed"    /\ CloseQuestion(Head(mail).ask)
    BY <1>1, <2>2, <1>n, HeadTypes, OnlyOf DEF Poll, CloseQuestion, ClearInteraction, flight, composer,
                                                  workerVars, Saved
  <2>3. CASE Head(mail).type = "completed" /\ CommandEnded(Head(mail).cmd, Head(mail).ok)
    <3>1. UNCHANGED <<focus, draft, held, applied, shown, aimed, cmd, bridge>>
      BY <1>1, <2>3 DEF Poll, CommandEnded, workerVars
    <3>. QED BY <1>1, <2>3, <3>1, HeadTypes, CommandEndedTypes
  <2>. QED BY <1>1, <2>1, <2>2, <2>3 DEF Poll
<1>2. ASSUME NEW p \in Prompt, Type(p) PROVE SessionTypeOK'
  BY <1>2 DEF Type, Key, flight, workerVars, Text
<1>3. CASE TypeQuery \/ Erase
  BY <1>3 DEF TypeQuery, Erase, Key, flight, workerVars, Text
<1>4. CASE SubmitPrompt
  <2>1. input \in Command /\ Submit(input, 0, promptIds)
    BY <1>4 DEF SubmitPrompt, Command
  <2>2. /\ queue' \in Seq(Command \cup {"stop"})
        /\ sent' \subseteq Prompt /\ aimed \subseteq sent' /\ promptIds' \subseteq sent'
    BY <2>1, SubmitTypes
  <2>. QED BY <1>4, <2>2 DEF SubmitPrompt, Key, workerVars, Text
<1>5. CASE QueueFollowUp
  BY <1>5 DEF QueueFollowUp, Key, flight, workerVars, Text
<1>6. CASE SubmitSession
  <2>1. "session" \in Command /\ Submit("session", 0, promptIds)
    BY <1>6 DEF SubmitSession, Command
  <2>2. /\ queue' \in Seq(Command \cup {"stop"})
        /\ sent' \subseteq Prompt /\ aimed \subseteq sent' /\ promptIds' \subseteq sent'
    BY <2>1, SubmitTypes
  <2>. QED BY <1>6, <2>2 DEF SubmitSession, Key, workerVars, composer
<1>7. CASE AltUp
  BY <1>7 DEF AltUp, Key, flight, workerVars, Text
<1>8. CASE Answer
  <2>1. bridge' \in Bridge
    BY <1>8 DEF Answer, Resolve, Bridge
  <2>2. input' \in Text /\ held' = {} /\ shown' = 0 /\ UNCHANGED draft
    BY <1>8, OnlyOf DEF Answer, ClearInteraction
  <2>. QED BY <1>8, <1>n, <2>1, <2>2 DEF Answer, Key, flight, workerVars, Saved
<1>9. CASE OpenSearch
  BY <1>9 DEF OpenSearch, Key, flight, workerVars, Saved, Text
<1>10. CASE ApplySearch \/ CloseSearch
  BY <1>10, OnlyOf DEF ApplySearch, CloseSearch, Key, flight, workerVars, Saved
<1>11. CASE Quit
  BY <1>11 DEF Quit, Key, flight, workerVars, composer
<1>12. CASE CtrlC
  BY <1>12 DEF CtrlC, Key, HoldBack, flight, workerVars, composer
<1>13. CASE CancelRun
  BY <1>13 DEF CancelRun, HoldBack, workerVars, composer
<1>14. CASE Leave \/ CloseWorker \/ CloseReadsActive \/ CloseCancels
  BY <1>14
     DEF Leave, CloseWorker, CloseReadsActive, CloseCancels, uiAlone, worked, flight, workerVars, composer
<1>15. CASE CloseBridge
  <2>1. bridge' \in Bridge
    BY <1>15 DEF CloseBridge, Bridge
  <2>2. mail' \in Seq(Mail)
    <3>1. bridge.ask # 0 => [type |-> "closed", ask |-> bridge.ask] \in Mail
      BY <1>n DEF Mail, Asks, Bridge
    <3>2. CASE mail' = Append(mail, [type |-> "closed", ask |-> bridge.ask]) /\ bridge.ask # 0
      BY <3>1, <3>2
    <3>. QED BY <1>15, <3>2 DEF CloseBridge, Post
  <2>. QED BY <1>15, <2>1, <2>2 DEF CloseBridge, uiAlone, flight, workerVars, composer
<1>16. CASE CloseQueue
  BY <1>16 DEF CloseQueue, uiAlone, flight, workerVars, composer
<1>17. CASE Check \/ Activate \/ Begin \/ EndRun
  BY <1>17 DEF Check, Activate, Begin, EndRun, Worker, flight, composer
<1>18. CASE Take
  <2>1. CASE queue = <<>> /\ UNCHANGED <<cmd, queue>>
    BY <1>18, <2>1 DEF Take, Worker, flight, composer
  <2>2. CASE queue # <<>> /\ queue' = Tail(queue)
    <3>1. queue' \in Seq(Command \cup {"stop"}) /\ Head(queue) \in Command \cup {"stop"}
      BY <2>2, Shifted
    <3>2. cmd' \in Command \cup {"none"}
      BY <1>18, <2>2, <3>1 DEF Take
    <3>. QED BY <1>18, <3>1, <3>2 DEF Take, Worker, flight, composer
  <2>. QED BY <1>18, <2>1, <2>2 DEF Take
<1>19. CASE PutResult
  <2>1. [type |-> "completed", cmd |-> cmd, ok |-> result = "ok"] \in Mail
    BY <1>19 DEF PutResult, Flight, Busy, Mail
  <2>. QED BY <1>19, <2>1 DEF PutResult, Post, Worker, flight, composer
<1>20. CASE Settle
  BY <1>20 DEF Settle, Worker, flight, composer
<1>21. CASE Ask
  <2>1. bridge' \in Bridge
    BY <1>21, BridgeTypes
  <2>. QED BY <1>21, <2>1 DEF Ask, Worker, flight, composer
<1>22. CASE Announce \/ Expire
  <2>1. bridge.ask \in Asks
    BY <1>n, <1>22 DEF Announce, Expire, Bridged, Bridge, Asks
  <2>2. \A s \in {"pending", "closed"} : [type |-> s, ask |-> bridge.ask] \in Mail
    BY <2>1 DEF Mail
  <2>3. mail' \in Seq(Mail)
    <3>1. /\ [type |-> "pending", ask |-> bridge.ask] \in Mail
          /\ [type |-> "closed", ask |-> bridge.ask] \in Mail
      BY <2>2
    <3>2. \/ mail' = Append(mail, [type |-> "pending", ask |-> bridge.ask])
          \/ mail' = Append(mail, [type |-> "closed", ask |-> bridge.ask])
      BY <1>22 DEF Announce, Expire, Post
    <3>3. PICK m \in Mail : mail' = Append(mail, m)
      BY <3>1, <3>2
    <3>. QED BY <3>3
  <2>4. bridge' \in Bridge
    BY <1>22, BridgeTypes DEF Announce
  <2>. QED BY <1>22, <2>3, <2>4 DEF Announce, Expire, Worker, flight, composer
<1>23. CASE Answered
  <2>1. bridge' \in Bridge
    BY <1>23, BridgeTypes
  <2>. QED BY <1>23, <2>1 DEF Answered, Worker, flight, composer
<1>24. CASE UNCHANGED vars
  BY <1>24 DEF vars, composer, flight, workerVars, worked
<1>. QED
  BY <1>1, <1>2, <1>3, <1>4, <1>5, <1>6, <1>7, <1>8, <1>9, <1>10, <1>11, <1>12, <1>13, <1>14,
     <1>15, <1>16, <1>17, <1>18, <1>19, <1>20, <1>21, <1>22, <1>23, <1>24 DEF Next, Keys, Closing, Working
-----------------------------------------------------------------------------
(* Where the texts are. *)

\* A key or a message either leaves the texts alone, or is one of these.
TextsAlone == UNCHANGED <<input, slot, draft, held, sent, shown, focus>>

Moving ==
    \/ Poll \/ \E p \in Prompt : Type(p)
    \/ TypeQuery \/ Erase \/ SubmitPrompt \/ QueueFollowUp \/ SubmitSession \/ AltUp
    \/ Answer \/ OpenSearch \/ CloseSearch \/ ApplySearch

\* The actions that move a text, and all others.
LEMMA TextsMove == [Next]_vars => Moving \/ TextsAlone
<1> SUFFICES ASSUME [Next]_vars, ~ Moving PROVE TextsAlone
  OBVIOUS
<1> USE DEF TextsAlone, flight, composer
<1>1. CASE Quit \/ CtrlC \/ CancelRun
  BY <1>1 DEF Quit, CtrlC, CancelRun, HoldBack
<1>2. CASE Leave \/ Closing
  BY <1>2 DEF Leave, Closing, CloseWorker, CloseReadsActive, CloseCancels, CloseBridge, CloseQueue, uiAlone
<1>3. CASE Working \/ Ask \/ Expire
  BY <1>3 DEF Working, Check, Take, Activate, Begin, EndRun, PutResult, Settle, Announce, Answered,
              Ask, Expire, Worker
<1>4. CASE UNCHANGED vars
  BY <1>4 DEF vars
<1>. QED BY <1>1, <1>2, <1>3, <1>4 DEF Next, Keys, Moving

\* What a message does to the texts.
LEMMA Polled ==
  ASSUME Poll
  PROVE  \/ Head(mail).type = "pending" /\ ShowQuestion(Head(mail).ask)
         \/ /\ Head(mail).type = "closed" /\ shown = Head(mail).ask
            /\ ClearInteraction /\ UNCHANGED <<slot, flight>>
         \/ Head(mail).type = "closed" /\ TextsAlone /\ UNCHANGED flight
         \/ /\ Head(mail).type = "completed"
            /\ CommandEnded(Head(mail).cmd, Head(mail).ok)
            /\ UNCHANGED <<draft, held, focus, shown>>
            /\ \/ /\ slot # "empty" /\ sent' = sent \cup ({slot} \cap Prompt)
                  /\ slot' = "empty" /\ UNCHANGED input
               \/ UNCHANGED sent /\ slot # "empty" /\ input = "empty" /\ input' = slot /\ slot' = "empty"
               \/ UNCHANGED <<sent, input, slot>>
BY DEF Poll, CloseQuestion, CommandEnded, RestoreSlot, Submit, TextsAlone, composer, flight

\* No step copies a text.
LEMMA ApartStep ==
  ASSUME SessionTypeOK, Apart, [Next]_vars
  PROVE  Apart'
<1> USE Words DEF Apart, flight
<1>1. CASE TextsAlone
  BY <1>1 DEF TextsAlone
<1>2. CASE Poll
  <2>1. CASE ShowQuestion(Head(mail).ask)
    BY <2>1 DEF ShowQuestion
  <2>2. CASE ClearInteraction /\ UNCHANGED <<slot, flight>>
    <3>1. held = {Only(held)} \/ (held = {} /\ Only(held) = "empty")
      BY OnlyOf DEF SessionTypeOK
    <3>. QED BY <2>2, <3>1 DEF ClearInteraction
  <2>. QED BY <1>1, <1>2, <2>1, <2>2, Polled
<1>3. ASSUME NEW p \in Prompt, Type(p) PROVE Apart'
  BY <1>3 DEF Type, Fresh
<1>4. CASE TypeQuery \/ Erase
  BY <1>4 DEF TypeQuery, Erase
<1>5. CASE SubmitPrompt
  BY <1>5 DEF SubmitPrompt, Submit
<1>6. CASE SubmitSession
  BY <1>6 DEF SubmitSession, Submit, composer
<1>7. CASE QueueFollowUp \/ AltUp
  BY <1>7 DEF QueueFollowUp, AltUp
<1>8. CASE Answer
  <2>1. held = {Only(held)} \/ (held = {} /\ Only(held) = "empty")
    BY OnlyOf DEF SessionTypeOK
  <2>. QED BY <1>8, <2>1 DEF Answer, ClearInteraction
<1>9. CASE OpenSearch
  BY <1>9 DEF OpenSearch
<1>10. CASE CloseSearch \/ ApplySearch
  <2>1. draft = {Only(draft)} \/ (draft = {} /\ Only(draft) = "empty")
    BY OnlyOf DEF SessionTypeOK
  <2>. QED BY <1>10, <2>1 DEF CloseSearch, ApplySearch
<1>. QED BY <1>1, <1>2, <1>3, <1>4, <1>5, <1>6, <1>7, <1>8, <1>9, <1>10, TextsMove DEF Moving

\* A question is shown, and a command comes back, only when no question is.
LEMMA NoneShown ==
  ASSUME SessionTypeOK, Flight, Bridged, Questions, Poll, Head(mail).type # "closed"
  PROVE  shown = 0
<1> SUFFICES ASSUME shown # 0 PROVE FALSE
  OBVIOUS
<1>1. /\ mail # <<>> /\ mail \in Seq(Mail) /\ ~ bridge.closed
      /\ shown \in Nat /\ bridge.asked \in Nat
  BY SessionAssumption DEF SessionTypeOK, Poll, Bridged, Bridge
<1>2. 1 \in DOMAIN mail /\ Head(mail) = mail[1] /\ Head(mail) \in Mail
  BY <1>1, Shifted
<1>3. CASE Withdrawn(shown, 0)
  <2>1. PICK j \in DOMAIN mail : /\ 0 < j /\ mail[j] = [type |-> "closed", ask |-> shown]
                                 /\ \A k \in DOMAIN mail : 0 < k /\ k < j => Shuts(k)
    BY <1>3 DEF Withdrawn
  <2>2. j = 1 \/ 1 < j
    BY <1>1, <2>1
  <2>3. mail[1].type = "closed"
    BY <1>2, <2>1, <2>2 DEF Shuts
  <2>. QED BY <1>2, <2>3
<1>4. CASE Waited(shown)
  <2>1. Head(mail).type \in {"pending", "completed"}
    BY <1>2 DEF Mail
  <2>2. bridge.ask = shown /\ bridge.asked = shown /\ Busy
    BY <1>4 DEF Waited, Bridged, Busy
  <2>3. ~ Back(1)
    BY <2>2 DEF Flight, Back
  <2>4. Opens(1)
    BY <1>2, <2>1, <2>3 DEF Opens, Back
  <2>5. shown < mail[1].ask /\ mail[1].ask <= shown /\ mail[1].ask \in Nat
    BY <1>1, <1>2, <2>2, <2>4 DEF Questions, Order, Opens, Mail, Asks
  <2>. QED BY <1>1, <2>5
<1>. QED BY <1>1, <1>3, <1>4 DEF Questions, Seen

\* No step shows a question without putting the text under it.
LEMMA UnderStep ==
  ASSUME SessionTypeOK, Under, Flight, Bridged, Questions, [Next]_vars
  PROVE  Under'
<1> USE Words DEF Under
<1>1. CASE TextsAlone
  BY <1>1 DEF TextsAlone
<1>2. CASE Poll
  <2>1. CASE ShowQuestion(Head(mail).ask) /\ Head(mail).type = "pending"
    BY <1>2, <2>1, HeadTypes DEF ShowQuestion, Asks
  <2>2. CASE ClearInteraction
    BY <2>2 DEF ClearInteraction
  <2>3. CASE Head(mail).type = "completed" /\ UNCHANGED <<held, shown>>
    BY <1>2, <2>3, NoneShown
  <2>. QED BY <1>1, <1>2, <2>1, <2>2, <2>3, Polled
<1>3. CASE \/ \E p \in Prompt : Type(p)
           \/ TypeQuery \/ Erase \/ SubmitPrompt \/ QueueFollowUp \/ SubmitSession \/ AltUp
  BY <1>3 DEF Type, TypeQuery, Erase, SubmitPrompt, QueueFollowUp, SubmitSession, AltUp, composer
<1>4. CASE Answer
  BY <1>4 DEF Answer, ClearInteraction
<1>5. CASE OpenSearch \/ CloseSearch \/ ApplySearch
  BY <1>5 DEF OpenSearch, CloseSearch, ApplySearch
<1>. QED BY <1>1, <1>2, <1>3, <1>4, <1>5, TextsMove DEF Moving

-----------------------------------------------------------------------------
(* The command in flight. *)

\* What neither sends nor ends a command keeps the one in flight.
LEMMA FlightStays ==
  ASSUME Flight, UNCHANGED <<inFlight, promptIds>>,
         Busy' => Busy /\ cmd' = cmd,
         \A i : Queued(i)' => Queued(i) /\ queue'[i] = queue[i],
         \A i : Back(i)' => Back(i) /\ mail'[i].cmd = mail[i].cmd
  PROVE  Flight'
<1>1. \A c : InFlight(c) => InFlight(c)'
  BY DEF InFlight
<1>2. \A i \in DOMAIN queue' :
          Queued(i)' => /\ InFlight(queue[i])' /\ ~ Busy'
                        /\ \A k \in DOMAIN queue' : Queued(k)' => k = i
                        /\ \A k \in DOMAIN mail' : ~ Back(k)'
  BY <1>1 DEF Flight, Queued, Back
<1>3. Busy' => cmd' \in Command /\ InFlight(cmd)' /\ \A k \in DOMAIN mail' : ~ Back(k)'
  BY <1>1 DEF Flight, Back, InFlight
<1>4. \A i \in DOMAIN mail' :
          Back(i)' => InFlight(mail[i].cmd)' /\ \A k \in DOMAIN mail' : Back(k)' => k = i
  BY <1>1 DEF Flight, Back
<1>. QED BY <1>2, <1>3, <1>4 DEF Flight, InFlight, Queued, Back

\* Nothing is in flight: nothing is queued, at work or on its way back.
LEMMA Empty ==
  ASSUME Flight, inFlight = 0
  PROVE  promptIds = {} /\ ~ Busy /\ (\A i : ~ Queued(i)) /\ (\A i : ~ Back(i))
BY DEF Flight, InFlight, Queued, Back

\* A command that is sent while nothing is in flight is the one in flight.
LEMMA Submitted ==
  ASSUME SessionTypeOK, NEW c \in Command, Submit(c, 0, {}), ~ Busy', \A i : ~ Queued(i), \A i : ~ Back(i)'
  PROVE  Flight'
<1>1. queue' = Append(queue, c) /\ inFlight' = 1 /\ promptIds' = {c} \cap Prompt
  BY DEF Submit
<1>2. /\ queue \in Seq(Command \cup {"stop"}) /\ c \in Command \cup {"stop"}
  BY DEF SessionTypeOK
<1>3. \A i \in DOMAIN queue' : Queued(i)' => i = Len(queue) + 1 /\ queue'[i] = c
  BY <1>1, <1>2, Appended DEF Queued
<1>. QED BY <1>1, <1>3 DEF Flight, InFlight

\* A message that is taken ends the command in flight, or leaves it.
LEMMA PolledFlight ==
  ASSUME SessionTypeOK, Flight, Poll
  PROVE  Flight'
<1>1. /\ mail # <<>> /\ mail \in Seq(Mail) /\ mail' = Tail(mail)
      /\ UNCHANGED <<worker, cmd>> /\ (Busy' <=> Busy)
  BY DEF SessionTypeOK, Poll, workerVars, Busy
<1>2. /\ Head(mail) = mail[1] /\ DOMAIN mail = 1..Len(mail) /\ Len(mail) \in Nat /\ Len(mail) >= 1
      /\ DOMAIN mail' = 1..Len(mail) - 1
      /\ \A i \in DOMAIN mail' : mail'[i] = mail[i + 1]
  BY <1>1, Shifted
<1>3. \A i : Back(i)' => Back(i + 1) /\ mail'[i] = mail[i + 1] /\ i \in DOMAIN mail' /\ i >= 1
  BY <1>2 DEF Back
<1>4. CASE Head(mail).type # "completed"
  <2>1. UNCHANGED <<inFlight, promptIds, queue>>
    BY <1>4 DEF Poll, ShowQuestion, CloseQuestion, flight
  <2>2. \A c : InFlight(c) => InFlight(c)'
    BY <2>1 DEF InFlight
  <2>3. \A i : Queued(i)' <=> Queued(i)
    BY <2>1 DEF Queued
  <2>4. \A i \in DOMAIN queue' :
            Queued(i)' => /\ InFlight(queue[i])' /\ ~ Busy'
                          /\ \A k \in DOMAIN queue' : Queued(k)' => k = i
                          /\ \A k \in DOMAIN mail' : ~ Back(k)'
    <3> SUFFICES ASSUME NEW i \in DOMAIN queue', Queued(i)'
                 PROVE  /\ InFlight(queue[i])' /\ ~ Busy'
                        /\ \A k \in DOMAIN queue' : Queued(k)' => k = i
                        /\ \A k \in DOMAIN mail' : ~ Back(k)'
      OBVIOUS
    <3>1. /\ InFlight(queue[i]) /\ ~ Busy /\ \A k \in DOMAIN queue : Queued(k) => k = i
          /\ \A k : ~ Back(k)
      BY <2>1, <2>3 DEF Flight, Back
    <3>2. InFlight(queue[i])'
      BY <2>1, <3>1 DEF InFlight
    <3>. QED BY <1>1, <1>3, <2>1, <2>3, <3>1, <3>2
  <2>5. Busy' => cmd' \in Command /\ InFlight(cmd)' /\ \A k \in DOMAIN mail' : ~ Back(k)'
    BY <1>1, <1>3, <2>1 DEF Flight, Back, InFlight
  <2>6. \A i \in DOMAIN mail' :
            Back(i)' => InFlight(mail[i].cmd)' /\ \A k \in DOMAIN mail' : Back(k)' => k = i
    <3> SUFFICES ASSUME NEW i \in DOMAIN mail', Back(i)'
                 PROVE  InFlight(mail[i].cmd)' /\ \A k \in DOMAIN mail' : Back(k)' => k = i
      OBVIOUS
    <3>1. i + 1 \in DOMAIN mail /\ Back(i + 1) /\ mail'[i] = mail[i + 1]
      BY <1>3 DEF Back
    <3>2. InFlight(mail[i + 1].cmd) /\ \A k \in DOMAIN mail : Back(k) => k = i + 1
      BY <3>1 DEF Flight
    <3>3. InFlight(mail[i].cmd)'
      BY <2>1, <3>1, <3>2 DEF InFlight
    <3>4. ASSUME NEW k \in DOMAIN mail', Back(k)' PROVE k = i
      <4>1. k + 1 \in DOMAIN mail /\ Back(k + 1)
        BY <3>4, <1>3 DEF Back
      <4>. QED BY <4>1, <3>2, <1>2
    <3>. QED BY <3>3, <3>4
  <2>. QED BY <2>1, <2>4, <2>5, <2>6 DEF Flight, InFlight, Queued
<1>5. CASE Head(mail).type = "completed"
  <2>0. DEFINE c == Head(mail).cmd
  <2>1. 1 \in DOMAIN mail /\ Back(1)
    BY <1>2, <1>5 DEF Back
  <2>2. inFlight = 1 /\ promptIds = {c} \cap Prompt /\ \A k \in DOMAIN mail : Back(k) => k = 1
    BY <1>2, <2>1 DEF Flight, InFlight
  <2>3. ~ Busy /\ \A i : ~ Queued(i)
    BY <2>1 DEF Flight, Queued
  <2>4. \A i : ~ Back(i)'
    BY <1>2, <1>3, <2>2 DEF Back
  <2>5. CommandEnded(c, Head(mail).ok)
    BY <1>5 DEF Poll
  <2>6. inFlight - 1 = 0 /\ promptIds \ {c} = {}
    BY <2>2
  <2>7. CASE slot # "empty" /\ Submit(slot, 0, {})
    <3>1. slot \in Command
      BY <2>7 DEF SessionTypeOK, Command
    <3>. QED BY <1>1, <2>3, <2>4, <2>7, <3>1, Submitted
  <2>8. CASE inFlight' = 0 /\ promptIds' = {} /\ UNCHANGED queue
    <3>1. \A i : ~ Queued(i)'
      BY <2>3, <2>8 DEF Queued
    <3>. QED BY <1>1, <2>3, <2>4, <2>8, <3>1 DEF Flight, InFlight
  <2>. QED BY <2>5, <2>6, <2>7, <2>8 DEF CommandEnded
<1>. QED BY <1>4, <1>5

\* No step has two commands in flight.
LEMMA FlightStep ==
  ASSUME SessionTypeOK, Flight, Bridged, [Next]_vars
  PROVE  Flight'
<1>0. queue \in Seq(Command \cup {"stop"}) /\ mail \in Seq(Mail)
  BY DEF SessionTypeOK
<1>1. ASSUME UNCHANGED <<inFlight, promptIds, queue, mail>>, Busy' => Busy /\ cmd' = cmd
      PROVE  Flight'
  BY <1>1, FlightStays DEF Queued, Back
<1>2. ASSUME UNCHANGED <<inFlight, promptIds, queue, worker, cmd>>,
             NEW m \in Mail, m.type # "completed", mail' = Append(mail, m)
      PROVE  Flight'
  BY <1>0, <1>2, FlightStays, Appended DEF Queued, Back, Busy
<1>3. CASE SubmitPrompt \/ SubmitSession
  <2>1. /\ inFlight = 0 /\ UNCHANGED <<worker, mail>>
        /\ \E c \in Command : Submit(c, 0, promptIds)
    BY <1>3 DEF SubmitPrompt, SubmitSession, Key, workerVars, Command
  <2>2. promptIds = {} /\ ~ Busy' /\ (\A i : ~ Queued(i)) /\ (\A i : ~ Back(i)')
    BY <2>1, Empty DEF Busy, Back
  <2>. QED BY <2>1, <2>2, Submitted
<1>4. CASE \/ \E p \in Prompt : Type(p)
           \/ TypeQuery \/ Erase \/ QueueFollowUp \/ AltUp
           \/ Answer \/ OpenSearch \/ CloseSearch \/ ApplySearch \/ Quit \/ CtrlC
  BY <1>4, <1>1 DEF Type, TypeQuery, Erase, QueueFollowUp, AltUp, Answer, OpenSearch, CloseSearch,
                    ApplySearch, Quit, CtrlC, HoldBack, Key, flight, workerVars, Busy
<1>5. CASE CancelRun \/ Leave \/ CloseWorker \/ CloseReadsActive \/ CloseCancels
  BY <1>5, <1>1 DEF CancelRun, HoldBack, Leave, CloseWorker, CloseReadsActive, CloseCancels, uiAlone,
                    worked, flight, workerVars, Busy
<1>6. CASE CloseBridge
  <2>1. UNCHANGED <<inFlight, promptIds, queue, worker, cmd>>
    BY <1>6 DEF CloseBridge, uiAlone, flight, workerVars
  <2>2. CASE UNCHANGED mail
    BY <2>1, <2>2, <1>1 DEF Busy
  <2>3. CASE bridge.ask # 0 /\ mail' = Append(mail, [type |-> "closed", ask |-> bridge.ask])
    <3>1. [type |-> "closed", ask |-> bridge.ask] \in Mail
      BY <2>3, SessionAssumption DEF SessionTypeOK, Bridge, Mail, Asks
    <3>. QED BY <2>1, <2>3, <3>1, <1>2
  <2>. QED BY <1>6, <2>2, <2>3 DEF CloseBridge, Post
<1>7. CASE CloseQueue
  <2>1. queue' = Append(queue, "stop") /\ UNCHANGED <<inFlight, promptIds, mail, worker, cmd>>
    BY <1>7 DEF CloseQueue, uiAlone, flight, workerVars
  <2>2. \A i : Queued(i)' => Queued(i) /\ queue'[i] = queue[i]
    BY <1>0, <2>1, Appended DEF Queued
  <2>. QED BY <2>1, <2>2, FlightStays DEF Back, Busy
<1>8. CASE Check \/ Activate \/ Begin \/ EndRun \/ Settle \/ Ask \/ Answered
  BY <1>8, <1>1 DEF Check, Activate, Begin, EndRun, Settle, Ask, Answered, Worker, flight, Busy
<1>9. CASE Take
  <2>1. UNCHANGED <<inFlight, promptIds, mail>> /\ ~ Busy
    BY <1>9 DEF Take, Worker, flight, Busy
  <2>2. CASE UNCHANGED <<cmd, queue>> /\ worker' \in {"idle", "stopped"}
    BY <2>1, <2>2, <1>1 DEF Busy
  <2>3. CASE queue # <<>> /\ queue' = Tail(queue)
    <3>1. /\ Head(queue) = queue[1] /\ DOMAIN queue = 1..Len(queue) /\ Len(queue) \in Nat /\ Len(queue) >= 1
          /\ DOMAIN queue' = 1..Len(queue) - 1
          /\ Head(queue) \in Command \cup {"stop"}
          /\ \A i \in DOMAIN queue' : queue'[i] = queue[i + 1]
      BY <1>0, <2>3, Shifted
    <3>2. \A i : Queued(i)' => i + 1 \in DOMAIN queue /\ Queued(i + 1) /\ queue'[i] = queue[i + 1]
      BY <3>1 DEF Queued
    <3>3. CASE Head(queue) = "stop"
      <4>1. ~ Busy' /\ UNCHANGED cmd
        BY <1>9, <2>3, <3>3 DEF Take, Busy
      <4>2. \A i \in DOMAIN queue' :
                Queued(i)' => /\ InFlight(queue[i])'
                              /\ \A k \in DOMAIN queue' : Queued(k)' => k = i
                              /\ \A k \in DOMAIN mail' : ~ Back(k)'
        <5> SUFFICES ASSUME NEW i \in DOMAIN queue', Queued(i)'
                     PROVE  /\ InFlight(queue[i])'
                            /\ \A k \in DOMAIN queue' : Queued(k)' => k = i
                            /\ \A k \in DOMAIN mail' : ~ Back(k)'
          OBVIOUS
        <5>1. /\ InFlight(queue[i + 1])
              /\ \A k \in DOMAIN queue : Queued(k) => k = i + 1
              /\ \A k \in DOMAIN mail : ~ Back(k)
          BY <3>2 DEF Flight
        <5>2. ASSUME NEW k \in DOMAIN queue', Queued(k)' PROVE k = i
          BY <5>1, <5>2, <3>1, <3>2
        <5>. QED BY <5>1, <5>2, <2>1, <3>2 DEF InFlight, Back
      <4>. QED BY <4>1, <4>2, <2>1 DEF Flight, InFlight, Back
    <3>4. CASE Head(queue) # "stop"
      <4>1. worker' = "taken" /\ cmd' = Head(queue)
        BY <1>9, <2>3, <3>4 DEF Take
      <4>2. 1 \in DOMAIN queue /\ Queued(1)
        BY <3>1, <3>4 DEF Queued
      <4>3. /\ InFlight(queue[1]) /\ \A k \in DOMAIN queue : Queued(k) => k = 1
            /\ \A k : ~ Back(k)
        BY <4>2 DEF Flight, Back
      <4>4. \A i : ~ Queued(i)'
        BY <3>1, <3>2, <4>3 DEF Queued
      <4>5. \A i : ~ Back(i)'
        BY <2>1, <4>3 DEF Back
      <4>. QED BY <2>1, <3>1, <3>4, <4>1, <4>3, <4>4, <4>5 DEF Flight, InFlight
    <3>. QED BY <3>3, <3>4
  <2>. QED BY <1>9, <2>2, <2>3 DEF Take
<1>10. CASE PutResult
  <2>1. /\ UNCHANGED <<inFlight, promptIds, queue>> /\ Busy /\ ~ Busy'
        /\ mail' = Append(mail, [type |-> "completed", cmd |-> cmd, ok |-> result = "ok"])
    BY <1>10 DEF PutResult, Post, Worker, flight, Busy
  <2>2. InFlight(cmd) /\ cmd \in Command /\ (\A i : ~ Queued(i)) /\ (\A i : ~ Back(i))
    BY <2>1 DEF Flight, Queued, Back
  <2>3. [type |-> "completed", cmd |-> cmd, ok |-> result = "ok"] \in Mail
    BY <2>2 DEF Mail
  <2>4. PICK m \in Mail : m.cmd = cmd /\ mail' = Append(mail, m)
    BY <2>1, <2>3
  <2>5. \A i : Back(i)' => i = Len(mail) + 1 /\ mail'[i].cmd = cmd
    BY <1>0, <2>2, <2>4, Appended DEF Back
  <2>6. \A i : ~ Queued(i)'
    BY <2>1, <2>2 DEF Queued
  <2>. QED BY <2>1, <2>2, <2>5, <2>6 DEF Flight, InFlight
<1>11. CASE Announce \/ Expire
  <2>1. UNCHANGED <<inFlight, promptIds, queue, cmd>> /\ Busy
    BY <1>11 DEF Announce, Expire, Worker, flight, Busy
  <2>2. bridge.ask \in Asks
    BY <1>11, SessionAssumption DEF Announce, Expire, Bridged, SessionTypeOK, Bridge, Asks
  <2>3. PICK m \in Mail : m.type # "completed" /\ mail' = Append(mail, m)
    <3>1. /\ [type |-> "pending", ask |-> bridge.ask] \in Mail
          /\ [type |-> "closed", ask |-> bridge.ask] \in Mail
      BY <2>2 DEF Mail
    <3>. QED BY <1>11, <3>1 DEF Announce, Expire, Post
  <2>4. \A i : Back(i)' => Back(i) /\ mail'[i].cmd = mail[i].cmd
    BY <1>0, <2>3, Appended DEF Back
  <2>. QED BY <2>1, <2>4, FlightStays DEF Queued
<1>12. CASE UNCHANGED vars
  BY <1>12, <1>1 DEF vars, flight, workerVars, worked, Busy
<1>. QED
  BY <1>3, <1>4, <1>5, <1>6, <1>7, <1>8, <1>9, <1>10, <1>11, <1>12, PolledFlight
     DEF Next, Keys, Closing, Working

-----------------------------------------------------------------------------
(* Ctrl-C, and the bridge. *)

\* No step forgets a Ctrl-C for the prompt in flight.
LEMMA HeldBackStep ==
  ASSUME SessionTypeOK, Apart, Flight, HeldBack, [Next]_vars
  PROVE  HeldBack'
<1>1. ASSUME UNCHANGED <<restoring, promptIds, aimed>>, ui' = "ready" => ui = "ready" PROVE HeldBack'
  BY <1>1 DEF HeldBack
<1>2. ASSUME UNCHANGED <<restoring, aimed>>, NEW c, NEW n, c \notin sent, Submit(c, n, {}) PROVE HeldBack'
  BY <1>2 DEF HeldBack, Submit, SessionTypeOK
<1>3. CASE SubmitPrompt \/ SubmitSession
  <2>1. promptIds = {} /\ UNCHANGED <<restoring, aimed>>
    BY <1>3 DEF SubmitPrompt, SubmitSession, Flight
  <2>2. input \in Prompt => input \notin sent
    BY DEF Apart
  <2>3. "session" \notin sent
    BY Words DEF SessionTypeOK
  <2>. QED BY <1>2, <1>3, <2>1, <2>2, <2>3 DEF SubmitPrompt, SubmitSession
<1>4. CASE \/ \E p \in Prompt : Type(p)
           \/ TypeQuery \/ Erase \/ QueueFollowUp \/ AltUp
           \/ Answer \/ OpenSearch \/ CloseSearch \/ ApplySearch \/ Quit
  BY <1>4, <1>1 DEF Type, TypeQuery, Erase, QueueFollowUp, AltUp, Answer, OpenSearch, CloseSearch,
                    ApplySearch, Quit, flight
<1>5. CASE CtrlC \/ CancelRun
  BY <1>5 DEF CtrlC, CancelRun, HoldBack, HeldBack, flight
<1>6. CASE Leave \/ Closing
  BY <1>6, <1>1 DEF Leave, Closing, CloseWorker, CloseReadsActive, CloseCancels, CloseBridge, CloseQueue,
                    uiAlone, flight
<1>7. CASE Working \/ Ask \/ Expire
  BY <1>7, <1>1 DEF Working, Check, Take, Activate, Begin, EndRun, PutResult, Settle, Announce, Answered,
                    Ask, Expire, Worker, flight
<1>8. CASE Poll
  <2>1. UNCHANGED <<ui, aimed>>
    BY <1>8 DEF Poll
  <2>2. CASE Head(mail).type # "completed"
    BY <1>8, <2>1, <2>2, <1>1 DEF Poll, ShowQuestion, CloseQuestion, flight
  <2>3. CASE Head(mail).type = "completed"
    <3>0. DEFINE c == Head(mail).cmd
    <3>1. CommandEnded(c, Head(mail).ok)
      BY <1>8, <2>3 DEF Poll
    <3>2. mail \in Seq(Mail) /\ mail # <<>>
      BY <1>8 DEF Poll, SessionTypeOK
    <3>3. 1 \in DOMAIN mail /\ Back(1) /\ mail[1] = Head(mail)
      BY <2>3, <3>2, Shifted DEF Back
    <3>4. promptIds \ {c} = {}
      BY <3>3 DEF Flight, InFlight
    <3>5. CASE UNCHANGED restoring /\ slot # "empty" /\ Submit(slot, inFlight - 1, {})
      <4>1. slot \notin sent
        BY <3>5 DEF Apart, SessionTypeOK
      <4>. QED BY <2>1, <3>5, <4>1, <1>2
    <3>6. CASE promptIds' = {}
      BY <3>6 DEF HeldBack
    <3>. QED BY <3>1, <3>4, <3>5, <3>6 DEF CommandEnded
  <2>. QED BY <2>2, <2>3
<1>9. CASE UNCHANGED vars
  BY <1>9, <1>1 DEF vars, flight
<1>. QED
  BY <1>3, <1>4, <1>5, <1>6, <1>7, <1>8, <1>9 DEF Next, Keys

\* No step asks while another question is at the bridge.
LEMMA BridgedStep ==
  ASSUME SessionTypeOK, Bridged, Questions, [Next]_vars
  PROVE  Bridged'
<1>1. ASSUME UNCHANGED bridge, bridge.closed => ui' \in {"close_queue", "gone"},
             worker' \in {"announce", "wait"} <=> worker \in {"announce", "wait"},
             worker' = "announce" => worker = "announce"
      PROVE  Bridged'
  BY <1>1 DEF Bridged
<1>2. CASE Poll
  BY <1>1, <1>2 DEF Poll, workerVars, Bridged
<1>3. CASE \/ \E p \in Prompt : Type(p)
           \/ TypeQuery \/ Erase \/ SubmitPrompt \/ QueueFollowUp \/ SubmitSession \/ AltUp
           \/ OpenSearch \/ CloseSearch \/ ApplySearch \/ Quit \/ CtrlC
  BY <1>1, <1>3 DEF Type, TypeQuery, Erase, SubmitPrompt, QueueFollowUp, SubmitSession, AltUp, OpenSearch,
                    CloseSearch, ApplySearch, Quit, CtrlC, Key, workerVars, Bridged
<1>4. CASE Answer
  <2>1. /\ UNCHANGED <<ui, worker>> /\ ui = "ready" /\ shown # 0
        /\ bridge' = IF bridge.ask = shown THEN [bridge EXCEPT !.done = TRUE] ELSE bridge
    BY <1>4 DEF Answer, Key, Resolve, workerVars
  <2>2. ~ bridge.closed
    BY <2>1 DEF Bridged
  <2>3. worker = "announce" => shown # bridge.ask
    BY <2>2, SessionAssumption DEF Questions, Order, Bridged, SessionTypeOK, Bridge
  <2>. QED BY <1>1, <2>1, <2>2, <2>3 DEF Bridged, SessionTypeOK, Bridge
<1>5. CASE CancelRun \/ Leave \/ CloseWorker \/ CloseReadsActive \/ CloseCancels \/ CloseQueue
  BY <1>1, <1>5 DEF CancelRun, Leave, CloseWorker, CloseReadsActive, CloseCancels, CloseQueue, uiAlone,
                    worked, workerVars, Bridged
<1>6. CASE CloseBridge
  <2>1. /\ UNCHANGED worker /\ ui' = "close_queue"
        /\ bridge' = [bridge EXCEPT !.closed = TRUE,
                                    !.done = bridge.done \/ (bridge.ask # 0 /\ ~ bridge.done)]
    BY <1>6 DEF CloseBridge, uiAlone, workerVars
  <2>2. bridge'.done = (bridge.done \/ (bridge.ask # 0 /\ ~ bridge.done)) /\ bridge'.closed
        /\ bridge'.ask = bridge.ask /\ bridge'.asked = bridge.asked
    BY <2>1 DEF SessionTypeOK, Bridge
  <2>. QED BY <2>1, <2>2 DEF Bridged
<1>7. CASE Check \/ Take \/ Activate \/ Begin \/ EndRun \/ PutResult \/ Settle
  BY <1>1, <1>7 DEF Check, Take, Activate, Begin, EndRun, PutResult, Settle, Worker, Bridged
<1>8. CASE Announce
  BY <1>8 DEF Announce, Worker, Bridged
<1>9. CASE Answered
  BY <1>9 DEF Answered, Worker, Bridged, SessionTypeOK, Bridge
<1>10. CASE Expire
  BY <1>10 DEF Expire, Worker, Bridged, SessionTypeOK, Bridge
<1>11. CASE Ask
  BY <1>11, SessionAssumption DEF Ask, Worker, Bridged, SessionTypeOK, Bridge
<1>12. CASE UNCHANGED vars
  BY <1>1, <1>12 DEF vars, workerVars, worked, Bridged
<1>. QED
  BY <1>2, <1>3, <1>4, <1>5, <1>6, <1>7, <1>8, <1>9, <1>10, <1>11, <1>12 DEF Next, Keys, Closing, Working

-----------------------------------------------------------------------------
(* The questions. *)

\* The numbers of the questions, and the places of the messages.
LEMMA Numbers ==
  ASSUME SessionTypeOK
  PROVE  /\ shown \in Nat /\ bridge.asked \in Nat /\ bridge.ask \in Nat
         /\ mail \in Seq(Mail) /\ DOMAIN mail = 1..Len(mail) /\ Len(mail) \in Nat
         /\ \A i \in DOMAIN mail : Opens(i) \/ Shuts(i) \/ Back(i)
         /\ \A i \in DOMAIN mail : Opens(i) \/ Shuts(i) => mail[i].ask \in Nat \ {0}
<1>1. mail \in Seq(Mail) /\ DOMAIN mail = 1..Len(mail) /\ Len(mail) \in Nat
  BY DEF SessionTypeOK
<1>2. \A i \in DOMAIN mail : mail[i] \in Mail
  BY <1>1
<1>3. \A m \in Mail : /\ m.type \in {"pending", "closed", "completed"}
                      /\ m.type \in {"pending", "closed"} => m.ask \in Nat \ {0}
  BY SessionAssumption DEF Mail, Asks
<1>4. shown \in Nat /\ bridge.asked \in Nat /\ bridge.ask \in Nat
  BY SessionAssumption DEF SessionTypeOK, Bridge
<1>. QED BY <1>1, <1>2, <1>3, <1>4 DEF Opens, Shuts, Back

\* A message that is added changes nothing of those before it.
LEMMA AddedMail ==
  ASSUME SessionTypeOK, NEW m \in Mail, mail' = Append(mail, m)
  PROVE  /\ DOMAIN mail' = 1..Len(mail) + 1 /\ mail'[Len(mail) + 1] = m
         /\ \A i \in DOMAIN mail : /\ i \in DOMAIN mail' /\ mail'[i] = mail[i]
                                   /\ Opens(i)' = Opens(i) /\ Shuts(i)' = Shuts(i)
         /\ \A a, i : Withdrawn(a, i) => Withdrawn(a, i)'
<1>1. /\ DOMAIN mail' = 1..Len(mail) + 1 /\ mail'[Len(mail) + 1] = m
      /\ \A i \in DOMAIN mail : i \in DOMAIN mail' /\ mail'[i] = mail[i]
  BY Appended DEF SessionTypeOK
<1>2. \A i \in DOMAIN mail : Opens(i)' = Opens(i) /\ Shuts(i)' = Shuts(i)
  BY <1>1 DEF Opens, Shuts
<1>3. ASSUME NEW a, NEW i, Withdrawn(a, i) PROVE Withdrawn(a, i)'
  <2>1. PICK j \in DOMAIN mail : /\ i < j /\ mail[j] = [type |-> "closed", ask |-> a]
                                 /\ \A k \in DOMAIN mail : i < k /\ k < j => Shuts(k)
    BY <1>3 DEF Withdrawn
  <2>2. j \in DOMAIN mail' /\ mail'[j] = [type |-> "closed", ask |-> a]
    BY <1>1, <2>1
  <2>3. ASSUME NEW k \in DOMAIN mail', i < k, k < j PROVE Shuts(k)'
    <3>1. k \in DOMAIN mail
      BY <1>1, <2>3, Numbers
    <3>. QED BY <1>2, <2>1, <2>3, <3>1
  <2>. QED BY <2>1, <2>2, <2>3 DEF Withdrawn
<1>. QED BY <1>1, <1>2, <1>3

\* When the first message is taken, the others move up.
LEMMA TakenMail ==
  ASSUME SessionTypeOK, mail # <<>>, mail' = Tail(mail)
  PROVE  /\ 1 \in DOMAIN mail /\ mail[1] = Head(mail)
         /\ \A i \in DOMAIN mail' : /\ i \in Nat \ {0} /\ i + 1 \in DOMAIN mail /\ mail'[i] = mail[i + 1]
                                    /\ Opens(i)' = Opens(i + 1) /\ Shuts(i)' = Shuts(i + 1)
         /\ \A i \in DOMAIN mail : i # 1 => i - 1 \in DOMAIN mail'
BY Shifted DEF SessionTypeOK, Opens, Shuts

\* A question that was withdrawn later is withdrawn when the messages move up.
LEMMA MovedUp ==
  ASSUME SessionTypeOK, mail # <<>>, mail' = Tail(mail), NEW a, NEW i \in Nat,
         Withdrawn(a, i + 1) \/ (i = 0 /\ Withdrawn(a, 0) /\ mail[1] # [type |-> "closed", ask |-> a])
  PROVE  Withdrawn(a, i)'
<1>1. PICK j \in DOMAIN mail : /\ i + 1 < j /\ mail[j] = [type |-> "closed", ask |-> a]
                               /\ \A k \in DOMAIN mail : i + 1 < k /\ k < j => Shuts(k)
  <2>1. CASE Withdrawn(a, i + 1)
    BY <2>1 DEF Withdrawn
  <2>2. CASE i = 0 /\ Withdrawn(a, 0) /\ mail[1] # [type |-> "closed", ask |-> a]
    <3>1. PICK j \in DOMAIN mail : /\ 0 < j /\ mail[j] = [type |-> "closed", ask |-> a]
                                   /\ \A k \in DOMAIN mail : 0 < k /\ k < j => Shuts(k)
      BY <2>2 DEF Withdrawn
    <3>2. j # 1
      BY <2>2, <3>1
    <3>3. j \in Nat /\ 1 < j
      BY <3>1, <3>2, Numbers
    <3>4. \A k \in DOMAIN mail : 1 < k /\ k < j => Shuts(k)
      BY <3>1, Numbers
    <3>. QED BY <2>2, <3>1, <3>3, <3>4
  <2>. QED BY <2>1, <2>2
<1>2. j - 1 \in DOMAIN mail' /\ i < j - 1 /\ mail'[j - 1] = mail[j]
  <2>1. j \in Nat /\ j # 1
    BY <1>1, Numbers
  <2>2. j - 1 \in DOMAIN mail'
    BY <2>1, TakenMail
  <2>3. mail'[j - 1] = mail[(j - 1) + 1] /\ (j - 1) + 1 = j
    BY <2>1, <2>2, TakenMail
  <2>. QED BY <1>1, <2>1, <2>2, <2>3
<1>3. ASSUME NEW k \in DOMAIN mail', i < k, k < j - 1 PROVE Shuts(k)'
  <2>1. k \in Nat /\ k + 1 \in DOMAIN mail /\ Shuts(k)' = Shuts(k + 1) /\ j \in Nat
    BY TakenMail, <1>1, Numbers
  <2>. QED BY <1>1, <1>3, <2>1
<1>. QED BY <1>1, <1>2, <1>3 DEF Withdrawn

\* A step that touches neither messages nor questions.
LEMMA QuestionsStay ==
  ASSUME Questions, UNCHANGED <<mail, shown, bridge>>,
         worker' = "wait" <=> worker = "wait", worker' = "announce" => worker = "announce"
  PROVE  Questions'
BY DEF Questions, Order, Seen, Opens, Shuts, Waited, Withdrawn

\* A question that is asked is new.
LEMMA AskSeen ==
  ASSUME SessionTypeOK, Questions, Ask
  PROVE  Questions'
<1>1. /\ UNCHANGED <<mail, shown>> /\ worker = "run" /\ worker' = "announce"
      /\ ~ bridge.closed /\ bridge'.asked = bridge.asked + 1
  BY DEF Ask, Worker, composer, SessionTypeOK, Bridge
<1>2. Order'
  BY <1>1, Numbers DEF Questions, Order, Opens, Shuts
<1>3. Seen'
  BY <1>1 DEF Questions, Seen, Opens, Shuts, Waited, Withdrawn
<1>. QED BY <1>2, <1>3 DEF Questions

\* A question that is announced is the last of the messages.
LEMMA AnnounceSeen ==
  ASSUME SessionTypeOK, Bridged, Questions, Announce
  PROVE  Questions'
<1> SUFFICES ASSUME ~ bridge.closed PROVE Order' /\ Seen'
  BY DEF Announce, Questions
<1>1. /\ UNCHANGED <<bridge, shown>> /\ worker = "announce" /\ worker' = "wait"
      /\ mail' = Append(mail, [type |-> "pending", ask |-> bridge.ask])
      /\ ~ bridge.done /\ bridge.ask = bridge.asked /\ bridge.ask # 0
  BY DEF Announce, Post, Worker, composer, Bridged
<1>2. PICK m \in Mail : m.type = "pending" /\ m.ask = bridge.asked /\ mail' = Append(mail, m)
  <2>1. [type |-> "pending", ask |-> bridge.ask] \in Mail
    BY <1>1, SessionAssumption DEF SessionTypeOK, Bridge, Mail, Asks
  <2>. QED BY <1>1, <2>1
<1>3. /\ DOMAIN mail' = 1..Len(mail) + 1 /\ mail'[Len(mail) + 1] = m
      /\ \A i \in DOMAIN mail : /\ i \in DOMAIN mail' /\ mail'[i] = mail[i]
                                /\ Opens(i)' = Opens(i) /\ Shuts(i)' = Shuts(i)
      /\ \A a, i : Withdrawn(a, i) => Withdrawn(a, i)'
  BY <1>2, AddedMail
<1>4. \A i \in DOMAIN mail' : i \in DOMAIN mail \/ i = Len(mail) + 1
  BY <1>3, Numbers
<1>n. PICK n \in Nat : n = Len(mail) + 1
  BY Numbers
<1>5. Opens(n)' /\ ~ Shuts(n)' /\ n \in DOMAIN mail' /\ mail'[n] = m
  BY <1>n, <1>2, <1>3, Numbers DEF Opens, Shuts
<1>6. Order'
  <2>1. /\ shown' <= bridge'.asked
        /\ \A i \in DOMAIN mail' : Opens(i)' => shown' < mail'[i].ask /\ mail'[i].ask <= bridge'.asked
        /\ \A i \in DOMAIN mail' : Shuts(i)' => mail'[i].ask < bridge'.asked
    BY <1>1, <1>2, <1>n, <1>3, <1>4, <1>5, Numbers DEF Questions, Order
  <2>2. \A i, k \in DOMAIN mail' : Opens(i)' /\ Opens(k)' /\ i < k => mail'[i].ask < mail'[k].ask
    <3> SUFFICES ASSUME NEW i \in DOMAIN mail', NEW k \in DOMAIN mail', Opens(i)', Opens(k)', i < k
                 PROVE  mail'[i].ask < mail'[k].ask
      OBVIOUS
    <3>1. i \in DOMAIN mail /\ Opens(i) /\ mail'[i] = mail[i]
      BY <1>3, <1>4, Numbers
    <3>2. CASE k = n
      BY <1>1, <1>2, <1>5, <3>1, <3>2 DEF Questions, Order
    <3>3. CASE k \in DOMAIN mail
      BY <1>3, <3>1, <3>3 DEF Questions, Order
    <3>. QED BY <1>4, <1>n, <3>2, <3>3
  <2>3. \A i \in DOMAIN mail' : Shuts(i)' => mail'[i].ask <= bridge'.asked
    BY <1>1, <1>3, <1>4, <1>5, <1>n, <2>1, Numbers DEF Questions, Order
  <2>. QED BY <1>1, <2>1, <2>2, <2>3 DEF Order
<1>7. \A i \in DOMAIN mail' : Opens(i)' => Waited(mail[i].ask)' \/ Withdrawn(mail[i].ask, i)'
  <2> SUFFICES ASSUME NEW i \in DOMAIN mail', Opens(i)'
               PROVE  Waited(mail[i].ask)' \/ Withdrawn(mail[i].ask, i)'
    OBVIOUS
  <2>1. CASE i = Len(mail) + 1
    BY <1>1, <1>2, <1>3, <2>1 DEF Waited
  <2>2. CASE i \in DOMAIN mail
    <3>1. Opens(i) /\ mail'[i] = mail[i] /\ ~ Waited(mail[i].ask)
      BY <1>1, <1>3, <2>2 DEF Waited
    <3>2. Withdrawn(mail[i].ask, i)
      BY <2>2, <3>1 DEF Questions, Seen
    <3>3. PICK a : a = mail[i].ask
      OBVIOUS
    <3>4. Withdrawn(a, i)'
      BY <1>3, <3>2, <3>3
    <3>. QED BY <3>1, <3>3, <3>4
  <2>. QED BY <1>4, <2>1, <2>2
<1>8. shown' # 0 => Withdrawn(shown, 0)'
  BY <1>1, <1>3 DEF Questions, Seen, Waited
<1>9. \E i \in DOMAIN mail' : Opens(i)' /\ mail'[i].ask = bridge'.ask
  BY <1>1, <1>2, <1>5
<1>. QED BY <1>6, <1>7, <1>8, <1>9 DEF Seen

\* A question that nobody answered in time is withdrawn.
LEMMA ExpireSeen ==
  ASSUME SessionTypeOK, Flight, Bridged, Questions, Expire
  PROVE  Questions'
<1> SUFFICES ASSUME ~ bridge.closed PROVE Order' /\ Seen'
  BY DEF Expire, Questions, SessionTypeOK, Bridge
<1>1. /\ UNCHANGED shown /\ worker = "wait" /\ ~ bridge.done /\ worker' = "run"
      /\ bridge' = [bridge EXCEPT !.ask = 0]
      /\ mail' = Append(mail, [type |-> "closed", ask |-> bridge.ask])
      /\ bridge.ask = bridge.asked /\ bridge.ask # 0
  BY DEF Expire, Post, Worker, composer, Bridged
<1>2. PICK m \in Mail : m = [type |-> "closed", ask |-> bridge.ask] /\ mail' = Append(mail, m)
  <2>1. [type |-> "closed", ask |-> bridge.ask] \in Mail
    BY <1>1, SessionAssumption DEF SessionTypeOK, Bridge, Mail, Asks
  <2>. QED BY <1>1, <2>1
<1>3. /\ DOMAIN mail' = 1..Len(mail) + 1 /\ mail'[Len(mail) + 1] = m
      /\ \A i \in DOMAIN mail : /\ i \in DOMAIN mail' /\ mail'[i] = mail[i]
                                /\ Opens(i)' = Opens(i) /\ Shuts(i)' = Shuts(i)
      /\ \A a, i : Withdrawn(a, i) => Withdrawn(a, i)'
  BY <1>2, AddedMail
<1>n. PICK n \in Nat : n = Len(mail) + 1
  BY Numbers
<1>4. /\ \A i \in DOMAIN mail' : i \in DOMAIN mail \/ i = n
      /\ \A i \in DOMAIN mail : i < n
  BY <1>3, <1>n, Numbers
<1>5. ~ Opens(n)' /\ n \in DOMAIN mail' /\ mail'[n] = m /\ bridge'.asked = bridge.asked
  BY <1>n, <1>1, <1>2, <1>3, Numbers DEF Opens, SessionTypeOK, Bridge
<1>6. Order'
  <2>1. /\ shown' <= bridge'.asked
        /\ \A i \in DOMAIN mail' : Opens(i)' => shown' < mail'[i].ask /\ mail'[i].ask <= bridge'.asked
    BY <1>1, <1>3, <1>4, <1>5 DEF Questions, Order
  <2>2. \A i, k \in DOMAIN mail' : Opens(i)' /\ Opens(k)' /\ i < k => mail'[i].ask < mail'[k].ask
    BY <1>3, <1>4, <1>5 DEF Questions, Order
  <2>3. \A i \in DOMAIN mail' : Shuts(i)' => mail'[i].ask <= bridge'.asked
    BY <1>1, <1>2, <1>3, <1>4, <1>5, Numbers DEF Questions, Order
  <2>. QED BY <1>1, <2>1, <2>2, <2>3 DEF Order
\* The question that ran out of time is the last: only withdrawals follow it.
<1>7. ASSUME NEW i \in Nat, \A k \in DOMAIN mail : i < k => Shuts(k), i < n
      PROVE  Withdrawn(bridge.asked, i)'
  <2>1. PICK a : a = bridge.asked
    OBVIOUS
  <2>2. n \in DOMAIN mail' /\ i < n /\ mail'[n] = [type |-> "closed", ask |-> a]
    BY <1>1, <1>2, <1>5, <1>7, <2>1
  <2>3. ASSUME NEW k \in DOMAIN mail', i < k, k < n PROVE Shuts(k)'
    BY <1>3, <1>4, <1>7, <2>3
  <2>4. Withdrawn(a, i)'
    BY <2>2, <2>3 DEF Withdrawn
  <2>5. bridge'.asked = a
    BY <1>5, <2>1
  <2>. QED BY <2>4, <2>5
<1>8. \A k \in DOMAIN mail : ~ Back(k)
  BY <1>1 DEF Flight, Busy
<1>9. shown' # 0 => Withdrawn(shown, 0)'
  <2> SUFFICES ASSUME shown # 0, ~ Withdrawn(shown, 0) PROVE Withdrawn(shown, 0)'
    BY <1>1, <1>3
  <2>1. shown = bridge.asked
    BY <1>1 DEF Questions, Seen, Waited
  <2>2. \A k \in DOMAIN mail : ~ Opens(k)
    BY <2>1, Numbers DEF Questions, Order
  <2>3. Withdrawn(bridge.asked, 0)'
    BY <1>7, <1>8, <1>n, <2>2, Numbers
  <2>4. PICK a : a = shown
    OBVIOUS
  <2>. QED BY <1>1, <1>5, <2>1, <2>3
<1>10. ASSUME NEW i \in DOMAIN mail', Opens(i)' PROVE Withdrawn(mail[i].ask, i)'
  <2>1. i \in DOMAIN mail /\ Opens(i) /\ mail'[i] = mail[i] /\ i \in Nat /\ i < n
    BY <1>3, <1>4, <1>5, <1>10, Numbers
  <2>2. PICK a : a = mail[i].ask
    OBVIOUS
  <2>3. CASE Withdrawn(a, i)
    <3>1. Withdrawn(a, i)'
      BY <1>3, <2>3
    <3>. QED BY <2>1, <2>2, <3>1
  <2>4. CASE ~ Withdrawn(a, i)
    <3>1. a = bridge.asked
      BY <1>1, <2>1, <2>2, <2>4 DEF Questions, Seen, Waited
    <3>2. ASSUME NEW k \in DOMAIN mail, i < k PROVE ~ Opens(k)
      <4> SUFFICES ASSUME Opens(k) PROVE FALSE
        OBVIOUS
      <4>1. mail[i].ask < mail[k].ask /\ mail[k].ask <= bridge.asked
        BY <2>1, <3>2 DEF Questions, Order
      <4>2. mail[k].ask \in Nat /\ bridge.asked \in Nat
        BY Numbers
      <4>. QED BY <2>2, <3>1, <4>1, <4>2
    <3>3. Withdrawn(bridge.asked, i)'
      BY <1>7, <1>8, <2>1, <3>2, Numbers
    <3>. QED BY <1>5, <2>1, <2>2, <3>1, <3>3
  <2>. QED BY <2>3, <2>4
<1>. QED BY <1>1, <1>6, <1>9, <1>10 DEF Seen

\* A command that ends says so after all its questions.
LEMMA PutResultSeen ==
  ASSUME SessionTypeOK, Flight, Questions, PutResult
  PROVE  Questions'
<1> SUFFICES ASSUME ~ bridge.closed PROVE Order' /\ Seen'
  BY DEF PutResult, Questions
<1>1. /\ UNCHANGED <<shown, bridge>> /\ worker = "put" /\ worker' = "settle"
      /\ mail' = Append(mail, [type |-> "completed", cmd |-> cmd, ok |-> result = "ok"])
  BY DEF PutResult, Post, Worker, composer
<1>2. PICK m \in Mail : m.type = "completed" /\ mail' = Append(mail, m)
  <2>1. [type |-> "completed", cmd |-> cmd, ok |-> result = "ok"] \in Mail
    BY <1>1 DEF Flight, Busy, Mail
  <2>. QED BY <1>1, <2>1
<1>3. /\ DOMAIN mail' = 1..Len(mail) + 1 /\ mail'[Len(mail) + 1] = m
      /\ \A i \in DOMAIN mail : /\ i \in DOMAIN mail' /\ mail'[i] = mail[i]
                                /\ Opens(i)' = Opens(i) /\ Shuts(i)' = Shuts(i)
      /\ \A a, i : Withdrawn(a, i) => Withdrawn(a, i)'
  BY <1>2, AddedMail
<1>4. ASSUME NEW i \in DOMAIN mail', Opens(i)' \/ Shuts(i)'
      PROVE  /\ i \in DOMAIN mail /\ mail'[i] = mail[i]
             /\ Opens(i)' = Opens(i) /\ Shuts(i)' = Shuts(i)
  <2>1. i \in DOMAIN mail \/ mail'[i] = m
    BY <1>3, Numbers
  <2>. QED BY <1>2, <1>3, <1>4, <2>1 DEF Opens, Shuts
<1>5. Order'
  BY <1>1, <1>4 DEF Questions, Order
<1>6. shown' # 0 => Withdrawn(shown, 0)'
  BY <1>1, <1>3 DEF Questions, Seen, Waited
<1>7. ASSUME NEW i \in DOMAIN mail', Opens(i)' PROVE Withdrawn(mail[i].ask, i)'
  <2>1. PICK a : a = mail[i].ask
    OBVIOUS
  <2>2. Withdrawn(a, i)
    BY <1>1, <1>4, <1>7, <2>1 DEF Questions, Seen, Waited
  <2>3. Withdrawn(a, i)' /\ mail'[i].ask = a
    BY <1>3, <1>4, <1>7, <2>1, <2>2
  <2>. QED BY <2>3
<1>. QED BY <1>1, <1>5, <1>6, <1>7 DEF Seen

\* An answer that is taken ends the question.
LEMMA AnsweredSeen ==
  ASSUME SessionTypeOK, Questions, Answered
  PROVE  Questions'
<1>1. /\ UNCHANGED <<shown, mail>> /\ worker = "wait" /\ bridge.done /\ worker' = "run"
      /\ bridge'.asked = bridge.asked /\ bridge'.closed = bridge.closed
  BY DEF Answered, Worker, composer, SessionTypeOK, Bridge
<1>2. Order => Order'
  BY <1>1 DEF Order, Opens, Shuts
<1>3. Seen => Seen'
  BY <1>1 DEF Seen, Opens, Shuts, Waited, Withdrawn
<1>. QED BY <1>1, <1>2, <1>3 DEF Questions

\* An answer is for the question that is shown.
LEMMA AnswerSeen ==
  ASSUME SessionTypeOK, Bridged, Questions, Answer
  PROVE  Questions'
<1>1. /\ UNCHANGED <<mail, worker>> /\ shown # 0 /\ shown' = 0 /\ ui = "ready"
      /\ bridge' = IF bridge.ask = shown THEN [bridge EXCEPT !.done = TRUE] ELSE bridge
  BY DEF Answer, Key, Resolve, ClearInteraction, workerVars
<1>2. /\ bridge'.asked = bridge.asked /\ bridge'.ask = bridge.ask /\ ~ bridge.closed
      /\ bridge.ask = shown => bridge'.done
      /\ bridge.ask # shown => bridge' = bridge
      /\ bridge.done => bridge'.done
  BY <1>1 DEF SessionTypeOK, Bridge, Bridged
<1>3. Order'
  <2>1. 0 <= bridge.asked /\ \A i \in DOMAIN mail : Opens(i) => 0 < mail[i].ask
    BY Numbers
  <2>2. worker = "announce" => 0 < bridge.asked
    BY Numbers DEF Bridged
  <2>. QED BY <1>1, <1>2, <2>1, <2>2 DEF Questions, Order, Opens, Shuts
<1>4. ASSUME NEW i \in DOMAIN mail, Opens(i), Waited(mail[i].ask) PROVE bridge' = bridge
  BY <1>2, <1>4, Numbers DEF Questions, Order, Waited
<1>5. Seen'
  <2>1. ASSUME NEW i \in DOMAIN mail', Opens(i)' PROVE Waited(mail[i].ask)' \/ Withdrawn(mail[i].ask, i)'
    <3>1. i \in DOMAIN mail /\ Opens(i)
      BY <1>1, <2>1 DEF Opens
    <3>2. CASE Waited(mail[i].ask)
      <4>1. bridge' = bridge
        BY <3>1, <3>2, <1>4
      <4>. QED BY <1>1, <3>2, <4>1 DEF Waited
    <3>3. CASE Withdrawn(mail[i].ask, i)
      BY <1>1, <3>3 DEF Withdrawn, Shuts
    <3>. QED BY <1>2, <3>1, <3>2, <3>3 DEF Questions, Seen
  <2>2. ASSUME worker = "wait", ~ bridge'.done
        PROVE  \E i \in DOMAIN mail' : Opens(i)' /\ mail'[i].ask = bridge'.ask
    BY <1>1, <1>2, <2>2 DEF Questions, Seen, Opens
  <2>. QED BY <1>1, <2>1, <2>2 DEF Seen
<1>. QED BY <1>3, <1>5 DEF Questions

\* A message that is taken shows, withdraws or leaves the question.
LEMMA PollSeen ==
  ASSUME SessionTypeOK, Flight, Bridged, Questions, Poll
  PROVE  Questions'
<1>1. /\ mail # <<>> /\ mail' = Tail(mail) /\ ui = "ready"
      /\ UNCHANGED <<worker, bridge>> /\ ~ bridge.closed
  BY DEF Poll, workerVars, Bridged
<1>2. /\ 1 \in DOMAIN mail /\ mail[1] = Head(mail)
      /\ \A i \in DOMAIN mail' : /\ i \in Nat \ {0} /\ i + 1 \in DOMAIN mail /\ mail'[i] = mail[i + 1]
                                 /\ Opens(i)' = Opens(i + 1) /\ Shuts(i)' = Shuts(i + 1)
      /\ \A i \in DOMAIN mail : i # 1 => i - 1 \in DOMAIN mail'
  BY <1>1, TakenMail
<1>3. ASSUME NEW i \in DOMAIN mail', Opens(i)' PROVE Waited(mail[i].ask)' \/ Withdrawn(mail[i].ask, i)'
  <2>1. PICK a : a = mail[i + 1].ask
    OBVIOUS
  <2>2. i + 1 \in DOMAIN mail /\ Opens(i + 1) /\ mail'[i].ask = a /\ i \in Nat
    BY <1>2, <1>3, <2>1
  <2>3. Waited(a) => Waited(a)'
    BY <1>1 DEF Waited
  <2>4. Withdrawn(a, i + 1) => Withdrawn(a, i)'
    BY <1>1, <2>2, MovedUp
  <2>. QED BY <1>1, <2>1, <2>2, <2>3, <2>4 DEF Questions, Seen
<1>4. ASSUME \A i \in DOMAIN mail : i # 1 /\ Opens(i) => shown' < mail[i].ask,
             shown' <= bridge.asked, worker = "announce" => shown' < bridge.asked
      PROVE  Order'
  <2>1. \A i \in DOMAIN mail' : Opens(i)' => shown' < mail'[i].ask /\ mail'[i].ask <= bridge'.asked
    BY <1>1, <1>2, <1>4 DEF Questions, Order
  <2>2. \A i, k \in DOMAIN mail' : Opens(i)' /\ Opens(k)' /\ i < k => mail'[i].ask < mail'[k].ask
    <3> SUFFICES ASSUME NEW i \in DOMAIN mail', NEW k \in DOMAIN mail', Opens(i)', Opens(k)', i < k
                 PROVE  mail'[i].ask < mail'[k].ask
      OBVIOUS
    <3>1. i + 1 < k + 1 /\ Opens(i + 1) /\ Opens(k + 1)
      BY <1>2
    <3>. QED BY <1>1, <1>2, <3>1 DEF Questions, Order
  <2>3. \A i \in DOMAIN mail' : Shuts(i)' => mail'[i].ask <= bridge'.asked
    BY <1>1, <1>2 DEF Questions, Order
  <2>4. worker = "announce" \/ (worker = "wait" /\ ~ bridge.done) =>
            \A i \in DOMAIN mail' : Shuts(i)' => mail'[i].ask < bridge.asked
    BY <1>1, <1>2 DEF Questions, Order, Bridged
  <2>5. worker = "announce" => \A i \in DOMAIN mail' : Opens(i)' => mail'[i].ask < bridge.asked
    BY <1>1, <1>2 DEF Questions, Order, Bridged
  <2>. QED BY <1>1, <1>4, <2>1, <2>2, <2>3, <2>4, <2>5 DEF Order
<1>5. ASSUME NEW i \in DOMAIN mail, i # 1, Opens(i), mail[i].ask = bridge.ask
      PROVE  \E k \in DOMAIN mail' : Opens(k)' /\ mail'[k].ask = bridge'.ask
  <2>1. i - 1 \in DOMAIN mail' /\ (i - 1) + 1 = i
    BY <1>2, <1>5, Numbers
  <2>. QED BY <1>1, <1>2, <1>5, <2>1
<1>6. CASE Head(mail).type = "pending" /\ ShowQuestion(Head(mail).ask)
  <2>1. Opens(1) /\ shown' = mail[1].ask
    BY <1>2, <1>6 DEF Opens, ShowQuestion
  <2>2. Order'
    <3>1. \A i \in DOMAIN mail : i # 1 /\ Opens(i) => shown' < mail[i].ask
      BY <1>1, <1>2, <2>1, Numbers DEF Questions, Order
    <3>2. shown' <= bridge.asked /\ (worker = "announce" => shown' < bridge.asked)
      BY <1>1, <1>2, <2>1 DEF Questions, Order
    <3>. QED BY <1>4, <3>1, <3>2
  <2>3. Waited(shown)' \/ Withdrawn(shown, 0)'
    <3>1. PICK a : a = mail[1].ask
      OBVIOUS
    <3>2. Waited(a) \/ Withdrawn(a, 1)
      BY <1>1, <1>2, <2>1, <3>1 DEF Questions, Seen
    <3>3. Waited(a) => Waited(a)'
      BY <1>1 DEF Waited
    <3>4. Withdrawn(a, 0 + 1) => Withdrawn(a, 0)'
      BY <1>1, MovedUp
    <3>. QED BY <2>1, <3>1, <3>2, <3>3, <3>4
  <2>4. worker = "wait" /\ ~ bridge.done =>
            shown' = bridge.ask \/ \E k \in DOMAIN mail' : Opens(k)' /\ mail'[k].ask = bridge'.ask
    <3> SUFFICES ASSUME worker = "wait", ~ bridge.done, shown' # bridge.ask
                 PROVE  \E k \in DOMAIN mail' : Opens(k)' /\ mail'[k].ask = bridge'.ask
      OBVIOUS
    <3>1. shown # bridge.ask
      BY <1>1, <1>2, <2>1, Numbers DEF Questions, Order, Bridged
    <3>2. PICK i \in DOMAIN mail : Opens(i) /\ mail[i].ask = bridge.ask
      BY <1>1, <3>1 DEF Questions, Seen
    <3>. QED BY <1>5, <2>1, <3>2
  <2>. QED BY <1>1, <1>3, <2>2, <2>3, <2>4 DEF Questions, Seen
<1>7. CASE Head(mail).type = "closed" /\ CloseQuestion(Head(mail).ask)
  <2>1. Shuts(1) /\ ~ Opens(1) /\ Head(mail) \in Mail
    BY <1>1, <1>2, <1>7, Shifted DEF Shuts, Opens, SessionTypeOK
  <2>2. shown' = IF shown = mail[1].ask THEN 0 ELSE shown
    BY <1>2, <1>7 DEF CloseQuestion, ClearInteraction, composer
  <2>3. Order'
    BY <1>1, <1>2, <1>4, <2>2, Numbers DEF Questions, Order, Bridged
  <2>4. shown' # 0 => Waited(shown)' \/ Withdrawn(shown, 0)'
    <3> SUFFICES ASSUME shown' # 0 PROVE Waited(shown)' \/ Withdrawn(shown, 0)'
      OBVIOUS
    <3>1. PICK a : a = shown
      OBVIOUS
    <3>2. shown' = a /\ a # 0 /\ mail[1].ask # a
      BY <2>2, <3>1
    <3>3. mail[1] # [type |-> "closed", ask |-> a]
      BY <3>2
    <3>4. Waited(a) => Waited(a)'
      BY <1>1 DEF Waited
    <3>5. Withdrawn(a, 0) => Withdrawn(a, 0)'
      BY <1>1, <3>3, MovedUp
    <3>. QED BY <1>1, <3>1, <3>2, <3>4, <3>5 DEF Questions, Seen
  <2>5. worker = "wait" /\ ~ bridge.done =>
            shown' = bridge.ask \/ \E k \in DOMAIN mail' : Opens(k)' /\ mail'[k].ask = bridge'.ask
    <3> SUFFICES ASSUME worker = "wait", ~ bridge.done, shown' # bridge.ask
                 PROVE  \E k \in DOMAIN mail' : Opens(k)' /\ mail'[k].ask = bridge'.ask
      OBVIOUS
    <3>1. mail[1].ask < bridge.ask
      BY <1>1, <1>2, <2>1 DEF Questions, Order, Bridged
    <3>2. shown # bridge.ask
      BY <2>1, <2>2, <3>1, <1>2, Numbers
    <3>3. PICK i \in DOMAIN mail : Opens(i) /\ mail[i].ask = bridge.ask
      BY <1>1, <3>2 DEF Questions, Seen
    <3>. QED BY <1>5, <2>1, <3>3
  <2>. QED BY <1>1, <1>3, <2>3, <2>4, <2>5 DEF Questions, Seen
<1>8. CASE Head(mail).type = "completed" /\ CommandEnded(Head(mail).cmd, Head(mail).ok)
  <2>1. shown = 0 /\ shown' = 0 /\ ~ Opens(1)
    BY <1>2, <1>8, NoneShown DEF CommandEnded, Opens
  <2>2. Order'
    BY <1>1, <1>4, <2>1 DEF Questions, Order
  <2>3. worker = "wait" /\ ~ bridge.done =>
            \E k \in DOMAIN mail' : Opens(k)' /\ mail'[k].ask = bridge'.ask
    BY <1>1, <1>5, <2>1 DEF Questions, Seen, Bridged
  <2>. QED BY <1>1, <1>3, <2>1, <2>2, <2>3 DEF Questions, Seen
<1>. QED BY <1>6, <1>7, <1>8 DEF Poll

\* No step shows a question that nobody waits for and nobody withdraws.
LEMMA QuestionsStep ==
  ASSUME SessionTypeOK, Flight, Bridged, Questions, [Next]_vars
  PROVE  Questions'
<1>1. CASE \/ \E p \in Prompt : Type(p)
           \/ TypeQuery \/ Erase \/ SubmitPrompt \/ QueueFollowUp \/ SubmitSession \/ AltUp
           \/ OpenSearch \/ CloseSearch \/ ApplySearch \/ Quit \/ CtrlC
  BY <1>1, QuestionsStay DEF Type, TypeQuery, Erase, SubmitPrompt, QueueFollowUp, SubmitSession, AltUp,
       OpenSearch, CloseSearch, ApplySearch, Quit, CtrlC, Key, workerVars, composer
<1>2. CASE CancelRun \/ Leave \/ CloseWorker \/ CloseReadsActive \/ CloseCancels \/ CloseQueue
  BY <1>2, QuestionsStay DEF CancelRun, Leave, CloseWorker, CloseReadsActive, CloseCancels, CloseQueue,
       uiAlone, worked, workerVars, composer
<1>3. CASE CloseBridge
  <2>1. bridge'.closed
    BY <1>3 DEF CloseBridge, SessionTypeOK, Bridge
  <2>. QED BY <2>1 DEF Questions
<1>4. CASE Check \/ Take \/ Activate \/ Begin \/ EndRun \/ Settle
  BY <1>4, QuestionsStay DEF Check, Take, Activate, Begin, EndRun, Settle, Worker, composer
<1>5. CASE UNCHANGED vars
  BY <1>5, QuestionsStay DEF vars, worked, workerVars, composer
<1>. QED
  BY <1>1, <1>2, <1>3, <1>4, <1>5, PollSeen, AnswerSeen, AskSeen, AnnounceSeen, AnsweredSeen, ExpireSeen,
     PutResultSeen DEF Next, Keys, Closing, Working

-----------------------------------------------------------------------------
\* The session starts as the invariant says.
LEMMA SessionInit == Init => SessionInv
<1> SUFFICES ASSUME Init PROVE SessionInv
  OBVIOUS
<1>1. SessionTypeOK
  BY TypesInit
<1>2. Apart /\ Under /\ HeldBack /\ Bridged
  BY Words DEF Init, Apart, Under, HeldBack, Bridged
<1>3. queue = <<>> /\ mail = <<>> /\ DOMAIN queue = {} /\ DOMAIN mail = {}
  BY DEF Init
<1>4. Flight
  BY <1>3 DEF Init, Flight, Busy
<1>5. Questions
  BY <1>3 DEF Init, Questions, Order, Seen
<1>. QED BY <1>1, <1>2, <1>4, <1>5 DEF SessionInv

\* Every step keeps all of it.
LEMMA SessionStep == SessionInv /\ [Next]_vars => SessionInv'
BY TypesStep, ApartStep, UnderStep, FlightStep, HeldBackStep, BridgedStep, QuestionsStep DEF SessionInv

\* In every state of the session: a typed text is in one place, a command in
\* flight is in one place, the questions and their withdrawals come in order
\* (TuiController, TuiWorker, TuiInteractionBridge).
THEOREM SessionInvariance == Spec => []SessionInv
BY SessionInit, SessionStep, PTL DEF Spec

\* A worker that waits for an answer is seen to wait: its question is on the
\* screen or on its way, for any number of questions and texts
\* (TuiInteractionBridge.request_interaction).
THEOREM QuestionIsSeen == Spec => []QuestionReachesUser
<1>1. SessionInv => QuestionReachesUser
  <2> SUFFICES ASSUME SessionInv, worker = "wait", ~ bridge.done
               PROVE  ~ bridge.closed /\ (shown = bridge.ask
                         \/ \E i \in 1..Len(mail) : mail[i] = [type |-> "pending", ask |-> bridge.ask])
    BY DEF QuestionReachesUser
  <2>1. ~ bridge.closed
    BY DEF SessionInv, Bridged
  <2>2. shown = bridge.ask \/ \E i \in DOMAIN mail : Opens(i) /\ mail[i].ask = bridge.ask
    BY <2>1 DEF SessionInv, Questions, Seen
  <2>3. /\ DOMAIN mail = 1..Len(mail)
        /\ \A i \in DOMAIN mail : Opens(i) => mail[i] = [type |-> "pending", ask |-> mail[i].ask]
    <3>1. DOMAIN mail = 1..Len(mail) /\ \A i \in DOMAIN mail : mail[i] \in Mail
      BY DEF SessionInv, SessionTypeOK
    <3>2. \A m \in Mail : m.type = "pending" => m = [type |-> "pending", ask |-> m.ask]
      BY DEF Mail
    <3>. QED BY <3>1, <3>2 DEF Opens
  <2>. QED BY <2>1, <2>2, <2>3
<1>. QED BY <1>1, SessionInvariance, PTL

\* A follow-up is submitted only when no Ctrl-C was meant for the prompt in
\* flight (TuiController._handle_worker_message).
THEOREM FollowUpIsHeld == Spec => FollowUpHeldBack
<1>1. ASSUME SessionInv, [Next]_vars
      PROVE  \A p \in Prompt : slot = p /\ p \in sent' => \A c \in promptIds : c \notin aimed
  <2> SUFFICES ASSUME NEW p \in Prompt, slot = p, p \in sent' PROVE promptIds \cap aimed = {}
    OBVIOUS
  <2>1. p \notin sent /\ p # input
    BY <1>1 DEF SessionInv, Apart
  <2>2. CASE TextsAlone
    BY <2>1, <2>2 DEF TextsAlone
  <2>3. CASE Poll
    <3>1. /\ Head(mail).type = "completed" /\ CommandEnded(Head(mail).cmd, Head(mail).ok)
      BY <2>1, <2>3, Polled DEF ShowQuestion, ClearInteraction, TextsAlone, flight
    <3>2. ~ restoring
      BY <2>1, <3>1 DEF CommandEnded
    <3>3. ui = "ready"
      BY <2>3 DEF Poll
    <3>. QED BY <1>1, <3>2, <3>3 DEF SessionInv, HeldBack
  <2>4. CASE SubmitPrompt \/ SubmitSession
    BY <2>1, <2>4, Words DEF SubmitPrompt, SubmitSession, Submit
  <2>5. CASE \/ \E q \in Prompt : Type(q)
             \/ TypeQuery \/ Erase \/ QueueFollowUp \/ AltUp
             \/ Answer \/ OpenSearch \/ CloseSearch \/ ApplySearch
    BY <2>1, <2>5 DEF Type, TypeQuery, Erase, QueueFollowUp, AltUp, Answer, OpenSearch, CloseSearch,
                      ApplySearch, flight
  <2>. QED BY <1>1, <2>2, <2>3, <2>4, <2>5, TextsMove DEF Moving
<1>2. SessionInv /\ [Next]_vars =>
          [\A p \in Prompt : slot = p /\ p \in sent' => \A c \in promptIds : c \notin aimed]_vars
  BY <1>1
<1>. QED BY <1>2, SessionInvariance, PTL DEF Spec, FollowUpHeldBack

-----------------------------------------------------------------------------
(* A text that was typed. *)
Somewhere(p) == input = p \/ p \in draft \/ p \in held \/ slot = p \/ p \in sent

\* A text that is anywhere is in one place.
LEMMA OneCopy ==
  ASSUME Apart, NEW p \in Prompt
  PROVE  (Copies(p) = 1) <=> Somewhere(p)
<1> DEFINE S == {x \in {"input", "draft", "held", "slot", "sent"} :
                    \/ x = "input" /\ input = p
                    \/ x = "draft" /\ p \in draft
                    \/ x = "held"  /\ p \in held
                    \/ x = "slot"  /\ slot = p
                    \/ x = "sent"  /\ p \in sent}
<1>1. Copies(p) = Cardinality(S)
  BY DEF Copies
<1>2. ASSUME Somewhere(p) PROVE \E x : S = {x}
  <2>1. CASE input = p
    <3>1. S = {"input"}
      BY <2>1 DEF Apart
    <3>. QED BY <3>1
  <2>2. CASE p \in draft
    <3>1. S = {"draft"}
      BY <2>2 DEF Apart
    <3>. QED BY <3>1
  <2>3. CASE p \in held
    <3>1. S = {"held"}
      BY <2>3 DEF Apart
    <3>. QED BY <3>1
  <2>4. CASE slot = p
    <3>1. S = {"slot"}
      BY <2>4 DEF Apart
    <3>. QED BY <3>1
  <2>5. CASE p \in sent
    <3>1. S = {"sent"}
      BY <2>5 DEF Apart
    <3>. QED BY <3>1
  <2>. QED BY <1>2, <2>1, <2>2, <2>3, <2>4, <2>5 DEF Somewhere
<1>3. ASSUME ~ Somewhere(p) PROVE S = {}
  BY <1>3 DEF Somewhere
<1> HIDE DEF S
<1>4. ASSUME Somewhere(p) PROVE Cardinality(S) = 1
  BY <1>2, <1>4, FS_Singleton
<1>5. ASSUME ~ Somewhere(p) PROVE Cardinality(S) = 0
  BY <1>3, <1>5, FS_EmptySet
<1>. QED BY <1>1, <1>4, <1>5

\* So is every one.
LEMMA OneCopyEach == Apart => \A p \in Prompt : (Copies(p) = 1) <=> Somewhere(p)
BY OneCopy

\* And of the state that a step leads to.
LEMMA OneCopyNext == Apart' => (\A p \in Prompt : (Copies(p) = 1) <=> Somewhere(p))'
BY OneCopyEach, PTL

\* Whatever the user does outside the search box, and whatever the run asks and
\* answers meanwhile, no typed text is lost, for any number of texts
\* (TuiController._show_interaction, _restore_pending_to_composer).
THEOREM TextIsKept == Spec => TextKeptInChat
<1>1. ASSUME SessionInv, SessionInv', [Next]_vars, ~ Erase, focus # "search", draft = {}
      PROVE  Kept
  <2>1. ASSUME NEW p \in Prompt, Somewhere(p) PROVE Somewhere(p)'
    <3>0. /\ p # "empty" /\ p # "query" /\ SessionTypeOK
          /\ shown # 0 => input # p
          /\ shown = 0 => held = {}
      BY <1>1, Words DEF SessionInv, Under
    <3>1. CASE TextsAlone
      BY <2>1, <3>1 DEF TextsAlone, Somewhere
    <3>2. ASSUME ClearInteraction, shown # 0, UNCHANGED <<slot, flight>> PROVE Somewhere(p)'
      <4>1. held = {Only(held)} \/ (held = {} /\ Only(held) = "empty")
        BY <3>0, OnlyOf DEF SessionTypeOK
      <4>. QED BY <2>1, <3>0, <3>2, <4>1 DEF ClearInteraction, Somewhere, flight
    <3>3. CASE Poll
      <4>1. CASE Head(mail).type = "pending" /\ ShowQuestion(Head(mail).ask)
        <5>1. shown = 0
          BY <1>1, <3>3, <4>1, NoneShown DEF SessionInv
        <5>. QED BY <2>1, <3>0, <4>1, <5>1 DEF ShowQuestion, Somewhere, flight
      <4>2. CASE /\ Head(mail).type = "closed" /\ shown = Head(mail).ask
                 /\ ClearInteraction /\ UNCHANGED <<slot, flight>>
        <5>1. shown # 0
          BY <1>1, <3>3, <4>2, HeadTypes DEF SessionInv, Asks
        <5>. QED BY <3>2, <4>2, <5>1
      <4>3. CASE /\ UNCHANGED <<draft, held>>
                 /\ \/ sent' = sent \cup ({slot} \cap Prompt) /\ slot' = "empty" /\ UNCHANGED input
                    \/ UNCHANGED sent /\ input = "empty" /\ input' = slot /\ slot' = "empty"
                    \/ UNCHANGED <<sent, input, slot>>
        BY <2>1, <3>0, <4>3 DEF Somewhere
      <4>. QED BY <3>1, <3>3, <4>1, <4>2, <4>3, Polled
    <3>4. ASSUME NEW q \in Prompt, Type(q) PROVE Somewhere(p)'
      BY <2>1, <3>0, <3>4 DEF Type, Somewhere, flight
    <3>5. CASE SubmitPrompt \/ SubmitSession
      BY <2>1, <3>0, <3>5 DEF SubmitPrompt, SubmitSession, Submit, Somewhere, composer
    <3>6. CASE QueueFollowUp \/ AltUp \/ TypeQuery
      BY <1>1, <2>1, <3>0, <3>6 DEF QueueFollowUp, AltUp, TypeQuery, Somewhere, flight
    <3>7. CASE Answer
      BY <3>2, <3>7 DEF Answer
    <3>8. CASE OpenSearch \/ CloseSearch \/ ApplySearch
      BY <1>1, <2>1, <3>0, <3>8 DEF OpenSearch, CloseSearch, ApplySearch, Somewhere, flight
    <3>. QED BY <1>1, <3>1, <3>3, <3>4, <3>5, <3>6, <3>7, <3>8, TextsMove DEF Moving
  <2>2. /\ \A p \in Prompt : (Copies(p) = 1) <=> Somewhere(p)
        /\ (\A p \in Prompt : (Copies(p) = 1) <=> Somewhere(p))'
    <3>1. Apart /\ Apart'
      BY <1>1 DEF SessionInv
    <3>. QED BY <3>1, OneCopyEach, OneCopyNext
  <2>. QED BY <2>1, <2>2 DEF Kept
<1>2. SessionInv /\ SessionInv' /\ [Next]_vars
         => [Erase \/ focus = "search" \/ draft # {} \/ Kept]_vars
  BY <1>1
<1>. QED BY <1>2, SessionInvariance, PTL DEF Spec, TextKeptInChat
-----------------------------------------------------------------------------
Pending      == [id : Nat, of : Nat]
Message      == [type : {"reply"}, id : Nat, of : Nat, text : Int, ok : BOOLEAN]
                \cup [type : {"note"}, text : Int] \cup {Demand, Eof}
ClientRecord == [next : Nat, healthy : BOOLEAN, closed : BOOLEAN, opened : BOOLEAN,
                 diagnostics : Int]
ServerRecord == [up : BOOLEAN, deaf : BOOLEAN, full : BOOLEAN, mute : BOOLEAN,
                 todo : SUBSET Pending, doc : Int, out : Seq(Message), born : Int]
CallRecord   == [n : Nat, kind : {"none", "ask", "query", "diagnose"}, client : Nat, id : Nat,
                 read : Int, then : {"none", "spawn", "exit", "failed", "interrupted"},
                 blocked : BOOLEAN]

ClientTypeOK ==
    /\ client \in Seq(ClientRecord) /\ server \in Seq(ServerRecord)
    /\ Len(client) = Len(server)
    /\ cache \in 0..Len(client)
    /\ call \in CallRecord
    /\ text \in Nat
    /\ spent \in [calls : Nat, trouble : Nat]

\* The places where the thread builds a client, and where it has one that is
\* kept.
Building == {"spawn", "built", "handshake", "load", "keep"}
Talking  == {"open", "opening", "send", "wait", "drain"}
InUse    == (Building \ {"spawn"}) \cup Talking

\* Where the thread is, and what it has there: one client is built when none is
\* kept that could be used, and a question about the file has been preceded by
\* its text.
Holds ==
    /\ pc \in InUse => call.client \in DOMAIN client /\ ~ client[call.client].closed
    /\ pc \in Talking => call.client = cache
    /\ pc \in Building => cache = 0 \/ client[cache].closed
    /\ pc = "closing" => /\ call.client \in DOMAIN client /\ client[call.client].closed
                         /\ call.then \in {"none", "spawn", "exit"} => call.client = cache
    /\ pc = "drain" => call.kind # "ask"
    /\ pc \in {"send", "wait"} /\ call.kind = "ask" => client[call.client].opened

\* A client is closed for good.
Placed ==
    /\ \A c \in DOMAIN client : client[c].closed => client[c] = Closed
    /\ \A c \in DOMAIN client : ~ client[c].closed => client[c].healthy
    /\ Holds

\* A server that runs is kept, or in the hands of the thread, or known to be
\* lost.
CacheHas(c) == c = cache /\ ~ client[c].closed /\ pc # "gone"
HandHas(c)  == c = call.client /\ pc \in InUse \cup {"closing"}
NoneLeft    == \A c \in DOMAIN server : server[c].up => c \in lost \/ CacheHas(c) \/ HandHas(c)

\* What is asked of a server, and what it has answered and nobody has read.
RepliesIn(q) == {m \in {q[i] : i \in DOMAIN q} : m.type = "reply"}
Replied(c)   == RepliesIn(server[c].out)

\* The next number is that of no earlier request.
Numbered ==
    \A c \in DOMAIN server :
        ~ client[c].closed => \A r \in server[c].todo \cup Replied(c) : r.id < client[c].next

\* The texts that a server has been given, or is about to be, are of its time.
Dated ==
    /\ \A c \in DOMAIN server :
          /\ server[c].born <= text
          /\ server[c].doc = NoText \/ server[c].doc \in server[c].born..text
          /\ client[c].opened => server[c].doc # NoText \/ pc = "gone"
    /\ pc = "opening" => call.read \in Nat /\ call.read \in Peer.born..text

\* Under the number of the call there is the call's own request only, and
\* an answer to a question about the file is of the server's time.
Owned ==
    pc = "wait" =>
        /\ \A r \in Peer.todo \cup Replied(call.client) : r.id = call.id => r.of = call.n
        /\ call.kind = "ask" =>
              \A m \in Replied(call.client) : m.id = call.id => m.text \in Peer.born..text

ClientInv == ClientTypeOK /\ Placed /\ NoneLeft /\ Numbered /\ Dated /\ Owned /\ AnswersOwn

\* What most steps do to the servers and the clients: a server is gone, or it
\* has nothing new to answer and has answered nothing; a client is closed, or
\* goes on with its numbers.
Quiet(c) ==
    /\ server'[c].todo = server[c].todo /\ RepliesIn(server'[c].out) \subseteq Replied(c)
    /\ server'[c].doc = server[c].doc /\ server'[c].born = server[c].born
    /\ server'[c].up => server[c].up
Goes(c) ==
    /\ client'[c].next = client[c].next /\ client'[c].opened = client[c].opened
    /\ client'[c].closed = client[c].closed /\ client'[c].healthy = client[c].healthy
    /\ client[c].closed => client'[c] = client[c]
ServerFades ==
    /\ server' \in Seq(ServerRecord) /\ Len(server') = Len(server)
    /\ \A c \in DOMAIN server :
          (server'[c] = Gone /\ (pc' = "gone" \/ client[c].closed)) \/ Quiet(c)
ClientFades ==
    /\ client' \in Seq(ClientRecord) /\ Len(client') = Len(client)
    /\ \A c \in DOMAIN client : client'[c] = Closed \/ Goes(c)

\* The other steps: a request, the text of the file, and a new client.
AskServer ==
    /\ server' = [server EXCEPT ![call.client].todo =
                     @ \cup {[id |-> NextId, of |-> IF pc = "built" THEN 0 ELSE call.n]}]
    /\ client' = [client EXCEPT ![call.client].next = @ + 1]
    /\ \/ pc = "built" /\ pc' = "handshake"
       \/ pc = "send" /\ pc' = "wait"
    /\ call' = [call EXCEPT !.id = NextId]
    /\ UNCHANGED <<answer, cache, text, spent, lost>>
GiveText ==
    /\ pc = "opening" /\ Peer.up
    /\ server' = [server EXCEPT ![call.client].doc = call.read]
    /\ \/ /\ client' = [client EXCEPT ![call.client].opened = TRUE]
          /\ pc' = (IF call.kind = "ask" THEN "send" ELSE "drain")
          /\ UNCHANGED <<call, answer>>
       \/ UNCHANGED client /\ End(Unanswered("interrupted"))
    /\ UNCHANGED <<cache, text, lost>>


\* The call is the same, blocked or not.
SameCall == /\ call'.n = call.n /\ call'.kind = call.kind /\ call'.client = call.client
            /\ call'.id = call.id /\ call'.read = call.read /\ call'.then = call.then

-----------------------------------------------------------------------------
\* One element of a sequence is replaced.
LEMMA Replaced ==
  ASSUME NEW S, NEW q \in Seq(S), NEW c \in DOMAIN q, NEW e \in S, NEW r, r = [q EXCEPT ![c] = e]
  PROVE  /\ r \in Seq(S) /\ Len(r) = Len(q) /\ DOMAIN r = DOMAIN q
         /\ r[c] = e /\ \A d \in DOMAIN q : d # c => r[d] = q[d]
OBVIOUS

\* What a server may write.
LEMMA Written ==
  /\ Tell \in Message /\ Demand \in Message /\ Eof \in Message
  /\ \A v \in Int : Publish(v) \in Message
  /\ \A r \in Pending, v \in Int, ok \in BOOLEAN : Reply(r, v, ok) \in Message
BY DEF Tell, Demand, Eof, Publish, Reply, Message, Pending, NoText

\* What the thread may read.
LEMMA ReadOff ==
  ASSUME NEW m \in Message
  PROVE  /\ m.type = "note" => m.text \in Int
         /\ m.type = "reply" => m.id \in Nat /\ m.of \in Nat /\ m.text \in Int /\ m.ok \in BOOLEAN
BY DEF Message, Demand, Eof

\* A message more, and a message less.
LEMMA RepliesMore ==
  ASSUME NEW q \in Seq(Message), NEW m \in Message
  PROVE  /\ RepliesIn(Append(q, m)) \subseteq RepliesIn(q) \cup {m}
         /\ m.type # "reply" => RepliesIn(Append(q, m)) \subseteq RepliesIn(q)
<1>1. \A i \in DOMAIN Append(q, m) : Append(q, m)[i] = m \/ (i \in DOMAIN q /\ Append(q, m)[i] = q[i])
  OBVIOUS
<1>. QED BY <1>1 DEF RepliesIn

\* What is left was there before.
LEMMA RepliesLess ==
  ASSUME NEW q \in Seq(Message), q # <<>>
  PROVE  /\ RepliesIn(Tail(q)) \subseteq RepliesIn(q)
         /\ Head(q) \in Message /\ Tail(q) \in Seq(Message)
         /\ Head(q).type = "reply" => Head(q) \in RepliesIn(q)
<1>1. \A i \in DOMAIN Tail(q) : i + 1 \in DOMAIN q /\ Tail(q)[i] = q[i + 1]
  OBVIOUS
<1>2. 1 \in DOMAIN q /\ Head(q) = q[1] /\ Head(q) \in Message /\ Tail(q) \in Seq(Message)
  OBVIOUS
<1>. QED BY <1>1, <1>2 DEF RepliesIn

\* Where nothing is written, nothing is answered.
LEMMA NoReplies == RepliesIn(<<>>) = {}
BY DEF RepliesIn

\* The records of the clients and servers there are.
LEMMA Records ==
  ASSUME ClientTypeOK, NEW c \in DOMAIN client \cup DOMAIN server
  PROVE  /\ c \in DOMAIN client /\ c \in DOMAIN server
         /\ client[c] \in ClientRecord /\ server[c] \in ServerRecord
         /\ DOMAIN server = DOMAIN client /\ DOMAIN client = 1..Len(client)
         /\ Len(client) \in Nat
BY DEF ClientTypeOK

\* The records that are made anew.
LEMMA Constants == Closed \in ClientRecord /\ NewClient \in ClientRecord /\ Gone \in ServerRecord
                   /\ (text \in Nat => NewServer \in ServerRecord)
<1>1. <<>> \in Seq(Message) /\ {} \in SUBSET Pending
  OBVIOUS
<1>. QED BY <1>1 DEF Closed, NewClient, Gone, NewServer, ClientRecord, ServerRecord, NoText

\* A step that changes one server, to the record s.
LEMMA OneServer ==
  ASSUME ClientTypeOK, NEW c \in DOMAIN server, NEW s \in ServerRecord,
         server' = [server EXCEPT ![c] = s]
  PROVE  /\ server' \in Seq(ServerRecord) /\ Len(server') = Len(server)
         /\ DOMAIN server' = DOMAIN server /\ server'[c] = s
         /\ \A d \in DOMAIN server : d # c => server'[d] = server[d]
BY Replaced DEF ClientTypeOK

\* And of one client.
LEMMA OneClient ==
  ASSUME ClientTypeOK, NEW c \in DOMAIN client, NEW s \in ClientRecord,
         client' = [client EXCEPT ![c] = s]
  PROVE  /\ client' \in Seq(ClientRecord) /\ Len(client') = Len(client)
         /\ DOMAIN client' = DOMAIN client /\ client'[c] = s
         /\ \A d \in DOMAIN client : d # c => client'[d] = client[d]
BY Replaced DEF ClientTypeOK

\* What may become of a server.
LEMMA ServerBecomes ==
  ASSUME NEW s \in ServerRecord
  PROVE  /\ \A q \in Seq(Message) : [s EXCEPT !.out = q] \in ServerRecord
         /\ \A r \in Pending, q \in Seq(Message) :
               [s EXCEPT !.todo = s.todo \ {r}, !.out = q] \in ServerRecord
         /\ \A r \in Pending : [s EXCEPT !.todo = s.todo \cup {r}] \in ServerRecord
         /\ \A v \in Int : [s EXCEPT !.doc = v] \in ServerRecord
         /\ [s EXCEPT !.deaf = TRUE] \in ServerRecord /\ [s EXCEPT !.full = TRUE] \in ServerRecord
         /\ \A up \in BOOLEAN, q \in Seq(Message) :
               [s EXCEPT !.up = up, !.mute = TRUE, !.out = q] \in ServerRecord
<1>1. ASSUME NEW q \in Seq(Message) PROVE [s EXCEPT !.out = q] \in ServerRecord
  BY DEF ServerRecord
<1>2. ASSUME NEW r \in Pending, NEW q \in Seq(Message)
      PROVE  [s EXCEPT !.todo = s.todo \ {r}, !.out = q] \in ServerRecord
  BY DEF ServerRecord
<1>3. ASSUME NEW r \in Pending PROVE [s EXCEPT !.todo = s.todo \cup {r}] \in ServerRecord
  BY DEF ServerRecord
<1>4. ASSUME NEW v \in Int PROVE [s EXCEPT !.doc = v] \in ServerRecord
  BY DEF ServerRecord
<1>5. [s EXCEPT !.deaf = TRUE] \in ServerRecord /\ [s EXCEPT !.full = TRUE] \in ServerRecord
  BY DEF ServerRecord
<1>6. ASSUME NEW up \in BOOLEAN, NEW q \in Seq(Message)
      PROVE  [s EXCEPT !.up = up, !.mute = TRUE, !.out = q] \in ServerRecord
  BY DEF ServerRecord
<1>. QED BY <1>1, <1>2, <1>3, <1>4, <1>5, <1>6

\* What may become of a client.
LEMMA ClientBecomes ==
  ASSUME NEW s \in ClientRecord
  PROVE  /\ [s EXCEPT !.next = s.next + 1] \in ClientRecord
         /\ [s EXCEPT !.opened = TRUE] \in ClientRecord
         /\ \A v \in Int : [s EXCEPT !.diagnostics = v] \in ClientRecord
<1>1. [s EXCEPT !.next = s.next + 1] \in ClientRecord
  BY DEF ClientRecord
<1>2. [s EXCEPT !.opened = TRUE] \in ClientRecord
  BY DEF ClientRecord
<1>3. ASSUME NEW v \in Int PROVE [s EXCEPT !.diagnostics = v] \in ClientRecord
  BY DEF ClientRecord
<1>. QED BY <1>1, <1>2, <1>3

\* The client and the server in the hands of the thread.
LEMMA InHand ==
  ASSUME ClientTypeOK, Placed, pc \in InUse \cup {"closing"}
  PROVE  /\ call.client \in DOMAIN client /\ call.client \in DOMAIN server
         /\ client[call.client] \in ClientRecord /\ server[call.client] \in ServerRecord
BY Records DEF Placed, Holds

\* Where the thread reads, writes and waits, it has a client.
LEMMA HasClient ==
  /\ {"handshake", "load", "wait", "drain", "opening", "open", "send", "keep", "built"} \subseteq InUse
  /\ "closing" \notin InUse /\ "get" \notin InUse /\ "spawn" \notin InUse
  /\ "idle" \notin InUse /\ "gone" \notin InUse
BY DEF InUse, Building, Talking

\* What does not change fades.
LEMMA Unmoved ==
  ASSUME ClientTypeOK
  PROVE  /\ UNCHANGED server => ServerFades
         /\ UNCHANGED client => ClientFades
BY DEF ClientTypeOK, ServerFades, ClientFades, Quiet, Goes, Replied

\* Only the record of one server changes, and quietly.
LEMMA OneQuiet ==
  ASSUME ClientTypeOK, NEW c \in DOMAIN server, NEW s \in ServerRecord,
         server' = [server EXCEPT ![c] = s],
         \/ s = Gone /\ client[c].closed
         \/ /\ s.todo = server[c].todo /\ s.doc = server[c].doc /\ s.born = server[c].born
            /\ s.up => server[c].up
            /\ RepliesIn(s.out) \subseteq RepliesIn(server[c].out)
  PROVE  ServerFades
<1>1. /\ server' \in Seq(ServerRecord) /\ Len(server') = Len(server)
      /\ server'[c] = s /\ \A d \in DOMAIN server : d # c => server'[d] = server[d]
  BY OneServer
<1>. QED BY <1>1 DEF ServerFades, Quiet, Replied

\* Only the record of one client changes: it is closed, or it goes on.
LEMMA OneGoes ==
  ASSUME ClientTypeOK, NEW c \in DOMAIN client, NEW s \in ClientRecord,
         client' = [client EXCEPT ![c] = s],
         s = Closed \/ /\ ~ client[c].closed
                       /\ s.next = client[c].next /\ s.opened = client[c].opened
                       /\ s.closed = client[c].closed /\ s.healthy = client[c].healthy
  PROVE  ClientFades
<1>1. /\ client' \in Seq(ClientRecord) /\ Len(client') = Len(client)
      /\ client'[c] = s /\ \A d \in DOMAIN client : d # c => client'[d] = client[d]
  BY OneClient
<1>. QED BY <1>1 DEF ClientFades, Goes

\* So when a client is closed,
LEMMA ClosedFades ==
  ASSUME ClientTypeOK, NEW c \in DOMAIN client, Close(c)
  PROVE  ClientFades
BY OneGoes, Constants DEF Close

\* and when a call fails on its transport.
LEMMA FailFades ==
  ASSUME ClientTypeOK, Placed, pc \in InUse, Fail
  PROVE  ClientFades
BY InHand, ClosedFades DEF Fail

\* What a server has written is a sequence of messages.
LEMMA OutSeq == \A s \in ServerRecord : s.out \in Seq(Message)
BY DEF ServerRecord

\* Another sequence in its place leaves the rest.
LEMMA OutRecord ==
  ASSUME NEW s \in ServerRecord, NEW q \in Seq(Message)
  PROVE  LET t == [s EXCEPT !.out = q] IN
         /\ t \in ServerRecord
         /\ t.todo = s.todo /\ t.doc = s.doc /\ t.born = s.born /\ t.up = s.up /\ t.out = q
BY ServerBecomes DEF ServerRecord

\* A message is taken.
LEMMA TakenFades ==
  ASSUME ClientTypeOK, Placed, pc \in InUse, Peer.out # <<>>, server' = Taken
  PROVE  ServerFades
<1>1. call.client \in DOMAIN server /\ server[call.client] \in ServerRecord
  BY InHand
<1> DEFINE q == Tail(server[call.client].out)
           s == [server[call.client] EXCEPT !.out = q]
<1>2. server[call.client].out \in Seq(Message) /\ server[call.client].out # <<>>
  BY <1>1, OutSeq DEF Peer
<1>3. q \in Seq(Message) /\ RepliesIn(q) \subseteq RepliesIn(server[call.client].out)
  BY <1>2, RepliesLess
<1>4. server' = [server EXCEPT ![call.client] = s]
  BY DEF Taken
<1> HIDE DEF q
<1>5. /\ s \in ServerRecord /\ s.todo = server[call.client].todo /\ s.doc = server[call.client].doc
      /\ s.born = server[call.client].born /\ s.up = server[call.client].up /\ s.out = q
  BY <1>1, <1>3, OutRecord
<1> HIDE DEF s
<1>. QED BY <1>1, <1>3, <1>4, <1>5, OneQuiet

\* A server writes what is no answer.
LEMMA PutFades ==
  ASSUME ClientTypeOK, NEW c \in DOMAIN server, NEW m \in Message, m.type # "reply", Put(c, m)
  PROVE  ServerFades
<1>1. c \in DOMAIN client /\ server[c] \in ServerRecord
  BY Records DEF ClientTypeOK
<1> DEFINE q == Append(server[c].out, m)
           s == [server[c] EXCEPT !.out = q]
<1>2. server[c].out \in Seq(Message)
  BY <1>1, OutSeq
<1>3. q \in Seq(Message) /\ RepliesIn(q) \subseteq RepliesIn(server[c].out)
  BY <1>2, RepliesMore
<1>4. server' = [server EXCEPT ![c] = s]
  BY DEF Put
<1> HIDE DEF q
<1>5. /\ s \in ServerRecord /\ s.todo = server[c].todo /\ s.doc = server[c].doc
      /\ s.born = server[c].born /\ s.up = server[c].up /\ s.out = q
  BY <1>1, <1>3, OutRecord
<1> HIDE DEF s
<1>. QED BY <1>1, <1>3, <1>4, <1>5, OneQuiet

\* So it is when it tells or asks,
LEMMA TalkFades ==
  ASSUME ClientTypeOK, NEW c \in DOMAIN server, Talk(c)
  PROVE  ServerFades
<1>1. server[c].doc \in Int
  BY Records DEF ClientTypeOK, ServerRecord
<1>2. PICK m \in Message : m.type # "reply" /\ Put(c, m)
  BY <1>1, Written DEF Talk, Tell, Demand, Publish
<1>. QED BY <1>2, PutFades

\* when it dies or stops reading by itself,
LEMMA BreakFades ==
  ASSUME ClientTypeOK, NEW c \in DOMAIN server, Break(c)
  PROVE  ServerFades
<1>1. c \in DOMAIN client /\ server[c] \in ServerRecord /\ server[c].up
  BY Records DEF ClientTypeOK, Break, Heard, Peer
<1>2. ASSUME NEW up \in BOOLEAN,
             server' = [server EXCEPT ![c].up = up, ![c].mute = TRUE, ![c].out = Append(@, Eof)]
      PROVE  ServerFades
  <2> DEFINE q == Append(server[c].out, Eof)
             s == [server[c] EXCEPT !.up = up, !.mute = TRUE, !.out = q]
  <2>2. server[c].out \in Seq(Message) /\ Eof \in Message /\ Eof.type # "reply"
    BY <1>1, OutSeq, Written DEF Eof
  <2>3. q \in Seq(Message) /\ RepliesIn(q) \subseteq RepliesIn(server[c].out)
    BY <2>2, RepliesMore
  <2>4. server' = [server EXCEPT ![c] = s]
    BY <1>2
  <2> HIDE DEF q
  <2>5. s \in ServerRecord
    BY <1>1, <2>3, ServerBecomes
  <2>6. /\ s.todo = server[c].todo /\ s.doc = server[c].doc
        /\ s.born = server[c].born /\ s.out = q
    BY <1>1 DEF ServerRecord
  <2> HIDE DEF s
  <2>. QED BY <1>1, <2>3, <2>4, <2>5, <2>6, OneQuiet
<1>3. ASSUME server' = [server EXCEPT ![c].deaf = TRUE] PROVE ServerFades
  <2> DEFINE s == [server[c] EXCEPT !.deaf = TRUE]
  <2>1. s \in ServerRecord
    BY <1>1, ServerBecomes
  <2>2. /\ s.todo = server[c].todo /\ s.doc = server[c].doc
        /\ s.born = server[c].born /\ s.out = server[c].out
    BY <1>1 DEF ServerRecord
  <2>3. server' = [server EXCEPT ![c] = s]
    BY <1>3
  <2> HIDE DEF s
  <2>. QED BY <1>1, <2>1, <2>2, <2>3, OneQuiet
<1>. QED BY <1>2, <1>3 DEF Break

\* when half a message has reached it,
LEMMA DeafFades ==
  ASSUME ClientTypeOK, Placed, pc \in InUse, server' = [server EXCEPT ![call.client].deaf = TRUE]
  PROVE  ServerFades
<1>1. call.client \in DOMAIN server /\ server[call.client] \in ServerRecord
  BY InHand
<1> DEFINE s == [server[call.client] EXCEPT !.deaf = TRUE]
<1>2. s \in ServerRecord
  BY <1>1, ServerBecomes
<1>3. /\ s.todo = server[call.client].todo /\ s.doc = server[call.client].doc
      /\ s.born = server[call.client].born /\ s.out = server[call.client].out
      /\ s.up = server[call.client].up
  BY <1>1 DEF ServerRecord
<1>4. server' = [server EXCEPT ![call.client] = s]
  OBVIOUS
<1> HIDE DEF s
<1>. QED BY <1>1, <1>2, <1>3, <1>4, OneQuiet

\* when its pipe is full,
LEMMA FullFades ==
  ASSUME ClientTypeOK, Placed, pc \in InUse \cup {"closing"},
         server' = [server EXCEPT ![call.client].full = TRUE]
  PROVE  ServerFades
<1>1. call.client \in DOMAIN server /\ server[call.client] \in ServerRecord
  BY InHand
<1> DEFINE s == [server[call.client] EXCEPT !.full = TRUE]
<1>2. s \in ServerRecord
  BY <1>1, ServerBecomes
<1>3. /\ s.todo = server[call.client].todo /\ s.doc = server[call.client].doc
      /\ s.born = server[call.client].born /\ s.out = server[call.client].out
      /\ s.up = server[call.client].up
  BY <1>1 DEF ServerRecord
<1>4. server' = [server EXCEPT ![call.client] = s]
  OBVIOUS
<1> HIDE DEF s
<1>. QED BY <1>1, <1>2, <1>3, <1>4, OneQuiet

\* Where a write blocks, the call stays what it is.
LEMMA BlockedCall ==
  ASSUME ClientTypeOK, Block \/ Unblock
  PROVE  /\ SameCall /\ UNCHANGED <<pc, answer, cache, client, text, spent, lost>>
         /\ Block => pc \in InUse \cup {"closing"}
<1>1. call \in CallRecord
  BY DEF ClientTypeOK
<1>2. SameCall
  BY <1>1 DEF Block, Unblock, SameCall, CallRecord
<1>. QED BY <1>2, HasClient DEF Block, Unblock, Has, Waiting

\* when what it tells is taken,
LEMMA NoteFades ==
  ASSUME ClientTypeOK, Placed, TakeNote
  PROVE  ServerFades /\ ClientFades
<1>1. pc \in InUse /\ Peer.out # <<>> /\ server' = Taken
  BY HasClient DEF TakeNote, Has, Waiting
<1>2. call.client \in DOMAIN client /\ client[call.client] \in ClientRecord
      /\ server[call.client] \in ServerRecord /\ ~ client[call.client].closed
  BY <1>1, InHand DEF Placed, Holds
<1>3. Head(Peer.out) \in Message /\ Head(Peer.out).type = "note"
  BY <1>1, <1>2, OutSeq, RepliesLess DEF TakeNote, Has, Peer
<1> DEFINE v == IF Head(Peer.out).text = NoText THEN client[call.client].diagnostics
                                                 ELSE Head(Peer.out).text
           s == [client[call.client] EXCEPT !.diagnostics = v]
<1>4. v \in Int
  BY <1>2, <1>3, ReadOff DEF ClientRecord
<1>5. client' = [client EXCEPT ![call.client] = s]
  BY DEF TakeNote
<1> HIDE DEF v
<1>6. s \in ClientRecord
  BY <1>2, <1>4, ClientBecomes
<1>7. /\ s.next = client[call.client].next /\ s.opened = client[call.client].opened
      /\ s.closed = client[call.client].closed /\ s.healthy = client[call.client].healthy
  BY <1>2 DEF ClientRecord
<1> HIDE DEF s
<1>. QED BY <1>1, <1>2, <1>5, <1>6, <1>7, TakenFades, OneGoes

\* when it is killed,
LEMMA KillFades ==
  ASSUME ClientTypeOK, Placed, Kill
  PROVE  ServerFades
<1>1. call.client \in DOMAIN server /\ client[call.client].closed
  BY InHand DEF Kill, Placed, Holds
<1>. QED BY <1>1, Constants, OneQuiet DEF Kill

\* and when the process ends in the middle of a call.
LEMMA ExitFades ==
  ASSUME ClientTypeOK, ExitInCall
  PROVE  ServerFades
<1> DEFINE killed == {c \in {cache} \ {0} : ~ client[c].closed}
<1>1. server' = [c \in DOMAIN server |-> IF c \in killed THEN Gone ELSE server[c]]
  BY DEF ExitInCall
<1> HIDE DEF killed
<1>2. server \in Seq(ServerRecord)
  BY DEF ClientTypeOK
<1>3. server' \in Seq(ServerRecord) /\ Len(server') = Len(server)
  BY <1>1, <1>2, Constants
<1>4. pc' = "gone"
  BY DEF ExitInCall
<1>. QED BY <1>1, <1>3, <1>4 DEF ServerFades, Quiet, Replied

\* Every step is of one of these kinds.
LEMMA Moves ==
  ASSUME ClientTypeOK, Placed, [ClientNext]_clientVars
  PROVE  \/ ServerFades /\ ClientFades
         \/ AskServer \/ GiveText \/ Born \/ \E c \in DOMAIN server : Serve(c)
<1> USE HasClient
<1>0. /\ UNCHANGED server => ServerFades
      /\ UNCHANGED client => ClientFades
      /\ pc \in InUse \cup {"closing"} => call.client \in DOMAIN client
  BY Unmoved, InHand
<1>1. ASSUME NEW from, NEW to, SendRequest(from, to),
             <<from, to>> \in {<<"built", "handshake">>, <<"send", "wait">>}
      PROVE  AskServer \/ (ServerFades /\ ClientFades)
  <2>1. pc \in InUse
    BY <1>1 DEF SendRequest
  <2>. QED BY <1>0, <1>1, <2>1, FailFades DEF SendRequest, AskServer
<1>2. CASE Initialize \/ Send
  BY <1>1, <1>2 DEF Initialize, Send
<1>3. CASE DidOpen
  BY <1>0, <1>3, FailFades DEF DidOpen, GiveText
<1>4. CASE TakeRequest \/ TakeEof \/ TakeHandshake
  <2>1. pc \in InUse /\ Peer.out # <<>> /\ server' = Taken
    BY <1>4 DEF TakeRequest, TakeEof, TakeHandshake, Has, Waiting
  <2>2. ServerFades
    BY <2>1, TakenFades
  <2>. QED BY <1>0, <1>4, <2>1, <2>2, FailFades DEF TakeRequest, TakeEof, TakeHandshake, BuildFails
<1>5. CASE SkipReply \/ TakeAnswer
  <2>1. pc \in InUse /\ Peer.out # <<>> /\ server' = Taken /\ UNCHANGED client
    BY <1>5 DEF SkipReply, TakeAnswer, Has, Waiting
  <2>. QED BY <1>0, <2>1, TakenFades
<1>6. CASE TimeUp
  BY <1>0, <1>6, FailFades DEF TimeUp, Deadline, Waiting
<1>7. CASE GetDead
  <2>1. cache \in DOMAIN client
    BY <1>7 DEF GetDead, ClientTypeOK
  <2>. QED BY <1>0, <1>7, <2>1, ClosedFades DEF GetDead
<1>8. CASE CloseAll
  <2>1. cache # 0 => cache \in DOMAIN client
    BY DEF ClientTypeOK
  <2>. QED BY <1>0, <1>8, <2>1, ClosedFades DEF CloseAll
<1>9. CASE Kill
  BY <1>0, <1>9, KillFades DEF Kill
<1>10. CASE InterruptCall
  <2>1. CASE UNCHANGED <<server, client>>
    BY <1>0, <2>1
  <2>2. CASE server' = [server EXCEPT ![call.client].deaf = TRUE] /\ UNCHANGED client /\ pc \in InUse
    BY <1>0, <2>2, DeafFades
  <2>3. CASE server' = Taken /\ UNCHANGED client /\ pc \in InUse /\ Peer.out # <<>>
    BY <1>0, <2>3, TakenFades
  <2>4. CASE /\ server' = [server EXCEPT ![call.client].doc = call.read] /\ UNCHANGED client
             /\ pc = "opening" /\ Peer.up
    BY <1>10, <2>4 DEF InterruptCall, GiveText
  <2>. QED BY <1>10, <2>1, <2>2, <2>3, <2>4 DEF InterruptCall
<1>11. CASE InterruptBuild
  BY <1>0, <1>11, ClosedFades DEF InterruptBuild
<1>12. CASE ExitInCall
  BY <1>0, <1>12, ExitFades DEF ExitInCall
<1>13. CASE TakeNote
  BY <1>13, NoteFades
<1>14. CASE Spawn
  BY <1>14 DEF Spawn
<1>15. ASSUME NEW c \in DOMAIN server, Talk(c) \/ Break(c)
       PROVE  ServerFades /\ ClientFades
  BY <1>0, <1>15, TalkFades, BreakFades DEF Talk, Break
<1>16. CASE \/ \E kind \in {"ask", "query", "diagnose"} : Call(kind)
            \/ GetCached \/ GetNone \/ SpawnFails \/ OpenFile \/ OpenFails \/ Keep \/ Drained
            \/ Edit \/ InterruptLate \/ Unblock \/ UNCHANGED clientVars
  BY <1>0, <1>16
     DEF Call, GetCached, GetNone, SpawnFails, OpenFile, OpenFails, Keep, Drained, Unblock, Edit,
         InterruptLate, clientVars
<1>17. CASE Block
  BY <1>0, <1>17, BlockedCall, FullFades DEF Block
<1>. QED BY <1>2, <1>3, <1>4, <1>5, <1>6, <1>7, <1>8, <1>9, <1>10, <1>11, <1>12, <1>13, <1>14,
            <1>15, <1>16, <1>17
         DEF ClientNext, Thread

\* What a step does to the records, of each kind.
LEMMA AskRecords ==
  ASSUME ClientTypeOK, Placed, AskServer
  PROVE  /\ server' \in Seq(ServerRecord) /\ Len(server') = Len(server)
         /\ client' \in Seq(ClientRecord) /\ Len(client') = Len(client)
         /\ \A c \in DOMAIN server : c # call.client => server'[c] = server[c] /\ client'[c] = client[c]
         /\ call.client \in DOMAIN server
         /\ LET c == call.client
                r == [id |-> client[c].next, of |-> IF pc = "built" THEN 0 ELSE call.n] IN
            /\ server'[c].todo = server[c].todo \cup {r} /\ server'[c].out = server[c].out
            /\ server'[c].doc = server[c].doc /\ server'[c].born = server[c].born
            /\ server'[c].up = server[c].up
            /\ client'[c].next = client[c].next + 1 /\ client'[c].opened = client[c].opened
            /\ client'[c].closed = client[c].closed /\ client'[c].healthy = client[c].healthy
<1> DEFINE c == call.client
           r == [id |-> client[c].next, of |-> IF pc = "built" THEN 0 ELSE call.n]
           s == [server[c] EXCEPT !.todo = server[c].todo \cup {r}]
           k == [client[c] EXCEPT !.next = client[c].next + 1]
<1>1. /\ c \in DOMAIN client /\ c \in DOMAIN server
      /\ client[c] \in ClientRecord /\ server[c] \in ServerRecord
  BY InHand, HasClient DEF AskServer
<1>2. client[c].next \in Nat /\ call.n \in Nat
  BY <1>1 DEF ClientRecord, ClientTypeOK, CallRecord
<1>3. r \in Pending
  BY <1>2 DEF Pending
<1>4. server' = [server EXCEPT ![c] = s] /\ client' = [client EXCEPT ![c] = k]
  BY DEF AskServer, NextId, Mine
<1> HIDE DEF r
<1>5. s \in ServerRecord /\ k \in ClientRecord
  <2>1. s \in ServerRecord
    BY <1>1, <1>3, ServerBecomes
  <2>2. k \in ClientRecord
    BY <1>1, ClientBecomes
  <2>. QED BY <2>1, <2>2
<1>6. /\ s.todo = server[c].todo \cup {r} /\ s.out = server[c].out /\ s.doc = server[c].doc
      /\ s.born = server[c].born /\ s.up = server[c].up
  BY <1>1 DEF ServerRecord
<1>7. /\ k.next = client[c].next + 1 /\ k.opened = client[c].opened
      /\ k.closed = client[c].closed /\ k.healthy = client[c].healthy
  BY <1>1 DEF ClientRecord
<1> HIDE DEF s, k, c
<1>8. /\ server' \in Seq(ServerRecord) /\ Len(server') = Len(server) /\ server'[c] = s
      /\ \A d \in DOMAIN server : d # c => server'[d] = server[d]
  BY <1>1, <1>4, <1>5, OneServer
<1>9. /\ client' \in Seq(ClientRecord) /\ Len(client') = Len(client) /\ client'[c] = k
      /\ \A d \in DOMAIN client : d # c => client'[d] = client[d]
  BY <1>1, <1>4, <1>5, OneClient
<1>10. DOMAIN server = DOMAIN client
  BY DEF ClientTypeOK
<1>. QED BY <1>1, <1>6, <1>7, <1>8, <1>9, <1>10 DEF c, r

\* The same for the text of the file,
LEMMA TextRecords ==
  ASSUME ClientTypeOK, Placed, GiveText
  PROVE  /\ server' \in Seq(ServerRecord) /\ Len(server') = Len(server)
         /\ client' \in Seq(ClientRecord) /\ Len(client') = Len(client)
         /\ \A c \in DOMAIN server : c # call.client => server'[c] = server[c] /\ client'[c] = client[c]
         /\ call.client \in DOMAIN server
         /\ LET c == call.client IN
            /\ server'[c].todo = server[c].todo /\ server'[c].out = server[c].out
            /\ server'[c].doc = call.read /\ server'[c].born = server[c].born
            /\ server'[c].up = server[c].up
            /\ client'[c].next = client[c].next
            /\ client'[c].closed = client[c].closed /\ client'[c].healthy = client[c].healthy
            /\ \/ client'[c].opened = client[c].opened
               \/ client'[c].opened = TRUE /\ pc' \in {"send", "drain"}
<1> DEFINE c == call.client
           s == [server[c] EXCEPT !.doc = call.read]
           k == [client[c] EXCEPT !.opened = TRUE]
<1>1. /\ c \in DOMAIN client /\ c \in DOMAIN server
      /\ client[c] \in ClientRecord /\ server[c] \in ServerRecord
  BY InHand, HasClient DEF GiveText
<1>2. call.read \in Int
  BY DEF ClientTypeOK, CallRecord
<1>3. server' = [server EXCEPT ![c] = s]
  BY DEF GiveText
<1>4. s \in ServerRecord /\ k \in ClientRecord
  <2>1. s \in ServerRecord
    BY <1>1, <1>2, ServerBecomes
  <2>2. k \in ClientRecord
    BY <1>1, ClientBecomes
  <2>. QED BY <2>1, <2>2
<1>5. /\ s.todo = server[c].todo /\ s.out = server[c].out /\ s.doc = call.read
      /\ s.born = server[c].born /\ s.up = server[c].up
  BY <1>1 DEF ServerRecord
<1>6. /\ k.next = client[c].next /\ k.opened = TRUE
      /\ k.closed = client[c].closed /\ k.healthy = client[c].healthy
  BY <1>1 DEF ClientRecord
<1>7. UNCHANGED client \/ (client' = [client EXCEPT ![c] = k] /\ pc' \in {"send", "drain"})
  BY DEF GiveText
<1> HIDE DEF s, k, c
<1>8. /\ server' \in Seq(ServerRecord) /\ Len(server') = Len(server) /\ server'[c] = s
      /\ \A d \in DOMAIN server : d # c => server'[d] = server[d]
  BY <1>1, <1>3, <1>4, OneServer
<1>9. /\ client' \in Seq(ClientRecord) /\ Len(client') = Len(client)
      /\ \A d \in DOMAIN client : d # c => client'[d] = client[d]
      /\ client'[c] = client[c] \/ (client'[c] = k /\ pc' \in {"send", "drain"})
  BY <1>1, <1>4, <1>7, OneClient DEF ClientTypeOK
<1>10. DOMAIN server = DOMAIN client
  BY DEF ClientTypeOK
<1>. QED BY <1>1, <1>5, <1>6, <1>8, <1>9, <1>10 DEF c

\* for a new client,
LEMMA BornRecords ==
  ASSUME ClientTypeOK, Born
  PROVE  /\ server' \in Seq(ServerRecord) /\ Len(server') = Len(server) + 1
         /\ client' \in Seq(ClientRecord) /\ Len(client') = Len(client) + 1
         /\ \A c \in DOMAIN server : server'[c] = server[c] /\ client'[c] = client[c]
         /\ server'[Len(server) + 1] = NewServer /\ client'[Len(server) + 1] = NewClient
         /\ DOMAIN server' = DOMAIN server \cup {Len(server) + 1}
         /\ DOMAIN client' = DOMAIN server'
<1>1. NewServer \in ServerRecord /\ NewClient \in ClientRecord
  BY Constants DEF ClientTypeOK
<1>2. /\ server' = Append(server, NewServer) /\ client' = Append(client, NewClient)
      /\ client \in Seq(ClientRecord) /\ server \in Seq(ServerRecord) /\ Len(client) = Len(server)
  BY DEF Born, ClientTypeOK
<1> HIDE DEF NewServer, NewClient
<1>. QED BY <1>1, <1>2

\* and for a server that answers: it answers what it was asked, from what it has.
LEMMA ServeRecords ==
  ASSUME ClientTypeOK, NEW c \in DOMAIN server, Serve(c)
  PROVE  /\ server' \in Seq(ServerRecord) /\ Len(server') = Len(server) /\ UNCHANGED client
         /\ \A d \in DOMAIN server : d # c => server'[d] = server[d]
         /\ server'[c].todo \subseteq server[c].todo
         /\ server'[c].doc = server[c].doc /\ server'[c].born = server[c].born
         /\ server'[c].up = server[c].up
         /\ \E r \in server[c].todo, ok \in BOOLEAN :
               RepliesIn(server'[c].out) \subseteq Replied(c) \cup {Reply(r, server[c].doc, ok)}
<1>1. server[c] \in ServerRecord
  BY Records
<1>2. PICK r \in server[c].todo, ok \in BOOLEAN :
         server' = [server EXCEPT ![c].todo = @ \ {r},
                                  ![c].out = Append(@, Reply(r, server[c].doc, ok))]
  BY DEF Serve
<1> DEFINE m == Reply(r, server[c].doc, ok)
           q == Append(server[c].out, m)
           s == [server[c] EXCEPT !.todo = server[c].todo \ {r}, !.out = q]
<1>3. r \in Pending /\ server[c].doc \in Int /\ server[c].out \in Seq(Message)
  BY <1>1 DEF ServerRecord
<1>4. m \in Message
  BY <1>3, Written
<1>5. server' = [server EXCEPT ![c] = s]
  BY <1>2
<1> HIDE DEF m
<1>6. q \in Seq(Message) /\ RepliesIn(q) \subseteq RepliesIn(server[c].out) \cup {m}
  BY <1>3, <1>4, RepliesMore
<1> HIDE DEF q
<1>7. s \in ServerRecord
  BY <1>1, <1>3, <1>6, ServerBecomes
<1>8. /\ s.todo = server[c].todo \ {r} /\ s.out = q /\ s.doc = server[c].doc
      /\ s.born = server[c].born /\ s.up = server[c].up
  BY <1>1 DEF ServerRecord
<1> HIDE DEF s
<1>9. /\ server' \in Seq(ServerRecord) /\ Len(server') = Len(server) /\ server'[c] = s
      /\ \A d \in DOMAIN server : d # c => server'[d] = server[d]
  BY <1>1, <1>5, <1>7, OneServer
<1>10. UNCHANGED client
  BY DEF Serve
<1>. QED BY <1>2, <1>6, <1>8, <1>9, <1>10 DEF m, Replied

\* No client is added by these, and one by the last.
LEMMA Domains ==
  ASSUME ClientTypeOK, Placed
  PROVE  /\ DOMAIN server = DOMAIN client
         /\ AskServer \/ GiveText => DOMAIN client' = DOMAIN client /\ DOMAIN server' = DOMAIN client
         /\ Born => DOMAIN client' = DOMAIN client \cup {Len(client) + 1} /\ Len(server) = Len(client)
<1>1. /\ DOMAIN server = DOMAIN client /\ Len(client) = Len(server) /\ client \in Seq(ClientRecord)
      /\ server \in Seq(ServerRecord)
  BY DEF ClientTypeOK
<1>2. ASSUME AskServer \/ GiveText PROVE DOMAIN client' = DOMAIN client /\ DOMAIN server' = DOMAIN client
  <2>1. /\ client' \in Seq(ClientRecord) /\ Len(client') = Len(client)
        /\ server' \in Seq(ServerRecord) /\ Len(server') = Len(server)
    BY <1>2, AskRecords, TextRecords
  <2>. QED BY <1>1, <2>1
<1>3. ASSUME Born PROVE DOMAIN client' = DOMAIN client \cup {Len(client) + 1}
  BY <1>1, <1>3, BornRecords
<1>. QED BY <1>1, <1>2, <1>3

\* Whatever happens, the records stay records, and none is taken away.
LEMMA RecordsStay ==
  ASSUME ClientTypeOK, Placed, [ClientNext]_clientVars
  PROVE  /\ client' \in Seq(ClientRecord) /\ server' \in Seq(ServerRecord)
         /\ Len(client') = Len(server') /\ Len(client') >= Len(client)
         /\ DOMAIN client \subseteq DOMAIN client' /\ DOMAIN server' = DOMAIN client'
<1>1. /\ client' \in Seq(ClientRecord) /\ server' \in Seq(ServerRecord)
      /\ Len(client') = Len(server') /\ Len(client') >= Len(client)
  <2>1. Len(client) = Len(server) /\ Len(client) \in Nat /\ client \in Seq(ClientRecord)
    BY DEF ClientTypeOK
  <2>2. CASE ServerFades /\ ClientFades
    BY <2>1, <2>2 DEF ServerFades, ClientFades
  <2>3. CASE AskServer
    BY <2>1, <2>3, AskRecords
  <2>4. CASE GiveText
    BY <2>1, <2>4, TextRecords
  <2>5. CASE Born
    BY <2>1, <2>5, BornRecords
  <2>6. ASSUME NEW c \in DOMAIN server, Serve(c)
        PROVE  /\ client' \in Seq(ClientRecord) /\ server' \in Seq(ServerRecord)
               /\ Len(client') = Len(server') /\ Len(client') >= Len(client)
    BY <2>1, <2>6, ServeRecords
  <2>. QED BY <2>2, <2>3, <2>4, <2>5, <2>6, Moves
<1>. QED BY <1>1 DEF ClientTypeOK

\* What may become of a call.
LEMMA CallBecomes ==
  ASSUME NEW k \in CallRecord
  PROVE  /\ \A n \in Nat, kind \in {"ask", "query", "diagnose"} :
               [k EXCEPT !.n = n, !.kind = kind] \in CallRecord
         /\ \A n \in Nat : /\ [k EXCEPT !.client = n] \in CallRecord
                           /\ [k EXCEPT !.id = n] \in CallRecord
                           /\ [k EXCEPT !.read = n] \in CallRecord
         /\ \A then \in {"spawn", "none", "exit"}, n \in Nat :
               [k EXCEPT !.client = n, !.then = then] \in CallRecord
         /\ \A then \in {"failed", "interrupted"} : [k EXCEPT !.then = then] \in CallRecord
         /\ [k EXCEPT !.then = "interrupted", !.blocked = FALSE] \in CallRecord
         /\ \A b \in BOOLEAN : [k EXCEPT !.blocked = b] \in CallRecord
<1>1. ASSUME NEW n \in Nat, NEW kind \in {"ask", "query", "diagnose"}
      PROVE  [k EXCEPT !.n = n, !.kind = kind] \in CallRecord
  BY DEF CallRecord
<1>2. ASSUME NEW n \in Nat PROVE [k EXCEPT !.client = n] \in CallRecord
  BY DEF CallRecord
<1>3. ASSUME NEW n \in Nat PROVE [k EXCEPT !.id = n] \in CallRecord
  BY DEF CallRecord
<1>4. ASSUME NEW n \in Nat PROVE [k EXCEPT !.read = n] \in CallRecord
  BY DEF CallRecord
<1>5. ASSUME NEW then \in {"spawn", "none", "exit"}, NEW n \in Nat
      PROVE  [k EXCEPT !.client = n, !.then = then] \in CallRecord
  BY DEF CallRecord
<1>6. ASSUME NEW then \in {"failed", "interrupted"} PROVE [k EXCEPT !.then = then] \in CallRecord
  BY DEF CallRecord
<1>7. [k EXCEPT !.then = "interrupted", !.blocked = FALSE] \in CallRecord
  BY DEF CallRecord
<1>8. ASSUME NEW b \in BOOLEAN PROVE [k EXCEPT !.blocked = b] \in CallRecord
  BY DEF CallRecord
<1>. QED BY <1>1, <1>2, <1>3, <1>4, <1>5, <1>6, <1>7, <1>8

\* A call remains a call.
LEMMA CallTypes ==
  ASSUME ClientTypeOK, Placed, [ClientNext]_clientVars
  PROVE  call' \in CallRecord /\ spent' \in [calls : Nat, trouble : Nat]
<1>1. NoCall \in CallRecord
  BY DEF NoCall, CallRecord, NoText
<1>2. /\ call \in CallRecord /\ text \in Nat /\ Len(client) \in Nat /\ cache \in Nat
      /\ spent \in [calls : Nat, trouble : Nat]
      /\ spent.calls \in Nat /\ spent.trouble \in Nat
  BY DEF ClientTypeOK
<1>3. /\ [spent EXCEPT !.calls = @ + 1] \in [calls : Nat, trouble : Nat]
      /\ [spent EXCEPT !.trouble = @ + 1] \in [calls : Nat, trouble : Nat]
  BY <1>2
<1>4. \/ UNCHANGED spent
      \/ spent' = [spent EXCEPT !.calls = @ + 1]
      \/ Troubled
  BY DEF ClientNext, Thread, GetCached, GetDead, GetNone, Spawn, Kill, Initialize, Send, SendRequest,
     OpenFile, DidOpen, TakeNote, TakeRequest, SkipReply, TakeAnswer, TakeHandshake, TakeEof,
     TimeUp, Keep, Drained, Block, Unblock, Call, SpawnFails, OpenFails, Serve, Talk, Break, Edit,
     InterruptCall, InterruptBuild, InterruptLate, CloseAll, ExitInCall, clientVars
<1>5. \/ UNCHANGED call \/ call' = NoCall
      \/ \E kind \in {"ask", "query", "diagnose"} :
            call' = [NoCall EXCEPT !.n = spent.calls + 1, !.kind = kind]
      \/ call' = [call EXCEPT !.client = cache]
      \/ call' = [call EXCEPT !.client = cache, !.then = "spawn"]
      \/ call' = [call EXCEPT !.client = Len(client) + 1]
      \/ call' = [call EXCEPT !.then = "failed"]
      \/ call' = [call EXCEPT !.then = "interrupted", !.blocked = FALSE]
      \/ \E b \in BOOLEAN : call' = [call EXCEPT !.blocked = b]
      \/ pc \in {"built", "send"} /\ call' = [call EXCEPT !.id = Mine.next]
      \/ call' = [call EXCEPT !.read = text]
      \/ \E then \in {"none", "exit"} : call' = [NoCall EXCEPT !.client = cache, !.then = then]
  BY DEF ClientNext, Thread, GetCached, GetDead, GetNone, Spawn, Kill, Initialize, Send, SendRequest, Fail,
     OpenFile, DidOpen, TakeNote, TakeRequest, SkipReply, TakeAnswer, TakeHandshake, BuildFails, TakeEof,
     TimeUp, Keep, Drained, Block, Unblock, Call, SpawnFails, OpenFails, Serve, Talk, Break, Edit,
     InterruptCall, InterruptBuild, InterruptLate, CloseAll, ExitInCall, clientVars, End, NextId
<1>6. pc \in {"built", "send"} => Mine.next \in Nat
  BY InHand, HasClient DEF Mine, ClientRecord
<1>7. call' \in CallRecord
  <2>1. ASSUME NEW kind \in {"ask", "query", "diagnose"},
               call' = [NoCall EXCEPT !.n = spent.calls + 1, !.kind = kind]
        PROVE  call' \in CallRecord
    <3>1. spent.calls + 1 \in Nat
      BY <1>2
    <3>. QED BY <1>1, <2>1, <3>1, CallBecomes
  <2>2. ASSUME NEW n \in Nat, call' = [call EXCEPT !.client = n] PROVE call' \in CallRecord
    BY <1>2, <2>2, CallBecomes
  <2>3. CASE call' = [call EXCEPT !.client = cache, !.then = "spawn"]
    BY <1>2, <2>3, CallBecomes
  <2>4. CASE \/ call' = [call EXCEPT !.then = "failed"]
             \/ call' = [call EXCEPT !.then = "interrupted", !.blocked = FALSE]
    BY <1>2, <2>4, CallBecomes
  <2>5. CASE pc \in {"built", "send"} /\ call' = [call EXCEPT !.id = Mine.next]
    BY <1>2, <1>6, <2>5, CallBecomes
  <2>6. CASE call' = [call EXCEPT !.read = text]
    BY <1>2, <2>6, CallBecomes
  <2>7. ASSUME NEW then \in {"none", "exit"},
               call' = [NoCall EXCEPT !.client = cache, !.then = then]
        PROVE  call' \in CallRecord
    BY <1>1, <1>2, <2>7, CallBecomes
  <2>8. Len(client) + 1 \in Nat
    BY <1>2
  <2>9. ASSUME NEW b \in BOOLEAN, call' = [call EXCEPT !.blocked = b] PROVE call' \in CallRecord
    BY <1>2, <2>9, CallBecomes
  <2>. QED BY <1>1, <1>2, <1>5, <2>1, <2>2, <2>3, <2>4, <2>5, <2>6, <2>7, <2>8, <2>9
<1>8. spent' \in [calls : Nat, trouble : Nat]
  BY <1>2, <1>3, <1>4 DEF Troubled
<1>. QED BY <1>7, <1>8

\* Time does not go back.
LEMMA TextGrows ==
  ASSUME ClientTypeOK, [ClientNext]_clientVars
  PROVE  text \in Nat /\ text' \in Nat /\ text' >= text
<1>1. text' = text \/ text' = text + 1
  BY DEF ClientNext, Thread, GetCached, GetDead, GetNone, Spawn, Kill, Initialize, Send, SendRequest, Fail,
     OpenFile, DidOpen, TakeNote, TakeRequest, SkipReply, TakeAnswer, TakeHandshake, BuildFails, TakeEof,
     TimeUp, Keep, Drained, Block, Unblock, Call, SpawnFails, OpenFails, Serve, Talk, Break, Edit,
     InterruptCall, InterruptBuild, InterruptLate, CloseAll, ExitInCall, clientVars
<1>. QED BY <1>1 DEF ClientTypeOK

\* No step leaves the types.
LEMMA ClientTypesStep ==
  ASSUME ClientTypeOK, Placed, [ClientNext]_clientVars
  PROVE  ClientTypeOK'
<1>1. cache' \in {0, cache} \/ (pc = "keep" /\ cache' = call.client)
  BY DEF ClientNext, Thread, GetCached, GetDead, GetNone, Spawn, Kill, Initialize, Send, SendRequest, Fail,
     OpenFile, DidOpen, TakeNote, TakeRequest, SkipReply, TakeAnswer, TakeHandshake, BuildFails, TakeEof,
     TimeUp, Keep, Drained, Block, Unblock, Call, SpawnFails, OpenFails, Serve, Talk, Break, Edit,
     InterruptCall, InterruptBuild, InterruptLate, CloseAll, ExitInCall, clientVars
<1>2. cache' \in 0..Len(client')
  BY <1>1, RecordsStay, InHand, HasClient DEF ClientTypeOK
<1>. QED BY <1>2, RecordsStay, CallTypes, TextGrows DEF ClientTypeOK

-----------------------------------------------------------------------------
\* No number is used twice at one client.
LEMMA NumberedStep ==
  ASSUME ClientTypeOK, Placed, Numbered, [ClientNext]_clientVars
  PROVE  Numbered'
<1>0. DOMAIN server = DOMAIN client
  BY DEF ClientTypeOK
<1>1. CASE ServerFades /\ ClientFades
  <2>0. DOMAIN server' = DOMAIN server
    BY <1>1 DEF ServerFades, ClientTypeOK
  <2> SUFFICES ASSUME NEW c \in DOMAIN server, ~ client'[c].closed
               PROVE  \A r \in server'[c].todo \cup RepliesIn(server'[c].out) : r.id < client'[c].next
    BY <2>0 DEF Numbered, Replied
  <2>1. client'[c].next = client[c].next /\ ~ client[c].closed
    BY <1>0, <1>1 DEF ClientFades, Goes, Closed
  <2>2. server'[c].todo \cup RepliesIn(server'[c].out) \subseteq server[c].todo \cup Replied(c)
    BY <1>1, NoReplies DEF ServerFades, Quiet, Gone
  <2>. QED BY <2>1, <2>2 DEF Numbered
<1>2. CASE AskServer
  <2>0. DOMAIN server' = DOMAIN server
    BY <1>2, Domains
  <2> SUFFICES ASSUME NEW c \in DOMAIN server, ~ client'[c].closed,
                      NEW r \in server'[c].todo \cup RepliesIn(server'[c].out)
               PROVE  r.id < client'[c].next
    BY <2>0 DEF Numbered, Replied
  <2>1. CASE c # call.client
    BY <1>2, <2>1, AskRecords DEF Numbered, Replied
  <2>2. CASE c = call.client
    <3>1. client[c].next \in Nat /\ client'[c].next = client[c].next + 1 /\ ~ client[c].closed
      BY <1>2, <2>2, AskRecords, Records DEF ClientRecord
    <3>2. r.id = client[c].next \/ r \in server[c].todo \cup Replied(c)
      BY <1>2, <2>2, AskRecords DEF Replied
    <3>3. r \in server[c].todo \cup Replied(c) => r.id < client[c].next /\ r.id \in Nat
      <4>1. \A x \in server[c].todo \cup Replied(c) : x.id \in Nat
        BY Records, ReadOff DEF ServerRecord, Pending, Replied, RepliesIn
      <4>. QED BY <3>1, <4>1 DEF Numbered
    <3>. QED BY <3>1, <3>2, <3>3
  <2>. QED BY <2>1, <2>2
<1>3. CASE GiveText
  <2>0. DOMAIN server' = DOMAIN server
    BY <1>3, Domains
  <2> SUFFICES ASSUME NEW c \in DOMAIN server, ~ client'[c].closed,
                      NEW r \in server'[c].todo \cup RepliesIn(server'[c].out)
               PROVE  r.id < client'[c].next
    BY <2>0 DEF Numbered, Replied
  <2>. QED BY <1>3, TextRecords DEF Numbered, Replied
<1>4. CASE Born
  <2> SUFFICES ASSUME NEW c \in DOMAIN server', ~ client'[c].closed,
                      NEW r \in server'[c].todo \cup RepliesIn(server'[c].out)
               PROVE  r.id < client'[c].next
    BY DEF Numbered, Replied
  <2>1. CASE c \in DOMAIN server
    BY <1>4, <2>1, BornRecords DEF Numbered, Replied
  <2>2. CASE c \notin DOMAIN server
    <3>1. server'[c] = NewServer
      BY <1>4, <2>2, BornRecords
    <3>. QED BY <3>1, NoReplies DEF NewServer
  <2>. QED BY <2>1, <2>2
<1>5. ASSUME NEW d \in DOMAIN server, Serve(d) PROVE Numbered'
  <2>0. UNCHANGED client /\ DOMAIN server' = DOMAIN server
    BY <1>5, ServeRecords DEF ClientTypeOK
  <2> SUFFICES ASSUME NEW c \in DOMAIN server, ~ client[c].closed,
                      NEW r \in server'[c].todo \cup RepliesIn(server'[c].out)
               PROVE  r.id < client[c].next
    BY <2>0 DEF Numbered, Replied
  <2>1. CASE c # d
    BY <1>5, <2>1, ServeRecords DEF Numbered, Replied
  <2>2. CASE c = d
    <3>1. PICK t \in server[d].todo, ok \in BOOLEAN :
             RepliesIn(server'[d].out) \subseteq Replied(d) \cup {Reply(t, server[d].doc, ok)}
      BY <1>5, ServeRecords
    <3>2. server'[d].todo \subseteq server[d].todo
      BY <1>5, ServeRecords
    <3>3. Reply(t, server[d].doc, ok).id = t.id
      BY DEF Reply
    <3>. QED BY <2>2, <3>1, <3>2, <3>3 DEF Numbered
  <2>. QED BY <2>1, <2>2
<1>. QED BY <1>1, <1>2, <1>3, <1>4, <1>5, Moves

\* What is known of the time of a server stays true.
LEMMA DatedServers ==
  ASSUME ClientTypeOK, Placed, Dated, [ClientNext]_clientVars
  PROVE  \A c \in DOMAIN server' :
            /\ server'[c].born <= text'
            /\ server'[c].doc = NoText \/ server'[c].doc \in server'[c].born..text'
<1> SUFFICES ASSUME NEW c \in DOMAIN server'
             PROVE  /\ server'[c].born <= text'
                    /\ server'[c].doc = NoText \/ server'[c].doc \in server'[c].born..text'
  OBVIOUS
<1>0. text \in Nat /\ text' \in Nat /\ text' >= text
  BY TextGrows
<1>1. ASSUME c \in DOMAIN server, server'[c].born = server[c].born, server'[c].doc = server[c].doc
      PROVE  /\ server'[c].born <= text'
             /\ server'[c].doc = NoText \/ server'[c].doc \in server'[c].born..text'
  <2>1. server[c].born \in Int /\ server[c].doc \in Int
    BY <1>1, Records DEF ServerRecord
  <2>. QED BY <1>0, <1>1, <2>1 DEF Dated
<1>2. CASE ServerFades
  <2>1. c \in DOMAIN server
    BY <1>2 DEF ServerFades, ClientTypeOK
  <2>2. CASE server'[c] = Gone
    BY <1>0, <2>2 DEF Gone, NoText
  <2>. QED BY <1>1, <1>2, <2>1, <2>2 DEF ServerFades, Quiet
<1>3. CASE AskServer
  BY <1>1, <1>3, AskRecords DEF ClientTypeOK
<1>4. CASE GiveText
  <2>1. CASE c # call.client
    BY <1>1, <1>4, <2>1, TextRecords DEF ClientTypeOK
  <2>2. CASE c = call.client
    <3>1. server'[c].born = server[c].born /\ server'[c].doc = call.read /\ c \in DOMAIN server
      BY <1>4, <2>2, TextRecords
    <3>2. server[c].born \in Int /\ server[c].born <= text /\ call.read \in server[c].born..text
      BY <1>4, <2>2, <3>1, Records DEF GiveText, Dated, Peer, ServerRecord
    <3>. QED BY <1>0, <3>1, <3>2
  <2>. QED BY <2>1, <2>2
<1>5. CASE Born
  <2>1. CASE c \in DOMAIN server
    BY <1>1, <1>5, <2>1, BornRecords
  <2>2. CASE c \notin DOMAIN server
    <3>1. server'[c] = NewServer
      BY <1>5, <2>2, BornRecords
    <3>. QED BY <1>0, <3>1 DEF NewServer
  <2>. QED BY <2>1, <2>2
<1>6. ASSUME NEW d \in DOMAIN server, Serve(d)
      PROVE  server'[c].born = server[c].born /\ server'[c].doc = server[c].doc /\ c \in DOMAIN server
  BY <1>6, ServeRecords DEF ClientTypeOK
<1>. QED BY <1>1, <1>2, <1>3, <1>4, <1>5, <1>6, Moves

\* A client that has given its server a text has one that is not gone.
LEMMA DatedClients ==
  ASSUME ClientTypeOK, Placed, Dated, [ClientNext]_clientVars
  PROVE  \A c \in DOMAIN server' : client'[c].opened => server'[c].doc # NoText \/ pc' = "gone"
<1> SUFFICES ASSUME NEW c \in DOMAIN server', client'[c].opened, pc' # "gone"
             PROVE  server'[c].doc # NoText
  OBVIOUS
<1>7. DOMAIN server = DOMAIN client
  BY DEF ClientTypeOK
<1>0. pc # "gone"
  BY DEF ClientNext, Thread, GetCached, GetDead, GetNone, Spawn, Kill, Initialize, Send,
     SendRequest, OpenFile, DidOpen, TakeNote, TakeRequest, SkipReply, TakeAnswer, TakeHandshake, TakeEof,
     TimeUp, Keep, Drained, Block, Unblock, Call, SpawnFails, OpenFails, Serve, Talk, Break, Edit,
     InterruptCall, InterruptBuild, InterruptLate, CloseAll, ExitInCall, clientVars, Has, Deadline, Waiting
<1>1. ASSUME c \in DOMAIN server, client[c].opened, server'[c].doc = server[c].doc
      PROVE  server'[c].doc # NoText
  BY <1>0, <1>1 DEF Dated
<1>2. CASE ServerFades /\ ClientFades
  <2>1. c \in DOMAIN server /\ c \in DOMAIN client
    BY <1>7, <1>2 DEF ServerFades, ClientTypeOK
  <2>2. Goes(c) /\ client[c].opened
    <3>1. client'[c] # Closed
      BY DEF Closed
    <3>2. Goes(c)
      BY <1>2, <2>1, <3>1 DEF ClientFades
    <3>. QED BY <3>2 DEF Goes
  <2>3. ~ client[c].closed
    BY <2>1, <2>2 DEF Placed, Holds, Closed
  <2>4. Quiet(c)
    BY <1>2, <2>1, <2>3 DEF ServerFades
  <2>. QED BY <1>1, <2>1, <2>2, <2>4 DEF Quiet
<1>3. CASE AskServer
  BY <1>1, <1>3, AskRecords DEF ClientTypeOK
<1>4. CASE GiveText
  <2>1. CASE c # call.client
    BY <1>1, <1>4, <2>1, TextRecords DEF ClientTypeOK
  <2>2. CASE c = call.client
    <3>1. server'[c].doc = call.read /\ call.read \in Nat
      BY <1>4, <2>2, TextRecords DEF Dated, GiveText
    <3>. QED BY <3>1 DEF NoText
  <2>. QED BY <2>1, <2>2
<1>5. CASE Born
  <2>1. CASE c \in DOMAIN server
    BY <1>1, <1>5, <2>1, BornRecords
  <2>2. CASE c \notin DOMAIN server
    <3>1. client'[c] = NewClient
      BY <1>5, <2>2, BornRecords
    <3>. QED BY <3>1 DEF NewClient
  <2>. QED BY <2>1, <2>2
<1>6. ASSUME NEW d \in DOMAIN server, Serve(d)
      PROVE  server'[c].doc = server[c].doc /\ c \in DOMAIN server /\ client[c].opened
  BY <1>6, ServeRecords DEF ClientTypeOK
<1>. QED BY <1>1, <1>2, <1>3, <1>4, <1>5, <1>6, Moves

\* The text that was read for the server is of its time.
LEMMA DatedRead ==
  ASSUME ClientTypeOK, Placed, Dated, [ClientNext]_clientVars, pc' = "opening"
  PROVE  call'.read \in Nat /\ call'.read \in server'[call'.client].born..text'
<1>0. text \in Nat /\ text' \in Nat /\ text' >= text
  BY TextGrows
<1>1. \/ OpenFile /\ call' = [call EXCEPT !.read = text]
      \/ pc = "opening" /\ (UNCHANGED call \/ Block \/ Unblock)
  BY DEF ClientNext, Thread, GetCached, GetDead, GetNone, Spawn, Kill, Initialize, Send, AfterGet,
     SendRequest, OpenFile, DidOpen, TakeNote, TakeRequest, SkipReply, TakeAnswer, TakeHandshake, TakeEof,
     TimeUp, Keep, Drained, Block, Unblock, Call, SpawnFails, OpenFails, Serve, Talk, Break, Edit,
     InterruptCall, InterruptBuild, InterruptLate, CloseAll, ExitInCall, clientVars, End, Fail, BuildFails
<1>2. /\ pc \in InUse /\ call'.client = call.client
      /\ pc = "opening" => call'.read = call.read
  BY <1>1, HasClient, BlockedCall DEF OpenFile, ClientTypeOK, CallRecord, SameCall
<1>3. /\ call.client \in DOMAIN server /\ call.client \in DOMAIN client
      /\ ~ client[call.client].closed /\ server[call.client].born \in Int
  BY <1>2, InHand DEF Placed, Holds, ServerRecord
<1>4. call'.read \in Nat /\ call'.read \in server[call.client].born..text
  BY <1>0, <1>1, <1>2, <1>3 DEF OpenFile, Dated, Peer, ClientTypeOK, CallRecord
<1>5. server'[call.client].born = server[call.client].born
  <2>1. CASE ServerFades
    BY <1>3, <2>1 DEF ServerFades, Quiet
  <2>2. CASE AskServer
    BY <1>3, <2>2, AskRecords
  <2>3. CASE GiveText
    BY <1>3, <2>3, TextRecords
  <2>4. CASE Born
    BY <1>3, <2>4, BornRecords
  <2>5. ASSUME NEW d \in DOMAIN server, Serve(d)
        PROVE  server'[call.client].born = server[call.client].born
    BY <1>3, <2>5, ServeRecords
  <2>. QED BY <2>1, <2>2, <2>3, <2>4, <2>5, Moves
<1>. QED BY <1>0, <1>2, <1>3, <1>4, <1>5

\* No step forgets whose text is whose.
LEMMA DatedStep ==
  ASSUME ClientTypeOK, Placed, Dated, [ClientNext]_clientVars
  PROVE  Dated'
BY DatedServers, DatedClients, DatedRead DEF Dated, Peer

\* Nothing else gets the number of the call.
LEMMA OwnedStep ==
  ASSUME ClientTypeOK, Placed, Numbered, Dated, Owned, [ClientNext]_clientVars
  PROVE  Owned'
<1> SUFFICES ASSUME pc' = "wait"
             PROVE  /\ \A r \in server'[call'.client].todo \cup RepliesIn(server'[call'.client].out) :
                          r.id = call'.id => r.of = call'.n
                    /\ call'.kind = "ask" =>
                          \A m \in RepliesIn(server'[call'.client].out) :
                             m.id = call'.id => m.text \in server'[call'.client].born..text'
  BY DEF Owned, Peer, Replied
<1> DEFINE c == call.client
<1>0. text \in Nat /\ text' \in Nat /\ text' >= text
  BY TextGrows
<1>1. (pc = "send" /\ AskServer) \/ (pc = "wait" /\ (UNCHANGED call \/ Block \/ Unblock))
  BY DEF ClientNext, Thread, GetCached, GetDead, GetNone, Spawn, Kill, Initialize, Send, AfterGet,
     SendRequest, OpenFile, DidOpen, TakeNote, TakeRequest, SkipReply, TakeAnswer, TakeHandshake, TakeEof,
     TimeUp, Keep, Drained, Block, Unblock, Call, SpawnFails, OpenFails, Serve, Talk, Break, Edit,
     InterruptCall, InterruptBuild, InterruptLate, CloseAll, ExitInCall, clientVars, End, Fail, BuildFails,
     AskServer
<1>2. /\ c \in DOMAIN server /\ c \in DOMAIN client /\ ~ client[c].closed
      /\ server[c] \in ServerRecord /\ client[c] \in ClientRecord
  BY <1>1, InHand, HasClient DEF Placed, Holds
<1>3. \A r \in server[c].todo \cup Replied(c) : r.id \in Nat
  BY <1>2, ReadOff DEF ServerRecord, Pending, Replied, RepliesIn
<1>4. CASE pc = "send" /\ AskServer
  <2>1. /\ call'.client = c /\ call'.id = client[c].next /\ call'.n = call.n
        /\ client[c].next \in Nat
    BY <1>2, <1>4 DEF AskServer, NextId, Mine, ClientTypeOK, CallRecord, ClientRecord
  <2>2. \A r \in server[c].todo \cup Replied(c) : r.id # client[c].next
    BY <1>2, <1>3, <2>1 DEF Numbered
  <2>3. /\ server'[c].todo = server[c].todo \cup {[id |-> client[c].next, of |-> call.n]}
        /\ RepliesIn(server'[c].out) = Replied(c)
    BY <1>4, AskRecords DEF Replied
  <2>. QED BY <2>1, <2>2, <2>3
<1>6. pc = "wait" /\ (UNCHANGED call \/ Block \/ Unblock) => SameCall
  BY BlockedCall DEF SameCall
<1>5. CASE pc = "wait" /\ SameCall
  <2>0. /\ \A r \in server[c].todo \cup Replied(c) : r.id = call.id => r.of = call.n
        /\ call.kind = "ask" =>
              \A m \in Replied(c) : m.id = call.id => m.text \in server[c].born..text
    BY <1>5 DEF Owned, Peer
  <2>1. ASSUME server'[c].todo \subseteq server[c].todo, server'[c].born = server[c].born,
               RepliesIn(server'[c].out) \subseteq Replied(c)
        PROVE  /\ \A r \in server'[c].todo \cup RepliesIn(server'[c].out) :
                      r.id = call.id => r.of = call.n
               /\ call.kind = "ask" =>
                      \A m \in RepliesIn(server'[c].out) :
                         m.id = call.id => m.text \in server'[c].born..text'
    <3>1. server[c].born..text \subseteq server[c].born..text'
      BY <1>0, <1>2 DEF ServerRecord
    <3>. QED BY <2>0, <2>1, <3>1
  <2>2. CASE ServerFades
    BY <1>2, <1>5, <2>1, <2>2 DEF ServerFades, Quiet, SameCall
  <2>3. CASE Born
    BY <1>2, <1>5, <2>1, <2>3, BornRecords DEF Replied, SameCall
  <2>4. ASSUME NEW d \in DOMAIN server, Serve(d), d # c
        PROVE  server'[c] = server[c]
    BY <1>2, <2>4, ServeRecords
  <2>5. ASSUME Serve(c)
        PROVE  /\ \A r \in server'[c].todo \cup RepliesIn(server'[c].out) :
                      r.id = call.id => r.of = call.n
               /\ call.kind = "ask" =>
                      \A m \in RepliesIn(server'[c].out) :
                         m.id = call.id => m.text \in server'[c].born..text'
    <3>1. PICK t \in server[c].todo, ok \in BOOLEAN :
             RepliesIn(server'[c].out) \subseteq Replied(c) \cup {Reply(t, server[c].doc, ok)}
      BY <1>2, <2>5, ServeRecords
    <3>2. server'[c].todo \subseteq server[c].todo /\ server'[c].born = server[c].born
      BY <1>2, <2>5, ServeRecords
    <3> DEFINE n == Reply(t, server[c].doc, ok)
    <3>3. n.id = t.id /\ n.of = t.of /\ n.text = server[c].doc
      BY DEF Reply
    <3>4. call.kind = "ask" => server[c].doc \in server[c].born..text
      BY <1>2, <1>5 DEF Placed, Holds, Dated
    <3>5. server[c].born..text \subseteq server[c].born..text'
      BY <1>0, <1>2 DEF ServerRecord
    <3> HIDE DEF n
    <3>. QED BY <2>0, <3>1, <3>2, <3>3, <3>4, <3>5 DEF n
  <2>6. ~ AskServer /\ ~ GiveText
    BY <1>5 DEF AskServer, GiveText
  <2>. QED BY <1>2, <1>5, <2>1, <2>2, <2>3, <2>4, <2>5, <2>6, Moves DEF Replied, SameCall
<1>. QED BY <1>1, <1>4, <1>5, <1>6

-----------------------------------------------------------------------------
\* A closed client stays what it is, and one that is not can be used.
LEMMA PlacedClients ==
  ASSUME ClientTypeOK, Placed, [ClientNext]_clientVars
  PROVE  \A c \in DOMAIN client' : /\ client'[c].closed => client'[c] = Closed
                                   /\ ~ client'[c].closed => client'[c].healthy
<1> SUFFICES ASSUME NEW c \in DOMAIN client'
             PROVE  /\ client'[c].closed => client'[c] = Closed
                    /\ ~ client'[c].closed => client'[c].healthy
  OBVIOUS
<1>0. DOMAIN server = DOMAIN client /\ DOMAIN server' = DOMAIN client'
  BY RecordsStay DEF ClientTypeOK
<1>1. ASSUME c \in DOMAIN client, client[c].closed => client'[c] = client[c],
             client'[c].closed = client[c].closed, client'[c].healthy = client[c].healthy
      PROVE  /\ client'[c].closed => client'[c] = Closed
             /\ ~ client'[c].closed => client'[c].healthy
  BY <1>1 DEF Placed, Holds
<1>2. CASE ClientFades
  <2>1. c \in DOMAIN client
    BY <1>2 DEF ClientFades, ClientTypeOK
  <2>2. CASE client'[c] = Closed
    BY <2>2 DEF Closed
  <2>. QED BY <1>1, <1>2, <2>1, <2>2 DEF ClientFades, Goes
<1>3. CASE AskServer
  <2>1. pc \in InUse
    BY <1>3, HasClient DEF AskServer
  <2>2. c \in DOMAIN client /\ ~ client[call.client].closed
    BY <1>3, <2>1, Domains DEF Placed, Holds
  <2>. QED BY <1>0, <1>1, <1>3, <2>2, AskRecords
<1>4. CASE GiveText
  <2>1. pc \in InUse
    BY <1>4, HasClient DEF GiveText
  <2>2. c \in DOMAIN client /\ ~ client[call.client].closed
    BY <1>4, <2>1, Domains DEF Placed, Holds
  <2>. QED BY <1>0, <1>1, <1>4, <2>2, TextRecords
<1>5. CASE Born
  <2>1. CASE c \in DOMAIN client
    BY <1>0, <1>1, <1>5, <2>1, BornRecords
  <2>2. CASE c \notin DOMAIN client
    <3>1. client'[c] = NewClient
      BY <1>0, <1>5, <2>2, BornRecords
    <3>. QED BY <3>1 DEF NewClient
  <2>. QED BY <2>1, <2>2
<1>6. ASSUME NEW d \in DOMAIN server, Serve(d) PROVE UNCHANGED client
  BY <1>6, ServeRecords
<1>. QED BY <1>1, <1>2, <1>3, <1>4, <1>5, <1>6, Moves

\* Between two calls it has nothing.
LEMMA HoldsNothing == ASSUME pc' \in {"idle", "gone", "get"} PROVE Holds'
BY DEF Holds, InUse, Talking, Building

\* A client is given up.
LEMMA HoldsClosing ==
  ASSUME ClientTypeOK, NEW c \in DOMAIN client, Close(c), pc' = "closing", call'.client = c,
         call'.then \in {"none", "spawn", "exit"} => cache' = c
  PROVE  Holds'
<1>1. DOMAIN client' = DOMAIN client /\ client'[c] = Closed
  BY OneClient, Constants DEF Close
<1>. QED BY <1>1 DEF Holds, InUse, Talking, Building, Closed

\* Nothing moves but what the server sends.
LEMMA HoldsStay ==
  ASSUME ClientTypeOK, Holds, UNCHANGED <<pc, cache>>, UNCHANGED call \/ SameCall,
         DOMAIN client \subseteq DOMAIN client',
         \A c \in DOMAIN client :
            client'[c].closed = client[c].closed /\ client'[c].opened = client[c].opened
  PROVE  Holds'
<1>1. cache # 0 => cache \in DOMAIN client
  BY DEF ClientTypeOK
<1>2. pc \in {"send", "wait"} => pc \in InUse
  BY HasClient
<1>3. call'.client = call.client /\ call'.kind = call.kind /\ call'.then = call.then
  BY DEF SameCall
<1>. QED BY <1>1, <1>2, <1>3 DEF Holds

\* No step takes a client away from the thread that has it.
LEMMA HoldsStep ==
  ASSUME ClientTypeOK, Placed, [ClientNext]_clientVars
  PROVE  Holds'
<1>0. Holds /\ call \in CallRecord /\ cache \in 0..Len(client) /\ DOMAIN client = 1..Len(client)
      /\ Len(client) \in Nat
  BY DEF Holds, Placed, ClientTypeOK
<1>1. cache # 0 => cache \in DOMAIN client
  BY <1>0
<1>2. ASSUME Fail, pc \in InUse PROVE Holds'
  <2>1. call'.client = call.client /\ call'.then = "failed" /\ pc' = "closing"
    BY <1>0, <1>2 DEF Fail, CallRecord
  <2>2. call.client \in DOMAIN client /\ Close(call.client)
    BY <1>2, InHand DEF Fail
  <2>. QED BY <2>1, <2>2, HoldsClosing
<1>3. CASE AskServer
  <2>1. call'.client = call.client /\ call'.kind = call.kind /\ UNCHANGED cache
    BY <1>0, <1>3 DEF AskServer, CallRecord
  <2>2. /\ DOMAIN client' = DOMAIN client
        /\ \A c \in DOMAIN client : client'[c].closed = client[c].closed
                                    /\ client'[c].opened = client[c].opened
    BY <1>3, AskRecords, Domains
  <2>3. pc \in InUse
    BY <1>3, HasClient DEF AskServer
  <2>4. CASE pc = "built" /\ pc' = "handshake"
    BY <1>0, <1>1, <2>1, <2>2, <2>3, <2>4 DEF Holds, InUse, Talking, Building
  <2>5. CASE pc = "send" /\ pc' = "wait"
    BY <1>0, <1>1, <2>1, <2>2, <2>3, <2>5 DEF Holds, InUse, Talking, Building
  <2>. QED BY <1>3, <2>4, <2>5 DEF AskServer
<1>4. CASE GiveText
  <2>1. CASE pc' = "idle"
    BY <2>1, HoldsNothing
  <2>2. CASE pc' # "idle"
    <3>1. /\ UNCHANGED <<call, cache>> /\ pc = "opening"
          /\ pc' = (IF call.kind = "ask" THEN "send" ELSE "drain")
          /\ client' = [client EXCEPT ![call.client].opened = TRUE]
      BY <1>4, <2>2 DEF GiveText, End
    <3>2. /\ DOMAIN client' = DOMAIN client /\ call.client \in DOMAIN client
          /\ client'[call.client].closed = client[call.client].closed
          /\ client[call.client] \in ClientRecord
      BY <1>4, TextRecords, Records DEF ClientTypeOK
    <3>3. client'[call.client].opened
      BY <3>1, <3>2 DEF ClientRecord
    <3>4. pc \in InUse /\ pc \in Talking
      BY <3>1, HasClient DEF Talking
    <3>. QED BY <1>0, <3>1, <3>2, <3>3, <3>4 DEF Holds, InUse, Talking, Building
  <2>. QED BY <2>1, <2>2
<1>5. CASE Initialize \/ Send \/ DidOpen
  <2>1. AskServer \/ GiveText \/ (Fail /\ pc \in InUse)
    BY <1>5, HasClient DEF Initialize, Send, SendRequest, DidOpen, AskServer, GiveText
  <2>. QED BY <1>2, <1>3, <1>4, <2>1
<1>6. CASE \/ TakeRequest \/ TakeEof \/ TakeHandshake \/ TimeUp
  <2>1. \/ Fail /\ pc \in InUse
        \/ pc' = "idle"
        \/ UNCHANGED <<pc, call, cache, client>>
        \/ /\ UNCHANGED <<call, cache, client>>
           /\ (pc = "handshake" /\ pc' = "load") \/ (pc = "load" /\ pc' = "keep")
    BY <1>6, HasClient
       DEF TakeRequest, TakeEof, TakeHandshake, TimeUp, Has, Deadline, Waiting, BuildFails, End
  <2>2. ASSUME UNCHANGED <<call, cache, client>>,
               (pc = "handshake" /\ pc' = "load") \/ (pc = "load" /\ pc' = "keep")
        PROVE  Holds'
    BY <1>0, <2>2 DEF Holds, InUse, Talking, Building
  <2>. QED BY <1>0, <1>2, <2>1, <2>2, HoldsNothing, HoldsStay
<1>7. CASE \/ SkipReply \/ TakeAnswer \/ Drained \/ SpawnFails \/ OpenFails \/ InterruptCall \/ InterruptLate
           \/ ExitInCall \/ Edit \/ UNCHANGED clientVars
           \/ \E kind \in {"ask", "query", "diagnose"} : Call(kind)
           \/ \E c \in DOMAIN server : Serve(c) \/ Talk(c) \/ Break(c)
  <2>1. pc' \in {"idle", "gone", "get"} \/ UNCHANGED <<pc, call, cache, client>>
    BY <1>7 DEF SkipReply, TakeAnswer, Drained, SpawnFails, OpenFails, InterruptCall, InterruptLate,
       ExitInCall, Edit, Call, Serve, Talk, Break, End, clientVars
  <2>. QED BY <1>0, <2>1, HoldsNothing, HoldsStay
<1>8. CASE TakeNote
  <2>1. pc \in InUse
    BY <1>8, HasClient DEF TakeNote, Has, Waiting
  <2>2. call.client \in DOMAIN client /\ client[call.client] \in ClientRecord
    BY <2>1, InHand
  <2>3. \A c \in DOMAIN client :
           client'[c].closed = client[c].closed /\ client'[c].opened = client[c].opened
    BY <1>8, <2>2 DEF TakeNote, ClientRecord
  <2>4. DOMAIN client' = DOMAIN client /\ UNCHANGED <<pc, call, cache>>
    BY <1>8 DEF TakeNote
  <2>. QED BY <1>0, <2>3, <2>4, HoldsStay
<1>9. CASE GetCached
  <2>1. call'.client = cache /\ call'.kind = call.kind /\ UNCHANGED <<cache, client>>
    BY <1>0, <1>9 DEF GetCached, CallRecord
  <2>2. cache \in DOMAIN client /\ ~ client[cache].closed
    BY <1>1, <1>9 DEF GetCached, Alive, Placed, Holds, Closed
  <2>3. (pc' = "send" /\ call.kind = "query") \/ pc' = "open"
    BY <1>9 DEF GetCached, AfterGet
  <2>. QED BY <2>1, <2>2, <2>3 DEF Holds, InUse, Talking, Building
<1>10. CASE GetDead
  <2>1. cache \in DOMAIN client
    BY <1>1, <1>10 DEF GetDead
  <2>2. CASE client[cache].closed
    BY <1>10, <2>1, <2>2 DEF GetDead, Holds, InUse, Talking, Building
  <2>3. CASE ~ client[cache].closed
    <3>1. Close(cache) /\ pc' = "closing" /\ call'.client = cache /\ UNCHANGED cache
      BY <1>0, <1>10, <2>3 DEF GetDead, CallRecord
    <3>. QED BY <2>1, <3>1, HoldsClosing
  <2>. QED BY <2>2, <2>3
<1>11. CASE GetNone
  BY <1>11 DEF GetNone, Holds, InUse, Talking, Building
<1>12. CASE Spawn
  <2>1. /\ pc = "spawn" /\ pc' = "built" /\ call'.client = Len(client) + 1 /\ UNCHANGED cache
        /\ Born
    BY <1>0, <1>12 DEF Spawn, CallRecord
  <2>2. /\ client'[Len(client) + 1] = NewClient /\ Len(client) + 1 \in DOMAIN client'
        /\ \A c \in DOMAIN client : client'[c] = client[c]
    BY <2>1, BornRecords, Domains
  <2>3. cache = 0 \/ client[cache].closed
    BY <1>0, <2>1 DEF Holds, Building
  <2>. QED BY <1>1, <2>1, <2>2, <2>3 DEF Holds, InUse, Talking, Building, NewClient
<1>13. CASE Kill
  <2>1. CASE pc' = "spawn"
    <3>1. UNCHANGED <<cache, client>> /\ call.then = "spawn" /\ pc = "closing"
      BY <1>13, <2>1 DEF Kill, End
    <3>. QED BY <1>0, <2>1, <3>1 DEF Holds, InUse, Talking, Building
  <2>2. CASE pc' # "spawn"
    BY <1>13, <2>2, HoldsNothing DEF Kill, End
  <2>. QED BY <2>1, <2>2
<1>14. CASE OpenFile
  <2>1. /\ pc = "open" /\ UNCHANGED <<cache, client>>
        /\ call'.client = call.client /\ call'.kind = call.kind
        /\ \/ pc' = "opening"
           \/ pc' = "drain" /\ call.kind # "ask"
           \/ pc' = "send" /\ client[call.client].opened
    BY <1>0, <1>14 DEF OpenFile, CallRecord, Mine
  <2>. QED BY <1>0, <2>1 DEF Holds, InUse, Talking, Building
<1>15. CASE Keep
  <2>1. /\ pc = "keep" /\ UNCHANGED <<call, client>> /\ cache' = call.client
        /\ (pc' = "send" /\ call.kind = "query") \/ pc' = "open"
    BY <1>15 DEF Keep, AfterGet
  <2>. QED BY <1>0, <2>1 DEF Holds, InUse, Talking, Building
<1>16. CASE InterruptBuild
  <2>1. CASE pc = "spawn"
    BY <1>16, <2>1, HoldsNothing DEF InterruptBuild, End
  <2>2. CASE pc # "spawn"
    <3>1. /\ Close(call.client) /\ pc' = "closing"
          /\ call'.client = call.client /\ call'.then = "interrupted"
          /\ pc \in InUse
      BY <1>0, <1>16, <2>2, HasClient DEF InterruptBuild, CallRecord
    <3>. QED BY <3>1, InHand, HoldsClosing
  <2>. QED BY <2>1, <2>2
<1>17. CASE CloseAll
  <2>1. CASE pc' = "closing"
    <3>1. Close(cache) /\ call'.client = cache /\ cache # 0 /\ UNCHANGED cache
      BY <1>17, <2>1 DEF CloseAll, NoCall
    <3>. QED BY <1>1, <2>1, <3>1, HoldsClosing
  <2>2. CASE pc' # "closing"
    BY <1>17, <2>2, HoldsNothing DEF CloseAll
  <2>. QED BY <2>1, <2>2
<1>18. CASE Block \/ Unblock
  BY <1>0, <1>18, BlockedCall, HoldsStay
<1>. QED BY <1>5, <1>6, <1>7, <1>8, <1>9, <1>10, <1>11, <1>12, <1>13, <1>14, <1>15, <1>16, <1>17,
            <1>18
         DEF ClientNext, Thread

-----------------------------------------------------------------------------
\* A server that is gone does not come back.
LEMMA StaysDown ==
  ASSUME ClientTypeOK, Placed, [ClientNext]_clientVars, NEW c \in DOMAIN server, server'[c].up
  PROVE  server[c].up
<1>1. CASE ServerFades
  BY <1>1 DEF ServerFades, Quiet, Gone
<1>2. CASE AskServer
  BY <1>2, AskRecords
<1>3. CASE GiveText
  BY <1>3, TextRecords
<1>4. CASE Born
  BY <1>4, BornRecords
<1>5. ASSUME NEW d \in DOMAIN server, Serve(d) PROVE server[c].up
  BY <1>5, ServeRecords
<1>. QED BY <1>1, <1>2, <1>3, <1>4, <1>5, Moves

\* What is lost stays lost.
LEMMA StaysLost == [ClientNext]_clientVars => lost \subseteq lost'
BY DEF ClientNext, Thread, GetCached, GetDead, GetNone, Spawn, Kill, Initialize, Send, SendRequest, Fail,
     OpenFile, DidOpen, TakeNote, TakeRequest, SkipReply, TakeAnswer, TakeHandshake, BuildFails, TakeEof,
     TimeUp, Keep, Drained, Block, Unblock, Call, SpawnFails, OpenFails, Serve, Talk, Break, Edit,
     InterruptCall, InterruptBuild, InterruptLate, CloseAll, ExitInCall, clientVars

\* A server that was there before the step.
LEMMA OldStays ==
  ASSUME ClientTypeOK, Placed, NoneLeft, [ClientNext]_clientVars,
         NEW c \in DOMAIN server, server'[c].up, c \notin lost'
  PROVE  CacheHas(c)' \/ HandHas(c)'
<1>0. /\ CacheHas(c) \/ HandHas(c)
      /\ Holds /\ call \in CallRecord /\ c # 0 /\ c \in DOMAIN client
      /\ pc = "idle" => ~ HandHas(c)
  <2>1. CacheHas(c) \/ HandHas(c)
    BY StaysDown, StaysLost DEF NoneLeft, CacheHas, HandHas
  <2>2. c # 0 /\ c \in DOMAIN client
    BY DEF ClientTypeOK
  <2>. QED BY <2>1, <2>2, HasClient DEF Placed, HandHas, ClientTypeOK
<1> USE DEF CacheHas, HandHas
<1>1. ASSUME Fail, pc \in InUse PROVE CacheHas(c)' \/ HandHas(c)'
  <2>1. call.client \in DOMAIN client /\ call'.client = call.client
    BY <1>0, <1>1, InHand DEF Fail, CallRecord
  <2>2. c # call.client => client'[c] = client[c]
    BY <1>0, <1>1, <2>1, OneClient, Constants DEF Fail, Close
  <2>. QED BY <1>0, <1>1, <2>1, <2>2 DEF Fail
<1>2. CASE AskServer
  <2>1. call'.client = call.client /\ UNCHANGED cache /\ pc' \in InUse /\ pc' # "gone" /\ pc # "gone"
    BY <1>0, <1>2, HasClient DEF AskServer, CallRecord
  <2>2. client'[c].closed = client[c].closed
    BY <1>2, AskRecords
  <2>. QED BY <1>0, <2>1, <2>2
<1>3. ASSUME UNCHANGED cache, client'[c].closed = client[c].closed, pc' = "idle",
             pc \in Talking \cup {"get", "spawn", "idle"}
      PROVE  CacheHas(c)'
  BY <1>0, <1>3 DEF Holds, InUse, Building, Talking
<1>4. CASE GiveText
  <2>1. client'[c].closed = client[c].closed /\ UNCHANGED cache /\ pc = "opening"
    BY <1>4, TextRecords DEF GiveText
  <2>2. CASE pc' = "idle"
    BY <1>3, <2>1, <2>2 DEF Talking
  <2>3. CASE pc' # "idle"
    BY <1>0, <1>4, <2>1, <2>3, HasClient DEF GiveText, End
  <2>. QED BY <2>2, <2>3
<1>5. ASSUME UNCHANGED cache, call'.client = call.client, client'[c].closed = client[c].closed,
             UNCHANGED pc \/ (pc \in InUse /\ pc' \in InUse)
      PROVE  CacheHas(c)' \/ HandHas(c)'
  BY <1>0, <1>5, HasClient
<1>6. CASE Initialize \/ Send \/ DidOpen
  <2>1. AskServer \/ GiveText \/ (Fail /\ pc \in InUse)
    BY <1>6, HasClient DEF Initialize, Send, SendRequest, DidOpen, AskServer, GiveText
  <2>. QED BY <1>1, <1>2, <1>4, <2>1
<1>7. CASE TakeRequest \/ TakeEof \/ TakeHandshake \/ TimeUp
  <2>1. \/ Fail /\ pc \in InUse
        \/ pc = "drain" /\ pc' = "idle" /\ UNCHANGED <<cache, client>>
        \/ UNCHANGED <<pc, call, cache, client>>
        \/ UNCHANGED <<call, cache, client>> /\ pc \in {"handshake", "load"} /\ pc' \in {"load", "keep"}
    BY <1>7, HasClient
       DEF TakeRequest, TakeEof, TakeHandshake, TimeUp, Has, Deadline, Waiting, BuildFails, End
  <2>. QED BY <1>1, <1>3, <1>5, <2>1, HasClient DEF Talking
<1>8. CASE TakeAnswer \/ Drained \/ OpenFails \/ InterruptCall \/ SpawnFails
  <2>1. pc \in Talking \cup {"get", "spawn", "idle"} /\ pc' = "idle" /\ UNCHANGED <<cache, client>>
    BY <1>8 DEF TakeAnswer, Drained, OpenFails, InterruptCall, SpawnFails, End, Talking
  <2>. QED BY <1>3, <2>1
<1>9. CASE \/ SkipReply \/ Edit \/ UNCHANGED clientVars
           \/ \E d \in DOMAIN server : Serve(d) \/ Talk(d) \/ Break(d)
  <2>1. UNCHANGED <<pc, call, cache, client>>
    BY <1>9 DEF SkipReply, Edit, clientVars, Serve, Talk, Break
  <2>. QED BY <1>5, <2>1
<1>10. CASE TakeNote
  <2>1. pc \in InUse
    BY <1>10, HasClient DEF TakeNote, Has, Waiting
  <2>2. call.client \in DOMAIN client /\ client[call.client] \in ClientRecord
    BY <2>1, InHand
  <2>3. client'[c].closed = client[c].closed
    BY <1>0, <1>10, <2>2 DEF TakeNote, ClientRecord
  <2>. QED BY <1>5, <1>10, <2>3 DEF TakeNote
<1>11. CASE \/ \E kind \in {"ask", "query", "diagnose"} : Call(kind)
            \/ GetCached \/ GetNone
  <2>1. UNCHANGED <<cache, client>> /\ pc' # "gone" /\ ~ HandHas(c)
    BY <1>11, HasClient DEF Call, GetCached, GetNone, AfterGet
  <2>. QED BY <1>0, <2>1
<1>12. CASE GetDead
  <2>1. ~ HandHas(c)
    BY <1>12, HasClient DEF GetDead
  <2>2. ~ client[cache].closed
    BY <1>0, <2>1
  <2>. QED BY <1>0, <1>12, <2>1, <2>2 DEF GetDead, CallRecord
<1>13. CASE Spawn
  <2>1. ~ HandHas(c) /\ client'[c] = client[c] /\ UNCHANGED cache /\ pc' = "built"
    BY <1>13, HasClient, BornRecords DEF Spawn
  <2>. QED BY <1>0, <2>1
<1>14. CASE Kill
  <2>1. c # call.client
    BY <1>14 DEF Kill, Gone
  <2>2. call.then \in {"failed", "interrupted"} /\ pc' = "idle" /\ UNCHANGED <<cache, client>>
    BY <1>0, <1>14, <2>1 DEF Kill, Holds, End
  <2>. QED BY <1>0, <2>1, <2>2
<1>15. CASE OpenFile
  <2>1. /\ call'.client = call.client /\ UNCHANGED <<cache, client>>
        /\ pc \in InUse /\ pc' \in InUse
    BY <1>0, <1>15, HasClient DEF OpenFile, CallRecord
  <2>. QED BY <1>5, <2>1
<1>16. CASE Keep
  <2>1. c = call.client
    BY <1>0, <1>16 DEF Keep, Holds, Building
  <2>2. ~ client[c].closed
    BY <1>0, <1>16, <2>1, HasClient DEF Keep, Holds
  <2>. QED BY <1>16, <2>1, <2>2 DEF Keep, AfterGet
<1>17. CASE InterruptBuild
  <2>1. CASE pc = "spawn"
    <3>1. client'[c] = client[c] /\ UNCHANGED cache /\ pc' = "idle"
      BY <1>17, <2>1, BornRecords DEF InterruptBuild, End
    <3>. QED BY <1>3, <2>1, <3>1
  <2>2. CASE pc # "spawn"
    <3>1. /\ pc \in InUse /\ Close(call.client) /\ pc' = "closing" /\ call'.client = call.client
          /\ UNCHANGED cache
      BY <1>0, <1>17, <2>2, HasClient DEF InterruptBuild, CallRecord
    <3>2. c # call.client => client'[c] = client[c]
      BY <1>0, <3>1, InHand, OneClient, Constants DEF Close
    <3>. QED BY <1>0, <3>1, <3>2
  <2>. QED BY <2>1, <2>2
<1>18. CASE InterruptLate
  <2>1. c # call.client /\ UNCHANGED <<cache, client>> /\ pc' = "idle"
    BY <1>18 DEF InterruptLate, End
  <2>. QED BY <1>0, <2>1
<1>19. CASE CloseAll
  <2>1. c = cache /\ ~ client[cache].closed
    BY <1>0, <1>19 DEF CloseAll
  <2>2. pc' = "closing" /\ call'.client = cache
    BY <1>0, <1>19, <2>1 DEF CloseAll, NoCall
  <2>. QED BY <2>1, <2>2
<1>20. CASE ExitInCall
  <2> DEFINE killed == {d \in {cache} \ {0} : ~ client[d].closed}
  <2>1. /\ server' = [d \in DOMAIN server |-> IF d \in killed THEN Gone ELSE server[d]]
        /\ lost' = lost \cup ({call.client} \ (killed \cup {0}))
    BY <1>20 DEF ExitInCall
  <2>2. c \notin killed
    <3> HIDE DEF killed
    <3>. QED BY <2>1 DEF Gone
  <2>3. c = call.client => c \in killed
    <3> HIDE DEF killed
    <3>. QED BY <1>0, <2>1
  <2>. QED BY <1>0, <2>2, <2>3
<1>21. CASE Block \/ Unblock
  BY <1>5, <1>21, BlockedCall DEF SameCall
<1>. QED BY <1>6, <1>7, <1>8, <1>9, <1>10, <1>11, <1>12, <1>13, <1>14,
            <1>15, <1>16, <1>17, <1>18, <1>19, <1>20, <1>21
         DEF ClientNext, Thread

\* No step leaves a server that runs to nobody.
LEMMA NoneLeftStep ==
  ASSUME ClientTypeOK, Placed, NoneLeft, [ClientNext]_clientVars
  PROVE  NoneLeft'
<1> SUFFICES ASSUME NEW c \in DOMAIN server', server'[c].up, c \notin lost'
             PROVE  CacheHas(c)' \/ HandHas(c)'
  BY DEF NoneLeft, CacheHas, HandHas
<1>1. CASE c \in DOMAIN server
  BY <1>1, OldStays
<1>2. CASE c \notin DOMAIN server
  <2>1. Spawn \/ InterruptBuild
    <3>1. DOMAIN server' # DOMAIN server
      BY <1>2
    <3>. QED BY <3>1
         DEF ClientNext, Thread, GetCached, GetDead, GetNone, Kill, Initialize, Send, SendRequest, Fail,
             OpenFile, DidOpen, TakeNote, TakeRequest, SkipReply, TakeAnswer, TakeHandshake, BuildFails,
             TakeEof, TimeUp, Keep, Drained, Block, Unblock, Call, SpawnFails, OpenFails, Serve, Talk, Break, Edit,
             InterruptCall, InterruptLate, CloseAll, ExitInCall, clientVars, Taken, Put
  <2>2. CASE Spawn
    <3>1. c = Len(client) + 1
      BY <1>2, <2>2, BornRecords, Domains DEF Spawn
    <3>. QED BY <2>2, <3>1, HasClient DEF Spawn, HandHas, ClientTypeOK, CallRecord
  <2>3. CASE InterruptBuild
    <3>1. CASE pc = "spawn"
      BY <1>2, <2>3, <3>1, BornRecords, Domains DEF InterruptBuild
    <3>2. CASE pc # "spawn"
      BY <1>2, <2>3, <3>2 DEF InterruptBuild
    <3>. QED BY <3>1, <3>2
  <2>. QED BY <2>1, <2>2, <2>3
<1>. QED BY <1>1, <1>2

\* An answer that was right stays right, and each new one is.
LEMMA AnswersStep ==
  ASSUME ClientTypeOK, Placed, Owned, AnswersOwn, [ClientNext]_clientVars
  PROVE  AnswersOwn'
<1>0. text \in Nat /\ text' \in Nat /\ text' >= text
  BY TextGrows
<1>1. \/ UNCHANGED answer
      \/ answer' = Nothing
      \/ \E status \in {"failed", "interrupted", "refused"} : answer' = Unanswered(status)
      \/ pc = "drain" /\ answer' = Result(call.n, Mine.diagnostics)
      \/ TakeAnswer
  BY DEF ClientNext, Thread, GetCached, GetDead, GetNone, Spawn, Kill, Initialize, Send, SendRequest, Fail,
         OpenFile, DidOpen, TakeNote, TakeRequest, SkipReply, TakeHandshake, BuildFails, TakeEof,
         TimeUp, Keep, Drained, Block, Unblock, Call, SpawnFails, OpenFails, Serve, Talk, Break, Edit,
         InterruptCall, InterruptBuild, InterruptLate, CloseAll, ExitInCall, clientVars, End
<1>2. CASE UNCHANGED answer
  BY <1>0, <1>2 DEF AnswersOwn
<1>3. CASE \/ answer' = Nothing
           \/ \E status \in {"failed", "interrupted", "refused"} : answer' = Unanswered(status)
  BY <1>3 DEF AnswersOwn, Nothing, Unanswered
<1>4. CASE pc = "drain" /\ answer' = Result(call.n, Mine.diagnostics)
  BY <1>4 DEF AnswersOwn, Result, Placed, Holds
<1>5. CASE TakeAnswer
  <2> DEFINE m == Head(Peer.out)
  <2>1. pc = "wait" /\ m.type = "reply" /\ m.id = call.id /\ Peer.out # <<>> /\ answer' = Outcome(m)
        /\ UNCHANGED text
    BY <1>5 DEF TakeAnswer, Has, IsAnswer, End
  <2>2. server[call.client] \in ServerRecord
    BY <2>1, InHand, HasClient
  <2>3. Peer.out \in Seq(Message)
    BY <2>2, OutSeq DEF Peer
  <2>4. m \in Replied(call.client)
    BY <2>1, <2>3, RepliesLess DEF Replied, Peer
  <2>5. m.of = call.n /\ (call.kind = "ask" => m.text \in Peer.born..text)
    BY <2>1, <2>4 DEF Owned
  <2> HIDE DEF m
  <2>6. CASE m.ok
    <3>1. answer' = Result(m.of, m.text)
      BY <2>1, <2>6 DEF Outcome
    <3>. QED BY <2>1, <2>5, <3>1 DEF AnswersOwn, Result
  <2>7. CASE ~ m.ok
    BY <2>1, <2>7 DEF Outcome, AnswersOwn, Unanswered
  <2>. QED BY <2>6, <2>7
<1>. QED BY <1>1, <1>2, <1>3, <1>4, <1>5

-----------------------------------------------------------------------------
\* There is no client at the start.
LEMMA ClientStart == ClientInit => ClientInv
<1> SUFFICES ASSUME ClientInit PROVE ClientInv
  OBVIOUS
<1>1. client = <<>> /\ server = <<>> /\ DOMAIN client = {} /\ DOMAIN server = {} /\ Len(client) = 0
      /\ Len(server) = 0
  BY DEF ClientInit
<1>2. NoCall \in CallRecord
  BY DEF NoCall, CallRecord, NoText
<1>3. client \in Seq(ClientRecord) /\ server \in Seq(ServerRecord)
  BY <1>1
<1>4. ClientTypeOK
  BY <1>1, <1>2, <1>3 DEF ClientInit, ClientTypeOK
<1>5. Placed
  BY <1>1 DEF ClientInit, Placed, Holds, InUse, Building, Talking
<1>6. NoneLeft /\ Numbered /\ Dated /\ Owned /\ AnswersOwn
  BY <1>1 DEF ClientInit, NoneLeft, Numbered, Dated, Owned, AnswersOwn, Nothing
<1>. QED BY <1>4, <1>5, <1>6 DEF ClientInv

\* Every step keeps all of it.
LEMMA ClientStep == ClientInv /\ [ClientNext]_clientVars => ClientInv'
<1> SUFFICES ASSUME ClientInv, [ClientNext]_clientVars PROVE ClientInv'
  OBVIOUS
<1>1. Placed'
  BY PlacedClients, HoldsStep DEF ClientInv, Placed
<1>. QED BY <1>1, ClientTypesStep, NoneLeftStep, NumberedStep, DatedStep, OwnedStep, AnswersStep
         DEF ClientInv

\* In every state of the client of language servers: the thread, the cache and
\* the history know every server that runs, no number is used twice at one
\* client, and what a server has been given, and what has its number, is what
\* the call is about, for any number of calls, edits and failures
\* (StdioLspClient, get_client).
THEOREM ClientInvariance == ClientSpec => []ClientInv
BY ClientStart, ClientStep, PTL DEF ClientSpec

\* An answer is never that of another call, whatever was interrupted before,
\* and about the file it is never older than the server
\* (StdioLspClient.request, ensure_open).
THEOREM AnswersAreOwn == ClientSpec => []AnswersOwn
BY ClientInvariance, PTL DEF ClientInv

\* No way to end a call leaves a server that nobody closes, but the interrupts
\* that the history remembers (StdioLspClient.__init__, close, get_client).
THEOREM ServersAreClosed == ClientSpec => []NoServerLeft
<1>1. ClientInv => NoServerLeft
  BY HasClient DEF ClientInv, NoServerLeft, NoneLeft, CacheHas, HandHas
<1>. QED BY <1>1, ClientInvariance, PTL
=============================================================================
