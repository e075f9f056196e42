# A TLA+ model of the local coding agent

The repository is a local-first coding agent: one process, one conversation, a
Runtime that calls a language model, runs tools in the user's workspace, asks for
approval, and records everything it did. This directory specifies the parts of it
where the order of events decides whether it is right: how files are changed and
changed back, how the record of a change is kept, how a prompt runs and ends, what
a session's log gives back to a later process, how the terminal UI and the Runtime
work beside each other and what the user reads, how a session moves, how language
servers and the model's provider are asked, and how a command's container is created and closed. Source paths below are relative to
`src/src/local_agent/`.

* [Inventory](#inventory): the system's parts
* [Modules](#modules): what models what, and how
* [Runs](#runs): what is checked, on which instances
* [Findings](#findings): where the code does not do what a doc or test says
* [Proofs](#proofs): what is proved for every instance
* [How to run](#how-to-run)
* [Limits](#limits): what is only model-checked, what is not modelled
* [Plan](#plan): what comes next

## Inventory

Arrows are calls. `-)` is an asynchronous message, `~` shared state.

    TUI (UI thread) --submit--> TuiWorker (worker thread) --> CommandDispatcher --> agent loop
        ^  ~ RunCancellation, TuiInteractionBridge ~ |               |
        +----------(- TuiMailbox (----------------- --               +--> providers (stream worker thread)
                                                                     +--> tools --> policy/approval
    tools --> workspace mutation --> text transaction --> rooted file mutation
                      |                                          ~ the directory ~ other programs
                      +--> patch journal (ledger)
    tools --> shell/process runtime, containers (staging journal ~ docker), LSP client (reader thread)
    agent loop --> session store (JSONL), tool-choice queue, steering, evidence, review

| Component | State | Operations | What is hard | What makes it correct |
|---|---|---|---|---|
| Rooted file mutation, `platform/rooted_mutation.py`, `rooted_files.py` | the target, a private `.lca-mutation-*` entry, open descriptors | create, replace, delete one file by atomic rename, undo it when the displaced file is not the approved one | other programs save or write the file at any moment; each call can fail; Ctrl-C | a commit is exact; a refusal says whether the workspace changed; nobody's version disappears |
| Text transactions, `patch/transaction.py` | the files of a batch, committed and attempted changes | apply, compensate, scan | a failure in the middle; edits between read and write | all or nothing, or a truthful list of what is left |
| Patch journal, `patch/journal*.py` | a JSONL file per session, temporaries | append one record | a rename that raises after it took effect; death between steps | readers see whole records; reports are true |
| TUI mailbox, `frontends/tui/mailbox.py` | a bounded deque | put, drain, coalesce, displace | full queue, merged deltas | terminal messages are never displaced, merged text is contiguous |
| TUI transcript, `frontends/tui/model.py`, `runtime/assistant_message.py`, `run_output.py` | entries, provisional or settled; the open and the latest message | stream, complete, abort, deliver | lost deltas, refused drafts, aborts and errors in between, settled text cannot be taken back | shown text is whole; only what was delivered is settled, once; nothing is left over |
| TUI session, `frontends/tui/controller.py`, `worker.py`, `pending_prompt.py`, `protocol/cancellation.py` | composer, one follow-up, in-flight count; worker's flags; token; bridge | keys, poll, run, ask, cancel, close | two threads, four locks, the composer lent to search and questions | no prompt lost, doubled or started against the user's wish; the worker ends |
| Workspace mutation and ledger, `tools/files.py`, `tools/workspace_*.py` | files and journal together | apply, write, roll back a patch | change done, record failed | a change is recorded or undone |
| Container lifecycle, `execution/container_*.py`, `tools/container_*` | attempt record, directory, volume, container | reserve, allocate, prepare, create, remove, recover | crash between any two steps; docker's answers lost | no container without a record; at most one attempt |
| Process runtime, `tools/process_runtime.py` | a process group | start, read, cancel, kill | pipes held by grandchildren | every process ends before the tool returns |
| Agent loop, `agent.py`, `runtime/` | budgets, the finalization coordinator, the open turn | turn, tool calls, finalize, deliver, close | ten owners refuse answers and reset each other's counters; exceptions anywhere | calls are answered once, gates and reviews are respected, each prompt ends and is closed once |
| Tool choice and steering, `workflows/tool_choice/`, `steering/` | the requirement of a tool, directives, counts of corrections | decide, escalate, give up, remind, correct | requirements that no reply can meet | its budgets end (part of the agent loop's module) |
| Session store and replay, `session/`, `runtime/compaction.py` | append-only JSONL; the live messages | append, settle, compact, replay | signals and crashes between the two; half a line; checkpoints | a resumed history is well formed, keeps the answers and only those |
| Workspace migration, `workspace/migration.py`, `runtime/workspace.py` | session artifacts in state directories; roots and their revision | /move, /add-dir, compensate, restore | failure, signal or crash between moves and in their compensation | artifacts are in one place, no record is lost, reports are true |
| LSP client, `lsp/client.py` | server process, reader thread, request ids | request, notify, close | late replies, close against the reader | a reply reaches its own request |
| Provider transport, `providers/deadline.py`, `stream.py`, `llm.py` | a stream worker, a bounded queue, the decoder's accumulator | stream under deadline and cancel | a worker blocked while the caller leaves, lines that are cut | half a reply is no answer, the run goes on, the worker ends |
| Composer history, `frontends/composer_history.py` | a file shared by frontends | append, rewrite | append against rename | no partial record |
| Policy, evidence, review, planning, config, devtools | pure functions of text, or start-up wiring | | nothing concurrent | unit tests reach them |

`PROJECT.json` lists the same components with their status, and each hazard at its line.

## Modules

### `RootedMutation`, with the contract in `MutationContract`

One call of `mutate_rooted_regular`. The directory maps the two names the call
touches (the target and its private entry) to inodes, and inodes to contents;
so a file saved by renaming another over it (`ForeignSave`) and a file written in
place (`ForeignWrite`) are different things, as they are for the identity checks in
the code. An action is one call that changes the directory, or one check:

| Action | Code |
|---|---|
| `Open` | `_open_regular_exact` and the before-image comparison of `mutate_regular_at` |
| `Prepare` | `_prepare_regular` |
| `Recheck` | `assert_open_regular_unchanged`, directory authority |
| `Rename` | `_atomic_exchange` / `_atomic_noreplace` |
| `CheckDisplaced` | `assert_displaced_regular_matches_before` |
| `CheckIdentity`, `Unlink`, `FsyncParent` | the rest of `_replace_regular` and `_delete_regular` |
| `Verify` | the end of `mutate_rooted_regular` |
| `RollbackCheck`, `RollbackRename`, `RollbackVerify` | `_rollback_exchange`, `_rollback_move` |
| `Cleanup`, `LastCleanup` | `_unlink_exact` in the handlers and in `finally` |
| `Interrupt` | a `BaseException`, which only `finally` sees |

Every action has the alternative that the system call fails. A check of several
stats happens at its last one. `MutationContract` states what the outcome promises
in terms of the images requested, the two directory entries, and `world`, the
content the path would have had without the call.

### `ExistingTransaction`

`apply_existing_text_transaction`, the writer of whole files in place: one action
for each read, each write, each undo read and write, and each file of the residual
scan. `content` is what is at the path (`torn` after a write that stopped half-way),
`committed` and `attempted` are the code's. `dirty` and `harmed` are histories: the
files edited since the batch last read them, and the files edited or hit by a
failing call. `CtrlC` is the `BaseException` branch, `Abandon` an interrupt where the code has no
handler.

### `RootedTransaction`, instance `MCRootedTransaction`

`apply_rooted_text_transaction`: creates, replaces and deletes, each by the
call above. Here such a call is one step (`MutateRooted`) with any effect that
`MutationContract` allows; so `RootedMutation` shows that the contract is kept, and this
module shows the batch right given the contract. One editor's version may arrive while
a mutation runs, and any number between mutations. The contract is shown for versions that are
saved by a rename; when the one that arrives is written in place (`InPlace`), the mutation may do
anything to the file and say anything of it but an exact commit. So the module promises nothing of
edits: whether one is lost is decided inside a mutation, where `VersionsKept` speaks of it.

### `PatchJournal`

`append_patch_record` with `write_journal_temporary` and
`restore_after_replace_error`. The calls come one after the other, as the process that
owns the session makes them; a call may die at any step and the next one (after a resume) finds
what it left. `os.replace` may raise before or after its effect.

### `WorkspaceLedger`, instance `MCWorkspaceLedger`

The tools that change files and record it, composed with the journal: the module EXTENDS
`PatchJournal`, a call is one of its writers, and the step `Record(w)` is a step of the append
that `PatchJournal` describes. The rest of a call is in `stage`:

| `stage` | Action | Code |
|---|---|---|
| `idle` | `Plan` (a planned edit), or a call begins | `WorkspaceEditPlanStore.register`, the tool's first reads |
| (begin) | `PatchFile`, `WriteFile`, `ApplyWorkspaceEdit`, `CommitStaged`, `RollbackPatch` | the tools of that name up to their transaction |
| `change` | `Look`, `WriteOrUnlink` | the comparing of the text transaction; `write_file` and the rollback of a created file, which work on the path |
| `write` | `Transact` | the writes of the text transaction, its compensation and its scan |
| `check` | `CheckSnapshot` | `final_snapshot_error` after a container's output was committed |
| `journal` | `Record`, then `React` | `_record_patch`; what each tool does with a journal that refused |
| `undo` | `TurnBack` (at the end of the step before), then `Restore` | the inverse transaction: it looks, then writes |
| any | `Interrupt` | the handlers that attach a recovery to an interrupt |

Editors write between steps (`Edit`). `Candidate` is the rule by which `rollback_patch` takes the
newest applied patch, or one that it is given by its id. `FilesExplained` says what is left to trust
once calls have failed: the last patch of a file that stands (`Latest`) says what the file holds, with the
exceptions of `Excused`, which name every way in which the two come apart. A transaction is two steps, and
editors may write between them: the rooted one (a staged output) then reaches only the files that still hold what
it expects, the one in place writes over what came since it looked (`Reached`; `late` is the history of
such files). That is wider than the code's window, which is one file's read and write: what
`ExistingTransaction` shows file by file is here a window for the batch. The MC module leaves out of the `VIEW` only what can no longer
matter, the temporary files of an append that is over among it; the calls are symmetric, since each
may be asked to do any job.

### `TuiMailbox`, with the abstract `LossyChannel`

`TuiMailbox.put/drain/close` and the private `_coalesce_delta/_make_room`.
A delta carries its message and its index, and a queued delta the span
merged into it. `LossyChannel` is what the rest of the system may rely on: a queue
that may lose messages, but only when full and only in favour of a message that is
allowed to displace them. The refinement mapping unfolds a merged delta into the messages it stands for.

### `TuiTranscript`

Three parts that never meet in a test: the Runtime thread that streams messages and says which one
it delivers (`run`), the mailbox, which may lose some of it (the module EXTENDS `TuiMailbox`), and
the projector of the UI thread (`view`).

| Action | Code |
|---|---|
| `TurnStarted`, `UserMessage`, `OpenMessage` | `CommandDispatcher._submit_prompt`, `agent.py:349` and `436` |
| `AssistantDelta`, `AssistantMessage`, `AssistantMessageAborted` | `AssistantMessageLifecycle`: `delta_callback`, `finalize`, `abort` |
| `ErrorEvent` | the ErrorEvents, before an abort (`handle_protocol_violation`, the command boundary) or on their own |
| `TurnFinished` | `RunOutputLifecycle.finish`, `emit` |
| `Poll` | `TuiController.poll`: drain, and `TuiProjector.apply` for each message, in `Started`, `Streamed`, `Completed`, `Aborted`, `Finished` |

A text is the sequence of its pieces, so a gap, a repetition or a foreign piece shows. An entry
that the Runtime's words replaced has words of its own. The limits on the number of entries and
on lengths are left out, and so is the closing of the mailbox, after which nobody reads.

### `TuiSession`

The two threads. A step of a thread is what it does between two points where the
other can interfere: a lock region, a queue or mailbox operation. Thus
`CtrlC` (reads `_prompt_commands` and `_active_prompt` under `_prompt_lock`) and
`CancelRun` (`RunCancellation.request`) are two steps, as are `PutResult` and
`Settle` of the worker. `ui` and `worker` are the program counters; `slot` is the
queued follow-up; `draft` and `held` are the texts saved while the composer is lent
to the search box and to a question; `applied` says that a search query is in
force. `aimed` and `sent` are histories of the user's intent.
One prompt stands for one text the user typed. The user does not submit a search
query as a prompt, and answers a question in one key. The UI handles one message at a time
where the code handles up to 256 in a row: the model has more interleavings, not
fewer.

### `ContainerStaging`, with the abstract `StagingObligation`

Commands run in a container against a staged copy of the workspace
(`ContainerExecutionRuntime.execute`). The sessions of one user share a staging
directory with a `flock` (`lock`), a journal of at most one record (`record`, `stray` for a
temporary file left by a death in `write_staging_record`) and the directories of the attempts
(`dirs`); the engine has volumes and containers (`live`), and create requests it
has received and not carried out (`landing`): a `docker create` that was cut off by its
timeout may still take effect. `handle` is the state the session's
`ContainerStagingLifecycle` carries, which differs from the record after a write that
failed after its effect.

| `pc` | Code |
|---|---|
| `idle`, `ready` | `execute`: recovery first (`recover_staging_authority`, `recover_durable_staging_container`), then snapshots |
| `reserve`, `mkdir`, `allocate`, `prepare` | `stage_workspace_snapshots` |
| `probe`, `allow_volumes` | engine and image inspection, `record_staging_container_create_possible` |
| `create`, `await`, `use` | `docker volume create`, `docker create`, and what is done with the resource |
| `allow_execution` | `record_staging_execution_container_create_possible` |
| `sight`, `remove`, `check` | closing a resource: inspect, `docker rm`, list; in an attempt (`_cleanup_volumes`, `_close_prep_and_volumes`) and in a recovery (`recover_durable_container_resource`) |
| `execution_gone`, `absent` | `record_staging_execution_container_absent`, `record_staging_container_absent` |
| `output`, `cleanup`, `rmdir`, `unlink` | `observe_staged_workspace_output`, `_cleanup_closed_record`, `_resume_cleanup_record`, `remove_staging_record` |

`todo` is the list of resources still to be created or closed and `after` the step that follows.
`Release` closes the lease, with the record as it is; `Leak` is the end of a call that leaves the
lease open (finding 17). `GiveUp` is every failed engine call and every exception
after which the code changes nothing more; `Crash` is the death of the process, and also stands
for an interrupt during the staging whose only effect is that the lease is closed.
An equal revision stands for equal workspace roots, as `_record_matches_roots` compares both;
a session that is resumed keeps its revision.

`StagingObligation` is the promise in three actions: take an attempt when nothing is
owed, change what it holds, release it when nothing is left. `ImplementsObligation` maps
everything on the machine, late create requests included, to what the recorded attempt holds.

### `AgentTurn`

One prompt after another in the loop of `agent.py`. `pc` is where the run is: `turn`, `requeue`,
`ready` (the tool-choice queue and what precedes a request), `model` (the reply), `batch` and
`tail` (its tool calls and what comes after them), `answer`, `judge`, `review` (a candidate and
the owners that may refuse it), `closing` to `close` (final record, memory, summary, settlement,
TurnFinished) and `failed` (an exception has reached the command boundary). Of the prompt and the
configuration the model knows which `owners` they wake (at most `MaxOwners` of ten: limited steps, a deadline,
the tool queue, the soft requirement, the audit, the structure of the answer, the loop guard,
coverage, the exploration of roots, the isolated review).

| Group | Actions | Code |
|---|---|---|
| `Loop` | `QueueTurn`, `BeginTurn`, `StepsUsedUp`, `StopForBudget` | `ToolChoiceQueue`, the head of the loop, `_stop_for_budget` |
| `Reply` | `ProviderFails`, `FinalTurnProtocol`, `OrdinaryArtifact`, `TextInsteadOfTool`, `Blank`, `Text`, `OtherTools`, `ToolCalls` | the branches on a reply, `ProviderTerminalPhase` |
| `Batch` | `RunTool`, `BudgetInBatch`, `InterruptTool`, `EndBatch` | the batch loop, `_append_synthetic_tool_results`, the loop guard |
| `Answer` | `CloseDirective`, `Remind`, `Audit`, `AuditPasses`, `Review` | the directive, soft requirement, steering owners and `review_candidate` |
| | `StartRun`, `BeginRun` | `_run_prompt` up to `self._run.begin`, where the output is still that of the prompt before; and that call |
| `Ending` | `RecordFinal`, `Consolidate`, `Summarize`, `FinishOutput`, `Settle`, `FinishTurn`, `EnsureFailedTurn` | `_finish_run`, memory, `emit_runtime_delivery`, `_ensure_failed_turn` |
| | `Fault`, `Tick` | an exception or a signal anywhere; time |

`fin` is the finalization coordinator, with its counters and gate; `exact`, `temp` and `soft` are the
three kinds of requirement on tools. What the code cannot reach is not in the model either:
`SteeringDecision.terminal_message` of the kind `pre_review_audit_unverified` and the
"precise" branch of the exploration have no caller that produces them.

### `SessionHistory`

The messages of the running process (`live`) and the file (`log`), which every step changes one after
the other: `Submit` and `LogPrompt`, `LogReply`, `LogResult` and `JoinResult`, `RecordSettlement` and `InstallSettlement`,
`Compact` with its checkpoint. `Signal` and `Crash` come between any two, a crash also in the middle
of a line; `Resume` builds the messages from the log (`Load`: `Replay` of each record, `Vouched`
checkpoints, the window, the dropping of unpaired calls), or refuses it. `Visible` is what a
request contains. `torn`, `unlogged`, `told` and `gone` are history variables: which batches were cut, which prompts and
drafts a signal has left in the process only, what each run told the user, and which answers a compaction or the window has taken out of the conversation.

### `WorkspaceMove`

`/move` and the changes of the roots. `disk` holds, for each state directory, the session's log,
todo list and patch journal as sequences of records; `at` and `store` are where the process works and
where its session store writes.

| Action | Code |
|---|---|
| `Move`, `MoveRefused` | `move_workspace` up to the first rename, conflicts included |
| `MoveFile`, `MoveFileFails` | the loop of `migrate_session_artifacts`, a rename failing before or after its effect |
| `Commit`, `CommitFails`, `RecordFails` | relocating the process and appending the record |
| `UndoFile`, `Undone`, `TakenBack` | `rollback_session_artifacts` and the restoring of the process |
| `RewriteLog`, `WriteBytes` and their failures | `write_bytes` of the old log: emptied, then written |
| `ChangeRoots`, `RecordChange` | `/add-dir` and its reversal |
| `DropEvidence`, `RefreshFails`, `Announce` | what follows a commit and may fail after it (`refresh_path_rules` for the roots) |
| `Turn`, `SaveTodos`, `WriteTodos`, `AppendPatch` and their failures | a turn's record in the log, then `_save_todos` (emptied, then written) or `append_patch_record` |
| `Stop`, `Start` | a signal or a crash; a later process, started in either workspace |

`before` remembers the files when an operation began, `kept` the records that were written without an
error; `split` and `wiped` mark the states that the findings name.

### `LspClient`

One project root and one file, whose text is the number of its version. The thread of the Runtime
(`Call`, `Get*`, `Spawn`, `Initialize`, `OpenFile`, `DidOpen`, `Send`, `Take*`, `SkipReply`, `TimeUp`,
`Keep`, `Drained`, `Kill`) meets servers that answer in any order (`Serve`), say what they like
(`Talk`), die, fall silent or stop reading (`Break`). The pipe, the reader thread and its queue are one
sequence (`out`), at most `MaxQueue` long, into which a server may talk for ever. A request sees its
deadline only when the queue is empty; the loops that load a project and wait for diagnostics look at
it before each message (`LoopEnds`). A write to a server that does not read blocks once the
pipe is full (`Block`), and ends when the server dies (`Unblock`); an interrupt of it leaves the pipe full, and
the closing of the pipe, with which `close` begins, then blocks in the same way. Interrupts come in a call (`InterruptCall`), in a constructor (`InterruptBuild`)
or in `close` after it has marked the client (`InterruptLate`); the process ends with `CloseAll`
(atexit) or, in the TUI, while the worker is still in a call (`ExitInCall`). `lost` is the history of
the clients nobody will close.

### `ProviderRequest`

One request. The worker thread (`got` is what its decoder has read, `worker` its place and the item it
is about to put), the bounded `queue`, and the thread of the run (`caller`; `told` is what it passed to
`on_text_delta`).

| Action | Code |
|---|---|
| `Resume`, `Connect` | the loop of `worker` in `_call_stream_with_timeout`, the opening of the request |
| `LookAgain`, `Put`, `Full` | `publish`: look at both Events, put with 50 ms, again |
| `Text`, `Fragment`, `Finish`, `Done`, `Eof`, `Break` | `iter_chat_completion_response` and its accumulator: a piece of text, half a tool call, a finish reason, `[DONE]`, the end of the line, everything it refuses |
| `Body` | the reply in one piece, for `chat` or in place of a stream |
| `Check`, `Get`, `GetNothing`, `Tell` | the loop of the caller |
| `End`, `Interrupt` | its `finally`; Ctrl-C, also before the `try` |
| `Request`, `Clear`, `Expire` | the Event of the run, which `RunCancellation.finish` clears; the deadline |

`Complete` is the rule by which the accumulator takes what it has for a reply. A step of the worker
that reads without publishing does not look at the Events, as in the code.

## Runs

Each passing run checks its invariants and temporal properties on all states of
its instance; every property has at least one plausible change of the code (an operator marked
"Faulty" beside the original) that makes it fail.

| Run | Instance | What it shows |
|---|---|---|
| `RootedMutation` | all three operations, three foreign versions of which one is written in place | `KeepsContract` (the contract), `VersionsKept` (at no step is the only copy of the before image gone, and no saved version is ever destroyed) |
| `ExistingTransaction` | three files, one a no-op, two edits | `TruthfulResult`, `ResidueExplained` (compensation is complete), `EditsLostOnlyInWindow` |
| `MCRootedTransaction` | a replace, a create, a delete, two edits of which one is written in place | `TruthfulResult`, `ResidueExplained`, also where the contract of a mutation does not hold |
| `MCWorkspaceLedger` | two files, three calls of any kind, two troubles | `ReportTruthful` (the journal under its real callers), `FilesExplained`, `RolledBackOnce`, `EditsSeen` (a text that an editor wrote is replaced only by a call that was shown it, or that had looked before it was written) |
| `TuiTranscript` | capacity 2, span 2, two runs, two messages of two pieces, seven sends, one other message | `ImplementsChannel` (the mailbox's refinement), `ShownTextIsWhole`, `AnswerStays` (only what is delivered is settled, and once), `NothingLeftOver` |
| `TuiSession` | two texts, one question, any number of session commands | `QuestionReachesUser`, `TextKeptInChat`, `FollowUpHeldBack`, and `WorkEnds` under `FairSpec`: commands come back, the worker stops |
| `ProviderRequest` | four pieces of text, two tool calls, a queue of two | `AnswerIsWhole`, and `RequestEnds` under `FairRequest` |
| `ContainerStaging` | two sessions, two attempts, two roots, three faults, one change of roots each | `ImplementsObligation` (the refinement), `ContainerClosedIfRecoverable` |
| `AgentTurn` | any two owners, budgets of one or two, two calls in a message, an exception anywhere | `Paired`, `BlockedIsNotDelivered`, `ReviewedIsDelivered`, `OneTerminal`, `ToldIsRecorded`, `Answered` |
| `SessionHistory` | two prompts, two replies, one call each, one compaction, two troubles, a window of six | `RequestWellFormed`, `OnlySettledIsRestored`, `AnswersSurvive` (but what a compaction sums up or the window has no place for), `ResumeAgrees` |
| `WorkspaceMove` | two workspaces, two operations, two turns or starts, two troubles | `ReportIsTrue`, `NoRecordLost`, `NotSplit` |
| `LspClient` | two calls, a queue of one message, two troubles, one edit | `AnswersOwn`, `NoServerLeft`, `CallEnds` |

These configurations are kept to be run by hand. The first shows the mailbox alone, its closing
included, the second the session with a third text, the third the history with two calls in a reply and a smaller
window; the others end in the violation that a finding describes:

| Configuration | Module | Property |
|---|---|---|
| `TuiMailbox.cfg` | `TuiMailbox` | `MergedTextIsWhole`, `ImplementsChannel`, `CriticalKept` hold |
| `MCTuiSession.cfg` | `MCTuiSession` | `QuestionReachesUser`, `TextKeptInChat`, `FollowUpHeldBack` hold (three texts, symmetric) |
| `SessionHistoryCalls.cfg` | `SessionHistory` | `RequestWellFormed`, `OnlySettledIsRestored`, `AnswersSurvive`, `ResumeAgrees` hold (two calls, one trouble, a window of four) |
| `RootedMutationLostEdit.cfg` | `RootedMutation` | `ConcurrentWriteKept` |
| `TuiSessionSearchLosesText.cfg` | `TuiSession` | `TypedTextKept` |
| `TuiSessionLatchedCancel.cfg` | `TuiSession` | `CancelHitsItsRun` |
| `ContainerStagingOpenLease.cfg` | `ContainerStaging` | `ContainerClosed` |
| `LspClientClose.cfg` | `LspClient` | `CloseKills` (a closing comes to its end) |
| `AgentTurnDraft.cfg` | `AgentTurn` | `DraftIsClosed` |
| `AgentTurnForcedFinal.cfg` | `AgentTurn` | `ForcedTurnAnswerable` |
| `SessionHistoryCheckpoint.cfg` | `SessionHistory` | `CheckpointRestored` |
| `TuiTranscriptDraft.cfg` | `TuiTranscript` | `DraftsAreDiscarded` |
| `TuiTranscriptTail.cfg` | `TuiTranscript` | `TailIsCleared` |

**Why the bounds are enough.** Three foreign versions: a rollback is disturbed by
one version before the exchange and one during the rollback, and a third arrives
after it. Three files: compensation then has an attempted file and two
committed ones, so its order matters, and one can be a no-op between two others. Three calls of
the ledger: a change, its rollback, and a third that meets what either left (a second rollback, or
a change of the same file), with two troubles, one in the call and one in its compensation. A rollback that goes past a
later patch (`Skipped`) takes four, which the run leaves to the theorem.
Capacity 2 makes every displacement rule fire (the code's minimum of 8 only pads the queue with more
of the same), and a span of 2 lets a merged delta be full and be followed by another. Seven sends
are a whole run with a refused draft and a delivery, and the beginning of the next; two pieces let one be
lost before or after another, and two messages are a draft and its successor.
Two texts: one is running and the other waits as the follow-up, or is in the composer or saved under a
search or a question. With `MCTuiSession.cfg` there are three, so that all three places are taken; at
most one command is in flight, so a fourth adds nothing but repetition. The symmetry of the texts is
sound there, without liveness: nothing orders or singles out a text. One question, because the bridge holds at most one. Two sessions
and two attempts: the second attempt, by either session, meets what the first left; a third
finds nothing the second did not, since an attempt starts only on an empty directory. Two
roots give two volumes, so closing may stop between them. Three faults: one leaves something
behind, one disturbs its recovery, and one hits a recovery of that. Budgets of one or two: each is used,
used up, and asked for once more; the order between the configured ones is kept where the code
compares them. Two owners: they disturb each other in pairs, one refusing what the other let
pass or resetting what it counted (`RewritesStayBounded`, `BlockedIsNotDelivered` and
`ReviewedIsDelivered` are proved for all ten at once). Two prompts: the second one meets what the
first left in the log. A window of six cuts a conversation of two prompts in every place of an
exchange, and two troubles may cut a log, and again the log of the process that resumed it; a batch of two calls that is cut
between its results is in `SessionHistoryCalls.cfg`, and of any length in the proofs. Two moves: there and back, or a second one over what the first left. Two calls to a language
server: the reply of the first may arrive in the second, from the same client or from one that replaced
it; the second interrupt hits the handling of the first. A queue of one message is enough to keep it from being empty, and
what is said is bounded by nothing else. Four pieces of text
and a queue of two: one is told, two are queued, and the worker holds one and finds the queue full; two
tool calls may come in either order and be cut in every place.

**Deadlock** is checked everywhere a call ends (`Done` is the only stuttering
end). The runs of the mailbox, the transcript, the session, the containers, the move, the language
servers and the provider say `CHECK_DEADLOCK FALSE`: a mailbox may run out of messages to send, a request
is over, a process ends for good, a staging directory whose content the recovery does not understand refuses every
session until somebody clears it, and the bounds end a run as well.

**Fairness.** `TuiSession!FairSpec` is that of the threads and nothing else:
`WF(Working)`, the worker thread is scheduled and a run ends (step budgets and
provider and tool deadlines bound it); `WF(CancelRun \/ Closing)`, the UI thread
finishes the handler it is in; `SF(Poll)`, because `run_inline_screen` polls once per
turn of its loop however many keys arrive in between (`frontends/tui/screen.py:34-46`).
Keys, questions and timeouts are not fair: nobody has to press a key, and a run need
not ask. `ContainerStaging!Fairness` has `WF(Session(h))`: each session goes on running
commands and finishes the one it is in, since every engine call has a deadline; and
`WF(Land \/ Drop)`: the engine carries out a request or gives it up. Faults, crashes, changes
of roots and a particular answer of the engine are never required. `AgentTurn` has `WF(Work)`: the
thread goes on, because every provider request and every tool has a timeout; prompts, exceptions
and the clock are not fair. `LspClient` has `WF(Thread)`, the thread goes on, and `WF(LoopEnds)`: the two loops
that look at the time before each message come to their deadline, however many messages they take before. The
deadline of a request is only one of the steps of the thread, enabled while the queue is empty. What a server does is
not fair: it need not read, answer or be silent. `CallEnds` names the two ways in which it then holds a call, a write or
a close that blocks and a server that talks on. `ProviderRequest!FairRequest` is the scheduling of the two threads
and the clock: the caller's wait is at most 50 ms and ends at the deadline, which the loop always sets
(`remaining_timeout`), whatever the provider does. Only the second half of `RequestEnds`, that the worker ends, asks
that its reads return, as they do because the socket has a timeout.

## Findings

`PROJECT.json` has each of them with the line of the code and the words it contradicts. Where a
property of a passing run makes an exception, the finding is that exception.

*Files.* (1) A write into the file during the rollback of a replace is destroyed and denied
(`platform/rooted_mutation.py:335`): the exchange put the prepared file at the target, a later step
fails, another program writes into the prepared inode, the names are exchanged back, and
`_unlink_exact` removes the inode with the write; the error says `workspace_changed=False`.
(2) When the journal says `indeterminate_persisted`, the files are restored although the record
stays (`patch/journal_recovery.py:21`): the next `rollback_patch` without an id takes that record and refuses.

*TUI.* (3) A follow-up that is restored while the search box is open is lost (`controller.py:397`).
(4) A cancel can hit the next prompt (`worker.py:170`): whether to latch is decided under one lock and
done under another. (5) A refused draft is settled in the scrollback when the rewrite fails and the
delivery names no message (`model.py:277`). (6) An aborted message stays in the live tail when its
error was told first (`model.py:300`).

*Agent loop.* (7) A draft whose rewrite for presentation times out is handed over although hard checks behind
that owner never saw it (`agent.py:1068`). (8) A forced final turn may carry an exact-tool requirement that no
reply can meet (`tool_choice_queue.py:69`). (9) An exception leaves the turn open when it comes between the finished
output and TurnFinished (`commands.py:107`), and (19) when it comes before `self._run.begin` in any prompt but the first, as the
output is then still the finished one of the prompt before (`run_output.py:65`). (10) An interrupt in the memory consolidation records a second
final (`runtime/memory.py:33`). (11) The limit on consecutive rewrites is never the one that stops a
run (`provider_terminal.py:86`).

*Session.* (12) A checkpoint that keeps a tool pair of the same process is refused on replay
(`assistant_history.py:358`). (13) After a crash between a call and its result, a second resume drops the
prompt and answer that came after, or sends an unanswered call (`jsonl_store.py:172`). (14) Half a line at the
end of the log makes the session unreadable (`jsonl_store.py:64`). (15) A signal, a crash or a rename that raises
after its effect leaves a session split between two state directories (`migration.py:49`). (16) Writing back the
log's old bytes is not atomic, and a crash in it loses the log (`runtime/workspace.py:163`). (20) Nor is the
rewriting of the todo list (`tools/todo.py:168`), and the file it leaves empty is one that no todo tool reads again. A
move or a change of the roots that is committed can also be told as a failed command, because `CommandDispatcher.dispatch` does not
catch the OSError of the evidence record or the search for path rules that follow (`DropEvidenceFails`, `RefreshFails`);
`ReportIsTrue` counts that as no report of the move.

*Processes.* (17) A refused staging attempt keeps the lock (`container_staging.py:406`): the `try` whose `finally`
closes the lease starts later, and every recovery answers `staging_authority_busy`. (18) An interrupt in
`close`, between `Popen` and the `try`, or before the entry in `_CLIENTS`, and the end of the TUI during a
request leave a language server running (`lsp/client.py:310`). (21) `close` first closes the pipe to the server,
which blocks while the server lives, does not read and the pipe is full with a write that was interrupted: the
server is never killed and the thread never comes back (`lsp/client.py:312`).

## Proofs

Eight modules hold theorems; each states what it assumes of the constants, and TLC evaluates the same
assumptions in the runs. None of the properties is inductive alone.

**`FileProofs`** has the two ways to write a file. The rooted mutation, for any set of foreign versions and of operations (`ForeignAssumption`: versions
differ from the program's own contents; `OperationsAssumption`): `MutationInvariance`, `ContractKept`,
`NoVersionLost`. The contract speaks of the end, and the call knows little on its way, so the
invariant says at each step where the target, the before image and the prepared file are and which content
the path would have without the call: `Before` the rename, `After` it, and `Undone` while the names are being
exchanged back; `Images` gives every inode its content. These hold as long as nobody has written into the file
in place (`Quiet`), which is when the contract is promised; `Holders` and `Temporary` hold in any case, and
that no step destroys a saved version follows from these two alone. `RunningIsSafe` shows that the half of the contract
about lost versions and leftovers (`Safe`) holds at every step and not only at the end, which is what an interrupt needs.

The transaction in place, for a batch of any size, any no-ops and any external versions
(`BatchAssumption`: a positive number of files, no-ops among them, foreign versions different from
the program's own contents): `TypeCorrect`, `ResultIsTruthful`, `ResidueIsExplained`, `WindowOnly`.
The result at the end depends on what each phase knows about the files already visited, so the
invariant adds

* `PhaseInv`: which of cursor, attempted, undo, paths and status are meaningful at each
  program counter;
* `CommitInv`: before and during the commit loop, a file no editor wrote since the batch
  last read it holds the after image if it is committed (or just being verified), and
  the before image otherwise; every file left of the cursor is committed or a no-op;
* `UndoInv`: during compensation, a file that no editor wrote and no call failed on holds
  one of its two images, and its before image if it is not still to be visited; the
  file about to be restored holds the after image unless an editor wrote it; during the
  scan every file passed and not listed is back.

`WindowOnly` follows from what `CommitInv` and `UndoInv` say of the file at the two writes.

**`RootedTransactionProofs`**, the same for batches of creates, replaces and deletes:
`ResultIsTruthful`, `ResidueIsExplained`, for any set of versions and whichever of them are written in place.
The invariant (`Phase`, `Forward`, `Backward`)
says what an unharmed file holds going forward and going back; that a mutation moves a file from
one image to the other or leaves it is what `MutationContract` gives, which `ContractKept` shows of
the call, as long as nobody writes in place meanwhile. Where somebody does, the file counts as harmed, and
both theorems hold all the same: the scan looks at what is there.

**`WorkspaceLedgerProofs`** has the journal by itself and the tools that write to it. The journal, for any
number of successive appends (`JournalAssumption`: the record of an old journal is no writer's, and no file is
no sequence): `ReportsAreTrue`, `TailOnly`. The invariant `Turn` says that one append runs at a time, that the
journal is what it read with or without its record, and at which steps it is which; with that each report says
what the next reader will find. The tools, for any files, jobs and number of calls (`LedgerAssumption`):
`LedgerIsJournal` (every step of the tools is a step of the journal or leaves it alone, so the theorems above hold of
it: `LedgerReports`, and the lemma `LedgerAlways`), `NeverRolledBackTwice`, `EditsAreSeen`. Their own part of the
invariant: `Alone` (one call runs at a time) and `UndoneByNone` (the record that a running rollback
undoes is undone by no record yet), without which a rollback that ends might be a second one. `Windows` is what is left
of the comparing when the writing comes: a file holds what was seen, or an editor wrote it since (`late`).

`FilesAreExplained` is the deepest of them: for any history of patches, rollbacks, failures and interrupts, a file
holds what the last standing patch of it put there. That alone is not inductive, as a rollback brings back what an older
patch had put there: `Chain` says that each standing patch found its files as the one before it had left them, so
that what a rollback of the last one restores is what the one before it says (`UndoneSound`). While a call is at
work (`Changed`) its files hold what it wrote, and what it replaced is what the ledger said; that makes a restored
file right again (`RestoreSound`), and a patch whose record is written the next link of the chain (`PatchedSound`). A record counts
only when its call is over (`Kept`), so the steps of the append disturb nothing (`ViewStays`), and what is excused stays so
(`ExcuseStays`). The order of the records is kept without positions: a step of a call touches the end of the journal
only (`AtTheEnd`, `OrderStays`).
The attempt at this proof refuted an earlier form of the property, which the run could not: with four calls on a file, one
that deletes it, one that creates it, and a second that deletes it, a rollback of the first by its id succeeds, as the file is
gone as that patch left it, and brings back the first content while the later deletion still stands (`Skipped`).

**`ContainerStagingProofs`**, for any number of sessions, roots, faults and changes of the roots
(`StagingAssumption`): `StagingInvariance`, and `JournalKeepsObligation`, the refinement of `StagingObligation`: every
step of the journal takes up the obligation, keeps it, or frees it. Whether a step may free depends on what no
process can see, since a create that was cut off may still be carried out. So the invariant says what there is at most, on the
machine or on its way to it, for each state of the record, whoever reads it next (`Recorded`), and what the
session with the lock knows in addition at each of its steps (`Phase`): while it creates, that only the resource it asks for may be on its
way, and while it closes, that nothing is left but what is still to be closed (`Creating`, `Closing`).

**`SessionProofs`** has what is kept of a session. The moves, for any number of workspaces, records, moves and troubles
(`MoveAssumption`: no file is no sequence of records): `MoveInvariance`, and from it `ReportsAreTrue`, `RecordsSurvive`, `FilesStayTogether`. That
a failed move left everything as it was cannot be seen from the files alone, so the invariant ties them to what
they were when it began: `Exact` says of every file, as long as no rename and no compensation went wrong, that it is where
the lists of moved and remaining files put it, and that at most the log, where it then is, differs;
`Remembered` and `Steps`, which of the two directories may hold what at which step; `Together`, that no third one does. `Backed` is what
the writing back of the log rests on: every record of the log is in the bytes that were read when the move began. From
the record of the roots on it says nothing, as from there on nothing is taken back.

The history, for a window of any size and any number of runs, replies, calls, compactions and troubles
(`HistoryAssumption`: they are natural numbers): `HistoryInvariance`, and from it `RequestsAreWellFormed`,
`OnlySettledComesBack` and `AnswersAreKept`. The properties speak of what replay makes of a log, so the first
lemmas say what replay, filters, windows and compactions do with sequences of any length: `Replayed` of one more
line is `Replay` of that line (`ReplayedMore`); a filter keeps its messages in their order (`OnlyEmbeds`); and if every call of a
history has its results right behind it (`Blocks`), then so has what is left when a window cuts it anywhere, or a
compaction keeps a part of it (`ValidBlocks`, `RecentIs`), and if only the last batch is unfinished, the repair
drops just that (`TrailingCuts`). The induction over the length of a sequence is in set form: a set that has 0,
and with each number the next, has all (`Counted`, from the well-foundedness of the order of numbers).
The invariant: `Staged` says what the process has at each stage; `LiveShape` and `LogShape`, that the messages and the log
are in blocks but for the batch under way, of which the log may have one result more than the process;
`Drafted`, that the draft which may be delivered is in both; `Sourced`, that what a log gives back has no
draft, and only answers with a settlement, also after a checkpoint, which replay takes only if it says so itself (`Vouched`);
`Settled`, that a run is settled once, and not while it lasts; `Survive`, that the answers which were told are in both.
The attempt at this proof refuted an earlier form of `AnswersSurvive`, which said that an answer is kept as long as
the history fits into the window *now*, and which the run could not refute: a resumed session may leave an answer
out because the window is full, and a compaction then makes the history short again. Such runs are now counted in
`gone` when it happens (`LeftOut`), and the condition on the length is dropped.

**`TurnProofs`** has the run of the agent and its request to the provider. The run, for every budget, any number of
prompts and all owners awake (`BudgetAssumption`: natural numbers, `MaxExact` and `MaxBatch` positive):
`Invariance`, and from it `GateHolds`, `ReviewHolds`,
`ClosedOnce`, `ToldAsRecorded`; `CallsAnswered`; `RewritesStayBounded`. `Stage` ties the program counter to what
has been recorded, told and closed at it. Most actions are shown to be a `LoopStep`, which either goes on and
leaves the end alone or ends the run with a text that is the answer only if the review is through; so the
gate has to be looked at in one place, `RecordFinal`. `CallsInv` says which calls of the message are answered once
and which not yet, in each step of the batch; `BudgetInv` follows the coordinator through every
function that gives it a new value.

The request, for replies of any length and a queue of any capacity (`RequestAssumption`):
`RequestInvariance` and `WholeAnswer`. That an answer was told on as it came is not inductive, as its text is
spread over four places while it travels: what was told, the delta in hand, the queue, and the item of the
worker. `Chain` says that their numbers follow one another without a gap and end at what the decoder has
read; `ReplyEnds`, that what ends the reply comes last in the queue, and is complete only if nothing of the
reply is missing (`Entire`). Both hold until the request ends; after that the worker may go on alone, and what it does
changes no answer (`Standing`).

**`WaitProofs`** has the two components in which a thread waits for somebody outside the program. The session of
the terminal, for any number of texts and questions (`SessionAssumption`): `SessionInvariance`, and from it `QuestionIsSeen`,
`FollowUpIsHeld` and `TextIsKept`. That the user sees the question on which the run waits is not inductive, because
the question travels: the bridge has it, then the mailbox, then the screen, and each forgets it on its own. `Order` says that
questions come one after another in all three places, and `Seen` that a question which is in the mailbox or on the
screen is the one waited for, or is withdrawn before the next message that is no withdrawal (`Withdrawn`): so the
screen never shows an old question in place of the new one. Both end with the session (`Questions`), when the bridge is closed and
the screen goes away. `Apart` says that a typed text is in one place only, the composer, the draft, the text under a
question, the follow-up or what was sent; `Under`, that what was typed is below the question while one is
shown; `Flight`, that the command in flight is in the queue, with the worker, or on its way back; `HeldBack`, that a
Ctrl-C meant for it is still remembered when the next one could start.

The client of language servers, for any number of calls, servers, edits and troubles (`BoundAssumption`): `ClientInvariance`, and
from it `AnswersAreOwn` and `ServersAreClosed`. `Placed` says where the thread is and which client it has there; a new client is
built only while none is kept that could be used. With that `NoneLeft` says of every server that runs that it is kept, or in
hand, or lost in one of the ways that the hazards name. That an answer is the caller's own rests on what no call can see, the
requests and answers of earlier calls that gave up: `Numbered` says that the next number of an open client is above
all of them, `Owned` that under the number of the call there is its own request only; and `Dated`, that the texts which a server has
been given are of its time. The steps fall into those that take something from a server or a client and add nothing
(`ServerFades`, `ClientFades`) and three others, a request, the text of a file and a new client (`Moves`).

**`MailboxProofs`** has the mailbox, alone and between the Runtime and the projector. The mailbox, for any capacity, span and
number of messages (the assumptions of `TuiMailbox`): `MailboxIsChannel`, `TextIsMergedWhole`, `CriticalIsKept`. The
queue of the channel is the concatenation of what the items stand for (`FlattenSeq`), so one step of the mailbox, which
replaces an item, drops one and adds one, must be shown to change that concatenation at one place; the invariant
(`MailInv`) says what an item stands for, and of which kind. `TextIsMergedWhole` says that the pieces of a merged item have
no gap.

With the Runtime and the projector, for any number of runs, streams and pieces: `DeliveryIsChannel`, the
same refinement under the messages that are really sent; `TranscriptInvariance` and `ShownIsWhole`, that a text on the
screen is a beginning of its message or the words put in its place. This speaks of the view, and a step that drains the mailbox folds
several items into it at once, after any of them has been lost. `ToldInOrder` and `Telling` say what the Runtime sends: the
deltas of a message come before anything that ends them. `Reading` says of a view and a place in
what was sent, that of each message the view shows nothing, or as many pieces as it counts (`Growing`), or
that something ended its deltas before that place (`Over`); `Reads`, that there is such a place and that the queue is
behind it. So a view stays right through a loss, and through each item of a drain in turn. `FlattenSeq`, `Among` and the fold of the
drain are functions defined by recursion; what they compute is shown by induction over their index in each case, from the
least element of the places where the claim fails (`LeastElement`, `Induction`).

## How to run

In this directory: `tlc -workers 2 -config <cfg> <module>` for a run of the tables above,
`tlapm <module>` for the proofs of a module whose name ends in `Proofs`. The longest proofs are `SessionProofs`, `MailboxProofs` and
`WaitProofs` with several minutes each; the longest runs are `MCWorkspaceLedger`, `TuiTranscript`
and `TuiSession` with about two minutes each.

## Limits

*Only model-checked*: liveness (`WorkEnds`, `ContainerClosedIfRecoverable`, `Answered`,
`CallEnds`, `RequestEnds`), as liveness under fairness and ENABLED are out of the prover's reach; `AnswerStays` and
`NothingLeftOver` of `TuiTranscript`, which speak of what the Runtime delivered and the user read in runs that are over;
and `ResumeAgrees` of `SessionHistory`, which is stated with `SelectSeq` and
compares two orders. Induction over data is done for one function at a time, in set form: the theorems of the library that take a predicate
cannot be used. Type correctness is part of every
proved invariant (and `TypeCorrect` of its own for `ExistingTransaction`); `TuiTranscript`
states its own, which no run lists, as the other properties fail first when a
variable goes wrong.

*Abstracted*: contents are tokens; a mode is part of the content; a path is one name below a
directory whose authority check is one more call that may fail; messages have a kind and no
text beyond their pieces. `TuiSession` assumes a mailbox that is not full and a screen that keeps polling; it
leaves out history search, the palette, the viewport and the cursor, and folds a typed
answer into one key. `ContainerStaging` leaves out the protocol inside the command's container
(start, gate, proofs, wait, logs), which ends in the same closing however it goes, the parsing of
the engine's answers, and the content of the staged copy. `AgentTurn` takes the checks that read prose (audits,
evidence, the reviewer's verdict, the rule that picks a tool) as inputs that say yes or no. `SessionHistory` takes digests as
equality. `WorkspaceMove` has the roots as a revision. `LspClient` has one root and one file, and no parsing.
`ProviderRequest` has no bytes: what the decoder refuses is one step (`Break`), and a chunk is one event.

*Promised by nobody*: `rolled_back` of the rooted batch says nothing about private entries
that a failed cleanup left (only files with a failed call have them:
`ResidueExplained`); two processes resuming one session share a journal and a log without a lock.
`rollback_patch` with the id of a patch compares the files with what that patch left, and not with the patches after
it: when a later patch of the file left the same (both deleted it), it goes past that one, which then says of the file
what is not true while the file is there, and cannot be rolled back then.
Of container staging: a record whose roots have changed since is recovered by nobody
(revisions only grow); a recovery that has removed the container at `create_possible` or
`execution_create_possible` and is then interrupted leaves a record on which every later
one stops, because it no longer sees what it has to remove (the volumes stay); the same happens
when the attempt ends between the inspection of the volumes and the create of the preparation
container; a death between the making of the directory and its record, or inside
`write_staging_record`, leaves the directory refused. Except in the first
of these no container is left (`ContainerClosedIfRecoverable`, which excludes the first by
`NobodyRecovers`), but no command runs in a container again until somebody clears up.
Diagnostics of a language server may be of an older text, and "no diagnostics" may mean that none
came in time. A Ctrl-C between the start of the stream worker and the `try` whose `finally` tells it to stop
(`providers/deadline.py:119-122`) leaves it looking at a full queue for ever (`RequestEnds` excepts it), and a worker that receives only comments or
fragments of tool calls notices a cancel at the next piece of text, or never. An OSError in the answer to a server's own request leaves the client open.

*Not modelled*: the components marked `not_modelled` in `PROJECT.json`, each with the reason. Most of the
source's lines are outside the reach of such a model whatever is added: evidence, review, planning and
steering rules are functions over prose (about a third of the package), the developer tools, benchmarks
and scripts drive the program from outside, and parsing, rendering, paths and configuration have no
state that outlives a call. The map covers the parts that keep state across steps.

## Plan

1. The process runtime: terminate, kill and the reading of pipes that a grandchild holds.
2. The composer history shared by two frontends.
3. Proofs: that only what is delivered is settled (`AnswerStays`); that replay keeps the order of the log (`ResumeAgrees`).
4. The protocol inside the command's container, as a component that closes in one of its outcomes.
5. `ProviderRequest` under `AgentTurn`, which takes the ends of a request as inputs.
