# Formal verification of yen

TLA+ models of *yen*, a coding agent that keeps conversations across a
terminal, Telegram, a dashboard and an RPC server: its durable turn queue and the
runners that work on it, the agent loop, the files it keeps (session log, links,
memory, credentials), and the sides that face a peer (model services, Telegram,
RPC clients, extensions). TLC checks the models on small instances; TLAPS proves,
for all of them, the queue, the runners, the agent loop, the session log and its
compaction, the links, the credential file, the memory store, the files of the tools,
the Telegram and RPC servers, the choice of the provider and the approval by extensions.

Paths below are relative to `src/internal/` unless they say otherwise.

## The system

```
 terminal   telegram bot   dashboard   rpc server        one OS process each
     \           |             |          /
      +----------+------+------+---------+
                        |  Submit / RunSubmitted / Steer / FollowUp / Cancel
                  runtime.Runner  ---- hooks ---- extensions
                   |    |     |
     Queue (file) -+    |     +- session.Session (file)
   conversation.go      |        session.go, lock.go
                  agent loop ---- provider (HTTP), tools
                        |
                  memory engine (files)
```

| component | state it keeps | operations | what makes it hard | what makes it correct |
|---|---|---|---|---|
| turn queue `conversation/conversation.go` | an append-only file of events, replayed by every process into `turns` and `order`; an flock; leases with owner and deadline | Enqueue, ClaimFor, Renew, Complete, Cancel, CancelActive, Get, Active | many processes on one file; Enqueue writes outside the lock; ClaimFor writes several events; crashes; leases that run out | one active turn per conversation; FIFO order, also after a requeue; nobody loses a turn while its lease runs; every turn is settled in the end |
| turn runner `runtime/runtime.go` | one goroutine per submitted turn; `active` and `queues` maps; a lease watcher per run | Submit, RunSubmitted, Cancel, Steer, FollowUp, Compact | submitters claim each other's turns; durable and local cancellation; takeover; failing disk | runs of a conversation do not overlap; the transcript is in order; a complete turn is recorded; a lost run stops; every turn runs |
| agent loop `agent/loop.go` | the message list; steering and follow-up queues | RunFrom…, ContinueFrom, Steer, FollowUp | parallel tools; injection and cancellation at any point; hooks; retry; restart after overflow | contexts the provider accepts; no injected message lost or repeated; nothing false recorded; cancellation ends the run |
| session log `session/session.go`, `lock.go` | a JSONL tree of entries; per handle its own entries and leaf; a path lock inside the process | Open, Append, AppendCustomEntry, Branch, Reload, AppendCompaction, publish | several handles; deferred publish; failing writes; only the save of a turn takes the lock | a turn is in the conversation as a whole; a save goes on from what others saved; no path ends before the root |
| compaction `runtime/runtime.go:406-497` | a flag per runner; a plan on a handle of its own | Compact, automatic compaction, overflow compaction | cuts inside a turn; repeated compactions; check-then-act; stale handle over a provider call | what leaves the context is in the summary; results keep their calls; saved turns stay on the path |
| conversation registry `conversation/conversation.go` | append-only file of links under an flock | Resolve, ResolveShared, Link | several processes; torn lines | one conversation per adapter key |
| memory engine `memory/` | semantic nodes and edges, episodes, checkpoints, all files | RecordTurn, ConsolidateIfTriggered, Backfill, checkpoints | single flight per process only; separate writes; stale checkpoint; take-over | what a checkpoint or an episode points at has been written |
| rpc server `rpc/` | connections; the link; modes; pending questions of extensions | prompt, abort, steer, new and switch session, modes, model commands, UI response | one goroutine per prompt runs other prompts too; commands of several connections; answers against timeouts | a prompt's frames come in order; an answer reaches its question; no client with another's key |
| telegram, dashboard `adapters/` | poll offset; links | Run, handleUpdates, stop, HTTP handlers | offset moved before handling; concurrent handling; restart | no update lost; a prompt submitted twice only after a death |
| auth store `auth/` | credentials file under an flock | Modify, Delete, Read, logins, token refresh | several processes refresh; lost answers and writes | a change is one provider's; a stored token is good or about to be replaced |
| extensions `extensions/` | a Node process and a pipe per extension; registered hooks | discoverAndLoad, call, hooks before a tool call | parallel tool calls share a bridge; answers carry no ID; cancellation; deaths | a tool runs only if each extension allowed that call |
| providers `provider/` | one immutable client per process | Next on six wires; NewConfigured, SetModel, … | interleaved and cut streams; attempts; what a request repeats | an answer is whole or an error; calls and results are paired |
| tools `tools/` | files; locks per path in the process; a spill file | write, edit, read, bash | parallel edits; pages cut by lines and bytes; output in any pieces | edits are exact; cut output can be had in full |
| TUI, CLI, settings | rendering, key handling, flags | | | |

`PROJECT.json` lists them with their status, and under `hazards` what in this
code is hard to test, each at its line.

## Modules

| module | models | kind |
|---|---|---|
| `ConversationFifo` | what the queue promises: per conversation a line of turns, one running, the oldest unsettled one | abstract specification |
| `TurnQueue`, `TurnRunnerProofs` | `Queue` of conversation.go | refines `ConversationFifo` |
| `TurnRunner`, `TurnRunnerProofs` | `Runner` of runtime.go over `TurnQueue` (EXTENDS it, every queue step is a `TurnQueue` action) | composition |
| `AgentLoop`, `AgentLoopProofs` | loop.go, and the retry, restart and save of runtime.go around it | component |
| `SessionEntries`, `SessionEntriesProofs` | what a session file says: active path, context, the two compaction planners | operators |
| `SessionTree`, `SessionTreeProofs` | one session with one handle: turns, branches, compactions in sequence | component over `SessionEntries` |
| `SessionLog`, `SessionLogProofs` | the handles of turns, tools, compactions, branches and the boundary detector on one file | component over `SessionEntries` |
| `Registry`, `StoresProofs` | `Registry` of conversation.go | component |
| `MemoryEngine`, `StoresProofs` | memory/: RecordTurn, consolidation, backfill | component |
| `AuthStore`, `StoresProofs` | auth/ and the refresh of provider/config.go | component |
| `Tools`, `StoresProofs` | tools/: write, edit, read, bash | component |
| `ProviderWire`, `ProviderProofs` | requests and streams of the six wires | operators |
| `ProviderCall`, `ProviderProofs` | a provider call with attempts, stream, tool results and further calls | component over `ProviderWire` |
| `ProviderSelect`, `ServicesProofs` | provider/config.go, settings, the model commands of the RPC server | component |
| `TelegramBot`, `ServicesProofs` | adapters/telegram_bot.go | component |
| `RpcServer`, `ServicesProofs` | rpc/server.go, its connections | component |
| `Extensions`, `ServicesProofs` | extensions/loader.go, registry.go and the bridge script | component |
| `MCTurnQueue`, `MCTurnRunner`, `MCAgentLoop`, `MCSessionLog` | constants for TLC | |
| `MCStores`, `MCServices` | several components side by side, with constants for TLC | sums |

### TurnQueue

The file is modelled by its replay: `file[t]` is the turn `reload` builds
(status, lease owner, remaining lease), `rank[t]` its index in `order`. One event
written is one assignment to `file[t]`, as `apply` does it.

*Granularity.* Renew, Complete, Cancel and CancelActive are one step: they reload,
check and append one event under the flock. ClaimFor appends several events, so it
is a sequence: `ClaimBegin` (lock, reload into `view`), then for every active turn
of the conversation in order `Requeue` or `FindBusy`, then `ClaimFirst` or
`ClaimNothing`. Enqueue appends after it has released the flock, so
`EnqueueBegin` and `EnqueueWrite` are two steps, and the second may fall into
another process's claim: `view` can be stale. `WriteFails` and `Crash` may strike
between any two steps.

*Time* is the remaining life of a lease; `Tick` ages all leases together. A
restarted process opens the queue with a fresh owner id
(`conversation.go:264-270`), so it is another member of `Handle`.

### TurnRunner

A member of `Turn` is also the submitter that enqueued it: `loop[s]` is where its
goroutine is in `runSubmitted` and `runClaimed`, `running[s]` the turn it works on,
which may be another submitter's. `Poll` to `PollAgain` wrap one `ClaimFor`;
`StartRun` claims and registers; `AgentEnds` and `Persist` stand for `runTurn`;
`SettleRun` or `SettleRefused` for Complete/Cancel, whose error the code ignores;
`EndRun` for the deferred calls. `RenewRun` and `WatchLoss` are the watcher;
`CancelLocal` and `CancelDurable` the two halves of `Runner.Cancel`. `transcript` is
the session file as the sequence of turns appended to it. What follows the append
in `runTurn` (memory, checkpoints) can only turn a success into an error, which
`AgentEnds` chooses in advance. `runNext` is one poll without the loop, and only
tests call it.

### AgentLoop

`messages` is `result.Messages`, each message reduced to its role and what decides
the control flow; call `i` of an answer has the id `i`. `phase` is the position in the
loop: `Drain`, `Answers`/`ProviderFails`, then either `GoOn`/`Finish`, or the parallel
calls (`ToolEnds` in any order, then `Collect` one by one, each looking at the context
again as the code does), or the sequential ones (`CallEnds`). `Retry`, `Resume` and
`BackoffCanceled` are `runAgentWithRetry`, `Overflow` the restart of `runTurn`, `Save`
its append. `Steer`, `FollowUp` and `Cancel` come from other goroutines at any time.
A provider call that starts under a done context fails; one already under way may
still answer. Hooks may block, fail, stop or (with `HookedLengths`) replace the
history.

### SessionEntries, SessionTree, SessionLog

An entry is a record of its ID, parent, type and what planning looks at: role, size in
tokens, the message whose call it answers, the files its calls touch. `covers` on a
compaction is a ghost: the messages whose text went into the summary. `ActiveEntries`,
`ContextMessages`, `PrepareCompaction` and `PrepareCompactionByTokens` are functions of
the code of the same names.

`SessionTree` uses them with one handle at a time, so that every shape of a log occurs:
plain turns, turns with a tool result, turns cut after two results, compacted again and
again with budgets that cut at, before and inside a turn, and a branch in between.

`SessionLog` is about handles. `handle[a]` is a `session.Session`: the entries it has
read or appended, its leaf, and whether it is flushed. `Extend` is `Append` to memory and
`Written` to the file; `Publishes`/`Pending` are the deferred publish; a write may fail.
`BeginSave` to `Release` is the end of `runTurn` under the path lock (Reload, the messages,
`operation_finished`, the note); `ToolEntry`, `AppendCompaction`, `BranchAt` and
`DetectBoundary` append without it, as the code does. `Overlap` says whether two turns may
run at once, which `turn_runner_overlap` shows to be possible.

### Registry, MemoryEngine, AuthStore, Tools

`Registry`: `lines` is the file, `tornTail` a line without its end. `BeginCall` locks,
replays and decides; `AppendLink` or `AppendFails` writes; `ClientDies` is the death of a
process before or after its line.

`MemoryEngine`: a worker is a turn or a backfill; `pc` is its place in RecordTurn
(`BeginRecord` … `RecordCheckpoint`) and in the consolidation (`Trigger` … `Finish`,
`NoteFailure`), one write of one file or row per step. `active` and `inFlight` are the
engine's in-process sets, `fileLock` the lock file of a conversation. An answer's IDs are mapped
by `Id` to the nodes of its facts; an ID that no written fact has stays as it is
(`engine.go:146, 201`). A turn that has been through all of it waits in `settle` for
`Settle`, the Complete of the queue: `Crash` kills a process with its workers wherever they
are before that, and `TakeOver` runs a dead one's turn again from the start, though its
consolidation may have been finished.

`AuthStore`: tokens are numbers; `live` are the refresh tokens the service still accepts,
so a refresh with a spent one is refused. `ModifyLoad`/`ModifySave` are `Store.Modify`
under the flock; `Read`, `RefreshCodex`/`RefreshCopilot` and the Modify behind it are three
steps without a lock around them, as in `storedCodexAccessToken`. Logins are the device
and the browser flows up to the grant.

`Tools`: `job` picks which tool a behaviour is about. An edit reads, computes (`Applied`,
region by region from the back, as the loop does after its sort) and writes under `LockPath`, and
the write truncates first. A text is a sequence over `Letter`. `ReadTool` shows a page and
prints a notice; `ReadNext` reads on at the offset it names. `CaptureWrite` is
`bashCapture.Write` for any piece of output; the spill file may not be created, and of each of the
two writes to it any beginning may arrive, as the code looks at neither's error. The lock
of a path is one per process and cleaned spelling (`fs_tools.go:17`): `LockOf`.

### ProviderWire, ProviderCall, ProviderSelect

`ProviderWire` has per wire one operator for the request (`ConvertMessages`,
`ResponsesInput`, …), one for an event of the stream and one for its end. `ProviderCall`
takes a `plan` (what the service would say), delivers its events interleaved over the
calls, stops anywhere, refuses and retries, puts the answer and the results of its tools
into the history and asks again. `ProviderSelect` builds a client from the environment,
the settings and commands: `client` is [name, model, wire, key, …].

### TelegramBot, RpcServer, Extensions

`TelegramBot`: `updates` is what the chat sent, `forgotten` what the server was told to
forget, `offset` the bot's. `PollUpdates` is `getUpdates` with the move of the offset; the handlers
of a batch run side by side (`Prepare`, `SubmitPrompt`, `StopTurn`, `Toggle`, `Reply`); the
next poll comes after `BatchDone`. `Die` is any error, or the death of the process; turns
outlive it.

`RpcServer`: `handler[c]` is where connection `c` is in a command; a prompt goes
`Submit`, `Accept`, `Start`; its goroutine (`goroutine` of the turn) claims the oldest pending
turn of its session (`ClaimOldest`), which may be another's. `TurnEnds` is the return of runClaimed: the
goroutine has `succeeded` when the turn was its own and the run did well, has `failed` when the run
failed, its own or not (`runtime.go:264`), and otherwise `polls` on, also for a turn of its own that
somebody else has run, and then for ever. `RunPromptEnds` writes the end. A failed run of
another's turn thus ends a prompt whose own turn is pending, with nobody that waits for it.
`Ask`, `Show`, `Receive`, `Withdraw` and `Answer` are RequestExtensionUI and its other side.

`TelegramBot`: `PollUpdates` moves the offset and starts a handler per update; `Prepare` to
`Reply` are HandleUpdate, all of a batch at once. `SubmitPrompt`, `StartTurn` and `EndTurn` are
runSubmitted as above: a handler replies with the result of its own turn or the error of any
turn that it ran, and waits for ever when another has run its own.

`Extensions`: `LoadExtension` goes through the files found, `CallBridge` writes a request
under `bridge.mu`, `ReadLine` is the goroutine that reads, `CancelCall` leaves it behind, and
`NodeDies` ends the process on the other side. `hasUi` says whether somebody passes on the questions of
extensions (`loader.go:415`): the terminal and the RPC server do; the Telegram bot and
the dashboard load their registries without, and there the line of a question is taken for the answer.

### Sums

`MCStores` and `MCServices` put components side by side that share no state. A variable
`focus`, chosen in the initial state, says which of them a behaviour is about; only that one
moves, and the others stand still in one initial state. The reachable states are the
union, not the product, of the components' states, and every property holds of the sum
exactly if it holds of its component alone. This is one run per kind of component where
there would be eleven.

## What TLC checks

| run | instance | what it shows |
|---|---|---|
| `turn_queue` | 3 processes (2 may crash), 4 turns, 2 conversations, lease 2, symmetry on turns | `OneActive`, `InOrder`, `ViewCurrent`, `LeaseRespected`, and the refinement `ImplementsFifo` |
| `turn_runner` | 2 processes, 3 submitters of one conversation, one process may die and fail to use the queue file | `OneRunner`, `TranscriptInOrder` while nobody cancels durably and no live worker outlives its lease |
| `turn_runner_cancel` | 2 processes, 2 turns, cancellation, leases that run out under live workers, agents that hang | `CompleteIsRecorded`, `CancelHitsItsTurn`, `LostRunStops` |
| `turn_runner_live` | 2 processes, one of which may die, 2 turns, cancellation, failing runs and session files, fair | `EveryTurnRuns` |
| `agent_loop` | 2 answers of up to 2 calls, 2 injected messages, 1 retry, 1 restart, cancellation | `ContextPaired`, `SavedPaired`, `NoFalseSuccess`, `InjectedKept`, `SavedFromPrompt`, `CancelEnds` |
| `stores` | the six components of `MCStores` | log: `TurnWhole`, `TurnsDoNotCut`, `ParentsExist`; compaction: `NothingForgotten`, `ResultsKeepTheirCalls`; `OneConversation`; memory: `CheckpointCovers`, `RelatedExist`; credentials: `StoredTokenGood`, `OthersKept`; tools: `EditsExact`, `OutputComplete` |
| `services` | the five components of `MCServices` | providers: `AnswersAreWhole`, `RequestsArePaired`; Telegram: `ForgottenAreHandled`, `ResubmittedAfterDeath`; RPC: `StreamFramed`, `AnswersReach`; `KeyOwn`; extensions: `RunsOnlyApproved` |
| `turn_runner_overlap` | cancellation allowed | `OneRunner` **fails** |
| `turn_runner_hang` | two submitters, fair | `SubmitterReturns` **fails** |
| `turn_runner_unsaved` | session file may fail | `CompleteIsRecorded` **fails** |
| `session_compact` | 3 turns one after another, one compaction | `SavedStaysActive` **fails** |
| `provider_cut` | one completions call | `CutStreamsRejected` **fails** |

Every property of a passing run has a mutant of the code in its module (marked
"mutant"): with that definition in place of the real one TLC finds the property
violated. Several properties name an exception that is in the code; each is said where
the property is defined, and the more surprising ones here:

* `NothingForgotten` excepts the compaction whose cut splits the only turn there is to
  summarise: the provider is not asked, and the split-off prefix is in no summary
  (`runtime.go:474`).
* `RunsOnlyApproved` excepts an extension one of whose calls was canceled or failed: the
  reader it leaves behind, or the answer that comes late, may then be taken for the answer
  to another call (`loader.go:446`). And it excepts one that has asked the user something where
  nobody passes questions on (Telegram, dashboard): the question is taken for the answer,
  one that blocks nothing, so the tool runs before the extension has decided, and what it
  decides is left to the next call (`loader.go:415`).
* `StreamFramed` says `done` only of a prompt whose own turn was run, and that an accepted prompt has a
  goroutine until its end is written. The end may be the error of another's turn
  (`runtime.go:264`): the own turn is then pending in the queue, and whoever next claims a turn of the
  conversation runs it. Whose deltas go to whom is not part of it (`runtime.go:259`).
* `ForgottenAreHandled` has the same case: a handler that ends well may have replied with the
  error of another's turn, its own being in the queue still. No update is lost to the server;
  a prompt can be left in the queue.
* `CheckpointCovers`: a consolidation is recorded before the queue knows that the turn is over
  (`runtime.go:719, 334`). When the process dies in between, the turn runs again, its episode is
  overwritten by a bare one, and what a second answer finds may be unwritten while the checkpoint names
  the turn. The property says what is left: that a turn the checkpoint names has an episode and
  was once consolidated to the end, and what that found is there (`consolidated`).
* `RelatedExist` is about the IDs that an answer gave to its facts. One that no fact has, or a fact
  skipped for want of a subject, is written as it is and may name no node.
* `CompleteIsRecorded` holds where `SaveMayFail` is false: that is, of a session file that can be written and
  of automatic compactions that neither fail nor find the runner's slot taken, as `SaveFails` stands for all three.
* `LostRunStops` excepts a turn that its own process claims again, and `SavedFromPrompt` a hook that
  changes the length of the history.
* `EditsExact` is about editors under one lock. Two processes, or two spellings of a path (a
  symbolic link), take two, and an edit can be lost.
* `StoredTokenGood` excepts a service whose answer or whose write was lost: the spent
  token stays in the file and the user must log in again.
* `OneConversation` excepts a link that was written behind a torn line and a key that
  was bound to another conversation on purpose.
* `ParentsExist` excepts an entry whose write failed and which its handle went on from.
* `AnswersAreWhole` says of Anthropic, Responses and Google streams only that no call has
  a part of its arguments: these wires take a stream that was cut for an answer
  (`anthropic.go:325`, `responses.go:448`, `google.go:360`). Anthropic returns its calls in
  the order of a map (`anthropic.go:317`).
* `RequestsArePaired` leaves out Anthropic and Google: `convertAnthropicMessages`
  (`anthropic.go:347`) sends the results of calls that it does not send.
* `OutputComplete` excepts a file found under another spelling of its path, where the
  offset to continue at skips two lines, a spill file that could not be
  created at first, and one that could not be written, whose errors nobody looks at
  (`bash.go:171, 182`).

### Where code and documents disagree

* **Cancel frees the conversation too early** (`runtime/runtime.go:382`).
  `CancelActive` settles the turn in the file while its run winds down, so the next
  turn starts beside it, on the same session file. `docs/M1-CONTRACTS.md:187` rules
  that out. `turn_runner` shows that without a durable cancel, and while leases
  hold, it does not happen; `TurnWhole` and `TurnsDoNotCut` show that even then the session
  file keeps both turns, whole and on one path.
* **A submitter can wait for ever** (`runtime/runtime.go:253`). It returns only for a
  turn it claimed itself; when another submitter of the conversation ran its turn,
  the result is thrown away and it polls on. `EveryTurnRuns` shows that the work
  itself is done.
* **A turn is complete though nothing was saved** (`runtime/runtime.go:334`).
  `runClaimed` calls Complete whatever `runTurn` returned, unless it was canceled.
  This includes the turn that finds the runner's single compaction slot taken by
  another conversation (line 419). With a working session file `CompleteIsRecorded`
  holds, through deaths, takeovers and cancellations.
* **A compaction can cut a saved turn off the conversation** (`runtime/runtime.go:430`).
  Compact looks once whether the conversation is idle, then plans on its own handle and
  waits for the provider; a turn that runs and is saved meanwhile is followed by a
  compaction entry that hangs on the leaf of before. Line 412 says what was meant:
  "cannot compact an active conversation".
* **A cut stream can pass for an answer** (`provider/openai.go:482`). A
  `finish_reason` that is present but null counts as a stop, so on a server that sends it
  on every chunk a stream cut anywhere is a complete answer, against
  `docs/M2-FIRST-SLICE.md:16`. `provider/openai_test.go:152` has null for a stop too, on a stream
  that does end.

Further things the models make visible, without a run of their own:

* A hook that replaces the history by one of another length shifts what is saved
  (`runtime/runtime.go:698`): with `HookedLengths <- OtherHistory` in AgentLoop.cfg TLC
  finds `SavedFromPrompt` violated. A hook that returns an error leaves an empty result, and
  the slice panics (`SavePanics`).
* A steering message accepted after the last drain, or taken by a run that overflows
  and starts again, is dropped (`InjectedKept` says that these, and a failing hook,
  are the only ways); a turn whose worker lost it after the append is recorded twice.
* A prompt whose acceptance cannot be written stays pending, and its entry in the
  server's map of active prompts is never removed (`rpc/server.go:178-182`); an abort after
  a session switch does not find the turn that runs.
* A Telegram prompt that was submitted before the process died is delivered and
  submitted again by the next one; a stop in the batch after a long prompt is only seen
  when that batch has ended.
* Changing the model of the provider in use keeps its wire (`SetModel`), changing the provider loses
  thinking level and retries, and a logout that races a refresh is undone.
* Two consolidations of one conversation in two processes may lose an edge
  (`memory/engine.go:185-192` reads a node and writes it back), and a failure may move a
  checkpoint backwards; the properties say that what it then names is still covered.

### Bounds

* Four turns in two conversations are two lines of several turns that share one
  `order`, one flock and one file; three processes are a crashed claimer, a live one
  and one that enqueues between. Lease 2 gives "running", "aged", "expired" and their
  order. The theorems below do not depend on any of this.
* Three submitters are needed for a chain: one runs another's turn while the third
  polls. `MaxAppends` bounds takeovers (one repetition, at least, of every length of
  transcript that fits). In `turn_runner_cancel` two turns suffice, as its properties
  relate one run and one turn.
* In `agent_loop` two answers are one with tool calls and one after it; a retry and
  a restart share them. `SteeringMode` is "one" and `FollowUpMode` "all", so both
  forms of a drain occur.
* `stores`, session log: two turns that may overlap, one compaction, one branch, one task
  boundary detector, one failed write, six entry IDs. Two turns are one whose handle is
  stale and one that made it so; more IDs add longer turns only. Compaction: logs of up to 15
  entries, three shapes of a turn, budgets 0, 2 and 4 tokens, which cut at a turn, inside one and
  on a result; one branch; repeated compactions. Registry: two processes, two keys, two lines, one
  torn. Memory: two turns and a backfill of one conversation in two processes, all three when
  nothing goes wrong, any two of them with one mishap, the death of either process or a failing
  write (`Workload`, a condition on the initial states); answers with at most one
  fact, whose ID may be that of no fact (`Local`). Credentials:
  two processes, three tokens, one fault. Tools: texts of up to three letters out of two,
  one or two replacements; files of up to five lines, pages of three lines or five bytes; up to seven bytes
  of output in pieces of any size.
* `services`, provider call: each wire, up to two calls of no or two fragments, one
  retry, one further round. Telegram: three updates, of which one may be other than a
  prompt or a stop (`FewOthers`, a constraint of the run), one restart. RPC: two
  connections and five small loads (two prompts; a prompt that may be steered and a new session; two
  questions; a steered prompt and a question; a prompt and a mode). Model selection: three commands from
  each environment listed in `MCServices`. Extensions: two parallel tool calls, three files of which one is found twice, one
  question, one death, with and without somebody who passes the question on. Connections, and tool
  calls, are interchangeable: nothing in the models orders them (`Alike`).
* Deadlock is checked in `turn_queue` only: finished turns, an agent run that is saved, a
  full log and an answered prompt are where the other systems stop.

### Fairness, and why the code has it

* Time passes; a call in progress goes on: the goroutines and processes are
  scheduled. Writes do not fail for ever (`SF` on `ClaimWrite`, `SettleRun`).
* `runSubmitted` polls every 10 ms (`runtime.go:271`), so a claim that is possible again
  and again is made (`SF` on `ClaimBegin`, `Poll`): the flock is not fair, but the
  holder releases it after a few writes.
* `EveryTurnRuns` excepts a `Deserted` conversation: one process has died and no submitter
  is left in another. Nobody polls the queue then, which is how the program is built: a
  pending turn waits for the next message.
* The watcher looks every 100 ms (`runtime.go:302`) and the run's context is given to
  the provider and the tools: `WatchFairness` has an agent end only when it is
  canceled. `LostRunStops` has an exception that is in the code: the owner is the
  process, so a claim of the same turn by the same process hides the loss.
* `StallFree` says that a live worker renews its lease (every 20 s of 60 s) or, once
  canceled and no longer renewing, winds down in time. It is an assumption about the
  host, made where it is named and dropped in `turn_runner_cancel`.
* `CancelFairness` makes the agent loop go on only after its context is done.
* The components of `stores` and `services` have safety properties only.

## What TLAPS proves

For all values of the constants, from the named assumptions of each module alone.

**`TurnRunnerProofs`**, queue: `QueueTyped`, `QueueInvariant`, `QueueInOrder`, `QueueViewCurrent`,
`QueueOneActive`, `QueueLeaseRespected`, `QueueImplementsFifo`. `InOrder` is not inductive:
a claim decides on a replay. The strengthening
`QueueInv` adds that positions are unique and exist exactly for known turns
(`RanksAgree`), that the flock is held exactly by the handle in ClaimFor
(`LockHeld`), that the replay is current except for younger turns appended since
(`ViewCurrent`, also a checked property), and that the first loop has left no active
turn behind while it has not found one running (`ScanOK`). With these a claim takes
the oldest unsettled turn. `OneActive` follows from `InOrder` alone: of two active turns
one is earlier and would have to be settled. The refinement maps a turn's status to
its stage and `rank` to its place; each step maps to a step of the line or to a
stutter, and `Tick` and the lock to stutters.

*Runners:* `RunnerInvariant`, `RunnersUseTheQueue`, `CancelReachesItsTurn`,
`CompletedTurnsAreRecorded`, `OneRunnerWorks`, `TranscriptKeepsOrder`. Every step of the runners
is a step of the queue or leaves it alone, so `RunSpec` implies `Spec` and what is
proved of the queue holds of them. `RunnerInv` adds where a submitter is while its process uses
the queue: only one is inside `Enqueue` (`SubmitAlone`), and the flock is held
across steps for the one that polls (`CallerHolds`). The other facts need what the docs
ask of the system, as the hypothesis of the theorem: `CompleteIsRecorded` a session file that
can be written (`~SaveMayFail`; `SavedFirst` says that a run about to settle has appended),
`OneRunner` and `TranscriptInOrder` that no live worker stalls and nobody cancels
through the queue (`Undisturbed`; both are false without it, see below and `turn_runner_overlap`).
Then a worker owns its turn with a running lease until it settles it
(`Holding`), and what was submitted before a saved turn is settled (`SavedBehind`), which
carries the order over a death between the append and the settlement.

**`AgentLoopProofs`**: `AgentInvariant`, `AgentTyped`, `AgentContextPaired`,
`AgentSavedPaired`, `AgentNoFalseSuccess`, `AgentSavedFromPrompt`, `AgentInjectedKept`. Each
phase says what the context is: settled, settled but for the calls under way,
or with an error at its end (`PhaseFits`); where the prompt of the turn is (`HasPrompt`); what
an aborted run and a saved one look like (`AbortsFit`, `SaveFits`). Two theorems have a
hypothesis about hooks: what is saved is cut from the messages by the length of the history,
so a hook that shortens it breaks pairs (`HooksKeepHistory`), and one that changes its
length moves the cut (`HooksKeepLength`). `InjectedKept` rests on `KeptInv`: the messages in the
conversation and those that wait are, together, those that came, once and in order, until
an overflow or a failed hook drops the conversation (`NothingLost`).

**`SessionEntriesProofs`** has the lemmas on paths that the next two modules share.
`ActiveEntries` is a recursive function; the induction that its path needs is by the least
number for which a claim fails (`MinExists`, from the library's theorem about well-founded
sets), which also gives that the function exists. Then the path from an entry is, as a set,
the least that has the entry and, with every other, its parent (`PathLeast`), and as
a sequence it begins at a root and goes from parent to child (`PathLinked`).

**`SessionLogProofs`**: `LogInvariant`, `LogTyped`, `LogParentsExist`, `TurnInvariant`,
`LogTurnWhole`, `LogTurnsDoNotCut`. A path only grows with the log (`PathGrows`). `LogInv` says
why entries hang together: a handle that is flushed knows only what is in the file or lost,
and one that is not publishes all it has at once, into a file that did not exist. `TurnInv`
says where the messages of a turn hang: at the one before (`Chained`), the first at what was
the last entry when the turn took the lock (`Follows`); a turn that has published nothing saw
nothing (`Unpublished`). Compactions, branches and tools write without the lock, and the
theorems hold all the same; what they may cut off is `SavedStaysActive`, which is false.

**`SessionTreeProofs`**: `TreeInvariant`, `TreeTyped`, `TreeNothingForgotten`,
`TreeResultsKeepTheirCalls`. The planners go through the file in its order and the context
goes along the path, so the invariant speaks of positions, not of paths: before what
a compaction keeps every message *of the file* is in its summary (`Covering`), by way of the
earlier summary for those before the last cut; and what it keeps is no tool result. A
tool result hangs at the message with its call or at another result of that message
(`Attached`), so that what is left of a path from an entry that is no result on has, with each
result, the message with its call; and the messages of a path that are not in the context lie before what the last compaction
on it keeps. The exception of `NothingForgotten` (`Passed` in the invariant) is carried along.

**`StoresProofs`**, registry: `RegistryInvariant`, `RegistryOneConversation`, `RegistryTyped`. What an operation
has decided still fits the file when it writes (`CallFits`), because nobody else is in the
registry (`OneCaller`). Torn lines and deaths are in it.

*Credentials:* `AuthInvariant`, `OthersAlwaysKept`, `StoredTokenAlwaysGood`, `AuthTypedAlways`.
`OthersKept` needs that what Modify loaded is still the file when it writes (`Locked`).
`StoredTokenGood` needs to know where every refresh token is: one that a process is about
to store is good, not in the file and with nobody else (`Owned`), two services share
none (`Apart`), and a spent token in the file has a successor under way
(`Successor`). A process that reads while another refreshes gets the old token, but the
service accepts it once only, so the loser's refresh is refused and stores nothing.

*Memory:* `MemoryInvariant`, `CheckpointAlwaysCovers`, `RelatedAlwaysExist`, `MemoryTyped`. A failure
writes back the checkpoint that was read at the trigger, so the invariant must say of
remembered checkpoints what it says of written ones (`Pointers`), and at each place of a
consolidation which facts of its answer are written (`NodesWritten`). What is covered stays so
because no node goes away and no episode's row does: a turn that runs again after a death
overwrites its episode and the edges of its nodes, but takes none of them away. `MemoryTyped` rests on who holds what: a lock file is
that of a worker which is recording in that conversation (`FilesLocked`), and the marks for single
flight in a process belong to workers of it that are at work there (`MarksHeld`).

*Tools:* `ToolsOutputComplete`, `EditsInvariant`, `ToolsNoEditLost`, `ToolsEditsExact`. What has
been shown, the prefix, the tail and the spill file are runs of consecutive numbers (`Span`). A page
begins where the run ends (`Pages`); the spill file begins with a prefix that is full or has all so
far, and the rest of the write that made it necessary follows (`Captured`). `EditsExact` has two
halves. The one that depends on the interleaving is `NoEditLost`: an edit has read the very text that
it replaces, because nobody else of its process is inside the lock (`EditsInv`). The other is about the
algorithm: edits that passed the checks of the loop (`EditsChecked`) name regions of the text that
are not empty and do not meet, if there is any text (`RegionsFit`, by `ApplicableFits`), and then
replacing them one after another from the back makes what replacing them all at once makes
(`AppliedOnce`). That is an induction over the places of the text from its end
(`Backwards`): when all regions from `p` on are done, the text is the old one up to `p` and then what
`AllAtOnce` says. The empty file is the exception that `EditsExact` names.

`StoresTyped` puts the type invariants together: in the sum, one store moves and the others
stand still, so its behaviours are those of the stores (each part of `StoresInit` and
`StoresNext` is that of a store or leaves it alone).

**`ServicesProofs`**. Telegram: `ForgottenAlwaysHandled`, `ResubmittedOnlyAfterDeath`, `BotTyped`. The offset
moves before the batch is handled; the invariant says what it stands for meanwhile: the
batch is all that lies between what is forgotten and the offset. An update that this
process may still submit (`ToSubmit`) was submitted by dead ones only. RPC: `RpcInvariant`,
`RpcStreamFramed`, `RpcAnswersReach`, `RpcTypedAlways`. A prompt that is not yet accepted has no line and one
whose goroutine is not over has no end (`Handled`); a turn that runs is run by a goroutine
that polls (`RunnerPolls`, `GoroutineRuns`), so one that ends leaves none behind, and it has
succeeded only when its own turn was run (`DoneRun`); an accepted prompt has its handler before
it, its goroutine, or its end (`AcceptedFollowed`). A question that waits, with an ID of its own, is the one
found under it and is not answered (`Registered`). Choice of the provider: `SelectKeyOwn`,
`SelectTyped`. The client of a
start or a selection has a fitting name, key and wire in any environment
(`FromEnvOwn`, `WiredOwn`), and no setting or command changes one of the three
alone (`ChangesKeep`). Extensions: `ExtensionsInvariant`, `ExtensionsTyped`, `ExtensionsApprove`. Answers
carry no ID, so the proof is about the lock of a bridge: while no call was left behind at an
extension, its pipe has lines for the holder of the lock only, the verdict last (`OneRequest`), and
the hooks that a call has passed have allowed it (`PassedApproved`). An extension that has asked where
nobody passes it on, or has left an answer behind, is out of both from then on (`Astray` only
grows). `ServicesTyped` has the type
invariants of all five parts in the sum, as `StoresTyped` has those of the stores.

**`ProviderProofs`**: `CallInvariant`, `WholeAnswers`, `PairedRequestsAlways`, `CallTyped`, for all
wires together and any number of calls, fragments and rounds. *Answers:* the plan, what was
sent and what was gathered are related call by call. On each wire, how much of a call was heard
(`sent`) says what its slot holds (`SlotsOK`) or whether it is in the list of calls
(`GatheredOK`), and a stop was seen only when everything before it was (`StopOK`); one lemma per wire
says what one event adds. So a call that comes out of `ProviderCall` has all of its arguments or
the answer is an error, whichever order the events of several calls came in. *Requests:* a
history in which each call is answered, in order (`Balanced`), stays so by a round (`RoundBalanced`).
Each conversion works message by message, so that the call IDs and the result IDs of
the request are those of the history, in order (`AllParts`, `PartsOf`); Mistral's shortening of
IDs is one function for both sides. Codex sends only what came after the last answer it has named
(`NamedIsLast`), and that part is paired on its own with the calls of that answer (`CodexPaired`).

The strengthened invariants were checked by TLC on the instances of the runs as well. A few leaves name
the backend or the time they need.

Every invariant and safety action property of a passing run is stated by a theorem. Only
model-checked:

* Liveness (`EveryTurnRuns`, `LostRunStops`, `CancelEnds`): fairness and ENABLED are out of the
  prover's reach.
* The five violations, which are counterexamples.

Induction over data is by the least counterexample (`MinExists`, from the library's theorem about
well-founded sets) or, for `Applied`, the last; the library's induction theorems take
an operator as a parameter, which the provers cannot instantiate.

### What the theorems assume

Each module's `ASSUME` is evaluated by TLC on every run. Besides the ranges of bounds and
the distinctness of names (no editor is `NoEditor`, no turn or compactor `NoOne`), the assumptions are about
the shape of inputs: `ProviderBounds` has `Wire` among the eight protocols that the code has;
`ToolsAssumption` says that files and edits are sequences of letters; `TreeAssumption` says that in a turn the results of a message follow it
(`ResultsFollow`), which is how the agent loop appends them and what `AgentSavedPaired` shows. The hypotheses
of single theorems (`~SaveMayFail`, `Undisturbed`, `HooksKeepHistory`, `HooksKeepLength`) are named
above; the runs of expected violations and the notes under *Where code and documents disagree* show
what happens without them.

## Not modelled

* Torn and oversized lines of the queue file (those of the links file are in `Registry`).
* The dashboard: HTTP handlers that call the runner and keep no state.
* The client of external MCP tools (`codingagent/external.go`): a pipe like an extension's, with IDs.
* ls, find, grep, the web tools, prompts, rendering of replies, images.
* Ranking, text search, distillation, supersession and migration of memory; and the checkpoint that
  the runner keeps of its consolidations, written after all else (`runtime.go:725`). In
  `MemoryEngine` a turn has one worker at a time: a lease that runs out under a live worker,
  which would give it two, is in `TurnRunner` only.
* HTTP, request signing and the cached Codex websocket of the providers; usage and price.
* Rewriting of legacy session files, names, labels, export, statistics.
* Shutdown of the RPC listener; the commands that only read.
* The terminal and the command line: rendering, keys and flags around one runner.

## Plan

1. `TurnLog`: the queue file as a sequence of events with torn lines, refining
   `TurnQueue`; what the scanner's limit does to it.
2. The client of external tools, and the shutdown of the RPC listener.
3. Memory: supersession of nodes, whose cycles hide both ends, and distillation.
