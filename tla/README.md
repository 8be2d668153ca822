# Pincer in TLA+

Pincer is a personal agent that runs as one process: channel adapters, a web
socket and an agent-to-agent endpoint bring messages in, a runtime turns each of
them into calls of a language model and of tools, and a SQLite store keeps the
conversations.  This directory holds TLA+ modules for its core and the parts around it, TLC
configurations that check them on small instances, and TLAPS proofs of the
properties that matter most for every value of the constants.  Line numbers
refer to the source files named with them; `PROJECT.json` maps every definition
to the lines it models.

To check a run: `tlc -workers 2 -config MCAgentTurn.cfg MCAgentTurn`.
To check the proofs of a module: `tlapm AgentTurnProofs.tla`.

## 1. The system

### Parts, their state and their operations

| Part | State | Operations | What is hard |
|---|---|---|---|
| Turns (`agent/agent.go`) | one mutex per session, per turn: iteration, error counters, history | `RunTurn`, `runAgenticLoop` | the lock is taken in one goroutine and released in another; every step can fail, be cancelled, or be the last one before a crash |
| Compaction (`agent/compaction.go`) | none of its own | `CompactSession` | four statements and a model call over rows that others append to |
| Context builder (`agent/context.go`) | size of the last request | `Build`, `sanitizeToolPairs` | the budget may cut anywhere, the request must still be well formed |
| Store (`store/store.go`) | sessions, messages | `GetOrCreateSession`, `AppendMessage`, `RecentMessages`, `DeleteMessages` | each statement is atomic, sequences of them are not |
| Tool batches (`agent/executor`, `agent.go`) | a semaphore shared by everybody, results of the batch | `RunBatch`, recovery loop | slots on every way out, deadlines against results, retries of single calls |
| Approver (`agent/approval.go`) | map of pending requests | `RequestApproval`, `Respond` | answers that are early, late, repeated, contradictory or missing |
| Subagents, background agents (`tools/subagent.go`, `tools/spawn.go`, `router.go`) | conversation of the subagent, map of background results | `RunSubturn`, `RunSpawnAgent`, `CheckSpawn` | batches inside calls of other batches, results read once |
| File cache and file tools (`filecache`, `tools/file.go`) | entries with modification times | `Get`, `load`, `Invalidate`, `refreshAll` | only the map is locked: files, loads and refreshes are not |
| A2A endpoint (`a2a`) | map of tasks | send (REST, stream, JSON-RPC), cancel | look-ups and updates in separate critical sections, cancel against a running turn |
| Router (`gateway/router.go`) | adapters, background results, typing loops | `listenAdapter`, `handleMessage`, `SendToSession`, `RunAndDeliver`, `RunSpawnAgent`, `CheckSpawn`, `cleanupSpawnResults` | a goroutine per message; appends to conversations without the session lock; the channel of a session; results read once |
| Channel adapters (`channels/*`) | inbound channel, session map | a handler per kind of update, `Send`, `SendApprovalRequest` | a full channel, buttons that stay, an answer in several messages |
| Message splitting (`channels/split.go`) | none | `SplitMessage` | cuts in code blocks and in the middle of a rune |
| Gateway, web socket (`gateway/websocket.go`) | connections | read loop, a goroutine per turn that forwards its events | the read loop waits in `RunTurn`; several writers on one connection |
| Page of the webchat (`gateway/webchat_page.go`) | connection, input, cards | `send`, `onmessage`, `connect` | its idea of a turn against the server's, lost connections |
| Providers (`llm/*`) | per response: blocks that are open | encoding, `readStream`, `readFull`, `chatWithRetry` | streams that end early, interleaved fragments, retries, a reader for each response |
| Memory (`memory`, `tools/memory.go`, `soul`) | entries, hashes already shown | `Set`, `Delete`, `BuildContext`, `SeedMemory` | check-then-act on immutable keys, hashes older than the conversation |
| Browser tool (`tools/browser.go`) | a Chrome per session, pending screenshots | one operation per action, eviction, `Close` | callbacks of new tabs, calls of one batch on one session |
| Scheduler, notify (`scheduler`, `tools/notify.go`) | jobs and their next run, timers | `tick`, `notify` | work that outlives the turn that asked for it |
| Retry strategies, verification, checkpoints (`agent/retry`, `agent/verification`, `agent/checkpoint`) | attempts, verdicts, snapshots | `Next`, `Run`, `ShouldCheckpoint` | limits |
| Process (`cmd/pincer/start.go`) | everything above | start, shutdown | what a restart forgets |
| MCP client, node hub, sandbox, skills, audit, credentials, telemetry, terminal, configuration | | | sequential, or input and output only |

### How they interact

Callers reach a conversation along three ways: `handleMessage` (adapters)
first registers the channel of the session and then calls `RunTurn`; the web
socket and the A2A endpoint call `RunTurn` directly; scheduled turns go through
`RunAndDeliver`.  `SendToSession` (notify tool, finished background agents)
appends to the conversation without asking anybody.  Inside the session lock a
turn compacts the conversation, loads what is left and loops: model, tools,
model.  The tools of all turns, subagents and background agents share one
semaphore; a tool that needs approval keeps its slot while it waits for the
Approver, which any inbound path can answer.  A subagent is a tool whose call
keeps its slot while its own batches ask for slots.

### What makes each part correct

* Turns: one turn at a time per session; turns do not interleave in the store; a
  tool result answers the call in front of it, in the store and in what the
  model is sent; what was announced is stored; every turn ends and says so.
* Compaction: removes only old messages, only under the lock, and a summary
  stands for what it removed unless the insertion fails or never happens.
* Context builder: what it sends is well formed, and only the token budget keeps
  the prompt of a turn out of it.
* Tool batches: no tool runs without the approval of its current request; slots
  are conserved; the model is told the truth about every call; every batch ends.
* File cache: what is stale can be told from its modification time, and is
  replaced in the end; the cache stays within its limit.
* Chats: an answer goes to the chat of the session that asked, in order and without gaps; a
  sender finds its chat; the result of a background agent is handed out once;
  all work and its typing loops end.
* Webchat: an approval can be answered while its turn waits; an enabled page is
  idle on both sides; the input comes back; a lost connection leaves nothing.
* Providers: calls arrive whole, an accepted answer comes from one attempt,
  requests pair calls with results, readers end.
* Memory: what the hashes leave out of a prompt was told before; an immutable
  key that is set changes only through a `Set` that looked before, or in vain.
* Browser: every Chrome has one owner; a screenshot goes to one result of its
  session.
* A2A: a task nobody works on is in a final state and has its whole
  conversation; a cancellation stays.

## 2. The modules

| Module | Models | State and actions |
|---|---|---|
| `Transcript` | | operators on conversations: `Suffix`, `Cut`, `WellPaired`, `Contiguous` |
| `SessionLog` | what the agent promises about a stored conversation | the abstract specification: owners begin, say, call tools, answer calls, forget, summarise, leave |
| `AgentTurn` | turns, compaction, history selection, the callers of the router, crashes | `log`, `channel` are the store; `lock` is `sessionLocks`; `pc[t]` says between which two store, model or lock operations turn `t` is. One action per such operation |
| `ToolBatch` | `RunBatch`, `executeTool`, the Approver, the recovery loop, `RunSubturn` | `sem` is `Executor.sem`, `pending` the Approver's map, `bpc` and `cpc` the position of batches and calls |
| `FileCache` | `filecache.go`, `file_read`, `file_write` | `disk` the files (by version), `entries` the map, `before` the order of `lastAccess` as pairs of paths, one action per critical section or system call |
| `A2ATasks` | `handler.go`, `taskstore.go` | `tasks` maps identifiers to task objects, `state` and `messages` belong to objects; one action per call of the store |
| `ChatStream` | the providers, `chatWithRetry` and the loops, summaries and gates that call the model | `answer`, `sent`, `damage` are the response on its way; `rd`, `tools`, `index`, `pending` the reader goroutine; `queue` the event channel; `text`, `calls` what the caller has. One action per line read, event sent and event received |
| `Channels` | the router, an adapter, spawned agents, notifications, scheduled turns, restarts | `phase[j]` is how far the work `j` (a message, a timer, a background task) is; `row` the channel of a session's row, `sessions` the adapter's `SessionMap`, `results` the map `spawnResults`, `shown` what a chat displays |
| `Split` | `split.go` | `SplitMessage` and its helpers as operators on sequences of bytes |
| `WebChat` | the page, the handler of its websocket, the turns it starts | `input`, `running`, `conn` belong to the page; `up`, `down` are the frames under way; `handler[c]` is the position of the read loop, `turn[m]`, `events[m]` a turn and its channel |
| `Memory` | `memory.go`, the memory tool, `SeedMemory`, the memory part of `buildSmartContext` | `table` is the table, `setter` a `Set` between its two statements, `hashes[s]` and `static` what the builder remembers, `seen[s]` what the model of a session was told |
| `Browser` | `browser.go` | `sessions` is `t.sessions`, `live` the Chrome processes, `tabs` callbacks under way, `pending` is `pendingImages`; `call[c].phase` the position of a call |
| `MC...` | | finite instances |
| `...Proofs` | | theorems and their lemmas; `ToolProofs` has those of `FileCache`, `Memory` and `Browser`, `GatewayProofs` those of `A2ATasks` and `WebChat`, `ChannelsProofs` also those of `Split` |
| `SequenceFacts` | | what `ChannelsProofs` and `ChatStreamProofs` share: lemmas on `FlattenSeq`, on mapping a sequence to pieces and on sorted sequences |

`AgentTurn` composes with `SessionLog` by `Conversation == INSTANCE SessionLog`:
the owner of a session is the holder of its lock between the user's message and
the terminal event, and its open calls are those whose results are not stored.
`Channels` EXTENDS `Split`: the chunks of an answer are those `SplitMessage`
makes of it.  `WebChat`, `Channels` and `ChatStream` see the runtime from
outside: a turn is its lock, its events and its approvals, and that it ends is
what `AgentTurn` shows (`TurnEnds`); `AgentTurn` in turn takes an answer of the
model as one step, which `ChatStream` opens.

### Abstractions

* A message is its kind, its turn and the iteration that wrote it.  The bodies,
  token counts and identifiers are left out.
* The token budget of `selectHistory` lets any suffix of the history through.
* The model answers, calls tools or fails, in any order; so do tools.  Errors
  keep the class (`transient`, `permanent`) the recovery loop sees.
* The channel of turn events is taken to be read: the consumers in the repository
  drain it until it is closed, but for those of the A2A endpoint, which stop at
  `TurnError` (`handler.go:238`, `handler.go:307`).  The loop returns after each
  `TurnError` it sends, so a send on the channel never blocks for ever.
* A cancelled context makes later calls of the store and of the model fail.  A
  statement of the store that fails changes nothing.
* A crash keeps the store and forgets everything else.  A turn that dies with
  the process is not started again (nothing in the code does that).
* In `FileCache` every change of a file has a modification time of its own.
  Reading a field of an entry while `refreshAll` assigns it gives the old or the
  new slice; a length of one and a copy of the other give `Torn`.
* `ToolBatch` gives each subagent call one batch that runs again in every
  iteration, and no subagents of subagents: `RunSubturn` takes `subagent` and
  `spawn` out of the registry.
* In `ChatStream` an answer is a sequence of blocks in numbered fragments; a
  response may be garbled (a line that is no JSON is skipped by the readers),
  cut short, or broken off by the connection, at any line.  Waiting for
  `Retry-After` ends or is cancelled; durations are left out.
* `Channels` has one adapter, since adapters share no state: which one it is is
  chosen at the start.  Answers may be repeated where the platform leaves the
  buttons (Slack) or takes text (`approve <id>`).  A restart keeps the rows of
  the store and what the chats show.
* In `WebChat` every connection is a session of its own, which is how the page
  connects.  A second client, `api`, may send during a turn.
* In `Memory` a hash stands for its value; the budget may or may not be short.
  The process may restart at any time and any number of times.
* In `Channels` a chat stands for its session.  The adapters key their sessions
  by the chat a message came in; WhatsApp's keys them by the sender
  (`whatsapp.go:167`), so what somebody writes to a group belongs to his private
  chat.  A chat of the model is then that one.
* In `Browser` a page may open a tab at any time, Chrome may die at any time,
  and an entry may be idle for `IdleTimeout` at any time, also during a call.
* In `A2ATasks` a turn is its end; `AgentTurn` has the rest of it.  Requests
  that only read, or that are refused before they touch the store, are left out.

## 3. The runs

| Run | Instance | Shows |
|---|---|---|
| `turns` | 1 session, 2 turns, 2 iterations, 1 crash, 1 notification | `TypeOK`, `LockOwnership`, `ModelInputPaired`, `TurnsContiguous`, `PromptReachesModel`, `AnswerDurable`, `NoSilentEnd`, `OnlyOldDeleted`, and that every step is a step of `SessionLog` (`ConversationSpec`) |
| `turns_race` | compaction from the second message on, 1 crash, 1 notification | `TurnEnds`, also when a notification shifts what a compaction reads |
| `tools` | 2 calls, 1 slot, 1 retry, 3 answers, every approval mode | `TypeOK`, `ApprovedBeforeRun`, `SlotsConserved`, `PendingIsWaiting`, `ResultsComplete`, `SuccessKept` |
| `tools_nested` | a turn with a subagent beside a background agent, 1 slot | `BatchEnds` |
| `cache` | 2 files, 1 reader, 1 writer, room for 1 | `StaleIsDetectable`, `WithinLimit`, `OnlyReadsInsert`, `EventuallyFresh` |
| `a2a` | 2 tasks, 3 requests | `QuiescentIsFinal`, `ConversationKept`, `CancelAtRestStays` |
| `streams` | 3 kinds of providers, 4 callers, 4 answers, 1 retry, a channel of 1 event | `CallsIntact`, `AnswerAccounted`, `RequestPaired`, `CallEnds` |
| `webchat` | 2 connections, 2 messages, the page and another client | `ReadLoopFree`, `IdlePage`, `InputReturns`, `LostIsCleanedUp` |
| `channels` | 4 kinds of adapters, 1 chat, 1 web session, 2 messages, 1 timer, 1 background task, 1 restart | `ChunksHome`, `SendFindsChat`, `SpawnAccounted`, `WorkSettles`; and, as an assumption of `MCChannels`, `SplitCorrect` for every text of up to four pieces (a fence, a newline, a space, a letter, a rune of two bytes) and every limit up to six bytes |
| `browser` | 2 sessions, 3 calls, 2 allocators with 1 tab each | `NoStrayChrome`, `ScreenshotsAccounted` |
| `memory` | 1 immutable and 1 other key, 2 values, 2 conversations, 2 setters, restarts | `ChangesReachModel`, `ImmutableSettles` |
| `send_reaches_session` | violated | a notification during a turn finds no adapter |

The type invariants `TypeOK` also bound the counters of the code.

### Why the bounds are enough

Turns of different sessions share nothing but the store's rows, which carry the
session, so one session suffices; two turns give every pair of positions, and a
third only waits.  Two iterations let a turn load its own earlier pair;
`CompactionThreshold` 2 with `CompactionKeepRecent` 2 puts the cut inside a pair
and makes the second turn compact what the first one summarised, and
`RecentMessagesLimit` 3 cuts the history.  One crash at any point is enough for
each property, because a second one finds nothing in memory the first has not
already removed.  Two calls and one slot make calls wait for each other; three
answers are an approval, a denial and a repetition, of an old and of a current
request.  Two files and room for one make loads evict; the
one reader meets the writer and the refresh loop, but no second reader, whose
loads beside its own only the theorems cover; two changes of a file
are the truncation and the write of `file_write`, or a change between `Stat` and
`ReadFile` and one after.  Three requests on a task are two messages
and a cancellation, in any order.

A channel of one event makes a reader wait for its caller at every event, as it
does in the code only behind 64; the four answers are a text alone, a text
before a call, calls that can interleave and a call without arguments, and two
rounds put the first one into the second request.  Two connections are one that
was lost and the next; two messages are a turn and one that waits for it.  In
`Channels` the answer has two chunks, so that one can arrive and the next be
refused; two messages of one chat, with a channel of one, make the adapter wait;
the one task is a spawned agent in some behaviours and a notification in others.
Two sessions and three calls are two calls of one batch and one of somebody
else; two allocators and a tab let a late callback of the first meet the entry
of the second.  Two values suffice to change an entry and change it back.

Deadlock is checked in run `memory`; in the others all processes may come to
rest when their work is done.

### Fairness

Weak fairness of each turn (`AgentTurn`), of each batch and call (`ToolBatch`),
of each `Get`, each write and the refresh loop (`FileCache`), of the reader and
of the caller (`ChatStream`), of the page, the read loops and the goroutines of
turns (`WebChat`), of the listener and of each goroutine (`Channels`):
goroutines are scheduled, statements of the store return, a Go mutex is handed
to its waiters, timers fire.  The platforms' libraries and the model are taken
to answer or to fail; the HTTP client of the providers has no timeout of its
own, so for the model that rests on the server and on the contexts of the
callers.  A tool need not return before its context is done; it is assumed to
return after that.  No fairness is assumed of users, clients, other programs,
cancellations, lost connections, expiry or crashes.  `TurnEnds` needs no strong
fairness of the lock because each of the finitely many turns takes it once.
`Browser` and `Memory` have safety properties only and no fairness.

### Where the code and its texts disagree

* `send_reaches_session` (`agent.go:770`): `RunTurn` points the session at
  channel `webchat` whatever channel it came from, so the notify tool finds no
  adapter in the turn that calls it.

Three more disagreements are visible in the models, without a run of their own:

* `executor.go:55`: the call of a subagent keeps its slot while its tools ask for
  slots (action `AcquireSlot`).  With `tool_concurrency = 1`,
  which `pincer.toml.example:15` offers, no tool of a subagent ever starts,
  while `subagent.go:26` promises it tools; its calls give up at their deadlines,
  which is why `BatchEnds` holds all the same.
* `agent.go:499`: the class of a deadline error is lost on the way to the
  recovery loop, so a tool that ran into its deadline is not retried;
  `recovery_test.go:64` tests that such an error is transient.
* `filecache.go:121`: a load does not notice that its path was invalidated since
  it read the file, and puts the old contents into the cache, where they stay
  until the next refresh, although `filecache.go:93` says that a write
  invalidates.  `StaleIsDetectable` and `EventuallyFresh` say what remains true.

## 4. The proofs

All theorems hold for any sets of sessions, turns, calls, batches, files,
readers, writers, keys, values, connections, requests, chats and messages and
for any limits that satisfy the named assumptions of the modules
(`TurnAssumption`, `LimitAssumption`, `BatchAssumption`, `CacheAssumption`,
`BrowserAssumption`, `MemoryAssumption`, `RequestAssumption`,
`WebChatAssumption`, `ChannelsAssumption`, `StreamAssumption`): markers such as `NoTurn` are not
elements, limits are natural numbers, at least one iteration and one slot,
`CompactionKeepRecent` is at least 1 and at most `CompactionThreshold`, every
call belongs to one batch and subagents do not nest, messages, timers and
background tasks have identifiers of their own, and so have the sessions of
chats and of web sockets; an answer is valid UTF-8, as everything that was
decoded from JSON is, and not empty; an answer of the model is a finite sequence
of blocks with finitely many fragments each, and the event channel holds at
least one event.

Two theorems have hypotheses of their own.  `PromptsReachTheModel` assumes
fewer notifications than `CompactionKeepRecent` and than `RecentMessagesLimit`:
more of them, arriving between the prompt and the moment its turn reads the
conversation, would push the prompt out of what is kept or read, which the code
does not prevent.  What the token budget then leaves out is no hypothesis: the
property speaks of every budget, and of the requests whose budget reaches the
prompt.  `SplitIsCorrect` assumes a limit of at least one byte and a
text that is valid and not empty.

| Theorem | Statement |
|---|---|
| `SessionLogProofs!SerialConversations` | conversations that evolve as `SessionLog` allows are serial: contiguous turns and, unless raced, results only behind their calls and the summary first |
| `AgentTurnProofs!TypeCorrect`, `LockIsOwned` | `TypeOK` with the limits of the loop; the session lock is held exactly by the turns between `Lock` and `Unlock` |
| `AgentTurnProofs!ImplementsConversation`, `TurnsStayContiguous` | `ConversationSpec`: every step of `AgentTurn` is a step of `SessionLog` or changes nothing of it; `TurnsContiguous` follows |
| `AgentTurnProofs!OnlyOldLeave`, `AnswersAreDurable`, `EndsAreAnnounced` | `OnlyOldDeleted`, `AnswerDurable`, `NoSilentEnd` |
| `AgentTurnProofs!RequestsArePaired`, `PromptsReachTheModel` | `ModelInputPaired`, `PromptReachesModel` |
| `ToolBatchProofs!TypeCorrect`, `ApprovalPrecedesRun`, `SlotsAreConserved`, `PendingIsExact`, `ResultsAreComplete`, `SuccessIsKept` | the properties of run `tools` |
| `GatewayProofs!QuiescentTasksAreFinal`, `ConversationsAreKept`, `CancelsStay` | the properties of run `a2a` |
| `ChannelsProofs!ChunksReachTheirChat`, `SendersFindChats`, `SpawnsAreAccounted` | `ChunksHome`, `SendFindsChat`, `SpawnAccounted` |
| `ChannelsProofs!SplitIsCorrect` | `SplitCorrect`, for every valid text and every limit: the chunks are the text, begin at starts of runes and fit |
| `GatewayProofs!ReadLoopReads`, `IdlePageIsIdle` | `ReadLoopFree`, `IdlePage` |
| `ChatStreamProofs!TypeCorrect`, `CallsArriveIntact`, `AnswersAreAccounted`, `RequestsStayPaired` | the types of the stream model; `CallsIntact`, `AnswerAccounted`, `RequestPaired` |
| `ToolProofs!StaleIsAlwaysDetectable`, `CacheWithinLimit`, `OnlyLoadsInsert` | `StaleIsDetectable`, `WithinLimit`, `OnlyReadsInsert` |
| `ToolProofs!BrowserTypeCorrect`, `NoChromeStrays`, `ScreenshotsAlwaysAccounted` | the properties of run `browser` |
| `ToolProofs!MemoryTypeCorrect`, `ChangesAlwaysReachModel`, `ImmutableAlwaysSettles` | the properties of run `memory` |

The argument of each:

* `SessionLog`: `Contiguous` alone is not inductive.  `OwnerAtTail` says that
  what the owner wrote is at the end of the conversation, `OpenAtTail` that
  calls at the end are the open ones, `Fresh` that a turn that may still begin
  has written nothing.  Appending, cutting a segment and inserting a summary
  each preserve all of them; the lemmas on slices are in `SessionLogProofs`.
* `AgentTurn`: `TypeOK` needs to know that the messages a compaction is about to
  delete are where it read them (`CompactionKnows`), since `Cut` is only then
  well defined; that in turn needs `LockOwnership`, because whoever does not
  hold the lock only appends.  `SummaryFirst` is carried along for the
  refinement.  Every step falls into one of a few kinds: it writes one message
  for the holder of a lock, cuts or inserts for a compaction, or is quiet; each
  kind is one step of `SessionLog`, or moves a turn outside of it, and the
  program counter gives owner and open calls.  What a conversation can lose is
  what a compaction takes (`OnlyOldLeave`), so that a prompt and an answer that
  were stored are still there or were handed to one (`Durable`).  The history a
  turn works on is a well-paired suffix with pairs behind it (`HistoryPaired`),
  by the invariant of `SessionLog` at the moment it is loaded; whatever
  `selectHistory` cuts, `sanitizeToolPairs` makes it well formed.  For the
  prompt the invariant counts (`HasPrompt`): until the history is loaded, only
  notifications stand behind the prompt, no more than there were, and a
  compaction keeps it among the newest; afterwards the turn adds its own pairs.
  `PromptKept` adds that `sanitizeToolPairs` never takes a prompt.
* `ToolBatch`: `SlotsConserved` and `PendingIsWaiting` need `Quiet` (a batch is
  restarted only when none of its calls is under way) and `HostRuns` (the call
  of a subagent stays put while its batch runs); `ApprovedBeforeRun` needs
  `Honest` (an approval on its way comes from the user); `ResultsComplete` needs
  `Told`, the same statement at every moment.
* `A2ATasks`: an identifier may come to stand for a second object
  (`Objects` says who created an object and who holds it).  On it rest that a
  task in no final state has a request that will still update it (`Attended`),
  that a task cancelled at rest is held by nobody who sends (`CancelsAtRest`),
  and that the message of a request is in its task from the moment it found it,
  with the answer behind it from the moment that was stored (`AllRecorded`).
* `Channels`: a message waits in the inbound channel once and no further job
  does (`QueueInv`); jobs go only as far as their kind allows (`KindInv`); a job
  at work has a session, known to the adapter if it is a chat, and only messages
  of the adapter give a session its channel (`ChatInv`); the entry of a spawned
  agent is there before it works (`SpawnInv`).  For the chunks, what the chat of
  an answer shows followed by what is not sent is the whole answer (`AnswerInv`);
  sending moves a chunk from one to the other, and `FlattenConcat` turns that
  into a statement about the text.
* `SequenceFacts`: `FlattenSeq` is a recursive function.  That the equations of
  such a function have a solution is `Recursion`, for any recursion whose
  argument gets smaller; what the solution computes is shown by the least
  argument for which it would not (`Least`).  Two sequences that are sorted by
  an asymmetric relation and have the same elements are equal (`SortedUnique`).
* `Split`: `SplitMessage` and the walk over the fences are recursive functions
  too, and are treated by the same two lemmas.
  Every cut is at the start of a rune, behind the start of the rest and within
  the limit unless the first rune alone is longer (`CutIs`), and cutting there
  leaves a valid text (`RestOfRest`).
* `WebChat`: the invariant follows a message through its places.  It is on its
  way up or with the read loop, once, and then has no turn yet, or has a turn
  that holds its session until the last event (`MessageInv`); the final event is
  the last of a turn (`EventInv`) and its frame the last on a connection the page
  waits on (`FrameInv`); the page sends only when every earlier message of the
  connection is over (`PageInv`).
* `ChatStream`: what a caller collected and what is still pending or on the
  channel are taken as one sequence, of fragments (`TextOut`) or of calls
  (`CallsOut`): a reader appends to its end, and `Emit` and `Receive` change
  neither, so that only the lines of the response matter.  The text is sorted
  by block and fragment and has every fragment whose line was read
  (`TextSound`); a block has at most one call in it (`CallsSound`), and it has
  one, or a tool state with the fragments so far, if its first line was read
  (`ToolsSound`).  A reader that ended without an error saw all lines, unless
  something unnoticed happened (`Accounted`), and two sorted sequences of the
  same elements are equal.  IDs differ because the server's hold the block
  and Gemini's a counter that only grows (`IDsSound`).  `RequestPaired` is
  shown for a request as a function of the conversation: a round adds one
  message of calls and their results, which does not touch what was paired
  (`PairedExtends`); for Gemini, whose results go by name, it needs that an ID
  carries the name of its call (`NamesInIDs`), so that looking up the last name
  of an ID, which may be used again in a later round, gives the right one.
* `FileCache`: along the way of a version into the cache the time that was read
  first is never newer than the data that was read after it, and the data never
  newer than the file (`EntriesOrdered`, `LoadsOrdered`, `RefreshOrdered`).  If
  the time equals the file's, so does the data.  `WithinLimit` is a matter of
  counting: a full cache has an oldest entry, which leaves in the critical
  section in which the new one enters.
* `Browser`: `NoStrayChrome` speaks of processes and entries, but a late callback
  writes a context whose process belongs to an older allocator.  `Owned` puts
  the allocator in between: one that is not cancelled is that of exactly one
  entry, and what runs was started from such an allocator; cancelling the
  allocator ends whatever the entry's context has forgotten.  `Collected` says
  that screenshots come from calls that are past their capture, so that a call
  at its first steps has none; `Begun` gives every such call a session.
* `Memory`: the hashes are stored before the model sees the prompt they stand
  for, and before `Build` decides whether it gets the text, so
  `ChangesReachModel` needs `PromptIsHashed`: while a turn waits for its first
  answer its prompt carries what the hashes say.  `ImmutableSettles` is an
  action property; `NoRefusedWriter` excludes a writer that found the row.

Only model-checked: the liveness properties (`TurnEnds`, `BatchEnds`,
`EventuallyFresh`, `CallEnds`, `InputReturns`, `LostIsCleanedUp`, `WorkSettles`),
since fairness is out of the prover's reach.  Every safety property and every
action property of the runs is proved, except `SendReachesCurrentSession`, which
the code violates.

## 5. Not modelled, and what the models show besides

Not modelled are the parts with status `not_modelled` in `PROJECT.json`, each
with its reason.  Of the parts that are modelled: checkpoints and the rotation
of retry strategies (their outcomes are choices of the loop), the scheduler's
clock and webhooks, starting and stopping adapters and servers, the text of
prompts and pages, audit entries, metrics and logging.

The models contain behaviour that no property rules out.  It is listed here so
that nobody takes a property for more than it says; where a text of the
repository speaks about it, that text is quoted:

* Compaction (`compaction.go:138`): the deletion of old messages and the
  insertion of their summary are separate statements; a crash or an error in
  between loses both.  A cancelled context may do the same.  `AnswerDurable` and
  `ConversationSpec` count what was handed to a compaction as kept and do not
  notice that loss.
* Requests: the token budget selects messages from the newest backwards
  (`context.go:147`), so large tool results can leave no room for the prompt they
  were asked for; `RebuildMessages` then drops it and the model is called all the
  same (`agent.go:338`).  `PromptReachesModel` says that nothing else drops it.
  With as many notifications as `CompactionKeepRecent`, a compaction may also
  take messages of the turn that runs it; `OnlyOldDeleted` only counts.
* Approvals: an answer that arrives before `RequestApproval` registered its
  request is dropped (`agent.go:664`).  Slack's buttons and texts can be used
  again; the second answer finds nothing.  A message that begins with `approve `
  or `deny ` never reaches the agent (`router.go:454`).
* File cache: `Get` can return the length of one version with the bytes of
  another (`filecache.go:85`, action `Copy`).  Two changes within the
  granularity of the file system's clock look the same (`filecache.go:196`); the
  model gives each change a time of its own.
* A2A: a cancelled task whose turn is under way becomes `completed`
  (`handler.go:314`); a second `Create` replaces the first (`handler.go:336`),
  and with it the conversation, so `ConversationKept` excludes such tasks
  (`raced`).
* Chats: a turn that fails sends nothing.  Timers and background results are
  gone after a restart.  Web sessions have no adapter in the router, so what
  they notify, schedule or spawn cannot be delivered; and since `RunTurn` points
  every row at `webchat`, the same happens to a chat from the start of a turn
  until its next message has passed the router (`row` in `Channels`).
* Page: after a lost connection it connects again, but only the last frame of a
  turn enables the input, and that turn belongs to the old connection: the input
  stays disabled until the page is loaded again (`webchat_page.go:758`).
  `InputReturns` is therefore stated for connections that last.  A client that
  sends during a turn blocks the read loop, and with it the answer to an
  approval, until the turn's deadlines.
* Providers: OpenAI's and Gemini's readers do not report a broken connection,
  and none reports a line that is no JSON or a stream without its final event
  (`Unnoticed`).
* Memory: two first writers of an immutable key both write, and a look that fails
  stops nobody (`memory.go:56`), although the error of `Set` says of such a key
  that it "is immutable and already set" (`memory.go:62`); `ImmutableSettles`
  leaves room for both.  Every start puts the soul's value back into a
  seeded key that may be changed (`soul.go:181`).  A text the budget left out,
  and one of a turn none of whose requests was answered, is never repeated.
* Browser: a call that waits for a stable URL while another call closes the
  session gets no context, and the next call of chromedp panics
  (`browser.go:714`, phase `panic`).  A session may be evicted during a call.

## 6. Plan

Written: the conversation core (`AgentTurn`, `SessionLog`), tools (`ToolBatch`),
the file cache, the A2A endpoint, the providers, the router with its adapters,
the webchat, the memory and the browser tool, and the proofs of every safety
property of all of them.  Left: the scheduler's overlapping runs, and the order
of start and shutdown.
