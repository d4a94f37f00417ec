# Verification of the byf agent core

byf is a coding agent written in TypeScript. Its core, `packages/agent-core`, turns a user's
prompt into a sequence of model requests and tool executions, and promises that a session
survives crashes, aborts and messages that arrive at any moment. This directory keeps TLA+
models of the parts whose correctness depends on interleavings, crashes and ordering, the
TLC configurations that check them, and proofs that TLAPS checks for all values of the constants.

Paths below are relative to `packages/agent-core/src` unless they start otherwise.

## 1. Inventory

The core holds two generations of the agent side by side. The older one, which the
applications run today, is the turn engine (`agent/`): a turn, a conversation in memory, a
journal of records (`wire.jsonl`). The newer one is the durable harness (`harness/`): lanes,
a tree of entries, an execution log, a lock. Both use the loop and the tool batch of `loop/`.

### Components that are modelled

**Tool batch** (`loop/tool-call.ts`, `loop/tool-scheduler.ts`, `loop/tool-access.ts`).
A model response carries tool calls; the batch prepares them one after another (hooks,
argument checks, `tool.call` event) and hands each to a scheduler, which runs tasks
concurrently unless their declared file accesses conflict. State: the scheduler's queued and
active tasks, the events dispatched, the abort signal. Operations: prepare, announce, add,
start, settle, finish, grace timeout, abort, drain. Hard: a finishing task rescans the queue
while later calls are still being added; a tool that ignores the abort outlives its task;
a dispatch that throws after other tools have started. Correct when conflicting calls execute
one at a time and in provider order, every `tool.call` gets its `tool.result` in order, no
task is left running unobserved, nothing starts after an abort, and the batch ends.

**Durable harness** (`harness/agent-harness.ts`, with `transcript.ts`, `park.ts`,
`lane-state.ts` and the loop in `loop/run-turn.ts`, `loop/turn-step.ts`). A session has lanes;
a lane runs one operation at a time (prompt, compaction, navigation). State on disk: a tree of
entries (the transcript) and an execution log of records; in memory: the lane reducer folded
from the log, a runtime per lane (an AbortController), the coroutines of the callers. Operations:
`prompt`, `drain`, `compact`, `navigateTree`, `steer`, `followUp`, `nextRun`, `deferWrite`,
`abort`, `resume`. Hard: every `await` is a point where other calls run and where the process
may die; what a dead process left is any prefix of its appends; `resume` must repair it
without repeating side effects. Correct when an accepted operation gets exactly one outcome,
side effects happen at most once, the transcript sent to the model pairs every call with its
result, each answer of the model reaches the tree, queued input is neither lost nor consumed
twice, and the live reducer equals the one a restart would build.

**Session journal** (`harness/storage/jsonl.ts`). One JSONL file. Calls are checked, queued on
a serial write chain, written line by line, then applied to the memory; opening replays the
file and cuts a torn tail. Hard: a crash or a failed write in the middle of a line, checks made
before the queue, another process opening the file. Correct when no confirmed line is lost,
memory equals replay, and the program can reopen whatever it wrote.

**Session lock** (`harness/lock.ts`). A file created exclusively and refreshed by a heartbeat;
a lock whose process is dead or whose heartbeat is old is taken over. Hard: takeover by two
processes, heartbeats that rewrite the file, stalled processes. Correct when two running
processes never both hold the session, nobody is refused because of a dead one, and
an attempt to acquire ends.

**Turn engine** (`agent/turn/index.ts`, the loop in `loop/`, the context in `agent/context`).
State: the turn number, the active turn with its controller, the workers, the steer buffer,
and the fold of the conversation: history, open steps, pending tool results, messages deferred
behind them. Operations: prompt, steer, cancel, clear, masking, offloading a large result, and
the worker at each of its waits (prompt hook, MCP load, compaction, injections, model, tool,
stop hook). Hard: `cancel` forgets a turn at once while its worker still unwinds and appends;
a new turn starts meanwhile; steers and triggers arrive between the worker's last look at the
buffer and its end; the process dies and the records are folded again. Correct when one turn
drives the agent, every turn ends, and nothing said is lost.

**Full compaction** (`agent/compaction/full.ts`, `agent/context/complete-slice.ts`). A worker
asks the model for a summary of a prefix of the history while the session goes on, then
replaces that prefix. State: the current compaction, each worker's copy of the history, the
count per turn. Operations: begin (manual, automatic, after an overflow), block, cancel,
apply, give up. Hard: the history grows, is cleared, masked or compacted by another worker in
the meantime. Correct when a message disappears only into a summary that covers it, and a
cancelled compaction never rewrites anything.

**Background tasks** (`tools/background/manager.ts`, `agent/background/index.ts`). State: per task
its status, a stop request, whether it was announced, a queue of writes of its file. Operations:
reserve a slot, register, approval, stop (signal, grace, kill), exit, failure, deadline, lost at a restart,
notification. Hard: four ways to end race for one terminal status, each change is written
behind the others, and a crash may fall between the status, the file, the notification and
the journal that holds it. Correct when the conversation is told one verdict, the one in the
file, and a caller of `stop` is answered, after the end is durable.

**MCP connections** (`mcp/connection-manager.ts`, `agent/tool/index.ts`). State: per server a
client, a status, an attempt number; the tools registered with the agent. Operations: connect
all, reconnect, shut down, loss of a transport, login. Hard: each attempt is a coroutine that may be
overtaken at each wait. Correct when every process that was started is held by somebody who
will close it, the tools on offer are those of an open connection, and the first load ends.

**Wire service and record persistence** (`agent/wire/wireService.ts`, `agent/records/persistence.ts`).
State: the records applied in memory, those waiting, the batch being written, a final error.
Operations: dispatch, append, rewrite, the drain of the queue, flush, restore with migration. Hard: appends
while a batch is written, a failed batch, a crash inside a line or between truncation and
rewrite. Correct when what a flush vouched for survives, and the file never has a hole.

### How they interact

Harness: it opens the journal, then takes the lock (`harness/agent-harness.ts:183-186`); all its
durable effects are appends to the journal's chain and each record, once durable, is reduced
into the lane. The run loop calls the model and hands responses to the tool batch; the
batch's events come back through `TranscriptBridge`, which turns `tool.call` into a
`tool_started` record and results into entries.

Turn engine: a worker waits for the first MCP load, may be blocked on a compaction, calls the same
loop, and dispatches each event through the wire service, which folds it into the context and
queues its record. A background task that ends steers its notification into the engine, or
starts a turn with it. `Agent.resume` restores the records, folds them, then lets the
background manager declare lost what the dead process left running.

`AgentHarness` composes the lane reducer with the write chain; `TurnFlow` extends
`FullCompaction`, which extends `ContextFold`, so that engine, compaction and context are
checked as one system. The other modules see their neighbours as the environment's choices.

### All components

| Component | Status | Where, or why not |
|---|---|---|
| Tool batch and scheduler | modelled | `ToolBatch` |
| Lane reducer | modelled | `LaneState` |
| Session lock | modelled | `SessionLock` |
| Full compaction | modelled | `FullCompaction` |
| Wire service, record persistence | modelled | `RecordPersistence` |
| MCP connections | modelled | `McpConnection` |
| Durable harness | partly | `AgentHarness`: one lane, no lane creation or deletion, no `close` |
| Session journal | partly | `SessionJournal`: no queries, no calls made while `close` waits |
| Turn engine | partly | `TurnFlow`: no goal driver, undo or injections; one tool call per answer |
| Background tasks | partly | `BackgroundTask`: no output buffers, `keepAliveOnExit`, `forgetTask` |
| All others | not modelled | section 7 |

`PROJECT.json` lists every component with its sources, and under `hazards` what is hard to
test in each, at its line, with the properties that cover it or the reason why none does.

## 2. Modules

| Module | Models | Built on |
|---|---|---|
| `ToolAccess` | declared accesses and when two conflict | |
| `ToolBatch` | one batch and its scheduler | `ToolAccess` |
| `LaneState` | the lane reducer, a pure operator | |
| `Operations` | abstract: operations are accepted one at a time and get one outcome | |
| `AgentHarness` | one lane of the harness, its write chain, crash and restore | `LaneState`, implements `Operations` |
| `AppendLog` | abstract: a log that only grows | |
| `SessionJournal` | the JSONL journal of the harness | implements `AppendLog` |
| `SessionLock` | the lock file | |
| `ContextFold` | the conversation as a fold of records, and where it may be cut | |
| `FullCompaction` | the compaction workers | `ContextFold` |
| `TurnFlow` | the turn engine and the loop it runs | `FullCompaction` |
| `BackgroundTask` | the tasks, their files and their notifications | |
| `McpConnection` | the connections and the tools they register | |
| `RecordPersistence` | the wire service and `wire.jsonl` | |
| `AgentHarnessInv` | no code: the inductive invariants of `AgentHarness`, which `AgentHarness_proofs` proves | `AgentHarness` |
| `*_proofs` | theorems about the module they name | that module, TLAPS |
| `MC*` | instances for TLC | the module they name |

How state and actions correspond to the code is in the comment of each declaration; the `map`
of `PROJECT.json` gives the lines. The conventions common to all modules:

- A step of a coroutine ends at an `await`. Code between two awaits is one action: JavaScript
  runs it without interleaving. In `SessionLock`, `RecordPersistence` and the journal's writer,
  where other processes or crashes interfere, a step is one file system call.
- A crash is the death of the process, not of the machine: what was written stays
  written, in the order it was written. Which appends are synced (`fsync`, graded by
  durability) matters only when the machine fails and is left out.
- Payloads, timestamps, usage, event emission and wording are left out. Ids are kept, as
  records of what they are computed from, because uniqueness of ids is what idempotence rests on.
- Constants named `Hazards` and `Features` choose what the environment does. The code is the
  same under all of them; a property holds under some choices and not under others, and the
  configurations say which.
- An operator that begins with "Plausible bug" is a variant of the code used to show that a
  property can fail; no specification refers to it.

**ToolBatch.** `queued`, `active` are `ToolScheduler.queuedTasks` and `activeTasks`;
`pendingResults` is the array of that name in `loop/tool-call.ts`, the calls still owed a result;
`executing` is the side effect in progress, which outlives `active` after a grace timeout:
that is why serial execution needs a proof. `ConflictingCallsSerial` counts a tool abandoned by
the timeout as still executing.

**AgentHarness.** `chain` is the storage's write chain, `entries` and `durable` are the disk,
`lane` is the process's reducer. `proc[c]` is a coroutine: `pc` names the await it is at.
`Crash` keeps the disk, loses everything else and restores the lane with `FinishRestore`. An
append that is in flight when the process dies either reached the disk (a `Commit` before the
crash) or did not. One model response carries at most one tool call (`ToolBatch` models
several); the model's answer, a failure and a deferred answer are choices. History variables
(`responses`, `executed`, `enqueued`, ...) record what happened for the properties.
`TranscriptPaired` is stated of the tree as the harness builds it; the projection that adds
results for orphan calls before a request is a second net and is not counted on here.

**SessionJournal.** A line is an element of `file`; a write is two steps with a fragment
(`Torn`) in between; a fragment followed by other bytes is `Garbage`. `inode` tells a handle
opened before a rename from the file at the path after it. `confirmed` is the history of
answered appends, reset at open to what was replayed. Another process that opens the file of a
dead one repairs its tail at any time; only an opening beside a running process is a hazard.

**SessionLock.** Handles share the pid of their process. Time is a `fresh` bit: a running
holder beats three times within the stale limit (`lock.ts:8-12`), so only a crashed or stalled
one grows stale.

**ContextFold, FullCompaction, TurnFlow.** A message stands for one object of the history
array. `rev` tells a message from the copy that masking, offloading or a blocking hook has put in
its place, because compaction compares objects (`full.ts`, "History changed during
compaction"). The records themselves are not kept: `Refolded` is what folding them again gives
after a crash, which is the history without those replacements. `activeTurn` is what
`cancel` forgets; `turn[t].pc` is the await the worker of turn `t` is at, also after it was
forgotten. `comp[k].snap` and `count` are the worker's `originalHistory` and
`compactedCount`. Which cut is taken depends on token sizes and is a choice among all cuts that
`sliceCompleteMessages` allows. A request that overflows, a failing model and the hooks'
decisions are choices, offered by `Features`.

**BackgroundTask.** `writes[t]` is `persistWriteQueue`, whose entries say whether the caller waits for an end
of the task; `disk[t]` is the status in the file; `said[t]` is what the journal of the
conversation holds, and `fresh` marks what a crash may still take from it, because the journal is flushed
later. An agent task ends by its promise, a process by its exit.

**McpConnection.** A client is named by the attempt that made it. `conn[s][k]` is the transport
of that client, whoever still refers to it; `client[s]` is the reference the entry holds.

**RecordPersistence.** `mem` are the records the models were reduced from, by number;
`drain` is the batch taken by the running flush. `flushed` is the history of what a returned flush has vouched for.

## 3. Runs

| Run | Instance | Distinct states | Shows |
|---|---|---|---|
| `tool_batch` | 3 calls, 5 declarations each | 73 000 | serial execution, pairing, no detached task, nothing starts after an abort, aborted batches end, batches whose tools return end; the conflict test serialises two calls iff one writes what the other touches |
| `harness_core` | 1 prompt, 2 responses, 1 item of each kind, 1 attempt, 1 abort, 3 crashes | 1.9 million | side effects at most once, replays only after crashes, paired transcript, no lost answer, live state equals journal, input written once and not both returned and consumed |
| `harness_kinds` | 2 operations of any kind, 2 rounds, deferred answers, 1 crash | 739 000 | the lane implements `Operations`, every accepted operation gets its outcome |
| `journal` | 2 ids, 2 lanes, 4 lines, 2 crashes, 2 failures, another process that repairs | 410 000 | no confirmed line lost, memory equals replay, always reopenable, each entry once, implements `AppendLog` |
| `lock` | 3 processes, calls of different processes not overlapping, 4 files | 141 000 | mutual exclusion, the holder's file names it, only a live holder refuses, acquiring ends |
| `turn_flow` | 2 turns of 2 steps, steer, cancel, tool, failure, 1 compaction | 169 000 | one live turn, every turn ends, deferred messages arrive |
| `turn_compaction` | 2 turns, 2 compactions, clear, masking, hooks, overflow, crash | 3.4 million | nothing leaves the conversation unsummarised, only the current compaction applies |
| `background` | a process and an agent task, 1 slot, 2 callers, 1 crash | 156 000 | one verdict in the conversation, durable before anyone is told, `stop` ends |
| `mcp` | 2 servers, 3 attempts each | 221 000 | no transport left behind, the tools on offer match the connection, nothing stays pending |
| `records` | 5 records, 2 callers of `flush`, 2 crashes, 2 failures, an old file | 67 000 | flushed records survive, file and memory agree, the queue drains |
| `records_torn`, `resumed_mid_tool` | | | findings, section 6 |

**Bounds, and why they are enough.** Three calls give a batch a running task, one it blocks
and one behind both, the shape every scheduling decision looks at. Three crashes with one attempt reach
exhaustion and a crash after it. `MaxResponses` stands
for the step limit of a run: after it, only a failure or a deferral ends the request. Two journal ids give a parent and a child, two lanes a
deletion beside the main lane, two crashes a torn tail and a crash while it is being used.
Four lock files and three processes allow a takeover of a takeover. Two turns give a cancelled
worker and its successor, two compactions a superseded summary and the current one; a
third of either meets the same state as the second. Two tasks with one slot give a refusal, two
callers a stop beside a wait. Three attempts are one that is overtaken, one that overtakes it and one that overtakes
both; two servers share the first load. Five records fill a batch, a queue behind it and a batch after a restart. Symmetry is not used: the
instances are small without it.

Three further configurations pass and are kept beside the runs: `MCHarnessAttempts.cfg` (a second
attempt to resume), `MCHarnessQueues.cfg` (two operations, two items of each kind),
`MCLockEnds.cfg` (every overlap of calls and stalls; acquiring ends all the same).

**Deadlock** is not checked: in every instance the system may stop. A batch returns, a client
need not call, and the bounds on turns, lines, records and crashes are used up. That nothing gets stuck is what
`BatchEnds`, `AbortEndsBatch`, `EveryOperationFinishes`, `AcquireEnds`, `TurnEnds`,
`DeferredFlushed`, `StopEnds`, `PendingEnds` and `QueueDrains` state instead.

**Fairness** is that of an event loop and of file system calls that return.
- `ToolBatch`: hooks, dispatches and awaits resume and the grace timer fires. That a tool
  returns is not assumed; `BatchEnds` carries it as its hypothesis and `AbortEndsBatch` does without.
- `AgentHarness`: an append resolves, a coroutine whose await has resolved goes on (weak fairness
  per caller: the microtask queue is first in, first out) and the host resumes what is suspended (the next
  opening of a session offers to resume it, `docs/prd/PRD-0037-durable-agent-harness.md:71`); the
  model's answers, tools and crashes are not forced in kind, but each request ends.
- `SessionLock`: a running process's calls return; a stalled or dead one takes no steps.
- `TurnFlow`: every worker and every compaction worker resumes. Hooks, tools and providers have
  timeouts or observe the signal, and the outcome stays a choice. Clients are not obliged to do
  anything: steers and cancellations may never come.
- `BackgroundTask`: writes end, timers of `stop` fire, and a session being resumed is resumed to
  the end. A task need not end by itself.
- `McpConnection`: every attempt resumes, since a start has a timeout and closing ends.
- `RecordPersistence`: the drain, restore and waiting flushes resume. Failures and crashes are free.

## 4. Proofs

Proofs hold for every value of the constants that satisfies the named assumptions: those of the
modules (bounds are naturals, and the like) and, where a theorem has one, its hypothesis.

**ToolBatch_proofs.** `TypeCorrect`; `ConflictingCallsSerialCorrect`: conflicting calls execute
one at a time and in provider order. The property is not inductive: the state must also say
that a task is queued, active or settled but never two of them, and that only prepared calls
have one (`Placement`); that a call declares nothing before it is announced (`Fresh`); that a
task leaves the queue only after every conflicting earlier call has settled (`StartOrder`); and
that a tool executes outside its active task only after an abort (`Execution`). `SerialInv` is
their conjunction with the property. The step that needs the most is a finish that starts
queued tasks: the order of the queue and the conflicts of the tasks that start with it must
both be accounted for. `NothingStartsAfterAbortCorrect` is an action property, from the guards of the
steps that start tools.
`ResultsAnswerCallsCorrect` and `NoDetachedTaskCorrect` come from two more invariants: the calls
answered, then those pending, are the calls announced, in order, and a call is pending exactly when it
was handed to the scheduler and not settled, until the batch returns or throws.
`ConflictIsInterferenceCorrect` is about `ToolAccess` alone: `OverlapExact` reduces the prefix test to
ancestors (`StrictPrefixIsAncestor`), and two ancestors of one file are nested (`AncestorsNested`).
`Files` is any non-empty set of paths.

**AgentHarness_proofs.** Two things hold with no hypothesis: the shape of the state
(`ShapeCorrect`, `TypeCorrect`) and `NextRunCorrect`. The others assume `OneCaller` (the lane is driven by
one coroutine; API calls, aborts and crashes interleave with it freely), some of them also `OneRound` (`MaxRounds = 1`,
no continuation round). Both are what the code needs: `MCHarnessRaces` breaks `AcceptedIsOpen` and
`ReplayedOncePerCrash` with two callers, `MCHarnessDeviations` breaks `ResponsesRecorded` and
`LiveMatchesJournal` with two rounds (section 6). `NoneIsNoName` says that the value for "no operation"
is not a number. The runs use the same two hypotheses with small bounds; operations, responses,
items, attempts, aborts and crashes are unbounded in the proofs. The argument has layers, each
inductive once the former are known:

| Invariant | Says | Gives |
|---|---|---|
| `Shape` | what each variable ranges over, at each place of the coroutine | |
| `Life` | which records of the current operation are on disk, in the chain and reduced at each await (`OwnAppends`, `Phases`); an open operation on disk is the lane's (`OpenOps`) | `OneOperationAtATime`, `AcceptedIsOpen` |
| `Unique` | an id on disk occurs once, also counting the entry at the head of the chain that the idempotence check lets through | `EntriesUnique` |
| `Recalled` | what a resume reads back: the tool calls on disk are those the lane would fold | `LiveMatchesJournal` |
| `Fresh` | ids of an attempt are above all ids on disk and in the chain: a new attempt cannot collide with an old one | |
| `Tools` | the call at hand, its intent on disk, its result not yet; what is to be reconciled has no result | `SideEffectsAtMostOnce` |
| `Once` | executions of a replayable call are counted by the crashes that interrupted it, and at each place by how many are still allowed | `ReplayedOncePerCrash` |
| `Recorded` | an answer is in the tree, in flight or about to be flushed, by place; an entry with its id holds that answer | `ResponsesRecorded` |
| `Items`, `Handed` | an item has one place among queue, hands of the coroutine, chain and tree; one handed back has none (`Gone`), and none is about to come (`HandsBack`) | `ReturnedNotConsumed` |
| `Inputs`, `Kinds`, `Leaves`, `Flushed` | no input id is used before its operation; a navigation runs no turn and no tool; the handle of a deferred answer is the leaf only when a run parked or one redeems it; a call is flushed before its result is written | |
| `Strict`, unless `GaveUp` | each call is followed by its result and each result has its call (`Exchanges`), but for one at most, of the open operation and remembered as dangling (`Outstanding`); at each place what the coroutine may rely on about that one (`Settles`, `Awaits`); an append in flight is its call, its result, or a message when there is none (`Fitting`) | `PairedUntilGivenUp`, `TranscriptPaired` |
| `Winding` | once an operation ran out of attempts, its coroutine only closes it | `TranscriptPaired` |
| `Bounded`, `Resting` | counters within their bounds; the attempts of an operation on disk, in flight and in the lane agree | `TypeOK` |

`TranscriptPaired` needs more than the others, because the code does not keep it in every lane: an
operation closed for too many attempts may leave a call without result (section 6), and the operation
after it asks the model with that call in the transcript. `PairedUntilGivenUp` says what holds with no
condition on that: paired, or some operation gave up. `TranscriptPairedCorrect` assumes that nothing
starts after that (`NothingAfterGivingUp`); `OneOperationPaired` derives it for `MaxOps = 1`, the
instance of the runs that check the property. `NoneIsNoId` says that the value for "no input" is not the id of one.

`Life` implements `Operations` step by step: the commit of `operation_started` accepts, that of
`operation_finished` gives the outcome, and every other step stutters.

**RecordPersistence_proofs.** `JournalFollowsStateCorrect` and `FlushedSurvivesCorrect`, for any number of
records, flushers, failures and crashes, under `NothingCutInside`: a crash falls between lines and not
within one, and not between the truncation and the write of a rewrite. `MCRecordsTorn` and `MCRecordsRewriteCut`
show why; after a torn line the state and the file do part. `RecordInv` says when each part may
hold something (`Phases`), that file, batch and queue form one log whose numbers are
the state, or after a failure that the file is a prefix of it (`Journalled`), and that what was flushed
is at the head of the file or, while a rewrite empties it, of the state to be written (`Vouched`).

**SessionJournal_proofs.** `NoConfirmedLostCorrect` and `ConfirmedIsALogCorrect`: under
`WritesAreWhole` (a failed write leaves no fragment, and no second process opens the file beside a
running one; queued duplicates, deletions and the repair of a dead process's file are
allowed), the file begins with every confirmed line, and the journal implements `AppendLog`. `MCJournalDeviations.cfg` shows that the
condition is needed. The invariant, `JournalInv`, says that the file is the confirmed lines
plus the line in flight, in the state the writer has brought it to (`FileShape`); that the
writer serves the head of the chain and its handle is the file at the path
(`WriterOwnsFile`); that a repair under way has read the file as it is (`RepairIsCurrent`); and that
what is confirmed, queued or being written is a line and never a
fragment (`OnlyLines`), which is what lets an open tell the fragment from the rest.

What the lines mean is the matter of the other four, which add `DeletesAlone` (a lane is not deleted
while a write to it is queued) and `EntryWrittenOnceCorrect` also `IdsQueuedOnce` (no second append of an id that is
still queued). Without the first `MCJournalDeviations.cfg` breaks `ReplayMatchesLive` and `Reopenable`, without
the second `EntryWrittenOnce`. `ReplayMatchesLiveCorrect` and `ReopenableCorrect`
rest on `LiveInv`: the whole lines replay without an error (`Rebuilt`), the memory is what the confirmed
ones replay to (`Live`), and every queued call still fits the memory when its turn comes
(`Queued`), the part that a queued deletion breaks. `EntryWrittenOnceCorrect` and `ParentBeforeChildCorrect` rest on `TreeInv`
(the entries in memory are those in the file, what a line refers to stands before it, what a queued
call refers to is known) and `NewInv` (an entry has one line, and a queued entry none yet). A replay
is a recursive function over the lines; that a replay of one line more is one step more
(`ReplayedAppend`) is an induction over the lines. The library's induction principles take the
induction hypothesis as an operator, which the provers cannot instantiate; `SetInduction` states it as a set instead
and follows from the well-foundedness of `<` on the naturals. `NoneIsNoState` says that the value for "no
memory" is not a state. The sequence lemmas at the head of the module hold for sequences of any
elements.

**SessionLock_proofs.** `MutualExclusionCorrect` and `RefusedByHolderCorrect`, for any number of
processes, files and crashes, under `Apart`: every handle is a process of its own, calls of different
processes do not overlap, nobody stalls past the limit. `MCLockDeviations.cfg` and
`MCLockReentrant.cfg` show that the lock does not keep its promise without it. The invariant, `LockInv`, says that at most one
running process is in a call (`OneCall`), what each process knows of the file at each point of
its call (`Knows`), and that the name in the file is a holder's or a dead process's (`Named`).
The last is what makes a takeover safe: an old heartbeat has no living owner.

**TurnFlow_proofs.** `OneLiveTurnCorrect` and `OnlyCurrentAppliesCorrect`, for any number of
turns, steps and compactions. `TurnInv` adds that turns are numbered in the order of their
launch and that only the latest can be active; `CompactionInv` that a running compaction that is
not aborted is the current one. Each action lets one worker go on, ends one, launches one, aborts
one or ends all, and a lemma covers each of these. `NoneIsNoName` says that the value for "no
turn" is not a number. `ForgetsOnlySummarisedCorrect` adds `SaidInv`: context and buffers are
sequences of messages, and the count a running compaction works on lies within the history it
photographed. The bound of a cut, which the code finds by scanning the history, is an induction
over the messages. When the photograph still heads the history, what the compaction removes is what its summary covers;
every other fold adds messages, replaces one by a copy of it or tells something of the open steps,
and forgets nothing.

**BackgroundTask_proofs.** `OneVerdictCorrect` and `ReturnsDurableCorrect`, for any number of
tasks, callers, writes and crashes, under `WritesLand` (writing a task's file does not fail;
`MCBackgroundDiskFails.cfg` shows a second verdict when it does). `TaskInv` follows a verdict on its way from the entry to the
conversation. `QueueInv`: an end in the queue is the end the entry has, and
nothing but that end follows it; an ended entry has its end in the file or under way. `VerdictInv`: what
was said, is about to be said or will be said is one thing, and equals the file. `ResumeInv`: no task
runs while the session resumes. `CallInv`: a caller that waits for the queue waits for an end
in it.

**McpConnection_proofs.** `TypeCorrect` and `NoTransportLeaksCorrect`, for any number of servers and
attempts. `LeakInv` adds that an attempt not drawn yet has nothing (`Undrawn`), that a transport
starts only while its attempt waits for it (`Started`), that the current attempt owns the entry's client
(`Owns`), and that an open transport is the entry's (`Held`): replacing the client is
harmless because none was open then. `ToolsMatchServerCorrect` needs `ServerInv` besides: a
client the entry holds is that of its current attempt once this has ended (`Current`), and
a server nothing runs for has a final status with the tools that belong to it (`Ended`).

Only model-checked, and why: liveness (the prover handles neither fairness nor `ENABLED`). Every
invariant and action property of a passing run is a theorem, under the hypotheses named above.

## 5. Plan

1. Done: tool batch, lane reducer, harness, journal, lock; turn engine with compaction, background
   tasks, MCP connections, record persistence; the safety properties of the tool batch,
   the harness, the records, the MCP connections, the lock, the background tasks and the turn engine
   proved.
2. Next: `DurableSession`, the lock and the journal composed with `close` and takeover by a
   second process; lane creation and deletion in `AgentHarness`; `CronTick` over
   `TurnFlow`'s steer.
3. Proofs: the harness for more than one round, with ids that a continuation round does not repeat
   (section 6); the invariants of the modules that item 2 adds.

## 6. Deviations

Configurations in which the code does something other than its comments, tests or documents
say. The first two are runs of this project and findings in `PROJECT.json`; the others are
kept as configurations, and each ends with a counterexample. Where a configuration names several
properties it lists one and keeps the others as comments, to be checked one at a time.

| Configuration | Violates | What happens |
|---|---|---|
| `MCRecordsTorn` | `Resumable` | `agent/records/persistence.ts:169`: a line cut short by a crash is skipped by the next process but not removed; its first record joins the fragment, and the resume after that one is refused |
| `MCTurnResumed` | `DeferredFlushed` | `agent/context/wire-fold.ts:108`: a journal that ends between a tool call and its result is restored with the exchange open; every later prompt is deferred and never reaches the model |
| `MCHarnessDeviations` | `ResponsesRecorded` | `harness/agent-harness.ts:1042`: a continuation round numbers its steps from one again, the ids repeat and the idempotent append drops the answer |
| same | `CompactionTakesEffect` | `:862`: an interrupted compaction is resumed as a model turn and reported completed without its entry |
| same | `AbortHonoured` | `:918`: a live abort is in memory only, a crash forgets it though the caller was told (`PRD-0037:134`) |
| same | `SteerDiesWithOperation` | `:608`: a steer accepted while the operation ends is recorded after its end and stays (`harness/lane-state.ts:19` says steer dies with the operation) |
| same | `FollowUpAccounted` | `:1412`: items that arrive between the snapshot and the end are dropped and not handed back |
| same | `NoToolLeftDangling` | `:823`: an operation closed for too many attempts leaves calls without results (`PRD-0037:100`) |
| same | `RedeemedOnce` | `:1212`: a crash after the redeemed answer is written and before the operation ends asks the model again |
| same | `LiveMatchesJournal` | `:1443`: a record that is on disk already is reduced once more in memory (follows from the repeated ids above) |
| `MCHarnessRaces` | `AcceptedIsOpen` | `:405`: navigation checks, awaits, then records; a second caller passes the same check and its operation is ignored by the reducer |
| same | `ReplayedOncePerCrash` | `:807` checks the runtime that `:894` sets many awaits later: two resumes replay a tool twice |
| `MCJournalDeviations`, `deleteRace` | `Reopenable` | `harness/storage/jsonl.ts:221`: an entry checked before a queued deletion is written after it; replay rejects the journal |
| same, `sameId` | `EntryWrittenOnce` | `:223`: two queued appends of one id are both written |
| same, `partialWrite` | `NoConfirmedLost` | `:379`: after a half-written failure the next line joins the fragment and is lost at the next open, with all behind it |
| same, `secondProcess` | `NoConfirmedLost` | `:126`: a second process cuts the tail it saw torn before it asks for the lock |
| `MCLockDeviations`, `acquire` | `MutualExclusion` | `harness/lock.ts:99`: two processes judge one dead lock; the second unlink removes the first one's new file |
| same, `heartbeat` | `MutualExclusion` | `:132`: a heartbeat empties the file first; a reader takes it for an abandoned one |
| `MCLockReentrant` | `MutualExclusion` | `:117`: two handles of one process share the file, the first release removes it |
| `MCBackgroundDiskFails` | `OneVerdict` | `tools/background/manager.ts:1043-1045`: a failed write of a task's file is swallowed: the conversation hears an end that the file does not have, and after a restart another one |
| `MCTurnOrphanedStep` | `NoOrphanedStep` | `agent/context/wire-fold.ts:214`: applying a compaction forgets the open steps; the answer under way then fails with "unknown step" (`:138-144`) |
| `MCRecordsRewriteCut` | `FlushedSurvives` | `agent/records/persistence.ts:169-172`: a rewrite truncates the file first; a crash in between loses what was flushed |

Two more properties are stated in `TurnFlow` and belong to no run, because the code does not keep
them: `ToolRunsContiguous` (a steer or a compaction's summary may separate a call from its result) and
`SteerJoinsRunningTurn` (a steer accepted after a turn's last look at the buffer waits for the next
turn). The following are known limits seen while modelling and excluded by the instances: a
history cleared in the middle of a turn; steers in the buffer when the process dies; a prompt
deferred behind the tool of a cancelled turn; `compactionCountInTurn`, which a restore does not
bring back; a dispatch after a failed write, which changes the state before the append throws;
with two operations in one lane, results of the first that the tree shows behind the second
(`TranscriptPaired` with two operations and exhaustion).

The preconditions are visible in each configuration: two callers, an overlap, a failed
half write. Where a passing run excludes one of them, `PROJECT.json` says so at the hazard.

## 7. Not modelled

- Sessions, forks, subagent lanes: planned as `DurableSession`. A subagent of the older
  generation is an instance of `TurnFlow` for which its host waits.
- Cron: planned. The tick delivers a prompt as a steer, which `TurnFlow` has; delivery before
  the cursor is durable is listed as a hazard.
- Goal driver and goals: a sequential state machine that starts one turn after another.
- Step retry, permissions, shell hooks, harness seams: sequential; the engine sees a failure, an answer or a decision, which
  the models offer as choices.
- In-memory storage: a test double without files.
- Session store, inspector, RPC, SDK, CLI, web, providers, OAuth, Kaos, SQLite,
  configuration, built-in tools: input, output, parsing, rendering and protocol adapters. They
  are most of the repository's lines, and hold little state that two actors share.
- Within modelled components: the disabled servers and colliding tool names of MCP; journals
  of a newer version; branch summaries and usage of the harness; header checks of the journal.
