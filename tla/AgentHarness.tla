---------------------------- MODULE AgentHarness ----------------------------
(***************************************************************************)
(* One lane of the durable engine (harness/agent-harness.ts with           *)
(* transcript.ts, park.ts and loop/run-turn.ts, turn-step.ts): API calls   *)
(* drive operations, every durable effect goes through the session's       *)
(* serial write chain, the process may crash at any point and reopen.      *)
(*                                                                         *)
(* Callers are the coroutines that drive an operation (prompt, drain,      *)
(* resume, compact, navigateTree); steer, followUp, nextRun, deferWrite    *)
(* and abort are single appends made by the api.  A step ends at an await. *)
(*                                                                         *)
(* Simplifications.  One tool call per model response (ToolBatch models    *)
(* the batch).  The tree is the order of appends on the lane; navigation   *)
(* is the append of its move.  Goal and before_run_end continuations are   *)
(* one choice.  Storage calls do not fail (SessionJournal models that).    *)
(***************************************************************************)
EXTENDS LaneState, FiniteSets

CONSTANTS
    Callers,
    Features,       \* which API calls and model answers the environment uses
    MaxAttempts,    \* config.maxResumeAttempts
    MaxOps, MaxResponses, MaxRounds, MaxItems, MaxAborts, MaxCrashes \* bounds

ASSUME BoundsAssumption ==
    /\ {MaxAttempts, MaxOps, MaxResponses, MaxRounds} \subseteq Nat \ {0}
    /\ {MaxItems, MaxAborts, MaxCrashes} \subseteq Nat
    /\ "api" \notin Callers /\ None \notin Callers

VARIABLES
    \* durable
    entries,   \* the lane's entries, in append order
    durable,   \* the reduction of the records on disk
    ops,       \* operation_started payloads, by operation number
    toolLog,   \* tool_started records
    writeLog,  \* write_deferred records, as entry ids
    \* live
    lane,      \* the process's LaneStateReducer
    chain,     \* pending appends of the write chain
    proc,      \* [Callers -> coroutine state]
    runtime,   \* runtimes.get(lane): the caller that owns it, or None
    signal,    \* [Callers -> its AbortController has fired]
    \* history
    responses, \* model responses so far
    executed,  \* [response -> executions of its tool]
    sealed,    \* responses whose step ended
    started, finished, \* operations accepted; <<op, outcome>> in order
    enqueued,  \* <<queue, item>> acknowledged to the caller
    returned,  \* items handed back by an aborted operation
    acked,     \* operations whose abort was acknowledged
    used       \* [items, aborts, crashes] consumed of the bounds

live    == <<lane, chain, proc, runtime, signal>>
disk    == <<entries, durable, ops, toolLog, writeLog>>
history == <<responses, executed, sealed, started, finished, enqueued, returned, acked, used>>
vars    == <<live, disk, history>>

-----------------------------------------------------------------------------
(* Entry ids. All but "auto" are allocated before the entry is written.    *)
Id(k, op, att, n) == [k |-> k, op |-> op, att |-> att, n |-> n]
InputId(op)      == Id("input", op, 0, 0)
CompactionId(op) == Id("compaction", op, 0, 0)
ItemId(i)        == Id("queued", 0, 0, i)
WriteId(i)       == Id("deferred", 0, 0, i)
AutoId           == Id("auto", 0, 0, 0)
(* Mutant: the id does not carry the attempt. *)
AssistantIdNoAttempt(op, att, step) == Id("assistant", op, 0, step)
AssistantId(op, att, step) == Id("assistant", op, att, step)
ResultIdOf(assistantId) == [assistantId EXCEPT !.k = "result"]

InTree(id) == \E i \in DOMAIN entries : entries[i].id = id
LeafWhat == IF entries = <<>> THEN "none" ELSE Last(entries).what

Idle == [pc |-> "idle", op |-> 0, att |-> 0, step |-> 0, round |-> 0, resp |-> 0,
         replay |-> "never", outcome |-> "none", todo |-> <<>>, dead |-> {}, holds |-> FALSE]

Init ==
    /\ entries = <<>> /\ durable = InitLane /\ ops = <<>> /\ toolLog = {} /\ writeLog = <<>>
    /\ lane = InitLane /\ chain = <<>> /\ proc = [c \in Callers |-> Idle]
    /\ runtime = None /\ signal = [c \in Callers |-> FALSE]
    /\ responses = 0 /\ executed = [r \in 1..MaxResponses |-> 0] /\ sealed = {}
    /\ started = {} /\ finished = <<>> /\ enqueued = {} /\ returned = {} /\ acked = {}
    /\ used = [items |-> 0, aborts |-> 0, crashes |-> 0]

-----------------------------------------------------------------------------
(* The write chain: appends resolve one at a time, in the order issued.    *)

Ready(c) == \A i \in DOMAIN chain : chain[i].by # c

AppendRecord(by, r) == chain' = Append(chain, [by |-> by, put |-> "record", what |-> r])

(* Mutant: the pre-allocated id is not looked up. *)
AppendEntryBlindly(by, id, what, tok) ==
    chain' = Append(chain, [by |-> by, put |-> "entry",
                            what |-> [id |-> id, what |-> what, tok |-> tok]])

(* appendEntry: a pre-allocated id that is in the tree is not appended     *)
(* again; the check happens when the append is issued.                     *)
AppendEntry(by, id, what, tok) ==
    IF InTree(id) THEN UNCHANGED chain
    ELSE chain' = Append(chain, [by |-> by, put |-> "entry",
                                 what |-> [id |-> id, what |-> what, tok |-> tok]])

CommitEntry(e) ==
    /\ entries' = Append(entries, IF e.id = AutoId
                                  THEN [e EXCEPT !.id.n = Len(entries) + 1] ELSE e)
    /\ UNCHANGED <<lane, durable, toolLog, writeLog, started, finished, enqueued, acked>>

(* appendRecordTracked: the record is durable, then reduced. *)
CommitRecord(r) ==
    /\ lane' = ApplyRecord(lane, r)
    /\ durable' = ApplyRecord(durable, r)
    /\ toolLog' = IF r.kind = "tool_started" THEN toolLog \cup {r.tool} ELSE toolLog
    /\ writeLog' = IF r.kind = "write_deferred" THEN Append(writeLog, r.entry) ELSE writeLog
    /\ started' = IF r.kind = "operation_started" THEN started \cup {r.op} ELSE started
    /\ finished' = IF r.kind = "operation_finished"
                   THEN Append(finished, <<r.op, r.outcome>>) ELSE finished
    /\ enqueued' = IF r.kind = "queue_enqueued"
                   THEN enqueued \cup {<<r.queue, r.item>>} ELSE enqueued
    /\ acked' = IF r.kind = "abort_requested" THEN acked \cup {r.op} ELSE acked
    /\ UNCHANGED entries

Commit ==
    /\ chain # <<>>
    /\ LET h == Head(chain)
       IN IF h.put = "entry" THEN CommitEntry(h.what) ELSE CommitRecord(h.what)
    /\ chain' = Tail(chain)
    /\ UNCHANGED <<proc, runtime, signal, ops, responses, executed, sealed, returned, used>>

(* The process dies; only the head of the chain can have reached the disk, *)
(* which is a Commit before the crash.  A new process restores the lane.   *)
Crash ==
    /\ used.crashes < MaxCrashes
    /\ used' = [used EXCEPT !.crashes = @ + 1]
    /\ lane' = FinishRestore(durable)
    /\ chain' = <<>>
    /\ proc' = [c \in Callers |-> Idle]
    /\ runtime' = None /\ signal' = [c \in Callers |-> FALSE]
    /\ UNCHANGED <<disk, responses, executed, sealed, started, finished, enqueued,
                   returned, acked>>

-----------------------------------------------------------------------------
(* Views and guards *)

(* laneState: the record state folded with the presence of a runtime. *)
LiveStatus ==
    IF lane.status = "idle" /\ runtime # None THEN "running"
    ELSE IF lane.status = "running" /\ runtime = None THEN "suspended"
    ELSE lane.status

(* Mutant: only the in-memory runtime is asked. *)
MayStartIfNoRuntime == runtime = None /\ Len(ops) < MaxOps
(* guardPrompt *)
MayStart == runtime = None /\ lane.status = "idle" /\ Len(ops) < MaxOps

(* The scans of the code keep the order of a list: they take the first of  *)
(* the positions that pass.                                                *)
First(positions, k) == k \in positions /\ \A j \in positions : k <= j

(* Mutant: items already written to the tree are not filtered out. *)
AllItems(items) == DOMAIN items
Unconsumed(items) == { k \in DOMAIN items : ~InTree(ItemId(items[k])) }
(* consumeNextQueuedInput: followUp before nextRun. *)
Waiting == lane.queues["followUp"] \o lane.queues["nextRun"]

ItemIds(items) == [k \in DOMAIN items |-> ItemId(items[k])]

StartedRecord(op) == [kind |-> "operation_started", op |-> op, opKind |-> ops[op].kind]

(* The frame of a step of caller c that touches no history. *)
Silent == UNCHANGED <<lane, disk, history>>
Quiet  == UNCHANGED <<runtime, signal>> /\ Silent

Update(c, p) == proc' = [proc EXCEPT ![c] = p]
Goto(c, label) == proc' = [proc EXCEPT ![c].pc = label]
At(c, label) == proc[c].pc = label /\ Ready(c)

-----------------------------------------------------------------------------
(* Starting an operation *)

(* prompt: the runtime placeholder is set before any await. *)
StartRun(c, input) ==
    /\ proc[c].pc = "idle" /\ MayStart
    /\ LET op == Len(ops) + 1
       IN  /\ ops' = Append(ops, [kind |-> "prompt",
                                  input |-> IF input = None THEN InputId(op) ELSE input])
           /\ Update(c, [Idle EXCEPT !.pc = "beforeRun", !.op = op, !.att = 1, !.holds = TRUE])
    /\ runtime' = c /\ signal' = [signal EXCEPT ![c] = FALSE]
    /\ UNCHANGED <<lane, chain, entries, durable, toolLog, writeLog, history>>

Prompt(c) == "prompt" \in Features /\ StartRun(c, None)

(* drain: the item's own entry id becomes the operation's input. *)
Drain(c) ==
    \E k \in Unconsumed(Waiting) :
        First(Unconsumed(Waiting), k) /\ StartRun(c, ItemId(Waiting[k]))

(* The before_run hook blocks, or the acceptance record is appended. *)
BeforeRun(c) ==
    /\ At(c, "beforeRun")
    /\ \/ /\ Update(c, Idle) /\ runtime' = None
          /\ UNCHANGED <<chain, signal>> /\ Silent
       \/ /\ AppendRecord(c, StartedRecord(proc[c].op)) /\ Goto(c, "input")
          /\ Quiet

Compact(c) ==
    /\ "compaction" \in Features
    /\ proc[c].pc = "idle" /\ MayStart
    /\ LET op == Len(ops) + 1
       IN  /\ ops' = Append(ops, [kind |-> "compaction", input |-> None])
           /\ Update(c, [Idle EXCEPT !.pc = "compact", !.op = op, !.holds = TRUE])
           /\ AppendRecord(c, [kind |-> "operation_started", op |-> op, opKind |-> "compaction"])
    /\ runtime' = c /\ signal' = [signal EXCEPT ![c] = FALSE]
    /\ UNCHANGED <<lane, entries, durable, toolLog, writeLog, history>>

(* applyCompaction: aborted before it begins, declined by a hook, or done. *)
ApplyCompaction(c) ==
    /\ At(c, "compact")
    /\ LET op == proc[c].op
           End(outcome) == Update(c, [proc[c] EXCEPT !.pc = "finish", !.outcome = outcome])
       IN  \/ signal[c] /\ End("aborted") /\ UNCHANGED chain
           \/ ~signal[c] /\ End("declined") /\ UNCHANGED chain
           \/ ~signal[c] /\ End("completed")
              /\ AppendEntry(c, CompactionId(op), "compaction", 0)
    /\ Quiet

(* navigateTree: the guard, then an await, then the record: no runtime. *)
Navigate(c) ==
    /\ "navigation" \in Features
    /\ proc[c].pc = "idle" /\ MayStart
    /\ LET op == Len(ops) + 1
       IN  /\ ops' = Append(ops, [kind |-> "navigation", input |-> None])
           /\ Update(c, [Idle EXCEPT !.pc = "navigate", !.op = op])
    /\ UNCHANGED <<runtime, signal, lane, chain, entries, durable, toolLog, writeLog, history>>

NavigateStart(c) ==
    /\ At(c, "navigate")
    /\ AppendRecord(c, StartedRecord(proc[c].op)) /\ Goto(c, "move")
    /\ Quiet

(* applyNavigation, without the branch summary. *)
NavigateMove(c) ==
    /\ At(c, "move")
    /\ AppendEntry(c, AutoId, "moved", proc[c].op)
    /\ Update(c, [proc[c] EXCEPT !.pc = "finish", !.outcome = "completed"])
    /\ Quiet

-----------------------------------------------------------------------------
(* runOperation and the turn loop *)

(* The input entry: written by the live run, re-written by a resume. *)
MaterialiseInput(c) ==
    /\ At(c, "input")
    /\ LET id == ops[proc[c].op].input
       IN IF id = None THEN UNCHANGED chain ELSE AppendEntry(c, id, "input", 0)
    /\ Goto(c, "top")
    /\ Quiet

(* A list of entries written one append at a time. *)
WriteTodo(c, here, what, next) ==
    /\ At(c, here)
    /\ LET todo == proc[c].todo
       IN IF todo = <<>> THEN Goto(c, next) /\ UNCHANGED chain
          ELSE /\ AppendEntry(c, Head(todo), what, 0)
               /\ Update(c, [proc[c] EXCEPT !.todo = Tail(todo)])
    /\ Quiet

(* Loop top: the signal is checked, the checkpoint reads the deferred      *)
(* writes, applies them, then reads and consumes the steer queue.          *)
LoopTop(c) ==
    /\ At(c, "top")
    /\ IF signal[c] THEN Goto(c, "abortNote")
       ELSE Update(c, [proc[c] EXCEPT !.pc = "writes", !.todo = writeLog])
    /\ UNCHANGED chain /\ Quiet

CheckpointWrites(c) == WriteTodo(c, "writes", "deferred", "readSteer")

CheckpointRead(c) ==
    /\ At(c, "readSteer")
    /\ Update(c, [proc[c] EXCEPT !.pc = "steer", !.todo = ItemIds(lane.queues["steer"])])
    /\ UNCHANGED chain /\ Quiet

CheckpointSteer(c) == WriteTodo(c, "steer", "input", "ask")

(* The signal is checked once more before the request is sent. *)
Ask(c) ==
    /\ At(c, "ask")
    /\ Goto(c, IF signal[c] THEN "abortNote" ELSE "model")
    /\ UNCHANGED chain /\ Quiet

Slot(c) == AssistantId(proc[c].op, proc[c].att, proc[c].step)
Tool(c) == [id |-> Slot(c), resp |-> proc[c].resp, replay |-> proc[c].replay]

(* The request fails or is cancelled; text streamed so far may be flushed. *)
CutOff(c) ==
    /\ At(c, "model")
    /\ \/ UNCHANGED chain
       \/ AppendEntry(c, AssistantId(proc[c].op, proc[c].att, proc[c].step + 1), "partial", 0)
    /\ Update(c, IF signal[c] THEN [proc[c] EXCEPT !.pc = "abortNote"]
                 ELSE [proc[c] EXCEPT !.pc = "finish", !.outcome = "failed"])
    /\ Quiet

(* A deferred answer parks the run, unless it was aborted meanwhile. *)
Defer(c) ==
    /\ "deferred" \in Features
    /\ At(c, "model") /\ ~signal[c]
    /\ Goto(c, "park")
    /\ UNCHANGED chain /\ Quiet

(* The model answers; the answer is processed even if an abort came first. *)
Answer(c) ==
    /\ At(c, "model") /\ responses < MaxResponses
    /\ responses' = responses + 1
    /\ \E answer \in {"text"} \cup (Features \cap {"tool", "safeTool"}) :
         Update(c, [proc[c] EXCEPT
             !.pc = IF answer = "text" THEN "assistant" ELSE "toolStarted",
             !.step = @ + 1, !.resp = responses + 1,
             !.replay = IF answer = "safeTool" THEN "safe" ELSE "never",
             !.outcome = IF answer = "text" THEN "text" ELSE "tool"])
    /\ UNCHANGED <<chain, runtime, signal, lane, disk, executed, sealed, started, finished,
                   enqueued, returned, acked, used>>

(* tool.call: the intent is recorded before the tool runs. A record whose  *)
(* id exists is returned as it is, and reduced once more.                  *)
RecordTool(c) ==
    /\ At(c, "toolStarted")
    /\ IF \E t \in toolLog : t.id = Slot(c)
         THEN /\ lane' = ToolStarted(lane, [tool |-> CHOOSE t \in toolLog : t.id = Slot(c)])
              /\ UNCHANGED chain
         ELSE /\ AppendRecord(c, [kind |-> "tool_started", tool |-> Tool(c)])
              /\ UNCHANGED lane
    /\ Goto(c, "execute")
    /\ UNCHANGED <<runtime, signal, disk, history>>

(* The tool runs to its end unless the turn was aborted meanwhile. *)
ExecuteTool(c) ==
    /\ At(c, "execute")
    /\ executed' = IF signal[c] THEN executed
                   ELSE [executed EXCEPT ![proc[c].resp] = @ + 1]
    /\ Goto(c, "assistant")
    /\ UNCHANGED <<chain, runtime, signal, lane, disk, responses, sealed, started, finished,
                   enqueued, returned, acked, used>>

(* The assistant entry is flushed at the first tool result or step end; an *)
(* aborted text step is flushed without being ended.                       *)
FlushAssistant(c) ==
    /\ At(c, "assistant")
    /\ AppendEntry(c, Slot(c), IF proc[c].outcome = "tool" THEN "call" ELSE "text", proc[c].resp)
    /\ Goto(c, IF proc[c].outcome = "tool" THEN "result"
               ELSE IF signal[c] THEN "abortNote" ELSE "stepEnd")
    /\ Quiet

WriteResult(c) ==
    /\ At(c, "result")
    /\ AppendEntry(c, ResultIdOf(Slot(c)), "result", proc[c].resp)
    /\ Goto(c, "stepEnd")
    /\ Quiet

StepEnd(c) ==
    /\ At(c, "stepEnd")
    /\ sealed' = sealed \cup {proc[c].resp}
    /\ Goto(c, IF proc[c].outcome = "tool" THEN "top" ELSE "roundEnd")
    /\ UNCHANGED <<chain, runtime, signal, lane, disk, responses, executed, started, finished,
                   enqueued, returned, acked, used>>

(* The turn ended: a before_run_end hook or an active goal starts another  *)
(* turn of the same run, whose steps are numbered from one again; else the *)
(* operation completes.                                                    *)
RoundEnd(c) ==
    /\ At(c, "roundEnd")
    /\ \/ /\ proc[c].round + 1 < MaxRounds
          /\ AppendEntry(c, AutoId, "continue", 0)
          /\ Update(c, [proc[c] EXCEPT !.pc = "top", !.round = @ + 1, !.step = 0])
       \/ /\ Update(c, [proc[c] EXCEPT !.pc = "finish", !.outcome = "completed"])
          /\ UNCHANGED chain
    /\ Quiet

(* A deferred answer: the handle is persisted, no operation_finished. *)
Park(c) ==
    /\ At(c, "park")
    /\ AppendEntry(c, AutoId, "handle", 0)
    /\ Goto(c, "release")
    /\ Quiet

(* finishAbortedOperation: what the caller will get back is read first,    *)
(* then the closing message and the deferred writes are appended.          *)
AbortNote(c) ==
    /\ At(c, "abortNote")
    /\ LET queued == lane.queues["steer"] \o lane.queues["followUp"]
       IN Update(c, [proc[c] EXCEPT !.pc = "abortRead",
                                    !.dead = { queued[k] : k \in Unconsumed(queued) }])
    /\ AppendEntry(c, AutoId, "aborted", 0)
    /\ Quiet

AbortRead(c) ==
    /\ At(c, "abortRead")
    /\ Update(c, [proc[c] EXCEPT !.pc = "abortWrites", !.todo = writeLog, !.outcome = "aborted"])
    /\ UNCHANGED chain /\ Quiet

AbortWrites(c) == WriteTodo(c, "abortWrites", "deferred", "finish")

Finish(c) ==
    /\ At(c, "finish")
    /\ AppendRecord(c, [kind |-> "operation_finished", op |-> proc[c].op,
                        outcome |-> proc[c].outcome])
    /\ Goto(c, "release")
    /\ Quiet

(* Mutant: an aborted operation does not hand the queued items back. *)
NothingReturned(c) == {}
ReturnedBy(c) == proc[c].dead

(* The call returns; only a run deletes the lane's runtime. *)
Release(c) ==
    /\ At(c, "release")
    /\ returned' = returned \cup ReturnedBy(c)
    /\ runtime' = IF proc[c].holds THEN None ELSE runtime
    /\ Update(c, Idle)
    /\ UNCHANGED <<chain, signal, lane, disk, responses, executed, sealed, started, finished,
                   enqueued, acked, used>>

-----------------------------------------------------------------------------
(* resume *)

(* Mutant: one attempt more than the recorded maximum. *)
ExhaustedOneLate == lane.maxAttempts > 0 /\ lane.attempts > lane.maxAttempts
Exhausted == lane.maxAttempts > 0 /\ lane.attempts >= lane.maxAttempts

(* The guards, then up to the first await.  No runtime is set yet. *)
Resume(c) ==
    /\ proc[c].pc = "idle" /\ runtime = None
    /\ LiveStatus \in {"suspended", "aborting"} /\ lane.op # None
    /\ LET attempt == lane.attempts + 1
           p == [Idle EXCEPT !.op = lane.op, !.att = attempt, !.todo = lane.dangling]
       IN  \/ /\ lane.abortRequested
              /\ Update(c, [p EXCEPT !.pc = "ensure", !.outcome = "aborted"])
              /\ UNCHANGED chain
           \/ /\ ~lane.abortRequested /\ Exhausted
              /\ Update(c, [p EXCEPT !.pc = "finish", !.outcome = "failed"])
              /\ AppendEntry(c, AutoId, "exhausted", 0)
           \/ /\ ~lane.abortRequested /\ ~Exhausted
              /\ Update(c, [p EXCEPT !.pc = "resumed"])
              /\ AppendRecord(c, [kind |-> "task_attempt", op |-> lane.op, attempt |-> attempt,
                                  maxAttempts |-> MaxAttempts])
    /\ Quiet

(* The attempt is durable: which kind of work was suspended? *)
Resumed(c) ==
    /\ At(c, "resumed")
    /\ Goto(c, IF ops[proc[c].op].kind = "navigation" THEN "move"
               ELSE IF LeafWhat = "handle" THEN "redeem" ELSE "ensure")
    /\ UNCHANGED chain /\ Quiet

(* resumeDeferred: ready, still pending, or terminal. *)
Redeem(c) ==
    /\ At(c, "redeem")
    /\ \/ /\ AppendEntry(c, AutoId, "ready", 0)
          /\ Update(c, [proc[c] EXCEPT !.pc = "finish", !.outcome = "completed"])
       \/ /\ Update(c, Idle) /\ UNCHANGED chain
       \/ /\ Update(c, [proc[c] EXCEPT !.pc = "finish", !.outcome = "failed"])
          /\ UNCHANGED chain
    /\ Quiet

(* ensureAssistantEntriesForDangling: a call that never reached the tree   *)
(* is rebuilt from its tool_started record.                                *)
EnsureAssistant(c) ==
    /\ At(c, "ensure")
    /\ LET todo == proc[c].todo
           missing == { k \in DOMAIN todo : ~InTree(todo[k].id) }
       IN  \/ missing = {} /\ Goto(c, "reconcile") /\ UNCHANGED chain
           \/ \E k \in missing : /\ First(missing, k)
                                 /\ AppendEntry(c, todo[k].id, "call", todo[k].resp)
                                 /\ UNCHANGED proc
    /\ Quiet

(* Mutant: every dangling tool is replayed. *)
AlwaysReplayable(c, t) == TRUE
(* isReplayableToolReplaySafety; an abort never replays. *)
Replayable(c, t) == proc[c].outcome # "aborted" /\ t.replay = "safe"

(* Mutant: dangling calls are left as they are. *)
NothingUnanswered(c) == {}
Unanswered(c) == { k \in DOMAIN proc[c].todo : ~InTree(ResultIdOf(proc[c].todo[k].id)) }

(* reconcileDanglingTools: the next call without a result is replayed, or  *)
(* gets a synthetic interrupted result.                                    *)
Reconcile(c) ==
    /\ At(c, "reconcile")
    /\ \E k \in Unanswered(c) :
         LET todo == proc[c].todo
             t == todo[k]
         IN  /\ First(Unanswered(c), k)
             /\ \/ /\ Replayable(c, t)
                   /\ executed' = [executed EXCEPT ![t.resp] = @ + 1]
                   /\ Update(c, [proc[c] EXCEPT !.pc = "replayed",
                                                !.todo = SubSeq(todo, k, Len(todo))])
                   /\ UNCHANGED chain
                \/ /\ AppendEntry(c, ResultIdOf(t.id), "interrupted", t.resp)
                   /\ UNCHANGED <<executed, proc>>
    /\ UNCHANGED <<runtime, signal, lane, disk, responses, sealed, started, finished,
                   enqueued, returned, acked, used>>

(* Mutant: the result of the replay is not recorded. *)
ForgetReplayed(c) ==
    /\ At(c, "replayed") /\ Goto(c, "reconcile")
    /\ UNCHANGED chain /\ Quiet

(* safeReplayTool's append of the real result. *)
WriteReplayed(c) ==
    /\ At(c, "replayed")
    /\ LET t == Head(proc[c].todo)
       IN AppendEntry(c, ResultIdOf(t.id), "result", t.resp)
    /\ Goto(c, "reconcile")
    /\ Quiet

(* Mutant: the resumed run keeps the attempt number of the dead one. *)
SameAttempt(att) == att
(* The live run is attempt 1; the k-th resume writes as attempt k + 1. *)
EntryAttempt(att) == att + 1

(* The transcript is repaired: close the aborted operation, or run again.  *)
Reconciled(c) ==
    /\ At(c, "reconcile") /\ Unanswered(c) = {}
    /\ IF proc[c].outcome = "aborted"
         THEN /\ Goto(c, "abortNote") /\ UNCHANGED <<runtime, signal>>
         ELSE /\ Update(c, [proc[c] EXCEPT !.pc = "input", !.holds = TRUE,
                                           !.att = EntryAttempt(@), !.todo = <<>>])
              /\ runtime' = c /\ signal' = [signal EXCEPT ![c] = FALSE]
    /\ UNCHANGED chain /\ Silent

-----------------------------------------------------------------------------
(* Calls that only append *)

(* abort: with a runtime it only fires the signal; otherwise the request   *)
(* is recorded for a later resume.                                         *)
Abort ==
    /\ used.aborts < MaxAborts
    /\ used' = [used EXCEPT !.aborts = @ + 1]
    /\ \/ /\ runtime # None
          /\ signal' = [signal EXCEPT ![runtime] = TRUE]
          /\ acked' = acked \cup {proc[runtime].op}
          /\ UNCHANGED chain
       \/ /\ runtime = None /\ lane.op # None
          /\ AppendRecord("api", [kind |-> "abort_requested", op |-> lane.op])
          /\ UNCHANGED <<signal, acked>>
    /\ UNCHANGED <<lane, proc, runtime, disk, responses, executed, sealed, started, finished,
                   enqueued, returned>>

(* steer, followUp, nextRun: steer requires a running operation. *)
Enqueue(queue) ==
    /\ queue \in Features /\ used.items < MaxItems
    /\ queue = "steer" => LiveStatus \in {"running", "aborting"}
    /\ used' = [used EXCEPT !.items = @ + 1]
    /\ AppendRecord("api", [kind |-> "queue_enqueued", queue |-> queue, item |-> used.items + 1])
    /\ UNCHANGED <<lane, proc, runtime, signal, disk, responses, executed, sealed, started,
                   finished, enqueued, returned, acked>>

DeferWrite ==
    /\ "deferWrite" \in Features /\ used.items < MaxItems
    /\ used' = [used EXCEPT !.items = @ + 1]
    /\ AppendRecord("api", [kind |-> "write_deferred", entry |-> WriteId(used.items + 1)])
    /\ UNCHANGED <<lane, proc, runtime, signal, disk, responses, executed, sealed, started,
                   finished, enqueued, returned, acked>>

-----------------------------------------------------------------------------
Start(c) == Prompt(c) \/ Drain(c) \/ Compact(c) \/ Navigate(c)

(* What a call does between its start and its return. *)
Drive(c) ==
    \/ BeforeRun(c) \/ ApplyCompaction(c) \/ NavigateStart(c) \/ NavigateMove(c)
    \/ MaterialiseInput(c) \/ LoopTop(c) \/ CheckpointWrites(c) \/ CheckpointRead(c)
    \/ CheckpointSteer(c) \/ Ask(c) \/ CutOff(c) \/ Defer(c) \/ Answer(c)
    \/ RecordTool(c) \/ ExecuteTool(c)
    \/ FlushAssistant(c) \/ WriteResult(c) \/ StepEnd(c) \/ RoundEnd(c) \/ Park(c)
    \/ AbortNote(c) \/ AbortRead(c) \/ AbortWrites(c) \/ Finish(c) \/ Release(c)
    \/ Resumed(c) \/ Redeem(c) \/ EnsureAssistant(c) \/ Reconcile(c)
    \/ WriteReplayed(c) \/ Reconciled(c)

Next ==
    \/ \E c \in Callers : Start(c) \/ Resume(c) \/ Drive(c)
    \/ Abort \/ DeferWrite \/ Commit \/ Crash
    \/ \E queue \in Queues : Enqueue(queue)

Spec == Init /\ [][Next]_vars

(* Appends resolve, awaits resume, and the host resumes what is suspended. *)
FairSpec ==
    /\ Spec
    /\ WF_vars(Commit)
    /\ \A c \in Callers : WF_vars(Drive(c)) /\ WF_vars(Resume(c))

-----------------------------------------------------------------------------
(* Properties *)

Labels == {"idle", "beforeRun", "compact", "navigate", "move", "input", "top", "writes",
           "readSteer", "steer", "ask", "model", "toolStarted", "execute", "assistant", "result",
           "stepEnd", "roundEnd", "park", "abortNote", "abortRead", "abortWrites", "finish",
           "release", "resumed", "redeem", "ensure", "reconcile", "replayed"}

(* Type invariant; the attempts counted on disk never pass their maximum.  *)
TypeOK ==
    /\ lane.status \in {"idle", "running", "suspended", "aborting"}
    /\ lane.op \in {None} \cup 1..Len(ops) /\ durable.op \in {None} \cup 1..Len(ops)
    /\ Len(ops) <= MaxOps /\ responses <= MaxResponses
    /\ runtime \in Callers \cup {None}
    /\ \A c \in Callers : /\ proc[c].pc \in Labels /\ signal[c] \in BOOLEAN
                         /\ proc[c].op \in 0..Len(ops)
    /\ started \subseteq 1..Len(ops)
    /\ lane.attempts \in 0..MaxAttempts /\ durable.attempts \in 0..MaxAttempts

FinishedOps == { finished[i][1] : i \in DOMAIN finished }

(* An accepted operation without an outcome is the lane's open operation,  *)
(* so a resume will find it ("one open operation at a time",               *)
(* LaneStateReducer).                                                      *)
AcceptedIsOpen == \A op \in started : op \in FinishedOps \/ durable.op = op

(* Live appends and restore reduce to the same lane: the two never drift   *)
(* apart (lane-state.ts). Only the status tells a live lane from a         *)
(* restored one.                                                           *)
LiveMatchesJournal ==
    [lane EXCEPT !.status = "any"] = [durable EXCEPT !.status = "any"]

(* A pre-allocated id is written once, however often the append is         *)
(* retried: inputs, queue items, deferred writes and results never repeat. *)
EntriesUnique ==
    \A i, j \in DOMAIN entries : entries[i].id = entries[j].id => i = j

(* A tool with side effects runs at most once per call, and none runs      *)
(* without its intent on disk, across any crashes and resumes.             *)
SideEffectsAtMostOnce ==
    \A r \in DOMAIN executed :
        executed[r] > 0 =>
            \E t \in toolLog : t.resp = r /\ (t.replay = "never" => executed[r] = 1)

(* A replayable tool runs again only because a crash interrupted it.       *)
ReplayedOncePerCrash == \A r \in DOMAIN executed : executed[r] <= 1 + used.crashes

IsMessage(i) == entries[i].what \notin {"deferred", "moved"}

(* The next message of the transcript after entry i is entry j. *)
NextMessage(i, j) == IsMessage(j) /\ \A k \in (i + 1)..(j - 1) : ~IsMessage(k)

(* Whenever the model is called, every tool call of the transcript is      *)
(* followed by its own result, and every tool this operation started is in *)
(* the transcript: the provider rejects unanswered and ownerless results.  *)
TranscriptPaired ==
    \A c \in Callers :
        proc[c].pc = "model" =>
            /\ \A i \in DOMAIN entries :
                 entries[i].what = "call" =>
                     \E j \in (i + 1)..Len(entries) :
                         /\ NextMessage(i, j)
                         /\ entries[j].id = ResultIdOf(entries[i].id)
                         /\ entries[j].tok = entries[i].tok
            /\ \A t \in toolLog :
                 t.id.op = proc[c].op => InTree(t.id) /\ InTree(ResultIdOf(t.id))

(* What an abort hands back was not consumed: redelivering it cannot       *)
(* inject it twice (finishAbortedOperation, deadQueuePayloads).            *)
ReturnedNotConsumed == \A i \in returned : ~InTree(ItemId(i))

Known(queue, i) ==
    \/ InTree(ItemId(i)) \/ i \in returned
    \/ \E k \in DOMAIN durable.queues[queue] : durable.queues[queue][k] = i

(* A nextRun item stays queued or consumed across aborts and crashes. *)
NextRunSurvives == \A x \in enqueued : x[1] = "nextRun" => Known("nextRun", x[2])

(* The same for followUp, where an abort hands the items back.             *)
FollowUpAccounted ==
    \A x \in enqueued : x[1] = "followUp" =>
        Known("followUp", x[2]) \/ \E c \in Callers : x[2] \in proc[c].dead

(* Steer items die with the operation they were meant for: after an        *)
(* operation finished, a lane at rest has no steer item left over.         *)
SteerDiesWithOperation ==
    FinishedOps # {} /\ lane.status = "idle" /\ runtime = None => lane.queues["steer"] = <<>>

(* Every answer of the model whose step ended is in the tree. *)
ResponsesRecorded ==
    \A r \in sealed : \E i \in DOMAIN entries :
        entries[i].what \in {"text", "call"} /\ entries[i].tok = r

(* A finished operation leaves no tool call without a result. *)
NoToolLeftDangling ==
    \A t \in toolLog : t.id.op \in FinishedOps => InTree(ResultIdOf(t.id))

(* A compaction that reports completion has written its entry. *)
CompactionTakesEffect ==
    \A i \in DOMAIN finished :
        ops[finished[i][1]].kind = "compaction" /\ finished[i][2] = "completed"
            => InTree(CompactionId(finished[i][1]))

Asks(c) == proc[c].pc = "ask" /\ proc'[c].pc = "model"

(* Once an abort is acknowledged, its operation asks the model nothing.    *)
AbortHonoured == [][\A c \in Callers : Asks(c) => proc[c].op \notin acked]_vars

(* A redeemed answer ends the run: the model is not asked again on top of  *)
(* it, even if a crash precedes the end of the operation.                  *)
RedeemedOnce == [][\A c \in Callers : Asks(c) => LeafWhat # "ready"]_vars

(* Each accepted operation gets an outcome, provided the host resumes what *)
(* is suspended: attempts are counted on disk and run out.                 *)
EveryOperationFinishes ==
    \A op \in 1..MaxOps : op \in started ~> op \in FinishedOps

(* The lane implements Operations: acceptance and outcome are the commits  *)
(* of operation_started and operation_finished.                            *)
Outcomes == {"completed", "aborted", "failed", "declined"}
LastOutcome(op) ==
    CHOOSE o \in Outcomes :
        \E i \in DOMAIN finished :
            finished[i] = <<op, o>> /\ \A j \in DOMAIN finished : finished[j][1] = op => j <= i
OpenNow == started \ FinishedOps
OpenOp == IF OpenNow = {} THEN None ELSE CHOOSE op \in OpenNow : TRUE
OutcomeNow == [op \in 1..MaxOps |-> IF op \in FinishedOps THEN LastOutcome(op) ELSE None]
Abstract == INSTANCE Operations WITH
    Ops <- 1..MaxOps, NoOp <- None, open <- OpenOp, outcome <- OutcomeNow
OneOperationAtATime == Abstract!Spec
=============================================================================
