------------------------------ MODULE ToolBatch ------------------------------
(***************************************************************************)
(* The tool calls of one provider response: runToolCallBatch               *)
(* (loop/tool-call.ts) driving a ToolScheduler (loop/tool-scheduler.ts).   *)
(*                                                                         *)
(* Calls are numbered in provider order.  The batch prepares them one at a *)
(* time: hooks decide what becomes of the call, the tool.call event is     *)
(* dispatched (an await), then a task is handed to the scheduler.          *)
(* Scheduled tasks run concurrently with the preparation of later calls    *)
(* and with an abort; results are emitted in provider order.               *)
(*                                                                         *)
(* The scheduler's queue is a set: add() is called in provider order and   *)
(* startQueuedTasks preserves the order, so the tasks queued before a task *)
(* are the queued tasks of smaller index.  A task's promise resolution and *)
(* its finish() are one step: finish runs in the microtask right after the *)
(* resolution, before any awaiting consumer.                               *)
(***************************************************************************)
EXTENDS ToolAccess, FiniteSets

CONSTANTS
    NumCalls,      \* tool calls in the response
    AccessChoices  \* the declarations (sets of accesses) a tool may make

ASSUME NumCallsAssumption == NumCalls \in Nat \ {0}

Calls == 1..NumCalls

(* What preparation makes of a call.                                       *)
(*   run       an execution was resolved: the tool will be executed        *)
(*   resolved  rejected, blocked, hook failed: an error result is ready    *)
(*   stop      a ready error result that stops the turn                    *)
(*   dedup     duplicate of an earlier call of the step: neither event     *)
Outcomes == {"run", "resolved", "stop", "dedup"}

VARIABLES
    pc,         \* prepare | announced | drain | unwind | returned | threw
    next,       \* the call being prepared
    outcome,    \* [Calls -> Outcomes \cup {"none"}]
    access,     \* [Calls -> declared accesses; {} for a resolved task]
    stopped,    \* stopBatchAfterThis was seen: the rest is skipped
    aborted,    \* the step's AbortSignal
    queued,     \* ToolScheduler.queuedTasks
    active,     \* ToolScheduler.activeTasks
    settled,    \* tasks whose result promise has settled
    executing,  \* tools whose side effects are in progress
    pendingResults, \* the calls handed to the scheduler, in the order of the handing
    announced,  \* tool.call events dispatched so far
    results     \* tool.result events dispatched so far

vars == <<pc, next, outcome, access, stopped, aborted, queued, active,
          settled, executing, pendingResults, announced, results>>

batchVars == <<pc, next, outcome, access, stopped, pendingResults, announced, results>>

TypeOK ==
    /\ pc \in {"prepare", "announced", "drain", "unwind", "returned", "threw"}
    /\ next \in 1..(NumCalls + 1)
    /\ pc \in {"prepare", "announced"} => next \in Calls
    /\ outcome \in [Calls -> Outcomes \cup {"none"}]
    /\ access \in [Calls -> AccessChoices \cup {{}}]
    /\ stopped \in BOOLEAN /\ aborted \in BOOLEAN
    /\ queued \subseteq Calls /\ active \subseteq Calls
    /\ settled \subseteq Calls /\ executing \subseteq Calls
    /\ pendingResults \in Seq(Calls) /\ announced \in Seq(Calls) /\ results \in Seq(Calls)

Init ==
    /\ pc = "prepare" /\ next = 1
    /\ outcome = [c \in Calls |-> "none"]
    /\ access = [c \in Calls |-> {}]
    /\ stopped = FALSE /\ aborted = FALSE
    /\ queued = {} /\ active = {} /\ settled = {} /\ executing = {}
    /\ pendingResults = <<>> /\ announced = <<>> /\ results = <<>>

-----------------------------------------------------------------------------
(* ToolScheduler *)

ConflictsWithAny(acc, c, candidates) ==
    \E d \in candidates : Conflict(acc[c], acc[d])

(* Mutant: a task is only compared with the active tasks. *)
BlockedByActiveOnly(acc, c, act, queuedBefore) == ConflictsWithAny(acc, c, act)

(* isBlocked: the task conflicts with an active task or with one that was  *)
(* queued before it.                                                       *)
IsBlocked(acc, c, act, queuedBefore) ==
    ConflictsWithAny(acc, c, act) \/ ConflictsWithAny(acc, c, queuedBefore)

(* Mutant: the queue is not scanned when a task finishes. *)
QueueNotScanned(acc, q, act) == q

(* startQueuedTasks scans the queue in order.  When it reaches c, each     *)
(* earlier task is either still queued or has just become active, so c is  *)
(* compared with act and with all of them.                                 *)
StillQueued(acc, q, act) ==
    { c \in q : IsBlocked(acc, c, act, { d \in q : d < c }) }

(* Mutant: the abort check before execution is missing. *)
ExecutableAlways(started) == { c \in started : outcome[c] = "run" }

(* Starting a task runs runRunnableToolCall up to its first await: unless  *)
(* the signal is aborted the tool begins to execute.                       *)
Executable(started) == { c \in started : ~aborted /\ outcome[c] = "run" }

(* A task settles: resolve its promise, finish it, start what it blocked.  *)
SettleTask(c, stillExecuting) ==
    LET act  == active \ {c}
        keep == StillQueued(access, queued, act)
    IN  /\ settled' = settled \cup {c}
        /\ queued' = keep
        /\ active' = act \cup (queued \ keep)
        /\ executing' = stillExecuting \cup Executable(queued \ keep)
        /\ UNCHANGED <<batchVars, aborted>>

(* The task's own promise settles: the tool returned or threw, or there    *)
(* was nothing to execute.                                                 *)
Settle(c) ==
    /\ c \in active
    /\ SettleTask(c, executing \ {c})

(* Mutant: no timer is armed when the signal aborts. *)
NoGraceTimer(c) == FALSE /\ UNCHANGED vars

(* raceExecuteWithGraceTimeout: after an abort the grace timer settles the *)
(* task of a tool that ignores the signal; the tool keeps running.         *)
GraceTimeout(c) ==
    /\ aborted /\ c \in active \cap executing
    /\ SettleTask(c, executing)

(* The execute() promise that lost the race settles, unobserved. *)
LateReturn(c) ==
    /\ c \in executing \ active
    /\ executing' = executing \ {c}
    /\ UNCHANGED <<batchVars, aborted, queued, active, settled>>

-----------------------------------------------------------------------------
(* runToolCallBatch *)

(* Mutant: one call too many is prepared. *)
AfterCallOffByOne(c) == IF c > NumCalls THEN "drain" ELSE "prepare"

AfterCall(c) == IF c = NumCalls THEN "drain" ELSE "prepare"

(* prepareToolCall up to the dispatch of tool.call: the outcome, and for a *)
(* tool that will execute its declared accesses.  After a stopping call    *)
(* the rest is announced and resolved (prepareSkippedToolCall).            *)
Announce(c, kind, acc) ==
    /\ pc = "prepare" /\ c = next
    /\ kind \in Outcomes \ {"dedup"}
    /\ stopped => kind = "resolved"
    /\ kind # "run" => acc = {}
    /\ outcome' = [outcome EXCEPT ![c] = kind]
    /\ access' = [access EXCEPT ![c] = acc]
    /\ announced' = Append(announced, c)
    /\ pc' = "announced"
    /\ UNCHANGED <<next, stopped, aborted, queued, active, settled, executing,
                   pendingResults, results>>

(* A synthetic result with skip: the loop continues with the next call. *)
SkipDuplicate(c) ==
    /\ pc = "prepare" /\ c = next /\ ~stopped
    /\ outcome' = [outcome EXCEPT ![c] = "dedup"]
    /\ next' = c + 1
    /\ pc' = AfterCall(c)
    /\ UNCHANGED <<access, stopped, aborted, queued, active, settled, executing,
                   pendingResults, announced, results>>

(* The dispatch returned: scheduler.add(task), and the promise joins       *)
(* pendingResults.  If the signal was aborted meanwhile, a resolved task   *)
(* replaces the executable one.                                            *)
Schedule(c) ==
    LET acc == IF aborted THEN [access EXCEPT ![c] = {}] ELSE access
        kind == IF aborted /\ outcome[c] = "run" THEN "resolved" ELSE outcome[c]
    IN  /\ pc = "announced" /\ c = next
        /\ access' = acc
        /\ outcome' = [outcome EXCEPT ![c] = kind]
        /\ IF IsBlocked(acc, c, active, queued)
             THEN /\ queued' = queued \cup {c}
                  /\ UNCHANGED <<active, executing>>
             ELSE /\ active' = active \cup {c}
                  /\ executing' = executing \cup Executable({c})
                  /\ UNCHANGED queued
        /\ pendingResults' = Append(pendingResults, c)
        /\ stopped' = (stopped \/ kind = "stop")
        /\ next' = c + 1
        /\ pc' = AfterCall(c)
        /\ UNCHANGED <<aborted, settled, announced, results>>

(* Mutant: results are emitted as the tasks settle. *)
NextResultAnyOrder(c) == c \in settled /\ \A i \in DOMAIN results : results[i] # c

(* The loop over pendingResults awaits them in order. *)
NextResult(c) ==
    /\ Len(results) < Len(pendingResults)
    /\ c = pendingResults[Len(results) + 1]
    /\ c \in settled

EmitResult(c) ==
    /\ pc = "drain" /\ NextResult(c)
    /\ results' = Append(results, c)
    /\ UNCHANGED <<pc, next, outcome, access, stopped, aborted, queued, active,
                   settled, executing, pendingResults, announced>>

(* Dispatching an event throws; the finally block waits for the scheduled tasks.   *)
DispatchFails ==
    /\ pc \in {"prepare", "drain"}
    /\ pc' = "unwind"
    /\ UNCHANGED <<next, outcome, access, stopped, aborted, queued, active,
                   settled, executing, pendingResults, announced, results>>

(* Mutant: the error propagates without waiting for the tasks. *)
UnwindAtOnce == TRUE

(* Promise.allSettled(pendingResults). *)
AllSettled == \A i \in DOMAIN pendingResults : pendingResults[i] \in settled

Return ==
    /\ pc = "drain" /\ results = pendingResults
    /\ pc' = "returned"
    /\ UNCHANGED <<next, outcome, access, stopped, aborted, queued, active,
                   settled, executing, pendingResults, announced, results>>

Throw ==
    /\ pc = "unwind" /\ AllSettled
    /\ pc' = "threw"
    /\ UNCHANGED <<next, outcome, access, stopped, aborted, queued, active,
                   settled, executing, pendingResults, announced, results>>

(* The turn is cancelled; the signal stays aborted. *)
Abort ==
    /\ ~aborted /\ pc \notin {"returned", "threw"}
    /\ aborted' = TRUE
    /\ UNCHANGED <<batchVars, queued, active, settled, executing>>

Next ==
    \/ \E c \in Calls :
         \/ \E kind \in Outcomes, acc \in AccessChoices \cup {{}} : Announce(c, kind, acc)
         \/ SkipDuplicate(c) \/ Schedule(c) \/ EmitResult(c)
         \/ Settle(c) \/ GraceTimeout(c) \/ LateReturn(c)
    \/ DispatchFails \/ Return \/ Throw \/ Abort

Spec == Init /\ [][Next]_vars

(* What the event loop guarantees: hooks, dispatches and awaits resume, a  *)
(* task with nothing to execute settles, the grace timer fires.  Nothing   *)
(* makes a tool return.                                                    *)
BatchStep ==
    \/ \E c \in Calls :
         \/ \E kind \in Outcomes, acc \in AccessChoices \cup {{}} : Announce(c, kind, acc)
         \/ SkipDuplicate(c) \/ Schedule(c) \/ EmitResult(c)
    \/ Return \/ Throw

SettleReady(c) == c \notin executing /\ Settle(c)

FairSpec ==
    /\ Spec
    /\ WF_vars(BatchStep)
    /\ \A c \in Calls : WF_vars(SettleReady(c)) /\ WF_vars(GraceTimeout(c))

-----------------------------------------------------------------------------
Finished == pc \in {"returned", "threw"}

(* Two calls that conflict never execute together, and they execute in     *)
(* provider order, grace timeouts included ("serialize tools whose         *)
(* resource accesses conflict", loop/tool-call.ts).                        *)
ConflictingCallsSerial ==
    \A c, d \in Calls :
        c < d /\ Conflict(access[c], access[d]) /\ d \in executing
            => c \in settled \ executing

(* Every tool.call is answered by one tool.result, in provider order; a    *)
(* batch that returns normally leaves none unanswered.                     *)
ResultsAnswerCalls ==
    /\ Len(results) <= Len(announced)
    /\ \A i \in DOMAIN results : results[i] = announced[i]
    /\ pc = "returned" => Len(results) = Len(announced)

(* When the batch hands control back, by return or by exception, no task   *)
(* is left behind; only a tool that outlived its grace period still runs.  *)
NoDetachedTask ==
    Finished => /\ active = {} /\ queued = {}
                /\ executing # {} => aborted

(* Once the turn is cancelled no tool begins to execute, whatever task a   *)
(* settling one unblocks.                                                  *)
NothingStartsAfterAbort == [][aborted => executing' \subseteq executing]_vars

(* A cancelled batch ends even if every running tool ignores the signal.   *)
AbortEndsBatch == aborted ~> Finished

(* If tools return, the batch ends, aborted or not: no task waits for ever  *)
(* in the queue.                                                           *)
ToolsReturn == \A c \in Calls : WF_vars(Settle(c))
BatchEnds == ToolsReturn => <>Finished

(* Conflict is exact: two calls are serialised if and only if one writes a *)
(* file the other touches, or one of them is not a file access             *)
(* (resourceAccessesConflict and fileAccessesOverlap lose no overlap and   *)
(* invent none).  No state matters: said of the batch before it begins.    *)
ConflictIsInterference ==
    next = 1 /\ pc = "prepare" =>
        \A a, b \in Accesses : Conflict({a}, {b}) <=> Interferes(a, b)
=============================================================================
