------------------------------ MODULE TurnFlow ------------------------------
(* The turn engine of an agent (agent/turn/index.ts) with the loop it runs *)
(* (loop/run-turn.ts, loop/turn-step.ts), over the shared context and its  *)
(* compactions.  A turn is a worker that goes on unwinding after cancel()  *)
(* has forgotten it, while the next turn already runs.                     *)
EXTENDS FullCompaction

CONSTANTS
  Features,    \* what the clients of the agent do: "userPrompt", "steer",
               \* "cancel", "manual", "clear", "mask", "tool", "overflow",
               \* "fail", "stopHook", "promptHook"; "crash": the process dies
  ClientWaits, \* a client launches nothing before the last turn has ended
  MaxTurns,    \* bound: turns launched
  MaxSteps,    \* loopControl.maxStepsPerTurn
  MaxSteers    \* bound: steers accepted while a turn is active

ASSUME TurnBounds == /\ MaxTurns \in Nat /\ MaxSteps \in Nat \ {0}
                     /\ MaxSteers \in Nat /\ ClientWaits \in BOOLEAN

VARIABLES
  turnId,       \* turnId: 0 before the first turn
  activeTurn,   \* activeTurn: the turn whose controller cancel() aborts
  turn,         \* the turn workers, by turn
  steerBuffer,  \* steerBuffer
  steers        \* bound: steers accepted so far

tvars == <<turnId, activeTurn, turn, steerBuffer, steers>>
vars == <<cvars, tvars>>

Turns == 1 .. MaxTurns

\* Where a worker waits: for the UserPromptSubmit hook, the first load of
\* the MCP servers, a compaction (before a step, or before the retry of a
\* request that overflowed), the injections, the model, a tool, the record of
\* its result, the Stop hook; "loop" and "stop" are the awaits between steps.
Places == {"none", "promptHook", "load", "loop", "blocked", "overflow",
           "inject", "chat", "tools", "seal", "stop", "stopHook", "ended"}

Outcomes == {"none", "completed", "cancelled", "failed", "orphaned", "crashed"}

\* step: steps of the current call of runTurn; serial: steps of the turn;
\* on: the compaction it is blocked on; heard: the answer has been recorded;
\* stopUsed: stopHookContinuationUsed.
NoTurn == [pc |-> "none", aborted |-> FALSE, step |-> 0, serial |-> 0,
           on |-> None, heard |-> FALSE, stopUsed |-> FALSE, outcome |-> "none"]

TypeOK ==
  /\ CompactionTypeOK
  /\ turnId \in 0 .. MaxTurns
  /\ activeTurn \in Turns \cup {None}
  /\ \A t \in Turns : /\ turn[t].pc \in Places
                      /\ turn[t].step \in 0 .. MaxSteps
                      /\ turn[t].on \in Compactions \cup {None}
                      /\ turn[t].outcome \in Outcomes
  /\ Len(steerBuffer) <= MaxSteers

Init ==
  /\ CompactionInit
  /\ turnId = 0
  /\ activeTurn = None
  /\ turn = [t \in Turns |-> NoTurn]
  /\ steerBuffer = <<>>
  /\ steers = 0

Live(t) == turn[t].pc \notin {"none", "ended"}
StepName(t) == <<t, turn[t].serial>>
Go(t, place) == turn' = [turn EXCEPT ![t].pc = place]

-----------------------------------------------------------------------------
(* The client of the agent.                                                *)

\* launch: only when no turn is active.  The count of compactions restarts
\* when the context is below the trigger (resetForTurn).
Launch(m) ==
  /\ activeTurn = None
  /\ turnId < MaxTurns
  /\ ClientWaits => \A t \in Turns : ~Live(t)
  /\ turnId' = turnId + 1
  /\ activeTurn' = turnId + 1
  /\ autoCount' \in {0, autoCount}
  /\ ctx' = FoldAppendMessage(ctx, m)
  /\ turn' = [turn EXCEPT ![turnId + 1] =
       [NoTurn EXCEPT !.pc = IF m.kind = "prompt" THEN "promptHook" ELSE "load"]]
  /\ UNCHANGED <<compacting, comp, steerBuffer>>

Prompt ==
  /\ "userPrompt" \in Features
  /\ Launch(Message("prompt", turnId + 1, 0))
  /\ UNCHANGED steers

\* steer with an active turn: buffered until the worker looks.
SteerBuffered ==
  /\ "steer" \in Features
  /\ activeTurn # None
  /\ steers < MaxSteers
  /\ steers' = steers + 1
  /\ steerBuffer' = Append(steerBuffer, Message("prompt", 0, steers + 1))
  /\ UNCHANGED <<cvars, turnId, activeTurn, turn>>

\* steer without one (the user, a cron job, a finished background task).
SteerLaunches ==
  /\ "steer" \in Features
  /\ Launch(Message("trigger", turnId + 1, 0))
  /\ UNCHANGED steers

\* cancel, abortTurn
Cancel ==
  /\ "cancel" \in Features
  /\ activeTurn # None
  /\ turn' = [turn EXCEPT ![activeTurn].aborted = TRUE]
  /\ activeTurn' = None
  \* a compaction the turn is blocked on is cancelled by block()'s listener
  /\ IF turn[activeTurn].pc \in {"blocked", "overflow"}
        /\ turn[activeTurn].on = compacting
     THEN comp' = Abort(compacting) /\ compacting' = None
     ELSE UNCHANGED <<comp, compacting>>
  /\ UNCHANGED <<ctx, autoCount, turnId, steerBuffer, steers>>

HostCompacts == /\ "manual" \in Features
                /\ BeginManual \/ CancelCompaction
                /\ UNCHANGED tvars

ClearContext ==
  /\ "clear" \in Features
  /\ Held(ctx) # {}
  /\ ctx' = EmptyContext
  /\ UNCHANGED <<compacting, comp, autoCount, tvars>>

-----------------------------------------------------------------------------
(* turnWorker.                                                             *)

\* Plausible bug: any turn that ends clears activeTurn.
EndsClearsActive(t, outcome) ==
  /\ turn' = [turn EXCEPT ![t] = [NoTurn EXCEPT !.pc = "ended",
                                               !.outcome = outcome]]
  /\ activeTurn' = None
  /\ UNCHANGED <<turnId, steers>>

\* The end of turnWorker: only the turn that is still the latest one clears
\* activeTurn.
Ends(t, outcome) ==
  /\ turn' = [turn EXCEPT ![t] = [NoTurn EXCEPT !.pc = "ended",
                                               !.outcome = outcome]]
  /\ activeTurn' = IF turnId = t THEN None ELSE activeTurn
  /\ UNCHANGED <<turnId, steers>>

\* Plausible bug: the tools of a cancelled turn are abandoned with it.
UnwindLeavesTools(t) ==
  /\ turn[t].aborted
  /\ \/ turn[t].pc \in {"promptHook", "load", "loop", "inject", "chat", "tools",
                        "seal", "stopHook"}
     \/ turn[t].pc = "stop" /\ steerBuffer = <<>>
  /\ Ends(t, "cancelled")
  /\ UNCHANGED <<cvars, steerBuffer>>

\* Every wait on the signal ends, and throwIfAborted follows it.
Unwind(t) ==
  /\ turn[t].aborted
  /\ \/ turn[t].pc \in {"promptHook", "load", "loop", "inject", "chat", "seal",
                        "stopHook"}
     \/ turn[t].pc = "stop" /\ steerBuffer = <<>>
  /\ Ends(t, "cancelled")
  /\ UNCHANGED <<cvars, steerBuffer>>

\* applyUserPromptHook
PromptHook(t) ==
  /\ turn[t].pc = "promptHook"
  /\ ~turn[t].aborted
  /\ \/ /\ Go(t, "load")
        /\ UNCHANGED <<ctx, activeTurn, turnId, steers>>
     \/ /\ "promptHook" \in Features
        /\ ctx' = FoldAppendMessage(MarkLastUserPromptBlocked(ctx),
                                    Message("notice", t, 0))
        /\ Ends(t, "completed")
  /\ UNCHANGED <<compacting, comp, autoCount, steerBuffer>>

\* mcp.waitForInitialLoad
Load(t) ==
  /\ turn[t].pc = "load"
  /\ ~turn[t].aborted
  /\ Go(t, "loop")
  /\ UNCHANGED <<cvars, turnId, activeTurn, steerBuffer, steers>>

\* The head of the loop up to the first wait of beforeStep: the steers are
\* flushed, tool results masked, and when the context is over the trigger
\* (which is also the limit that blocks) a compaction is begun or joined.
BeginStep(t) ==
  /\ turn[t].pc = "loop"
  /\ ~turn[t].aborted
  /\ turn[t].step < MaxSteps
  /\ \E masks \in {FALSE, "mask" \in Features}, over \in BOOLEAN :
       LET flushed == AppendAll(ctx, steerBuffer)
           seen == IF masks THEN MaskTools(flushed) ELSE flushed
       IN  /\ ctx' = seen
           /\ \/ /\ ~over
                 /\ turn' = [turn EXCEPT ![t].pc = "inject", ![t].step = @ + 1]
                 /\ UNCHANGED <<compacting, comp, autoCount, turnId, activeTurn, steers>>
              \/ /\ over /\ compacting = None /\ autoCount = MaxAuto
                 /\ Ends(t, "failed")
                 /\ UNCHANGED <<compacting, comp, autoCount>>
              \/ /\ over /\ (compacting # None \/ autoCount # MaxAuto)
                 /\ IF compacting = None THEN BeginAuto(seen)
                    ELSE UNCHANGED <<compacting, comp, autoCount>>
                 /\ turn' = [turn EXCEPT
                      ![t].pc = IF compacting' = None THEN "inject" ELSE "blocked",
                      ![t].on = compacting',
                      ![t].step = @ + 1]
                 /\ UNCHANGED <<turnId, activeTurn, steers>>
  /\ steerBuffer' = <<>>

\* createMaxStepsExceededError
TooManySteps(t) ==
  /\ turn[t].pc = "loop"
  /\ ~turn[t].aborted
  /\ turn[t].step = MaxSteps
  /\ Ends(t, "failed")
  /\ UNCHANGED <<cvars, steerBuffer>>

\* Plausible bug: a turn waits for a compaction to complete, not to end.
UnblockWhenApplied(t) ==
  /\ turn[t].pc \in {"blocked", "overflow"}
  /\ comp[turn[t].on].pc = "applied"
  /\ turn' = [turn EXCEPT ![t].pc = IF @ = "blocked" THEN "inject" ELSE "loop",
                          ![t].step = IF turn[t].pc = "blocked" THEN @ ELSE 0,
                          ![t].on = None]
  /\ UNCHANGED <<cvars, turnId, activeTurn, steerBuffer, steers>>

\* block() returns when the compaction's promise has resolved.
Unblock(t) ==
  /\ turn[t].pc \in {"blocked", "overflow"}
  /\ Resolved(turn[t].on)
  /\ turn' = [turn EXCEPT ![t].pc = IF @ = "blocked" THEN "inject" ELSE "loop",
                          ![t].step = IF turn[t].pc = "blocked" THEN @ ELSE 0,
                          ![t].on = None]
  /\ UNCHANGED <<cvars, turnId, activeTurn, steerBuffer, steers>>

\* The messages are built and step.begin recorded.
SendRequest(t) ==
  /\ turn[t].pc = "inject"
  /\ ~turn[t].aborted
  /\ turn' = [turn EXCEPT ![t].pc = "chat", ![t].serial = @ + 1,
                          ![t].heard = FALSE]
  /\ ctx' = FoldStepBegin(ctx, <<t, turn[t].serial + 1>>)
  /\ UNCHANGED <<compacting, comp, autoCount, turnId, activeTurn, steerBuffer, steers>>

StepIsOpen(t) == StepName(t) \in ctx.open

Chatting(t) == turn[t].pc = "chat" /\ ~turn[t].aborted

\* A finished part of the answer is recorded.
ContentPart(t) ==
  /\ Chatting(t)
  /\ StepIsOpen(t)
  /\ ~turn[t].heard
  /\ ctx' = FoldContentPart(ctx, StepName(t))
  /\ turn' = [turn EXCEPT ![t].heard = TRUE]
  /\ UNCHANGED <<compacting, comp, autoCount, turnId, activeTurn, steerBuffer, steers>>

\* The answer asks for a tool.
ToolCall(t) ==
  /\ "tool" \in Features
  /\ Chatting(t)
  /\ StepIsOpen(t)
  /\ ctx' = FoldToolCall(ctx, StepName(t))
  /\ Go(t, "tools")
  /\ UNCHANGED <<compacting, comp, autoCount, turnId, activeTurn, steerBuffer, steers>>

\* content.part or tool.call for a step that is no longer open throws.
OrphanedPart(t) ==
  /\ Chatting(t)
  /\ ~StepIsOpen(t)
  /\ Ends(t, "orphaned")
  /\ UNCHANGED <<cvars, steerBuffer>>

\* The answer is complete: step.end, afterStep.
ChatEnds(t) ==
  /\ Chatting(t)
  /\ turn[t].heard
  /\ ctx' = FoldStepEnd(ctx, StepName(t))
  /\ Go(t, "stop")
  /\ UNCHANGED <<compacting, comp, autoCount, turnId, activeTurn, steerBuffer, steers>>

\* The provider refuses the request as too long: handleOverflowError.
ChatOverflows(t) ==
  /\ "overflow" \in Features
  /\ Chatting(t)
  /\ IF compacting # None
     THEN /\ turn' = [turn EXCEPT ![t].pc = "overflow", ![t].on = compacting]
          /\ UNCHANGED <<cvars, turnId, activeTurn, steers>>
     ELSE \/ /\ autoCount < MaxAuto
             /\ BeginAuto(ctx)
             /\ compacting' # None
             /\ turn' = [turn EXCEPT ![t].pc = "overflow", ![t].on = compacting']
             /\ UNCHANGED <<ctx, turnId, activeTurn, steers>>
          \/ Ends(t, "failed") /\ UNCHANGED cvars
  /\ UNCHANGED steerBuffer

ChatFails(t) ==
  /\ "fail" \in Features
  /\ Chatting(t)
  /\ Ends(t, "failed")
  /\ UNCHANGED <<cvars, steerBuffer>>

\* tool.result; an aborted batch records its results too (ToolBatch).
ToolResult(t) ==
  /\ turn[t].pc = "tools"
  /\ ctx' = FoldToolResult(ctx, StepName(t))
  /\ Go(t, "seal")
  /\ UNCHANGED <<compacting, comp, autoCount, turnId, activeTurn, steerBuffer, steers>>

\* offloadToolResult, which the record of the result awaits.
OffloadResult(t) ==
  /\ "mask" \in Features
  /\ turn[t].pc = "seal"
  /\ ctx' = Offload(ctx, StepName(t))
  /\ ctx' # ctx
  /\ UNCHANGED <<compacting, comp, autoCount, tvars>>

\* step.end of a tool step; a tool may ask for the end of the turn.
SealStep(t) ==
  /\ turn[t].pc = "seal"
  /\ ~turn[t].aborted
  /\ ctx' = FoldStepEnd(ctx, StepName(t))
  /\ \E place \in {"loop", "stop"} : Go(t, place)
  /\ UNCHANGED <<compacting, comp, autoCount, turnId, activeTurn, steerBuffer, steers>>

\* shouldContinueAfterStop: a steer continues the turn; the buffer is looked
\* at before the signal.
StopFlushes(t) ==
  /\ turn[t].pc = "stop"
  /\ steerBuffer # <<>>
  /\ ctx' = AppendAll(ctx, steerBuffer)
  /\ steerBuffer' = <<>>
  /\ Go(t, "loop")
  /\ UNCHANGED <<compacting, comp, autoCount, turnId, activeTurn, steers>>

StopAsks(t) ==
  /\ turn[t].pc = "stop"
  /\ steerBuffer = <<>>
  /\ ~turn[t].aborted
  /\ IF turn[t].stopUsed \/ "stopHook" \notin Features
     THEN Ends(t, "completed")
     ELSE Go(t, "stopHook") /\ UNCHANGED <<turnId, activeTurn, steers>>
  /\ UNCHANGED <<cvars, steerBuffer>>

StopHook(t) ==
  /\ turn[t].pc = "stopHook"
  /\ ~turn[t].aborted
  /\ \/ Ends(t, "completed") /\ UNCHANGED ctx
     \/ /\ turn' = [turn EXCEPT ![t].pc = "loop", ![t].stopUsed = TRUE]
        /\ ctx' = FoldAppendMessage(ctx, Message("trigger", t, turn[t].serial))
        /\ UNCHANGED <<activeTurn, turnId, steers>>
  /\ UNCHANGED <<compacting, comp, autoCount, steerBuffer>>

\* The process dies and the session is resumed: the records of the context
\* are folded again, an open tool call included, and nothing of the workers,
\* the current compaction or the buffer comes back (wire.restore,
\* syncFromWire, finishResume).  The restored count of compactions is that
\* of the records, which the resets between turns are not.
Crash ==
  /\ "crash" \in Features
  /\ \E t \in Turns : Live(t)
  /\ \A t \in Turns : turn[t].outcome # "crashed"   \* bound: one crash
  /\ turn' = [t \in Turns |->
       IF Live(t) THEN [NoTurn EXCEPT !.pc = "ended", !.outcome = "crashed"]
                  ELSE turn[t]]
  /\ comp' = [k \in Compactions |->
       IF Running(k) THEN Gone("ended") ELSE comp[k]]
  /\ autoCount' \in autoCount .. MaxAuto
  /\ compacting' = None
  /\ activeTurn' = None
  /\ steerBuffer' = <<>>
  /\ ctx' = Refolded(ctx)
  /\ UNCHANGED <<turnId, steers>>

TurnStep(t) ==
  \/ Unwind(t) \/ PromptHook(t) \/ Load(t) \/ BeginStep(t) \/ TooManySteps(t)
  \/ Unblock(t) \/ SendRequest(t) \/ ContentPart(t) \/ ToolCall(t)
  \/ OrphanedPart(t) \/ ChatEnds(t) \/ ChatOverflows(t) \/ ChatFails(t)
  \/ ToolResult(t) \/ OffloadResult(t) \/ SealStep(t) \/ StopFlushes(t) \/ StopAsks(t) \/ StopHook(t)

CompactionStep(k) == Worker(k) /\ UNCHANGED tvars

Next ==
  \/ Prompt \/ SteerBuffered \/ SteerLaunches \/ Cancel \/ HostCompacts
  \/ ClearContext \/ Crash
  \/ \E t \in Turns : TurnStep(t)
  \/ \E k \in Compactions : CompactionStep(k)

Spec == Init /\ [][Next]_vars

\* The event loop resumes every worker whose wait is over; hooks, tools and
\* providers answer, time out or observe the signal.
FairSpec == /\ Spec
            /\ \A t \in Turns : WF_vars(TurnStep(t))
            /\ \A k \in Compactions : WF_vars(CompactionStep(k))

-----------------------------------------------------------------------------
(* Properties.                                                             *)

\* Two turns never drive the agent at once: every worker but the active
\* turn's has been aborted, whatever the order in which cancelled workers
\* unwind and new turns are launched (abortTurn, and the currentId test at
\* the end of turnWorker).
OneLiveTurn ==
  \A t \in Turns : Live(t) /\ ~turn[t].aborted => activeTurn = t

\* A message, and a steer still in the buffer, by its identity.
Told(ms) == {[m EXCEPT !.rev = 0] : m \in ms}
Kept == Told(Held(ctx) \cup ToSet(steerBuffer))

\* Nothing said leaves the context except in a clear or when a compaction
\* whose summary covers it is applied, although the history changes while
\* the summary is written, steers wait in a buffer across cancellations and
\* the process may die; only the buffer itself dies with it.
ForgetsOnlySummarised ==
  [][ \/ ctx'.history = <<>>
      \/ Crash /\ Told(Held(ctx)) \subseteq Told(Held(ctx'))
      \/ \A m \in Kept \ Kept' :
           \E k \in Compactions :
             /\ comp[k].pc # "applied" /\ comp'[k].pc = "applied"
             /\ \E i \in 1 .. comp[k].count :
                  [comp[k].snap[i] EXCEPT !.rev = 0] = m ]_vars

\* A compaction that was cancelled, or is not the current one, never rewrites
\* the history: at most the current one completes.
OnlyCurrentApplies ==
  [][ \A k \in Compactions :
        comp[k].pc # "applied" /\ comp'[k].pc = "applied"
          => compacting = k /\ ~comp[k].aborted ]_vars

\* Every turn ends, also one that is cancelled while it is blocked on a
\* compaction, waits for a tool, or has been superseded.
TurnEnds == \A t \in Turns : Live(t) ~> ~Live(t)

\* Messages deferred behind an open tool call reach the history: no turn
\* ends leaving a call that would hold back every later message.
DeferredFlushed == ctx.deferred # <<>> ~> ctx.deferred = <<>>

\* "Received content_part for unknown step_uuid" (wire-fold.ts): an answer
\* never finds its own step closed by something else.
NoOrphanedStep == \A t \in Turns : turn[t].outcome # "orphaned"

\* Nothing comes between a tool call and its result, which is what deferring
\* messages is for (the comment on pendingToolResultIds in wire-fold.ts).
ToolRunsContiguous ==
  \A i \in DOMAIN ctx.history :
    LET h == ctx.history
    IN  h[i].kind = "tool" =>
          i > 1 /\ h[i - 1].kind \in {"assistant", "tool"}
                /\ StepOf(h[i - 1]) = StepOf(h[i])

\* A steer accepted while a turn runs is part of that turn (keyboard.md:
\* "inject the current input into the running turn immediately").
SteerJoinsRunningTurn ==
  steerBuffer # <<>> => \E t \in Turns : Live(t)

=============================================================================
