------------------------------ MODULE LaneState ------------------------------
(***************************************************************************)
(* The lane reducer (harness/lane-state.ts): one execution-log record, one *)
(* transition.  Live appends and restore run the same reducer, so it is a  *)
(* pure operator here.  Payloads are abstracted to what the reducer keeps. *)
(***************************************************************************)
EXTENDS Integers, Sequences, SequencesExt

CONSTANT None

Queues == {"steer", "followUp", "nextRun"}

InitLane ==
    [ status |-> "idle", op |-> None, kind |-> None, abortRequested |-> FALSE,
      attempts |-> 0, maxAttempts |-> 0, dangling |-> <<>>,
      queues |-> [q \in Queues |-> <<>>] ]

(* One operator per record kind. A record for an operation that is not the *)
(* open one is ignored.                                                    *)
OperationStarted(lane, r) ==
    IF lane.op # None THEN lane
    ELSE [lane EXCEPT !.status = "running", !.op = r.op, !.kind = r.opKind,
                      !.abortRequested = FALSE, !.attempts = 0, !.maxAttempts = 0,
                      !.dangling = <<>>]

AbortRequested(lane, r) ==
    IF lane.op = None \/ lane.op # r.op THEN lane
    ELSE [lane EXCEPT !.status = "aborting", !.abortRequested = TRUE]

(* Mutant: an abort also clears the nextRun queue. *)
FinishedClearsAll(lane, r) ==
    IF lane.op = None \/ lane.op # r.op THEN lane
    ELSE [lane EXCEPT !.status = "idle", !.op = None, !.kind = None,
                      !.abortRequested = FALSE, !.attempts = 0, !.maxAttempts = 0,
                      !.dangling = <<>>,
                      !.queues = [q \in Queues |->
                          IF r.outcome = "aborted" \/ q = "steer" THEN <<>> ELSE lane.queues[q]]]

OperationFinished(lane, r) ==
    IF lane.op = None \/ lane.op # r.op THEN lane
    ELSE [lane EXCEPT !.status = "idle", !.op = None, !.kind = None,
                      !.abortRequested = FALSE, !.attempts = 0, !.maxAttempts = 0,
                      !.dangling = <<>>,
                      !.queues.steer = <<>>,
                      !.queues.followUp = IF r.outcome = "aborted" THEN <<>> ELSE @]

ToolStarted(lane, r) ==
    IF lane.op = None THEN lane
    ELSE [lane EXCEPT !.dangling = Append(@, r.tool)]

QueueEnqueued(lane, r) == [lane EXCEPT !.queues[r.queue] = Append(@, r.item)]

(* Mutant: the counter starts over in every process. *)
AttemptNotCounted(lane, r) == lane

TaskAttempt(lane, r) ==
    IF lane.op = None \/ lane.op # r.op THEN lane
    ELSE [lane EXCEPT !.attempts = IF r.attempt > @ THEN r.attempt ELSE @,
                      !.maxAttempts = IF r.maxAttempts > @ THEN r.maxAttempts ELSE @]

(* LaneStateReducer.apply; write_deferred leaves the lane alone. *)
ApplyRecord(lane, r) ==
    CASE r.kind = "operation_started"  -> OperationStarted(lane, r)
      [] r.kind = "abort_requested"    -> AbortRequested(lane, r)
      [] r.kind = "operation_finished" -> OperationFinished(lane, r)
      [] r.kind = "tool_started"       -> ToolStarted(lane, r)
      [] r.kind = "queue_enqueued"     -> QueueEnqueued(lane, r)
      [] r.kind = "task_attempt"       -> TaskAttempt(lane, r)
      [] r.kind = "write_deferred"     -> lane

(* Mutant: a restored operation forgets the tools it had started. *)
RestoreForgetsTools(lane) ==
    IF lane.status = "running" THEN [lane EXCEPT !.status = "suspended", !.dangling = <<>>] ELSE lane

(* finishRestore: an operation left open by the dead process is suspended; *)
(* one that was being aborted stays so.                                    *)
FinishRestore(lane) ==
    IF lane.status = "running" THEN [lane EXCEPT !.status = "suspended"] ELSE lane
=============================================================================
