--------------------------- MODULE BackgroundTask ---------------------------
(* The background tasks of a session (tools/background/manager.ts) and the  *)
(* notification each one leaves in the conversation (agent/background/      *)
(* index.ts).  A stop, the task's own end, its failure and its deadline     *)
(* compete for one terminal status; every change is written to the task's   *)
(* file through a queue of its own; the process may crash at any point, and *)
(* the next one reads the files back.                                       *)
EXTENDS Naturals, Sequences, FiniteSets

CONSTANTS
  Tasks,       \* task ids
  Agents,      \* the tasks that are promises; the others are processes
  Callers,     \* callers of stop and waitForTerminal
  MaxRunning,  \* options.maxRunningTasks
  MaxWrites,   \* bound: writes in a task's queue before a further update
  MaxCrashes,  \* bound: crashes
  DiskFails    \* writing a task's file may fail

ASSUME BackgroundBounds == /\ Agents \subseteq Tasks
                           /\ MaxRunning \in Nat /\ MaxWrites \in Nat
                           /\ MaxCrashes \in Nat /\ DiskFails \in BOOLEAN

VARIABLES
  task,     \* processes: the TaskEntry of each id
  writes,   \* persistWriteQueue of each task
  disk,     \* tasks/<id>.json: the status in the file
  call,     \* the calls of stop and waitForTerminal
  note,     \* the notification each task has under way
  said,     \* notifications in the conversation, by task
  fresh,    \* tasks whose notification a crash may still take from the journal
  pending,  \* ghosts that markLoadedTasksLost has yet to look at
  resuming, \* Agent.resume runs
  crashes

vars == <<task, writes, disk, call, note, said, fresh, pending, resuming, crashes>>

Terminal == {"completed", "failed", "killed", "lost"}
Active == {"running", "awaiting_approval"}
Status == Terminal \cup Active

\* live: lifecyclePromise has not been settled by the task itself;
\* exit: the exit code is known; fired: terminalFired.
NoTask == [status |-> "none", live |-> FALSE, stopRequested |-> FALSE,
           exit |-> FALSE, fired |-> FALSE]
NoCall == [pc |-> "idle", task |-> CHOOSE t \in Tasks : TRUE, left |-> 0]

TypeOK ==
  /\ \A t \in Tasks :
       /\ task[t].status \in Status \cup {"none", "reserved"}
       /\ disk[t] \in Status \cup {"absent"}
       /\ \A i \in DOMAIN writes[t] : writes[t][i].status \in Status
       /\ note[t] \in Terminal \cup {"none", "steered"}
       /\ \A i \in DOMAIN said[t] : said[t][i] \in Terminal
  /\ \A c \in Callers :
       /\ call[c].pc \in {"idle", "waiting", "grace", "kill", "drain", "returned"}
       /\ call[c].task \in Tasks
       /\ call[c].left \in 0 .. Len(writes[call[c].task])
  /\ fresh \subseteq Tasks /\ pending \subseteq Tasks /\ resuming \in BOOLEAN

Init ==
  /\ task = [t \in Tasks |-> NoTask]
  /\ writes = [t \in Tasks |-> <<>>]
  /\ disk = [t \in Tasks |-> "absent"]
  /\ call = [c \in Callers |-> NoCall]
  /\ note = [t \in Tasks |-> "none"]
  /\ said = [t \in Tasks |-> <<>>]
  /\ fresh = {} /\ pending = {} /\ resuming = FALSE
  /\ crashes = 0

Ended(t) == task[t].status \in Terminal

\* activeTaskCount and reservedTaskSlots
Busy == {t \in Tasks : task[t].status \in Active}
Reserved == {t \in Tasks : task[t].status = "reserved"}

memory == <<task, writes>>
outside == <<note, said, fresh, pending, resuming, crashes>>

-----------------------------------------------------------------------------
(* Registration: a slot is reserved, the task is started, and registered.  *)

\* Plausible bug: the slots of tasks that are being started do not count.
ReserveSlotCountsRunning(t) ==
  /\ ~resuming
  /\ task[t].status = "none" /\ disk[t] = "absent"
  /\ Cardinality(Busy) < MaxRunning
  /\ task' = [task EXCEPT ![t].status = "reserved"]
  /\ UNCHANGED <<writes, disk, call, outside>>

\* reserveSlot, assertCanRegister
ReserveSlot(t) ==
  /\ ~resuming
  /\ task[t].status = "none" /\ disk[t] = "absent"
  /\ Cardinality(Busy) + Cardinality(Reserved) < MaxRunning
  /\ task' = [task EXCEPT ![t].status = "reserved"]
  /\ UNCHANGED <<writes, disk, call, outside>>

\* The start fails: release.
StartFails(t) ==
  /\ task[t].status = "reserved"
  /\ task' = [task EXCEPT ![t] = NoTask]
  /\ UNCHANGED <<writes, disk, call, outside>>

\* persistLive: the status is taken now and written when its turn comes.
Enqueue(t, status, end) ==
  writes' = [writes EXCEPT ![t] = Append(@, [status |-> status, end |-> end])]

\* register, registerAgentTask
Register(t) ==
  /\ task[t].status = "reserved"
  /\ task' = [task EXCEPT ![t].status = "running", ![t].live = TRUE]
  /\ Enqueue(t, "running", FALSE)
  /\ UNCHANGED <<disk, call, outside>>

\* markAwaitingApproval, clearAwaitingApproval
AwaitApproval(t) ==
  /\ task[t].status \in Active
  /\ Len(writes[t]) < MaxWrites
  /\ LET next == IF task[t].status = "running" THEN "awaiting_approval" ELSE "running"
     IN  task' = [task EXCEPT ![t].status = next] /\ Enqueue(t, next, FALSE)
  /\ UNCHANGED <<disk, call, outside>>

-----------------------------------------------------------------------------
(* The end of a task.                                                      *)

\* Plausible bug: the second end of a task overwrites the first.
FinalizeAgain(t, status, entry, exit) ==
  /\ task' = [task EXCEPT ![t] = [entry EXCEPT !.status = status, !.exit = exit,
                                               !.stopRequested = FALSE]]
  /\ Enqueue(t, status, TRUE)

\* finalizeTerminal, for an entry that the caller may have changed.
Finalize(t, status, entry, exit) ==
  IF Ended(t) THEN task' = [task EXCEPT ![t] = entry] /\ UNCHANGED writes
  ELSE /\ task' = [task EXCEPT ![t] = [entry EXCEPT !.status = status, !.exit = exit,
                                                    !.stopRequested = FALSE]]
       /\ Enqueue(t, status, TRUE)

\* proc.wait() resolves: settleProcessExit.  A process that outlived its
\* SIGKILL gets its exit code written later.
ProcessExits(t) ==
  /\ t \notin Agents
  /\ task[t].live
  /\ LET gone == [task[t] EXCEPT !.live = FALSE]
     IN  \/ /\ Ended(t) /\ task[t].status = "killed" /\ ~task[t].exit
            /\ task' = [task EXCEPT ![t] = [gone EXCEPT !.exit = TRUE]]
            /\ Enqueue(t, "killed", TRUE)
         \/ /\ ~Ended(t)
            /\ \E status \in IF task[t].stopRequested THEN {"killed"}
                             ELSE {"completed", "failed"} :
                 Finalize(t, status, gone, TRUE)
  /\ UNCHANGED <<disk, call, outside>>

\* proc.wait() rejects.
WaitRejects(t) ==
  /\ t \notin Agents
  /\ task[t].live
  /\ Finalize(t, IF task[t].stopRequested THEN "killed" ELSE "failed",
              [task[t] EXCEPT !.live = FALSE], FALSE)
  /\ UNCHANGED <<disk, call, outside>>

\* The race of completion and deadline of an agent task: a result, a
\* deadline or an error, or an abort (of a stop, or of the runner itself).
AgentSettles(t) ==
  /\ t \in Agents
  /\ task[t].live
  /\ \E status \in {"completed", "failed", "killed"} :
       Finalize(t, status, [task[t] EXCEPT !.live = FALSE], TRUE)
  /\ UNCHANGED <<disk, call, outside>>

-----------------------------------------------------------------------------
(* stop and waitForTerminal.                                               *)

\* Plausible bug: a call that finds the task ended does not wait for the
\* write of that end.
DrainNothing(c, t, queue) ==
  call' = [call EXCEPT ![c] = [pc |-> "drain", task |-> t, left |-> 0]]

\* await entry.persistWriteQueue
Drain(c, t, queue) ==
  call' = [call EXCEPT ![c] = [pc |-> "drain", task |-> t, left |-> Len(queue)]]

\* stop, up to its first wait: SIGTERM or abort is sent.
Stop(c, t) ==
  /\ call[c].pc = "idle"
  /\ task[t].status \in Status
  /\ IF Ended(t) THEN Drain(c, t, writes[t]) /\ UNCHANGED task
     ELSE /\ task' = [task EXCEPT ![t].stopRequested = TRUE]
          /\ call' = [call EXCEPT ![c] = [pc |-> "grace", task |-> t, left |-> 0]]
  /\ UNCHANGED <<writes, disk, outside>>

\* No answer within the grace period, nor to SIGKILL or a second abort.
Kill(c, t) ==
  /\ Finalize(t, "killed", task[t], FALSE)
  /\ Drain(c, t, writes'[t])

\* Plausible bug: stop waits for the task without a timer.
GraceEndsWithTask(c) ==
  LET t == call[c].task
  IN  /\ call[c].pc = "grace"
      /\ ~task[t].live
      /\ Drain(c, t, writes[t])
      /\ UNCHANGED <<memory, disk, outside>>

\* The task has settled, or the grace period is over.
GraceEnds(c) ==
  LET t == call[c].task
  IN  /\ call[c].pc = "grace"
      /\ CASE Ended(t) -> Drain(c, t, writes[t]) /\ UNCHANGED memory
           [] ~Ended(t) /\ t \in Agents -> Kill(c, t)
           [] OTHER -> call' = [call EXCEPT ![c].pc = "kill"] /\ UNCHANGED memory
      /\ UNCHANGED <<disk, outside>>

\* kill('SIGKILL') has returned.
KillReturns(c) ==
  LET t == call[c].task
  IN  /\ call[c].pc = "kill"
      /\ IF Ended(t) THEN Drain(c, t, writes[t]) /\ UNCHANGED memory
                     ELSE Kill(c, t)
      /\ UNCHANGED <<disk, outside>>

\* waitForTerminal
WaitForTerminal(c, t) ==
  /\ call[c].pc = "idle"
  /\ task[t].status \in Status
  /\ IF Ended(t) THEN Drain(c, t, writes[t])
     ELSE call' = [call EXCEPT ![c] = [pc |-> "waiting", task |-> t, left |-> 0]]
  /\ UNCHANGED <<memory, disk, outside>>

Return(c) ==
  /\ call[c].pc = "drain"
  /\ call[c].left = 0
  /\ call' = [call EXCEPT ![c].pc = "returned"]
  /\ UNCHANGED <<memory, disk, outside>>

-----------------------------------------------------------------------------
(* A write of the queue ends; the end of a task is announced after it.     *)

\* Calls that await the queue advance by one; resolveWaiters makes those
\* of waitForTerminal await it in their turn.
Advance(c, t, rest, resolves) ==
  IF call[c].task # t THEN call[c]
  ELSE IF call[c].pc = "drain" /\ call[c].left > 0
       THEN [call[c] EXCEPT !.left = @ - 1]
       ELSE IF resolves /\ call[c].pc = "waiting"
            THEN [call[c] EXCEPT !.pc = "drain", !.left = Len(rest)]
            ELSE call[c]

\* fireTerminalCallbacks, onLiveTaskTerminal: once per entry.
Announce(t, fires) ==
  /\ task' = IF fires THEN [task EXCEPT ![t].fired = TRUE] ELSE task
  /\ note' = IF fires /\ ~task[t].fired THEN [note EXCEPT ![t] = task[t].status]
                                        ELSE note

WriteLands(t) ==
  /\ writes[t] # <<>>
  /\ LET w == Head(writes[t])
     IN  /\ writes' = [writes EXCEPT ![t] = Tail(@)]
         /\ \/ disk' = [disk EXCEPT ![t] = w.status]
            \/ DiskFails /\ UNCHANGED disk
         /\ Announce(t, w.end)
         /\ call' = [c \in Callers |-> Advance(c, t, Tail(writes[t]), w.end)]
  /\ UNCHANGED <<said, fresh, pending, resuming, crashes>>

Say(t, status) == /\ said' = [said EXCEPT ![t] = Append(@, status)]
                  /\ fresh' = fresh \cup {t}

\* buildBackgroundTaskNotificationContext has read the output: turn.steer.
\* The message is appended when no turn is active, and buffered otherwise.
Notify(t) ==
  /\ note[t] \in Terminal
  /\ \/ Say(t, note[t]) /\ note' = [note EXCEPT ![t] = "none"]
     \/ note' = [note EXCEPT ![t] = "steered"] /\ UNCHANGED <<said, fresh>>
  /\ UNCHANGED <<memory, disk, call, pending, resuming, crashes>>

\* flushSteerBuffer of the running turn.
FlushSteer(t) ==
  /\ note[t] = "steered"
  /\ Say(t, task[t].status)
  /\ note' = [note EXCEPT ![t] = "none"]
  /\ UNCHANGED <<memory, disk, call, pending, resuming, crashes>>

-----------------------------------------------------------------------------
(* The process dies, or exits leaving its tasks; the next one resumes.     *)

\* The memory is gone; of the journal, what had not been flushed.
Crash ==
  /\ crashes < MaxCrashes
  /\ crashes' = crashes + 1
  /\ task' = [t \in Tasks |-> NoTask]
  /\ writes' = [t \in Tasks |-> <<>>]
  /\ call' = [c \in Callers |-> NoCall]
  /\ note' = [t \in Tasks |-> "none"]
  /\ \E lost \in SUBSET fresh :
       said' = [t \in Tasks |-> IF t \in lost THEN <<>> ELSE said[t]]
  /\ fresh' = {}
  /\ pending' = {t \in Tasks : disk[t] \in Active}
  /\ resuming' = TRUE
  /\ UNCHANGED disk

\* markLoadedTasksLost: the owner of the ghost is gone, or its pid belongs
\* to another process by now.
MarkLost(t) ==
  /\ t \in pending
  /\ pending' = pending \ {t}
  /\ \/ disk' = [disk EXCEPT ![t] = "lost"]
     \/ UNCHANGED disk
  /\ UNCHANGED <<memory, call, note, said, fresh, resuming, crashes>>

Delivered(t) == \E i \in DOMAIN said[t] : said[t][i] = disk[t]

\* restoreBackgroundTaskNotification
RestoreNotification(t) ==
  /\ resuming /\ pending = {}
  /\ disk[t] \in Terminal
  /\ ~Delivered(t)
  /\ Say(t, disk[t])
  /\ UNCHANGED <<memory, disk, call, note, pending, resuming, crashes>>

ResumeEnds ==
  /\ resuming /\ pending = {}
  /\ \A t \in Tasks : disk[t] \in Terminal => Delivered(t)
  /\ resuming' = FALSE
  /\ UNCHANGED <<memory, disk, call, note, said, fresh, pending, crashes>>

TaskStep(t) ==
  \/ ReserveSlot(t) \/ StartFails(t) \/ Register(t) \/ AwaitApproval(t)
  \/ ProcessExits(t) \/ WaitRejects(t) \/ AgentSettles(t)

\* What the event loop goes on with by itself.
Write(t) == WriteLands(t)
Answer(c) == GraceEnds(c) \/ KillReturns(c) \/ Return(c)
Restore == ResumeEnds \/ \E t \in Tasks : MarkLost(t) \/ RestoreNotification(t)

Next ==
  \/ \E t \in Tasks : TaskStep(t) \/ Write(t) \/ Notify(t) \/ FlushSteer(t)
  \/ \E c \in Callers : Answer(c) \/ \E t \in Tasks : Stop(c, t) \/ WaitForTerminal(c, t)
  \/ Crash \/ Restore

Spec == Init /\ [][Next]_vars

\* Timers fire and writes end; a task need never end by itself, and nothing
\* obliges a client to call.
FairSpec == /\ Spec
            /\ \A t \in Tasks : WF_vars(Write(t))
            /\ \A c \in Callers : WF_vars(Answer(c))
            /\ WF_vars(Restore)

-----------------------------------------------------------------------------
(* Properties.                                                             *)

\* The conversation gives each task exactly one verdict, the one in its file:
\* however stop, exit, failure and deadline race, and wherever a crash falls
\* between choosing the status, writing it, notifying and the flush of the
\* journal, none is said twice, and none is lost once the session has resumed.
OneVerdict ==
  \A t \in Tasks :
    /\ said[t] \in {<<>>, <<disk[t]>>}
    /\ ~resuming /\ disk[t] \in Terminal => said[t] # <<>> \/ note[t] # "none"

\* Whoever is told that a task has ended could restart the process and find
\* it ended.
ReturnsDurable ==
  \A c \in Callers : call[c].pc = "returned" => disk[call[c].task] \in Terminal

\* The limit holds while several tasks are being started at once.
SlotLimit == Cardinality(Busy) + Cardinality(Reserved) <= MaxRunning

\* stop answers although the task ignores its signals.
StopEnds ==
  \A c \in Callers : call[c].pc \in {"grace", "kill", "drain"}
                       ~> call[c].pc \in {"idle", "returned"}
=============================================================================
