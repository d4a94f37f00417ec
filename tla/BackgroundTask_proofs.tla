------------------------ MODULE BackgroundTask_proofs ------------------------
(* What the background tasks keep for any number of tasks, callers, writes  *)
(* and crashes: one verdict, and no answer ahead of the file.               *)
EXTENDS BackgroundTask, TLAPS

\* A write that fails is swallowed; the theorems leave that out.
WritesLand == DiskFails = FALSE

Records == [status : Status \cup {"none", "reserved"}, live : BOOLEAN,
            stopRequested : BOOLEAN, exit : BOOLEAN, fired : BOOLEAN]
Writes == [status : Status, end : BOOLEAN]
Calls == [pc : {"idle", "waiting", "grace", "kill", "drain", "returned"},
          task : Tasks \cup {NoCall.task}, left : Nat]

Shapes ==
  /\ task \in [Tasks -> Records]
  /\ writes \in [Tasks -> Seq(Writes)]
  /\ disk \in [Tasks -> Status \cup {"absent"}]
  /\ call \in [Callers -> Calls]
  /\ note \in [Tasks -> Terminal \cup {"none", "steered"}]
  /\ said \in [Tasks -> Seq(Terminal)]
  /\ fresh \subseteq Tasks /\ pending \subseteq Tasks /\ resuming \in BOOLEAN

Final(w) == w.status \in Terminal

\* What waits to be written: an end is the end the entry has, nothing but
\* that end follows it, and an entry that has ended has it in its file or
\* under way.
QueueInv(t) ==
  LET q == writes[t]
  IN  /\ \A i \in 1 .. Len(q) : /\ q[i].end <=> Final(q[i])
                                /\ Final(q[i]) => Ended(t) /\ q[i].status = task[t].status
      /\ \A i, j \in 1 .. Len(q) : i < j /\ Final(q[i]) => Final(q[j])
      /\ disk[t] \in Terminal => \A i \in 1 .. Len(q) : Final(q[i])
      /\ Ended(t) => /\ Len(q) = 0 => disk[t] \in Terminal
                     /\ Len(q) > 0 => Final(q[Len(q)])
                     /\ disk[t] \in Terminal => disk[t] = task[t].status
      /\ task[t].status \in {"none", "reserved"} => Len(q) = 0
      /\ task[t].status = "reserved" => disk[t] = "absent"
      /\ task[t].status \in Active => disk[t] \notin Terminal
      /\ task[t].live => task[t].status \in Status

\* What has been said, is about to be said, or will be: never two of them.
VerdictInv(t) ==
  /\ said[t] \in {<<>>, <<disk[t]>>}
  /\ said[t] # <<>> => disk[t] \in Terminal
  /\ note[t] # "none" => /\ said[t] = <<>> /\ task[t].fired
                         /\ disk[t] = task[t].status
  /\ note[t] \in Terminal => note[t] = task[t].status
  /\ task[t].fired => /\ Ended(t) /\ disk[t] \in Terminal
                      /\ said[t] # <<>> \/ note[t] # "none"
  /\ Ended(t) /\ ~task[t].fired => disk[t] \notin Terminal
  /\ ~resuming /\ disk[t] \in Terminal => said[t] # <<>> \/ note[t] # "none"

\* While a session resumes none of its tasks runs.
ResumeInv ==
  /\ resuming => \A t \in Tasks : task[t].status = "none"
  /\ pending # {} => resuming
  /\ \A t \in pending : disk[t] \in Active

\* A caller that waits for the queue waits for an end in it.
CallInv(c) ==
  LET t == call[c].task
  IN  /\ call[c].pc # "idle" => t \in Tasks
      /\ call[c].pc \notin {"idle", "returned"} => task[t].status \in Status
      /\ call[c].pc = "drain" => /\ Ended(t) /\ call[c].left <= Len(writes[t])
                                 /\ call[c].left = 0 => disk[t] \in Terminal
                                 /\ call[c].left > 0 => Final(writes[t][call[c].left])
      /\ call[c].pc = "returned" => disk[t] \in Terminal

TaskInv ==
  /\ Shapes /\ ResumeInv
  /\ \A t \in Tasks : QueueInv(t) /\ VerdictInv(t)
  /\ \A c \in Callers : CallInv(c)

LEMMA InitTaskInv == Init => TaskInv
<1> SUFFICES ASSUME Init PROVE TaskInv
  OBVIOUS
<1>1. Shapes
  <2>1. NoCall \in Calls
    BY DEF NoCall, Calls
  <2>2. NoTask \in Records
    BY DEF NoTask, Records
  <2>3. call \in [Callers -> Calls] /\ task \in [Tasks -> Records]
    BY <2>1, <2>2 DEF Init
  <2>4. writes \in [Tasks -> Seq(Writes)] /\ said \in [Tasks -> Seq(Terminal)]
    BY DEF Init
  <2>5. /\ disk \in [Tasks -> Status \cup {"absent"}]
        /\ note \in [Tasks -> Terminal \cup {"none", "steered"}]
        /\ fresh \subseteq Tasks /\ pending \subseteq Tasks /\ resuming \in BOOLEAN
    BY DEF Init
  <2>6. QED
    BY <2>3, <2>4, <2>5 DEF Shapes
<1>2. ResumeInv /\ \A t \in Tasks : QueueInv(t) /\ VerdictInv(t)
  BY DEF Init, ResumeInv, QueueInv, VerdictInv, NoTask, Ended, Terminal, Active, Final
<1>3. \A c \in Callers : CallInv(c)
  BY DEF Init, CallInv, NoCall
<1>4. QED
  BY <1>1, <1>2, <1>3 DEF TaskInv

-----------------------------------------------------------------------------
(* What a step leaves alone.                                                *)

Keeps(t) ==
  /\ task'[t].status = task[t].status /\ task'[t].fired = task[t].fired
  /\ task'[t].live => task[t].live
  /\ writes'[t] = writes[t] /\ disk'[t] = disk[t]
  /\ note'[t] = note[t] /\ said'[t] = said[t]

\* Calls on the task find what they wait for where it was.
Grows(t) ==
  /\ task[t].status \in Status => task'[t].status \in Status
  /\ Ended(t) => task'[t].status \in Terminal
  /\ disk'[t] = disk[t]
  /\ Len(writes[t]) <= Len(writes'[t])
  /\ \A i \in 1 .. Len(writes[t]) : writes'[t][i] = writes[t][i]

LEMMA KeepsInv ==
    ASSUME NEW t \in Tasks, QueueInv(t), VerdictInv(t), Keeps(t), resuming' = resuming
    PROVE  QueueInv(t)' /\ VerdictInv(t)'
<1>1. Ended(t)' <=> Ended(t)
  BY DEF Keeps, Ended
<1>2. QueueInv(t)'
  BY <1>1 DEF QueueInv, Keeps, Final
<1>3. VerdictInv(t)'
  BY <1>1 DEF VerdictInv, Keeps
<1>4. QED
  BY <1>2, <1>3

LEMMA KeepsGrows ==
    ASSUME NEW t \in Tasks, Shapes, Keeps(t)
    PROVE  Grows(t)
<1>1. Len(writes[t]) \in Nat
  BY DEF Shapes
<1>2. QED
  BY <1>1 DEF Keeps, Grows, Ended

LEMMA GrowsCall ==
    ASSUME Shapes, NEW c \in Callers, CallInv(c), call'[c] = call[c],
           \A t \in Tasks : Grows(t)
    PROVE  CallInv(c)'
<1>1. CASE call[c].pc = "idle"
  BY <1>1 DEF CallInv
<1>2. CASE call[c].pc # "idle"
  <2> DEFINE t == call[c].task
  <2>1. t \in Tasks /\ Grows(t)
    BY <1>2 DEF CallInv
  <2>2. Len(writes[t]) \in Nat /\ call[c].left \in Nat
    BY <2>1 DEF Shapes, Calls
  <2>3. call[c].pc = "drain" /\ call[c].left > 0
           => writes'[t][call[c].left] = writes[t][call[c].left]
    BY <2>1, <2>2 DEF Grows, CallInv
  <2>4. QED
    BY <2>1, <2>2, <2>3, call'[c] = call[c] DEF CallInv, Grows, Ended, Final
<1>3. QED
  BY <1>1, <1>2

\* A task that is in use belongs to a process that has resumed.
LEMMA InUse ==
    ASSUME ResumeInv, NEW t \in Tasks, task[t].status # "none"
    PROVE  ~resuming /\ pending = {}
BY DEF ResumeInv

LEMMA ResumeKept ==
    ASSUME ~resuming, pending = {}, UNCHANGED <<pending, resuming>>
    PROVE  ResumeInv'
BY DEF ResumeInv

-----------------------------------------------------------------------------
(* The queue.                                                               *)

LEMMA EnqueueEffect ==
    ASSUME Shapes, NEW t \in Tasks, NEW status \in Status, NEW end \in BOOLEAN,
           Enqueue(t, status, end)
    PROVE  /\ writes' \in [Tasks -> Seq(Writes)]
           /\ Len(writes[t]) \in Nat /\ Len(writes'[t]) = Len(writes[t]) + 1
           /\ \A i \in 1 .. Len(writes[t]) : writes'[t][i] = writes[t][i]
           /\ writes'[t][Len(writes[t]) + 1].status = status
           /\ writes'[t][Len(writes[t]) + 1].end = end
           /\ \A u \in Tasks : u # t => writes'[u] = writes[u]
<1>1. [status |-> status, end |-> end] \in Writes
  BY DEF Writes
<1>2. Append(writes[t], [status |-> status, end |-> end]) \in Seq(Writes)
  BY <1>1 DEF Shapes
<1>3. writes' \in [Tasks -> Seq(Writes)]
  BY <1>2, Zenon DEF Shapes, Enqueue
<1>4. writes'[t] = Append(writes[t], [status |-> status, end |-> end])
  BY DEF Shapes, Enqueue
<1>5. \A u \in Tasks : u # t => writes'[u] = writes[u]
  BY DEF Shapes, Enqueue
<1>6. writes[t] \in Seq(Writes)
  BY DEF Shapes
<1>7. QED
  BY <1>3, <1>4, <1>5, <1>6

\* A write that says the task runs.
LEMMA EnqueueActive ==
    ASSUME Shapes, NEW t \in Tasks, QueueInv(t), VerdictInv(t), NEW status \in Active,
           Enqueue(t, status, FALSE),
           task[t].status \in Active \cup {"reserved"}, task'[t].status = status,
           task'[t].fired = task[t].fired,
           UNCHANGED <<disk, note, said, resuming>>
    PROVE  QueueInv(t)' /\ VerdictInv(t)' /\ Grows(t)
<1>1. status \in Status /\ status \notin Terminal
  BY DEF Status, Active, Terminal
<1>2. /\ Len(writes[t]) \in Nat /\ Len(writes'[t]) = Len(writes[t]) + 1
      /\ \A i \in 1 .. Len(writes[t]) : writes'[t][i] = writes[t][i]
      /\ writes'[t][Len(writes[t]) + 1].status = status
      /\ writes'[t][Len(writes[t]) + 1].end = FALSE
  BY <1>1, EnqueueEffect
<1>3. ~Ended(t) /\ ~Ended(t)'
  BY <1>1 DEF Ended, Active, Terminal
<1>4. disk[t] \notin Terminal
  BY DEF QueueInv, Terminal, Active
<1>5. \A i \in 1 .. Len(writes'[t]) : ~Final(writes'[t][i]) /\ ~writes'[t][i].end
  <2>1. \A i \in 1 .. Len(writes[t]) : ~Final(writes[t][i]) /\ ~writes[t][i].end
    BY <1>3 DEF QueueInv
  <2>2. ASSUME NEW i \in 1 .. Len(writes'[t]), i # Len(writes[t]) + 1
        PROVE  ~Final(writes'[t][i]) /\ ~writes'[t][i].end
    <3>1. i \in 1 .. Len(writes[t])
      BY <1>2, <2>2
    <3>2. QED
      BY <1>2, <2>1, <3>1
  <2>3. ~Final(writes'[t][Len(writes[t]) + 1]) /\ ~writes'[t][Len(writes[t]) + 1].end
    BY <1>1, <1>2 DEF Final
  <2>4. QED
    BY <2>2, <2>3
<1>6. QueueInv(t)'
  BY <1>1, <1>3, <1>4, <1>5 DEF QueueInv, Final, Active
<1>7. VerdictInv(t)'
  BY <1>3, <1>4 DEF VerdictInv, Ended
<1>8. QED
  BY <1>1, <1>2, <1>3, <1>6, <1>7 DEF Grows

\* A write that says how the task ended.
LEMMA EnqueueEnd ==
    ASSUME Shapes, NEW t \in Tasks, QueueInv(t), VerdictInv(t), NEW status \in Terminal,
           Enqueue(t, status, TRUE),
           task[t].status \in Active \cup {status}, task'[t].status = status,
           task'[t].fired = task[t].fired,
           UNCHANGED <<disk, note, said, resuming>>
    PROVE  QueueInv(t)' /\ VerdictInv(t)' /\ Grows(t)
<1> DEFINE n == Len(writes[t])
<1>1. status \in Status
  BY DEF Status
<1>2. /\ n \in Nat /\ Len(writes'[t]) = n + 1
      /\ \A i \in 1 .. n : writes'[t][i] = writes[t][i]
      /\ writes'[t][n + 1].status = status
      /\ writes'[t][n + 1].end = TRUE
  BY <1>1, EnqueueEffect
<1>3. Ended(t)' /\ (Ended(t) => task[t].status = status)
  BY DEF Ended, Active, Terminal
<1>4. Ended(t) \/ disk[t] \notin Terminal
  BY DEF QueueInv, Ended
<1>5. Final(writes'[t][n + 1])
  BY <1>2 DEF Final
<1>6. QueueInv(t)'
  <2>1. \A i \in 1 .. n + 1 :
          /\ writes'[t][i].end <=> Final(writes'[t][i])
          /\ Final(writes'[t][i]) => writes'[t][i].status = status
    <3>1. ASSUME NEW i \in 1 .. n
          PROVE  /\ writes[t][i].end <=> Final(writes[t][i])
                 /\ Final(writes[t][i]) => writes[t][i].status = status
      BY <1>3 DEF QueueInv
    <3>2. \A i \in 1 .. n + 1 : i \in 1 .. n \/ i = n + 1
      BY <1>2
    <3>3. \A i \in 1 .. n : Final(writes'[t][i]) <=> Final(writes[t][i])
      BY <1>2 DEF Final
    <3>4. QED
      BY <1>2, <1>5, <3>1, <3>2, <3>3
  <2>2. ASSUME NEW i \in 1 .. n + 1, NEW j \in 1 .. n + 1, i < j, Final(writes'[t][i])
        PROVE  Final(writes'[t][j])
    <3>1. i \in 1 .. n /\ (j \in 1 .. n \/ j = n + 1)
      BY <1>2, <2>2
    <3>2. Final(writes[t][i])
      BY <1>2, <2>2, <3>1 DEF Final
    <3>3. CASE j \in 1 .. n
      <4>1. Final(writes[t][j])
        BY <2>2, <3>1, <3>2, <3>3 DEF QueueInv
      <4>2. QED
        BY <1>2, <3>3, <4>1 DEF Final
    <3>4. QED
      BY <1>5, <3>1, <3>3
  <2>3. disk[t] \in Terminal => disk[t] = status /\ \A i \in 1 .. n + 1 : Final(writes'[t][i])
    BY <1>2, <1>3, <1>4, <1>5 DEF QueueInv
  <2>4. status \notin {"none", "reserved"} /\ status \notin Active
    BY DEF Terminal, Active
  <2>5. QED
    BY <1>1, <1>2, <1>3, <1>5, <2>1, <2>2, <2>3, <2>4 DEF QueueInv, Final
<1>7. VerdictInv(t)'
  BY <1>3, <1>4 DEF VerdictInv, Ended
<1>8. QED
  BY <1>1, <1>2, <1>3, <1>6, <1>7 DEF Grows

-----------------------------------------------------------------------------
(* The steps of one task.                                                   *)

LEMMA TaskChange ==
    ASSUME TaskInv, NEW t \in Tasks, ~resuming, pending = {},
           Shapes', QueueInv(t)', VerdictInv(t)', Grows(t),
           \A u \in Tasks : u # t => Keeps(u),
           UNCHANGED <<call, pending, resuming>>
    PROVE  TaskInv'
<1>1. ResumeInv'
  BY ResumeKept
<1>2. \A u \in Tasks : u # t => QueueInv(u)' /\ VerdictInv(u)'
  BY KeepsInv DEF TaskInv
<1>3. \A u \in Tasks : Grows(u)
  BY KeepsGrows DEF TaskInv
<1>4. \A c \in Callers : CallInv(c)'
  BY <1>3, GrowsCall DEF TaskInv
<1>5. QED
  BY <1>1, <1>2, <1>4 DEF TaskInv

LEMMA RecordShape ==
    ASSUME Shapes, NEW t \in Tasks, NEW r \in Records, task' = [task EXCEPT ![t] = r]
    PROVE  /\ task' \in [Tasks -> Records] /\ task'[t] = r
           /\ \A u \in Tasks : u # t => task'[u] = task[u]
BY DEF Shapes

LEMMA WithStatus ==
    ASSUME NEW e \in Records, NEW status \in Status \cup {"none", "reserved"}
    PROVE  LET r == [e EXCEPT !.status = status]
           IN  r \in Records /\ r.status = status /\ r.fired = e.fired /\ r.live = e.live
BY DEF Records

LEMMA StopRequested ==
    ASSUME NEW e \in Records
    PROVE  LET r == [e EXCEPT !.stopRequested = TRUE]
           IN  /\ r \in Records /\ r.status = e.status
               /\ r.fired = e.fired /\ r.live = e.live
BY DEF Records

LEMMA Launched ==
    ASSUME NEW e \in Records
    PROVE  LET r == [e EXCEPT !.status = "running", !.live = TRUE]
           IN  r \in Records /\ r.status = "running" /\ r.fired = e.fired
BY DEF Records, Status, Active

LEMMA ReserveSlotPreserves ==
    ASSUME TaskInv, NEW t \in Tasks, ReserveSlot(t)
    PROVE  TaskInv'
<1> DEFINE r == [task[t] EXCEPT !.status = "reserved"]
<1>1. /\ ~resuming /\ task[t].status = "none" /\ disk[t] = "absent"
      /\ task' = [task EXCEPT ![t] = r]
      /\ UNCHANGED <<writes, disk, call, note, said, fresh, pending, resuming>>
  BY DEF ReserveSlot, outside, TaskInv, Shapes, Records
<1>2. r \in Records /\ r.status = "reserved" /\ r.fired = task[t].fired /\ r.live = task[t].live
  <2>1. task[t] \in Records
    BY DEF TaskInv, Shapes
  <2>2. QED
    BY <2>1, WithStatus
<1>3. /\ task' \in [Tasks -> Records] /\ task'[t] = r
      /\ \A u \in Tasks : u # t => task'[u] = task[u]
  BY <1>1, <1>2, RecordShape DEF TaskInv
<1>4. ~task[t].live /\ Len(writes[t]) = 0 /\ ~Ended(t) /\ ~Ended(t)'
  BY <1>1, <1>2, <1>3 DEF TaskInv, QueueInv, Ended, Status, Terminal, Active
<1>5. QueueInv(t)'
  BY <1>1, <1>2, <1>3, <1>4 DEF QueueInv, Active, Terminal
<1>6. VerdictInv(t)'
  BY <1>1, <1>2, <1>3, <1>4 DEF TaskInv, VerdictInv, Terminal
<1>7. Shapes'
  BY <1>1, <1>3 DEF TaskInv, Shapes
<1>8. Grows(t)
  BY <1>1, <1>4 DEF Grows, Status, Terminal, Active, Ended
<1>9. QED
  BY <1>1, <1>3, <1>5, <1>6, <1>7, <1>8, TaskChange DEF TaskInv, ResumeInv, Keeps

LEMMA StartFailsPreserves ==
    ASSUME TaskInv, NEW t \in Tasks, StartFails(t)
    PROVE  TaskInv'
<1>1. /\ task[t].status = "reserved" /\ task' = [task EXCEPT ![t] = NoTask]
      /\ UNCHANGED <<writes, disk, call, note, said, fresh, pending, resuming>>
  BY DEF StartFails, outside
<1>2. NoTask \in Records /\ NoTask.status = "none" /\ ~NoTask.fired /\ ~NoTask.live
  BY DEF NoTask, Records
<1>3. /\ task' \in [Tasks -> Records] /\ task'[t] = NoTask
      /\ \A u \in Tasks : u # t => task'[u] = task[u]
  BY <1>1, <1>2, RecordShape DEF TaskInv
<1>4. /\ ~resuming /\ pending = {} /\ Len(writes[t]) = 0 /\ disk[t] \notin Terminal
      /\ ~Ended(t) /\ ~Ended(t)'
  BY <1>1, <1>2, <1>3, InUse DEF TaskInv, QueueInv, Ended, Terminal
<1>5. QueueInv(t)'
  BY <1>1, <1>2, <1>3, <1>4 DEF QueueInv, Active
<1>6. VerdictInv(t)'
  BY <1>1, <1>2, <1>3, <1>4 DEF TaskInv, VerdictInv, Ended
<1>7. Shapes'
  BY <1>1, <1>3 DEF TaskInv, Shapes
<1>8. Grows(t)
  BY <1>1, <1>4 DEF Grows, Status, Terminal, Active, Ended
<1>9. QED
  BY <1>1, <1>3, <1>4, <1>5, <1>6, <1>7, <1>8, TaskChange DEF Keeps

LEMMA RegisterPreserves ==
    ASSUME TaskInv, NEW t \in Tasks, Register(t)
    PROVE  TaskInv'
<1> DEFINE r == [task[t] EXCEPT !.status = "running", !.live = TRUE]
<1>1. /\ task[t].status = "reserved" /\ Enqueue(t, "running", FALSE)
      /\ task' = [task EXCEPT ![t] = r]
      /\ UNCHANGED <<disk, call, note, said, fresh, pending, resuming>>
  BY DEF Register, outside, TaskInv, Shapes, Records
<1>2. r \in Records /\ r.status = "running" /\ r.fired = task[t].fired
  <2>1. task[t] \in Records
    BY DEF TaskInv, Shapes
  <2>2. QED
    BY <2>1, Launched
<1>3. /\ task' \in [Tasks -> Records] /\ task'[t] = r
      /\ \A u \in Tasks : u # t => task'[u] = task[u]
  BY <1>1, <1>2, RecordShape DEF TaskInv
<1>4. "running" \in Active /\ "running" \in Status
  BY DEF Active, Status
<1>5. QueueInv(t)' /\ VerdictInv(t)' /\ Grows(t)
  BY <1>1, <1>2, <1>3, <1>4, EnqueueActive DEF TaskInv
<1>6. writes' \in [Tasks -> Seq(Writes)] /\ \A u \in Tasks : u # t => writes'[u] = writes[u]
  BY <1>1, <1>4, EnqueueEffect DEF TaskInv
<1>7. Shapes'
  BY <1>1, <1>3, <1>6 DEF TaskInv, Shapes
<1>8. QED
  BY <1>1, <1>3, <1>5, <1>6, <1>7, InUse, TaskChange DEF Keeps, TaskInv

LEMMA AwaitApprovalPreserves ==
    ASSUME TaskInv, NEW t \in Tasks, AwaitApproval(t)
    PROVE  TaskInv'
<1>1. PICK next \in Active : /\ task[t].status \in Active /\ Enqueue(t, next, FALSE)
                             /\ task' = [task EXCEPT ![t].status = next]
                             /\ UNCHANGED <<disk, call, note, said, fresh, pending, resuming>>
  BY Zenon DEF AwaitApproval, outside, Active
<1> DEFINE r == [task[t] EXCEPT !.status = next]
<1>2. next \in Status /\ "none" \notin Active
  BY DEF Active, Status
<1>3. r \in Records /\ r.status = next /\ r.fired = task[t].fired
  <2>1. task[t] \in Records
    BY DEF TaskInv, Shapes
  <2>2. QED
    BY <1>2, <2>1, WithStatus
<1>4. task' = [task EXCEPT ![t] = r]
  BY <1>1 DEF TaskInv, Shapes, Records
<1>5. /\ task' \in [Tasks -> Records] /\ task'[t] = r
      /\ \A u \in Tasks : u # t => task'[u] = task[u]
  BY <1>3, <1>4, RecordShape DEF TaskInv
<1>6. QueueInv(t)' /\ VerdictInv(t)' /\ Grows(t)
  BY <1>1, <1>3, <1>5, EnqueueActive DEF TaskInv
<1>7. writes' \in [Tasks -> Seq(Writes)] /\ \A u \in Tasks : u # t => writes'[u] = writes[u]
  BY <1>1, <1>2, EnqueueEffect DEF TaskInv
<1>8. Shapes'
  BY <1>1, <1>5, <1>7 DEF TaskInv, Shapes
<1>9. QED
  BY <1>1, <1>2, <1>5, <1>6, <1>7, <1>8, InUse, TaskChange DEF Keeps, TaskInv

LEMMA FinalizeEffect ==
    ASSUME TaskInv, NEW t \in Tasks, NEW status \in Terminal, NEW entry \in Records,
           NEW exit \in BOOLEAN, Finalize(t, status, entry, exit),
           task[t].status \in Status, entry.status = task[t].status,
           entry.fired = task[t].fired, entry.live => task[t].live,
           UNCHANGED <<disk, note, said, fresh, pending, resuming>>
    PROVE  /\ ~resuming /\ pending = {}
           /\ task' \in [Tasks -> Records] /\ writes' \in [Tasks -> Seq(Writes)]
           /\ QueueInv(t)' /\ VerdictInv(t)' /\ Grows(t) /\ Ended(t)'
           /\ \A u \in Tasks : u # t => Keeps(u)
<1>1. ~resuming /\ pending = {}
  BY InUse DEF TaskInv, Status, Terminal, Active
<1>2. CASE Ended(t)
  <2>1. task' = [task EXCEPT ![t] = entry] /\ UNCHANGED writes
    BY <1>2, Zenon DEF Finalize
  <2>2. /\ task' \in [Tasks -> Records] /\ task'[t] = entry
        /\ \A u \in Tasks : u # t => task'[u] = task[u]
    BY <2>1, RecordShape DEF TaskInv
  <2>3. \A u \in Tasks : Keeps(u)
    BY <2>1, <2>2 DEF Keeps
  <2>4. QueueInv(t)' /\ VerdictInv(t)' /\ Grows(t)
    BY <2>3, KeepsInv, KeepsGrows DEF TaskInv
  <2>5. Ended(t)'
    BY <1>2, <2>2 DEF Ended
  <2>6. QED
    BY <1>1, <2>1, <2>2, <2>3, <2>4, <2>5 DEF TaskInv, Shapes
<1>3. CASE ~Ended(t)
  <2> DEFINE r == [entry EXCEPT !.status = status, !.exit = exit, !.stopRequested = FALSE]
  <2>1. task' = [task EXCEPT ![t] = r] /\ Enqueue(t, status, TRUE)
    BY <1>3, Zenon DEF Finalize
  <2>2. r \in Records /\ r.status = status /\ r.fired = task[t].fired
    BY DEF Records, Status
  <2>3. /\ task' \in [Tasks -> Records] /\ task'[t] = r
        /\ \A u \in Tasks : u # t => task'[u] = task[u]
    BY <2>1, <2>2, RecordShape DEF TaskInv
  <2>4. task[t].status \in Active /\ status \in Status
    BY <1>3 DEF Ended, Status
  <2>5. QueueInv(t)' /\ VerdictInv(t)' /\ Grows(t)
    BY <2>1, <2>2, <2>3, <2>4, EnqueueEnd DEF TaskInv
  <2>6. writes' \in [Tasks -> Seq(Writes)] /\ \A u \in Tasks : u # t => writes'[u] = writes[u]
    BY <2>1, <2>4, EnqueueEffect DEF TaskInv
  <2>7. Ended(t)'
    BY <2>2, <2>3 DEF Ended
  <2>8. QED
    BY <1>1, <2>3, <2>5, <2>6, <2>7 DEF Keeps
<1>4. QED
  BY <1>2, <1>3

\* Finalize as the last thing a task does.
LEMMA FinalizePreserves ==
    ASSUME TaskInv, NEW t \in Tasks, NEW status \in Terminal, NEW exit \in BOOLEAN,
           task[t].live, Finalize(t, status, [task[t] EXCEPT !.live = FALSE], exit),
           UNCHANGED <<disk, call, outside>>
    PROVE  TaskInv'
<1> DEFINE gone == [task[t] EXCEPT !.live = FALSE]
<1>1. /\ gone \in Records /\ gone.status = task[t].status
      /\ gone.fired = task[t].fired /\ ~gone.live
  BY DEF TaskInv, Shapes, Records
<1>2. task[t].status \in Status
  BY DEF TaskInv, QueueInv
<1>3. UNCHANGED <<disk, note, said, fresh, pending, resuming>>
  BY DEF outside
<1>4. /\ ~resuming /\ pending = {}
      /\ task' \in [Tasks -> Records] /\ writes' \in [Tasks -> Seq(Writes)]
      /\ QueueInv(t)' /\ VerdictInv(t)' /\ Grows(t)
      /\ \A u \in Tasks : u # t => Keeps(u)
  BY <1>1, <1>2, <1>3, FinalizeEffect
<1>5. Shapes'
  BY <1>3, <1>4 DEF TaskInv, Shapes
<1>6. QED
  BY <1>3, <1>4, <1>5, TaskChange

LEMMA ProcessExitsPreserves ==
    ASSUME TaskInv, NEW t \in Tasks, ProcessExits(t)
    PROVE  TaskInv'
<1> DEFINE gone == [task[t] EXCEPT !.live = FALSE]
           r == [gone EXCEPT !.exit = TRUE]
<1>1. CASE /\ Ended(t) /\ task[t].status = "killed"
           /\ task' = [task EXCEPT ![t] = r]
           /\ Enqueue(t, "killed", TRUE)
           /\ UNCHANGED <<disk, call, outside>>
  <2>1. UNCHANGED <<disk, note, said, fresh, pending, resuming>>
    BY <1>1 DEF outside
  <2>2. "killed" \in Terminal /\ "killed" \in Status
    BY DEF Status, Terminal
  <2>3. r \in Records /\ r.status = "killed" /\ r.fired = task[t].fired
    BY <1>1 DEF TaskInv, Shapes, Records
  <2>4. /\ task' \in [Tasks -> Records] /\ task'[t] = r
        /\ \A u \in Tasks : u # t => task'[u] = task[u]
    BY <1>1, <2>3, RecordShape DEF TaskInv
  <2>5. QueueInv(t)' /\ VerdictInv(t)' /\ Grows(t)
    BY <1>1, <2>1, <2>2, <2>3, <2>4, EnqueueEnd DEF TaskInv
  <2>6. writes' \in [Tasks -> Seq(Writes)] /\ \A u \in Tasks : u # t => writes'[u] = writes[u]
    BY <1>1, <2>2, EnqueueEffect DEF TaskInv
  <2>7. Shapes'
    BY <1>1, <2>1, <2>4, <2>6 DEF TaskInv, Shapes
  <2>8. ~resuming /\ pending = {}
    BY <1>1, InUse DEF TaskInv
  <2>9. QED
    BY <1>1, <2>1, <2>4, <2>5, <2>6, <2>7, <2>8, TaskChange DEF Keeps
<1>2. ASSUME NEW status \in {"killed", "completed", "failed"}, task[t].live,
             Finalize(t, status, gone, TRUE), UNCHANGED <<disk, call, outside>>
      PROVE  TaskInv'
  BY <1>2, FinalizePreserves DEF Terminal
<1>3. QED
  BY <1>1, <1>2, Zenon DEF ProcessExits

LEMMA WaitRejectsPreserves ==
    ASSUME TaskInv, NEW t \in Tasks, WaitRejects(t)
    PROVE  TaskInv'
<1>1. PICK status \in {"killed", "failed"} :
        /\ task[t].live /\ Finalize(t, status, [task[t] EXCEPT !.live = FALSE], FALSE)
        /\ UNCHANGED <<disk, call, outside>>
  BY Zenon DEF WaitRejects
<1>2. status \in Terminal
  BY DEF Terminal
<1>3. QED
  BY <1>1, <1>2, FinalizePreserves

LEMMA AgentSettlesPreserves ==
    ASSUME TaskInv, NEW t \in Tasks, AgentSettles(t)
    PROVE  TaskInv'
<1>1. PICK status \in {"completed", "failed", "killed"} :
        /\ task[t].live /\ Finalize(t, status, [task[t] EXCEPT !.live = FALSE], TRUE)
        /\ UNCHANGED <<disk, call, outside>>
  BY Zenon DEF AgentSettles
<1>2. status \in Terminal
  BY DEF Terminal
<1>3. QED
  BY <1>1, <1>2, FinalizePreserves

-----------------------------------------------------------------------------
(* The steps of one caller.                                                 *)

LEMMA CallShape ==
    ASSUME Shapes, NEW c \in Callers, NEW k \in Calls, call' = [call EXCEPT ![c] = k]
    PROVE  /\ call' \in [Callers -> Calls] /\ call'[c] = k
           /\ \A d \in Callers : d # c => call'[d] = call[d]
BY DEF Shapes

\* A caller that begins to wait for the queue of a task that has ended.
LEMMA DrainEffect ==
    ASSUME Shapes, NEW c \in Callers, NEW t \in Tasks, QueueInv(t)', Ended(t)',
           writes' \in [Tasks -> Seq(Writes)], Drain(c, t, writes'[t])
    PROVE  /\ call' \in [Callers -> Calls] /\ CallInv(c)'
           /\ \A d \in Callers : d # c => call'[d] = call[d]
<1> DEFINE k == [pc |-> "drain", task |-> t, left |-> Len(writes'[t])]
<1>1. Len(writes'[t]) \in Nat
  OBVIOUS
<1>2. k \in Calls
  BY <1>1 DEF Calls
<1>3. call' = [call EXCEPT ![c] = k]
  BY DEF Drain
<1>4. /\ call' \in [Callers -> Calls] /\ call'[c] = k
      /\ \A d \in Callers : d # c => call'[d] = call[d]
  BY <1>2, <1>3, CallShape
<1>5. /\ Len(writes'[t]) = 0 => disk'[t] \in Terminal
      /\ Len(writes'[t]) > 0 => Final(writes'[t][Len(writes'[t])])
      /\ task'[t].status \in Status
  BY DEF QueueInv, Final, Ended, Status
<1>6. CallInv(c)'
  BY <1>1, <1>4, <1>5 DEF CallInv, Final
<1>7. QED
  BY <1>4, <1>6

\* Only calls change, or the task that one of them is about.
LEMMA CallChange ==
    ASSUME TaskInv, NEW c \in Callers, call' \in [Callers -> Calls], CallInv(c)',
           \A d \in Callers : d # c => call'[d] = call[d],
           UNCHANGED <<task, writes, disk, note, said, fresh, pending, resuming>>
    PROVE  TaskInv'
<1>1. Shapes'
  BY DEF TaskInv, Shapes
<1>2. \A t \in Tasks : Keeps(t)
  BY DEF Keeps
<1>3. \A t \in Tasks : QueueInv(t)' /\ VerdictInv(t)' /\ Grows(t)
  BY <1>2, KeepsInv, KeepsGrows DEF TaskInv
<1>4. \A d \in Callers : CallInv(d)'
  BY <1>3, GrowsCall DEF TaskInv
<1>5. ResumeInv'
  BY DEF TaskInv, ResumeInv
<1>6. QED
  BY <1>1, <1>3, <1>4, <1>5 DEF TaskInv

LEMMA DrainPreserves ==
    ASSUME TaskInv, NEW c \in Callers, NEW t \in Tasks, Ended(t), Drain(c, t, writes[t]),
           UNCHANGED <<task, writes, disk, note, said, fresh, pending, resuming>>
    PROVE  TaskInv'
<1>1. QueueInv(t)' /\ Ended(t)'
  BY KeepsInv DEF TaskInv, Keeps, Ended
<1>2. writes' \in [Tasks -> Seq(Writes)] /\ writes'[t] = writes[t] /\ Shapes
  BY DEF TaskInv, Shapes
<1>3. /\ call' \in [Callers -> Calls] /\ CallInv(c)'
      /\ \A d \in Callers : d # c => call'[d] = call[d]
  BY <1>1, <1>2, DrainEffect
<1>4. QED
  BY <1>3, CallChange

\* A caller that goes on waiting, for a task that is there.
LEMMA WaitPreserves ==
    ASSUME TaskInv, NEW c \in Callers, NEW k \in Calls, call' = [call EXCEPT ![c] = k],
           k.pc \in {"waiting", "grace", "kill"}, k.task \in Tasks,
           task[k.task].status \in Status,
           UNCHANGED <<task, writes, disk, note, said, fresh, pending, resuming>>
    PROVE  TaskInv'
<1>1. /\ call' \in [Callers -> Calls] /\ call'[c] = k
      /\ \A d \in Callers : d # c => call'[d] = call[d]
  BY CallShape DEF TaskInv
<1>2. CallInv(c)'
  BY <1>1 DEF CallInv
<1>3. QED
  BY <1>1, <1>2, CallChange

LEMMA StopPreserves ==
    ASSUME TaskInv, NEW c \in Callers, NEW t \in Tasks, Stop(c, t)
    PROVE  TaskInv'
<1>1. task[t].status \in Status /\ UNCHANGED <<writes, disk, note, said, fresh, pending, resuming>>
  BY DEF Stop, outside
<1>2. CASE Ended(t) /\ Drain(c, t, writes[t]) /\ UNCHANGED task
  BY <1>1, <1>2, DrainPreserves
<1>3. CASE /\ task' = [task EXCEPT ![t].stopRequested = TRUE]
           /\ call' = [call EXCEPT ![c] = [pc |-> "grace", task |-> t, left |-> 0]]
  <2> DEFINE r == [task[t] EXCEPT !.stopRequested = TRUE]
             k == [pc |-> "grace", task |-> t, left |-> 0]
  <2>1. /\ r \in Records /\ r.status = task[t].status
        /\ r.fired = task[t].fired /\ r.live = task[t].live
    <3>1. task[t] \in Records
      BY DEF TaskInv, Shapes
    <3>2. QED
      BY <3>1, StopRequested
  <2>2. task' = [task EXCEPT ![t] = r]
    BY <1>3 DEF TaskInv, Shapes, Records
  <2>3. /\ task' \in [Tasks -> Records] /\ task'[t] = r
        /\ \A u \in Tasks : u # t => task'[u] = task[u]
    BY <2>1, <2>2, RecordShape DEF TaskInv
  <2>4. k \in Calls
    BY DEF Calls
  <2>5. /\ call' \in [Callers -> Calls] /\ call'[c] = k
        /\ \A d \in Callers : d # c => call'[d] = call[d]
    BY <1>3, <2>4, CallShape DEF TaskInv
  <2>6. \A u \in Tasks : Keeps(u)
    BY <1>1, <2>1, <2>3 DEF Keeps
  <2>7. \A u \in Tasks : QueueInv(u)' /\ VerdictInv(u)' /\ Grows(u)
    BY <1>1, <2>6, KeepsInv, KeepsGrows DEF TaskInv
  <2>8. CallInv(c)'
    <3>1. call'[c].pc = "grace" /\ call'[c].task = t
      BY <2>5
    <3>2. task'[t].status \in Status
      BY <1>1, <2>1, <2>3
    <3>3. QED
      BY <3>1, <3>2 DEF CallInv
  <2>9. \A d \in Callers : CallInv(d)'
    BY <2>5, <2>7, <2>8, GrowsCall DEF TaskInv
  <2>10. Shapes' /\ ResumeInv'
    BY <1>1, <2>3, <2>5, InUse, ResumeKept DEF TaskInv, Shapes, Status, Terminal, Active
  <2>11. QED
    BY <2>7, <2>9, <2>10 DEF TaskInv
<1>4. QED
  BY <1>2, <1>3, Zenon DEF Stop

LEMMA WaitForTerminalPreserves ==
    ASSUME TaskInv, NEW c \in Callers, NEW t \in Tasks, WaitForTerminal(c, t)
    PROVE  TaskInv'
<1> DEFINE k == [pc |-> "waiting", task |-> t, left |-> 0]
<1>1. /\ task[t].status \in Status
      /\ UNCHANGED <<task, writes, disk, note, said, fresh, pending, resuming>>
  BY DEF WaitForTerminal, outside, memory
<1>2. k \in Calls
  BY DEF Calls
<1>3. CASE Ended(t) /\ Drain(c, t, writes[t])
  BY <1>1, <1>3, DrainPreserves
<1>4. CASE call' = [call EXCEPT ![c] = k]
  BY <1>1, <1>2, <1>4, WaitPreserves
<1>5. QED
  BY <1>3, <1>4, Zenon DEF WaitForTerminal

LEMMA KillPreserves ==
    ASSUME TaskInv, NEW c \in Callers, NEW t \in Tasks, Kill(c, t), task[t].status \in Status,
           UNCHANGED <<disk, note, said, fresh, pending, resuming>>
    PROVE  TaskInv'
<1>1. Finalize(t, "killed", task[t], FALSE) /\ Drain(c, t, writes'[t])
  BY DEF Kill
<1>2. "killed" \in Terminal /\ task[t] \in Records
  BY DEF Terminal, TaskInv, Shapes
<1>3. /\ ~resuming /\ pending = {}
      /\ task' \in [Tasks -> Records] /\ writes' \in [Tasks -> Seq(Writes)]
      /\ QueueInv(t)' /\ VerdictInv(t)' /\ Grows(t) /\ Ended(t)'
      /\ \A u \in Tasks : u # t => Keeps(u)
  BY <1>1, <1>2, FinalizeEffect
<1>4. /\ call' \in [Callers -> Calls] /\ CallInv(c)'
      /\ \A d \in Callers : d # c => call'[d] = call[d]
  BY <1>1, <1>3, DrainEffect DEF TaskInv
<1>5. \A u \in Tasks : QueueInv(u)' /\ VerdictInv(u)' /\ Grows(u)
  BY <1>3, KeepsInv, KeepsGrows DEF TaskInv
<1>6. \A d \in Callers : CallInv(d)'
  BY <1>4, <1>5, GrowsCall DEF TaskInv
<1>7. Shapes' /\ ResumeInv'
  BY <1>3, <1>4, ResumeKept DEF TaskInv, Shapes
<1>8. QED
  BY <1>5, <1>6, <1>7 DEF TaskInv

LEMMA GraceEndsPreserves ==
    ASSUME TaskInv, NEW c \in Callers, GraceEnds(c)
    PROVE  TaskInv'
<1> DEFINE t == call[c].task
<1>1. /\ call[c].pc = "grace"
      /\ UNCHANGED <<disk, note, said, fresh, pending, resuming>>
  BY DEF GraceEnds, outside
<1>2. t \in Tasks /\ task[t].status \in Status
  BY <1>1 DEF TaskInv, CallInv
<1>3. CASE Ended(t) /\ Drain(c, t, writes[t]) /\ UNCHANGED memory
  BY <1>1, <1>2, <1>3, DrainPreserves DEF memory
<1>4. CASE Kill(c, t)
  BY <1>1, <1>2, <1>4, KillPreserves
<1>5. CASE call' = [call EXCEPT ![c].pc = "kill"] /\ UNCHANGED memory
  <2> DEFINE k == [call[c] EXCEPT !.pc = "kill"]
  <2>1. k \in Calls /\ k.pc = "kill" /\ k.task = t
    BY DEF TaskInv, Shapes, Calls
  <2>2. call' = [call EXCEPT ![c] = k]
    BY <1>5 DEF TaskInv, Shapes, Calls
  <2>3. QED
    BY <1>1, <1>2, <1>5, <2>1, <2>2, WaitPreserves DEF memory
<1>6. QED
  BY <1>3, <1>4, <1>5, Zenon DEF GraceEnds

LEMMA KillReturnsPreserves ==
    ASSUME TaskInv, NEW c \in Callers, KillReturns(c)
    PROVE  TaskInv'
<1> DEFINE t == call[c].task
<1>1. /\ call[c].pc = "kill"
      /\ UNCHANGED <<disk, note, said, fresh, pending, resuming>>
  BY DEF KillReturns, outside
<1>2. t \in Tasks /\ task[t].status \in Status
  BY <1>1 DEF TaskInv, CallInv
<1>3. CASE Ended(t) /\ Drain(c, t, writes[t]) /\ UNCHANGED memory
  BY <1>1, <1>2, <1>3, DrainPreserves DEF memory
<1>4. CASE Kill(c, t)
  BY <1>1, <1>2, <1>4, KillPreserves
<1>5. QED
  BY <1>3, <1>4, Zenon DEF KillReturns

LEMMA ReturnPreserves ==
    ASSUME TaskInv, NEW c \in Callers, Return(c)
    PROVE  TaskInv'
<1> DEFINE k == [call[c] EXCEPT !.pc = "returned"]
<1>1. /\ call[c].pc = "drain" /\ call[c].left = 0
      /\ UNCHANGED <<task, writes, disk, note, said, fresh, pending, resuming>>
  BY DEF Return, memory, outside
<1>2. k \in Calls /\ k.pc = "returned" /\ k.task = call[c].task /\ k.left = 0
  BY <1>1 DEF TaskInv, Shapes, Calls
<1>3. call' = [call EXCEPT ![c] = k]
  BY DEF Return, TaskInv, Shapes, Calls
<1>4. /\ call' \in [Callers -> Calls] /\ call'[c] = k
      /\ \A d \in Callers : d # c => call'[d] = call[d]
  BY <1>2, <1>3, CallShape DEF TaskInv
<1>5. CallInv(c)'
  BY <1>1, <1>2, <1>4 DEF TaskInv, CallInv
<1>6. QED
  BY <1>1, <1>4, <1>5, CallChange

-----------------------------------------------------------------------------
(* Writes, notifications, and the death of the process.                     *)

\* The queue after its first write has ended.
LEMMA TailEffect ==
    ASSUME Shapes, NEW t \in Tasks, writes[t] # <<>>,
           writes' = [writes EXCEPT ![t] = Tail(writes[t])]
    PROVE  /\ writes' \in [Tasks -> Seq(Writes)]
           /\ Len(writes[t]) \in Nat \ {0} /\ Len(writes'[t]) = Len(writes[t]) - 1
           /\ \A i \in 1 .. Len(writes[t]) - 1 : writes'[t][i] = writes[t][i + 1]
           /\ Head(writes[t]) = writes[t][1] /\ Head(writes[t]) \in Writes
           /\ \A u \in Tasks : u # t => writes'[u] = writes[u]
<1>1. writes[t] \in Seq(Writes)
  BY DEF Shapes
<1>2. /\ Tail(writes[t]) \in Seq(Writes) /\ Len(Tail(writes[t])) = Len(writes[t]) - 1
      /\ \A i \in 1 .. Len(writes[t]) - 1 : Tail(writes[t])[i] = writes[t][i + 1]
      /\ Len(writes[t]) \in Nat \ {0} /\ Head(writes[t]) = writes[t][1]
      /\ Head(writes[t]) \in Writes
  BY <1>1
<1>3. writes' \in [Tasks -> Seq(Writes)]
  BY <1>2 DEF Shapes
<1>4. writes'[t] = Tail(writes[t]) /\ \A u \in Tasks : u # t => writes'[u] = writes[u]
  BY DEF Shapes
<1>5. QED
  BY <1>2, <1>3, <1>4

\* The first write of a queue, and the queue that it leaves.
LEMMA FirstWrite ==
    ASSUME Shapes, NEW t \in Tasks, QueueInv(t), writes[t] # <<>>,
           NEW n, n = Len(writes[t]), NEW s, s = writes[t][1].status,
           writes' = [writes EXCEPT ![t] = Tail(writes[t])]
    PROVE  /\ writes[t][1].end <=> s \in Terminal
           /\ s \in Terminal => Ended(t) /\ s = task[t].status
           /\ disk[t] \in Terminal => s \in Terminal
           /\ \A i \in 1 .. n - 1 :
                /\ writes'[t][i].end <=> Final(writes'[t][i])
                /\ Final(writes'[t][i]) => Ended(t) /\ writes'[t][i].status = task[t].status
                /\ s \in Terminal => Final(writes'[t][i])
           /\ \A i, j \in 1 .. n - 1 :
                i < j /\ Final(writes'[t][i]) => Final(writes'[t][j])
           /\ Ended(t) => /\ n = 1 => s \in Terminal
                          /\ n > 1 => Final(writes'[t][n - 1])
           /\ task[t].status \in Status
<1>1. /\ n \in Nat \ {0} /\ \A i \in 1 .. n - 1 : writes'[t][i] = writes[t][i + 1]
  BY TailEffect
<1>2. 1 \in 1 .. n /\ \A i \in 1 .. n - 1 : i + 1 \in 1 .. n /\ 1 < i + 1
  BY <1>1
<1>3. Final(writes[t][1]) <=> s \in Terminal
  BY DEF Final
<1>4. writes[t][1].end <=> s \in Terminal
  BY <1>2, <1>3, Zenon DEF QueueInv
<1>5. s \in Terminal => Ended(t) /\ s = task[t].status
  BY <1>2, <1>3, Zenon DEF QueueInv
<1>6. disk[t] \in Terminal => s \in Terminal
  BY <1>2, <1>3, Zenon DEF QueueInv
<1>7. \A i \in 1 .. n - 1 :
        /\ writes'[t][i].end <=> Final(writes'[t][i])
        /\ Final(writes'[t][i]) => Ended(t) /\ writes'[t][i].status = task[t].status
        /\ s \in Terminal => Final(writes'[t][i])
  <2> SUFFICES ASSUME NEW i \in 1 .. n - 1
               PROVE  /\ writes'[t][i].end <=> Final(writes'[t][i])
                      /\ Final(writes'[t][i]) => Ended(t) /\ writes'[t][i].status = task[t].status
                      /\ s \in Terminal => Final(writes'[t][i])
    OBVIOUS
  <2>1. writes'[t][i] = writes[t][i + 1] /\ i + 1 \in 1 .. n /\ 1 < i + 1
    BY <1>1, <1>2
  <2>2. writes[t][i + 1].end <=> Final(writes[t][i + 1])
    BY <2>1, Zenon DEF QueueInv
  <2>3. Final(writes[t][i + 1]) => Ended(t) /\ writes[t][i + 1].status = task[t].status
    BY <2>1, Zenon DEF QueueInv
  <2>4. s \in Terminal => Final(writes[t][i + 1])
    BY <1>2, <1>3, <2>1, Zenon DEF QueueInv
  <2>5. QED
    BY <2>1, <2>2, <2>3, <2>4, Zenon
<1>8. ASSUME NEW i \in 1 .. n - 1, NEW j \in 1 .. n - 1, i < j, Final(writes'[t][i])
      PROVE  Final(writes'[t][j])
  <2>1. i + 1 \in 1 .. n /\ j + 1 \in 1 .. n /\ i + 1 < j + 1
    BY <1>1, <1>8
  <2>2. Final(writes[t][i + 1])
    BY <1>1, <1>8, Zenon
  <2>3. Final(writes[t][j + 1])
    BY <2>1, <2>2, Zenon DEF QueueInv
  <2>4. QED
    BY <1>1, <2>3, Zenon
<1>9. Ended(t) => /\ n = 1 => s \in Terminal
                  /\ n > 1 => Final(writes'[t][n - 1])
  <2>1. Ended(t) => Final(writes[t][n])
    BY <1>1 DEF QueueInv
  <2>2. n > 1 => writes'[t][n - 1] = writes[t][n]
    BY <1>1
  <2>3. QED
    BY <1>3, <2>1, <2>2, Zenon
<1>10. task[t].status \in Status
  BY <1>1 DEF QueueInv, Shapes, Records
<1>11. QED
  BY <1>4, <1>5, <1>6, <1>7, <1>8, <1>9, <1>10, Zenon

\* What a write that has ended announces.
LEMMA AnnounceEffect ==
    ASSUME Shapes, NEW t \in Tasks, NEW fires \in BOOLEAN, Announce(t, fires),
           fires => Ended(t)
    PROVE  /\ task' \in [Tasks -> Records]
           /\ note' \in [Tasks -> Terminal \cup {"none", "steered"}]
           /\ task'[t].status = task[t].status /\ task'[t].live = task[t].live
           /\ fires => task'[t].fired
           /\ ~fires => task'[t].fired = task[t].fired
           /\ fires /\ ~task[t].fired => note'[t] = task[t].status
           /\ ~fires \/ task[t].fired => note'[t] = note[t]
           /\ \A u \in Tasks : u # t => task'[u] = task[u] /\ note'[u] = note[u]
<1>1. CASE fires
  <2> DEFINE r == [task[t] EXCEPT !.fired = TRUE]
  <2>1. r \in Records /\ r.status = task[t].status /\ r.live = task[t].live /\ r.fired
    BY DEF Shapes, Records
  <2>2. task' = [task EXCEPT ![t].fired = TRUE]
    BY <1>1, Zenon DEF Announce
  <2>3. task' = [task EXCEPT ![t] = r]
    BY <2>2 DEF Shapes, Records
  <2>4. /\ task' \in [Tasks -> Records] /\ task'[t] = r
        /\ \A u \in Tasks : u # t => task'[u] = task[u]
    BY <2>1, <2>3, RecordShape
  <2>5. task[t].status \in Terminal
    BY <1>1 DEF Ended
  <2>6. CASE task[t].fired
    <3>1. note' = note
      BY <1>1, <2>6, Zenon DEF Announce
    <3>2. QED
      BY <1>1, <2>1, <2>4, <2>6, <3>1 DEF Shapes
  <2>7. CASE ~task[t].fired
    <3>1. note' = [note EXCEPT ![t] = task[t].status]
      BY <1>1, <2>7, Zenon DEF Announce
    <3>2. QED
      BY <1>1, <2>1, <2>4, <2>5, <2>7, <3>1 DEF Shapes
  <2>8. QED
    BY <2>6, <2>7
<1>2. CASE ~fires
  <2>1. task' = task
    BY <1>2, Zenon DEF Announce
  <2>2. note' = note
    BY <1>2, Zenon DEF Announce
  <2>3. QED
    BY <1>2, <2>1, <2>2 DEF Shapes
<1>3. QED
  BY <1>1, <1>2

LEMMA OneLess ==
    ASSUME NEW a \in Nat, NEW n \in Nat, a <= n, a - 1 > 0
    PROVE  a - 1 \in 1 .. n - 1
OBVIOUS

LEMMA DrainRecord ==
    ASSUME NEW k \in Calls, NEW m \in Nat
    PROVE  LET r == [k EXCEPT !.pc = "drain", !.left = m]
           IN  r \in Calls /\ r.pc = "drain" /\ r.task = k.task /\ r.left = m
BY DEF Calls

LEMMA LeftRecord ==
    ASSUME NEW k \in Calls, NEW m \in Nat
    PROVE  LET r == [k EXCEPT !.left = m]
           IN  r \in Calls /\ r.pc = k.pc /\ r.task = k.task /\ r.left = m
BY DEF Calls

\* A caller that waits for the queue moves on with it.
LEMMA AdvanceCall ==
    ASSUME Shapes, NEW c \in Callers, CallInv(c), NEW t \in Tasks, QueueInv(t), QueueInv(t)',
           NEW n, n = Len(writes[t]), n \in Nat \ {0}, Len(writes'[t]) = n - 1,
           \A i \in 1 .. n - 1 : writes'[t][i] = writes[t][i + 1],
           NEW fires \in BOOLEAN, fires <=> Final(writes[t][1]), fires => Ended(t),
           task'[t].status = task[t].status, disk'[t] = writes[t][1].status,
           disk[t] \in Terminal => disk'[t] \in Terminal,
           \A u \in Tasks : u # t => Keeps(u),
           call'[c] = Advance(c, t, Tail(writes[t]), fires), Len(Tail(writes[t])) = n - 1
    PROVE  call'[c] \in Calls /\ CallInv(c)'
<1>1. call[c] \in Calls /\ call[c].left \in Nat
  BY DEF Shapes, Calls
<1>2. CASE call'[c] = call[c]
  <2>1. CASE call[c].task # t \/ call[c].pc = "idle"
    <3>1. CASE call[c].pc = "idle"
      BY <1>1, <1>2, <3>1 DEF CallInv
    <3>2. CASE call[c].task # t /\ call[c].pc # "idle"
      <4>1. call[c].task \in Tasks /\ Keeps(call[c].task)
        BY <3>2 DEF CallInv
      <4>2. QED
        BY <1>1, <1>2, <4>1, SMTT(20) DEF CallInv, Keeps, Ended, Final
    <3>3. QED
      BY <2>1, <3>1, <3>2
  <2>2. CASE call[c].task = t /\ call[c].pc # "drain"
    BY <1>1, <1>2, <2>2 DEF CallInv
  <2>3. CASE call[c].task = t /\ call[c].pc = "drain" /\ call[c].left = 0
    <3>1. task[t].status \in Terminal /\ disk[t] \in Terminal /\ task[t].status \in Status
      BY <2>3 DEF CallInv, Ended
    <3>2. QED
      BY <1>1, <1>2, <2>3, <3>1 DEF CallInv, Ended
  <2>4. CASE call[c].task = t /\ call[c].pc = "drain" /\ call[c].left # 0
    <3> DEFINE k == [call[c] EXCEPT !.left = call[c].left - 1]
    <3>1. call[c].left > 0
      BY <1>1, <2>4
    <3>2. call'[c] = k
      BY <2>4, <3>1, Zenon DEF Advance
    <3>3. call[c].left - 1 \in Nat
      BY <1>1, <3>1
    <3>4. k.left = call[c].left - 1
      BY <1>1, <3>3, LeftRecord, Zenon
    <3>5. call[c].left = call[c].left - 1
      BY <1>2, <3>2, <3>4, Zenon
    <3>6. QED
      BY <1>1, <3>5
  <2>5. QED
    BY <2>1, <2>2, <2>3, <2>4
<1>3. CASE call[c].task = t /\ call[c].pc = "drain" /\ call[c].left > 0
  <2> DEFINE k == [call[c] EXCEPT !.left = call[c].left - 1]
  <2>1. call'[c] = k
    BY <1>3, Zenon DEF Advance
  <2>2. k \in Calls /\ k.pc = "drain" /\ k.task = t /\ k.left = call[c].left - 1
    <3>1. call[c].left - 1 \in Nat
      BY <1>1, <1>3
    <3>2. QED
      BY <1>1, <1>3, <3>1, LeftRecord, Zenon
  <2>3. /\ task[t].status \in Terminal /\ task[t].status \in Status
        /\ call[c].left <= n /\ writes[t][call[c].left].status \in Terminal
    BY <1>3 DEF CallInv, Ended, Final
  <2>4. k.left <= n - 1 /\ (k.left = 0 => disk'[t] \in Terminal)
    BY <1>1, <1>3, <2>2, <2>3
  <2>5. k.left > 0 => writes'[t][k.left].status \in Terminal
    <3>1. call[c].left - 1 > 0 => call[c].left - 1 \in 1 .. n - 1
      BY <1>1, <2>3, n \in Nat, OneLess, Zenon
    <3>2. call[c].left - 1 + 1 = call[c].left
      BY <1>1
    <3>3. call[c].left - 1 > 0 => writes'[t][call[c].left - 1] = writes[t][call[c].left]
      BY <3>1, <3>2, Zenon
    <3>4. QED
      BY <2>2, <2>3, <3>3, Zenon
  <2>6. QED
    BY <2>1, <2>2, <2>3, <2>4, <2>5 DEF CallInv, Ended, Final
<1>4. CASE call[c].task = t /\ call[c].pc = "waiting" /\ fires
  <2> DEFINE k == [call[c] EXCEPT !.pc = "drain", !.left = Len(Tail(writes[t]))]
  <2>1. call'[c] = k
    BY <1>4, Zenon DEF Advance
  <2>2. k \in Calls /\ k.pc = "drain" /\ k.task = t /\ k.left = n - 1
    <3>1. Len(Tail(writes[t])) \in Nat
      OBVIOUS
    <3>2. k \in Calls /\ k.pc = "drain" /\ k.task = t /\ k.left = Len(Tail(writes[t]))
      BY <1>1, <1>4, <3>1, DrainRecord, Zenon
    <3>3. QED
      BY <3>2, Zenon
  <2>3. task[t].status \in Terminal /\ task[t].status \in Status /\ disk'[t] \in Terminal
    BY <1>4 DEF Ended, Final, Status
  <2>4. n - 1 \in Nat
    OBVIOUS
  <2>5. n - 1 > 0 => writes'[t][n - 1].status \in Terminal
    BY <2>3 DEF QueueInv, Ended, Final
  <2> HIDE DEF k
  <2>6. QED
    BY <2>1, <2>2, <2>3, <2>4, <2>5, SMTT(30) DEF CallInv, Ended, Final
<1>5. QED
  <2>1. \/ call'[c] = call[c]
        \/ call[c].task = t /\ call[c].pc = "drain" /\ call[c].left > 0
        \/ call[c].task = t /\ call[c].pc = "waiting" /\ fires
    BY Zenon DEF Advance
  <2>2. QED
    BY <1>2, <1>3, <1>4, <2>1

LEMMA WriteLandsPreserves ==
    ASSUME WritesLand, TaskInv, NEW t \in Tasks, WriteLands(t)
    PROVE  TaskInv'
<1> DEFINE n == Len(writes[t])
           s == writes[t][1].status
           fires == writes[t][1].end
<1>1. /\ Shapes /\ ResumeInv /\ QueueInv(t) /\ VerdictInv(t)
      /\ \A u \in Tasks : QueueInv(u) /\ VerdictInv(u)
      /\ \A c \in Callers : CallInv(c)
  BY Zenon DEF TaskInv
<1>2. /\ writes' = [writes EXCEPT ![t] = Tail(writes[t])]
      /\ disk' = [disk EXCEPT ![t] = Head(writes[t]).status]
      /\ Announce(t, Head(writes[t]).end)
      /\ call' = [c \in Callers |-> Advance(c, t, Tail(writes[t]), Head(writes[t]).end)]
      /\ writes[t] # <<>> /\ UNCHANGED <<said, fresh, pending, resuming>>
  BY Zenon DEF WriteLands, WritesLand
<1>3. /\ writes' \in [Tasks -> Seq(Writes)]
      /\ n \in Nat \ {0} /\ Len(writes'[t]) = n - 1
      /\ \A i \in 1 .. n - 1 : writes'[t][i] = writes[t][i + 1]
      /\ Head(writes[t]) = writes[t][1] /\ Head(writes[t]) \in Writes
      /\ \A u \in Tasks : u # t => writes'[u] = writes[u]
  BY <1>1, <1>2, TailEffect
<1>4. Len(Tail(writes[t])) = n - 1
  BY <1>1, <1>2 DEF Shapes
<1>5. s \in Status /\ fires \in BOOLEAN
  BY <1>3 DEF Writes
<1>6. /\ disk' \in [Tasks -> Status \cup {"absent"}] /\ disk'[t] = s
      /\ \A u \in Tasks : u # t => disk'[u] = disk[u]
  BY <1>1, <1>2, <1>3, <1>5 DEF Shapes
<1>7. /\ fires <=> s \in Terminal
      /\ s \in Terminal => Ended(t) /\ s = task[t].status
      /\ disk[t] \in Terminal => s \in Terminal
      /\ \A i \in 1 .. n - 1 :
           /\ writes'[t][i].end <=> Final(writes'[t][i])
           /\ Final(writes'[t][i]) => Ended(t) /\ writes'[t][i].status = task[t].status
           /\ s \in Terminal => Final(writes'[t][i])
      /\ \A i, j \in 1 .. n - 1 :
           i < j /\ Final(writes'[t][i]) => Final(writes'[t][j])
      /\ Ended(t) => /\ n = 1 => s \in Terminal
                     /\ n > 1 => Final(writes'[t][n - 1])
      /\ task[t].status \in Status
  BY <1>1, <1>2, FirstWrite
<1>8. /\ task' \in [Tasks -> Records]
      /\ note' \in [Tasks -> Terminal \cup {"none", "steered"}]
      /\ task'[t].status = task[t].status /\ task'[t].live = task[t].live
      /\ fires => task'[t].fired
      /\ ~fires => task'[t].fired = task[t].fired
      /\ fires /\ ~task[t].fired => note'[t] = task[t].status
      /\ ~fires \/ task[t].fired => note'[t] = note[t]
      /\ \A u \in Tasks : u # t => task'[u] = task[u] /\ note'[u] = note[u]
  <2>1. Announce(t, fires)
    BY <1>2, <1>3, Zenon
  <2>2. fires => Ended(t)
    BY <1>7, Zenon
  <2>3. QED
    BY <1>1, <1>5, <2>1, <2>2, AnnounceEffect
<1>9. Ended(t)' <=> Ended(t)
  BY <1>8 DEF Ended
<1>10. \A u \in Tasks : u # t => Keeps(u)
  BY <1>2, <1>3, <1>6, <1>8 DEF Keeps
<1> HIDE DEF n, s, fires
<1>11. QueueInv(t)'
  <2>1. Len(writes'[t]) = n - 1 /\ disk'[t] = s
    BY <1>3, <1>6
  <2>2. s \in Terminal => \A i \in 1 .. n - 1 : Final(writes'[t][i])
    BY <1>7
  <2>3. Ended(t)' => /\ n - 1 = 0 => s \in Terminal
                     /\ n - 1 > 0 => Final(writes'[t][n - 1])
                     /\ s \in Terminal => s = task'[t].status
    BY <1>3, <1>7, <1>8, <1>9
  <2>4. task'[t].status \in Active => s \notin Terminal
    BY <1>7, <1>8 DEF Ended, Active, Terminal
  <2>5. task'[t].status \in Status
    BY <1>7, <1>8
  <2>6. task'[t].status \notin {"none", "reserved"}
    BY <2>5 DEF Status, Terminal, Active
  <2>7. \A i \in 1 .. n - 1 :
          /\ writes'[t][i].end <=> Final(writes'[t][i])
          /\ Final(writes'[t][i]) => Ended(t)' /\ writes'[t][i].status = task'[t].status
    BY <1>7, <1>8, <1>9
  <2>8. \A i, j \in 1 .. n - 1 : i < j /\ Final(writes'[t][i]) => Final(writes'[t][j])
    BY <1>7
  <2>9. QED
    BY <2>1, <2>2, <2>3, <2>4, <2>5, <2>6, <2>7, <2>8 DEF QueueInv, Final
<1>12. VerdictInv(t)'
  <2>1. ~resuming /\ ~resuming' /\ said'[t] = said[t]
    <3>1. task[t].status # "none"
      BY <1>7 DEF Status, Terminal, Active
    <3>2. QED
      BY <1>1, <1>2, <3>1, InUse
  <2>2. CASE fires
    <3>1. /\ task[t].status \in Terminal /\ disk'[t] = task[t].status
          /\ disk[t] \in Terminal => disk[t] = task[t].status
      BY <1>1, <1>6, <1>7, <2>2 DEF Ended, QueueInv
    <3>2. CASE task[t].fired
      BY <1>1, <1>8, <2>1, <2>2, <3>1, <3>2 DEF VerdictInv, Ended
    <3>3. CASE ~task[t].fired
      BY <1>1, <1>8, <2>1, <2>2, <3>1, <3>3 DEF VerdictInv, Ended, Terminal
    <3>4. QED
      BY <3>2, <3>3
  <2>3. CASE ~fires
    <3>1. disk[t] \notin Terminal /\ disk'[t] \notin Terminal
      BY <1>6, <1>7, <2>3
    <3>2. said[t] = <<>> /\ note[t] = "none" /\ ~task[t].fired
      BY <1>1, <3>1 DEF VerdictInv, Ended
    <3>3. said'[t] = <<>> /\ note'[t] = "none" /\ ~task'[t].fired
      BY <1>8, <2>1, <2>3, <3>2
    <3>4. QED
      BY <3>1, <3>3 DEF VerdictInv, Terminal
  <2>4. QED
    BY <1>5, <2>2, <2>3
<1>13. \A u \in Tasks : QueueInv(u)' /\ VerdictInv(u)'
  BY <1>1, <1>2, <1>10, <1>11, <1>12, KeepsInv
<1>14. ASSUME NEW c \in Callers PROVE call'[c] \in Calls /\ CallInv(c)'
  <2>1. call'[c] = Advance(c, t, Tail(writes[t]), fires)
    BY <1>2, <1>3, Zenon DEF fires
  <2>2. /\ disk'[t] = writes[t][1].status
        /\ fires <=> Final(writes[t][1])
    BY <1>6, <1>7 DEF s, Final
  <2>3. fires => Ended(t)
    BY <1>7
  <2>4. disk[t] \in Terminal => disk'[t] \in Terminal
    BY <1>6, <1>7
  <2>5. n = Len(writes[t])
    BY DEF n
  <2>6. Shapes /\ CallInv(c) /\ QueueInv(t) /\ t \in Tasks
    BY <1>1, Zenon
  <2>7. /\ n \in Nat \ {0} /\ Len(writes'[t]) = n - 1
        /\ \A i \in 1 .. n - 1 : writes'[t][i] = writes[t][i + 1]
    BY <1>3, Zenon
  <2>8. task'[t].status = task[t].status
    BY <1>8, Zenon
  <2>9. QED
    BY <1>4, <1>5, <1>10, <1>11, <2>1, <2>2, <2>3, <2>4, <2>5, <2>6, <2>7, <2>8,
       AdvanceCall, Zenon
<1>15. Shapes'
  <2>1. call' \in [Callers -> Calls]
    <3>1. \A c \in Callers : Advance(c, t, Tail(writes[t]), Head(writes[t]).end) \in Calls
      BY <1>2, <1>14, Zenon
    <3>2. QED
      BY <1>2, <3>1, Zenon
  <2>2. QED
    BY <1>1, <1>2, <1>3, <1>6, <1>8, <2>1 DEF Shapes
<1>16. ResumeInv'
  <2>1. task[t].status # "none"
    BY <1>7 DEF Status, Terminal, Active
  <2>2. QED
    BY <1>1, <1>2, <2>1, InUse, ResumeKept
<1>17. QED
  BY <1>13, <1>14, <1>15, <1>16 DEF TaskInv

LEMMA SayEffect ==
    ASSUME Shapes, NEW t \in Tasks, NEW status \in Terminal, Say(t, status),
           said[t] = <<>>
    PROVE  /\ said' \in [Tasks -> Seq(Terminal)] /\ said'[t] = <<status>>
           /\ \A u \in Tasks : u # t => said'[u] = said[u]
           /\ fresh' \subseteq Tasks
BY DEF Say, Shapes

\* A step of one task that leaves its status, its queue and its file alone.
LEMMA SpokenPreserves ==
    ASSUME TaskInv, NEW t \in Tasks, VerdictInv(t)', Shapes', ResumeInv',
           \A u \in Tasks : u # t => said'[u] = said[u] /\ note'[u] = note[u],
           UNCHANGED <<task, writes, disk, call, resuming>>
    PROVE  TaskInv'
<1>1. \A u \in Tasks : QueueInv(u)'
  BY DEF TaskInv, QueueInv, Ended
<1>2. \A u \in Tasks : u # t => VerdictInv(u)'
  BY DEF TaskInv, VerdictInv, Ended
<1>3. \A c \in Callers : CallInv(c)'
  BY DEF TaskInv, CallInv, Ended
<1>4. QED
  BY <1>1, <1>2, <1>3 DEF TaskInv

LEMMA NotifyPreserves ==
    ASSUME TaskInv, NEW t \in Tasks, Notify(t)
    PROVE  TaskInv'
<1>1. note[t] \in Terminal /\ UNCHANGED <<task, writes, disk, call, pending, resuming>>
  BY DEF Notify, memory
<1>2. Shapes /\ VerdictInv(t) /\ ResumeInv
  BY DEF TaskInv
<1>3. /\ said[t] = <<>> /\ task[t].fired /\ disk[t] = note[t] /\ note[t] = task[t].status
      /\ Ended(t) /\ disk[t] \in Terminal
  BY <1>1, <1>2 DEF VerdictInv, Terminal
<1>4. ResumeInv'
  BY <1>1, <1>2 DEF ResumeInv
<1>5. CASE Say(t, note[t]) /\ note' = [note EXCEPT ![t] = "none"]
  <2>1. /\ said' \in [Tasks -> Seq(Terminal)] /\ said'[t] = <<note[t]>>
        /\ \A u \in Tasks : u # t => said'[u] = said[u]
        /\ fresh' \subseteq Tasks
    BY <1>1, <1>2, <1>3, <1>5, SayEffect
  <2>2. /\ note' \in [Tasks -> Terminal \cup {"none", "steered"}] /\ note'[t] = "none"
        /\ \A u \in Tasks : u # t => note'[u] = note[u]
    BY <1>2, <1>5 DEF Shapes
  <2>3. VerdictInv(t)'
    BY <1>1, <1>3, <2>1, <2>2 DEF VerdictInv, Ended, Terminal
  <2>4. Shapes'
    BY <1>1, <1>2, <2>1, <2>2 DEF Shapes
  <2>5. QED
    BY <1>1, <1>4, <2>1, <2>2, <2>3, <2>4, SpokenPreserves
<1>6. CASE note' = [note EXCEPT ![t] = "steered"] /\ UNCHANGED <<said, fresh>>
  <2>1. /\ note' \in [Tasks -> Terminal \cup {"none", "steered"}] /\ note'[t] = "steered"
        /\ \A u \in Tasks : u # t => note'[u] = note[u]
    BY <1>2, <1>6 DEF Shapes
  <2>2. VerdictInv(t)'
    BY <1>1, <1>3, <1>6, <2>1 DEF VerdictInv, Ended, Terminal
  <2>3. Shapes'
    BY <1>1, <1>2, <1>6, <2>1 DEF Shapes
  <2>4. QED
    BY <1>1, <1>4, <1>6, <2>1, <2>2, <2>3, SpokenPreserves
<1>7. QED
  BY <1>5, <1>6, Zenon DEF Notify

LEMMA FlushSteerPreserves ==
    ASSUME TaskInv, NEW t \in Tasks, FlushSteer(t)
    PROVE  TaskInv'
<1>1. /\ note[t] = "steered" /\ Say(t, task[t].status) /\ note' = [note EXCEPT ![t] = "none"]
      /\ UNCHANGED <<task, writes, disk, call, pending, resuming>>
  BY DEF FlushSteer, memory
<1>2. Shapes /\ VerdictInv(t) /\ ResumeInv
  BY DEF TaskInv
<1>3. /\ said[t] = <<>> /\ task[t].fired /\ disk[t] = task[t].status
      /\ task[t].status \in Terminal
  BY <1>1, <1>2 DEF VerdictInv, Ended
<1>4. ResumeInv'
  BY <1>1, <1>2 DEF ResumeInv
<1>5. /\ said' \in [Tasks -> Seq(Terminal)] /\ said'[t] = <<task[t].status>>
      /\ \A u \in Tasks : u # t => said'[u] = said[u]
      /\ fresh' \subseteq Tasks
  BY <1>1, <1>2, <1>3, SayEffect
<1>6. /\ note' \in [Tasks -> Terminal \cup {"none", "steered"}] /\ note'[t] = "none"
      /\ \A u \in Tasks : u # t => note'[u] = note[u]
  BY <1>1, <1>2 DEF Shapes
<1>7. VerdictInv(t)'
  BY <1>1, <1>3, <1>5, <1>6 DEF VerdictInv, Ended, Terminal
<1>8. Shapes'
  BY <1>1, <1>2, <1>5, <1>6 DEF Shapes
<1>9. QED
  BY <1>1, <1>4, <1>5, <1>6, <1>7, <1>8, SpokenPreserves

LEMMA CrashPreserves ==
    ASSUME TaskInv, Crash
    PROVE  TaskInv'
<1>1. /\ task' = [t \in Tasks |-> NoTask] /\ writes' = [t \in Tasks |-> <<>>]
      /\ call' = [c \in Callers |-> NoCall] /\ note' = [t \in Tasks |-> "none"]
      /\ fresh' = {} /\ pending' = {t \in Tasks : disk[t] \in Active}
      /\ resuming' = TRUE /\ disk' = disk
  BY DEF Crash
<1>2. PICK lost \in SUBSET fresh :
        said' = [t \in Tasks |-> IF t \in lost THEN <<>> ELSE said[t]]
  BY DEF Crash
<1>3. Shapes /\ \A t \in Tasks : VerdictInv(t)
  BY DEF TaskInv
<1>4. /\ NoCall \in Calls /\ NoCall.pc = "idle" /\ NoTask \in Records /\ NoTask.status = "none"
      /\ ~NoTask.live /\ ~NoTask.fired
  BY DEF NoCall, Calls, NoTask, Records
<1>5. said' \in [Tasks -> Seq(Terminal)]
  BY <1>2, <1>3 DEF Shapes
<1>6. Shapes'
  <2>1. /\ task' \in [Tasks -> Records] /\ call' \in [Callers -> Calls]
        /\ note' \in [Tasks -> Terminal \cup {"none", "steered"}]
    BY <1>1, <1>4
  <2>2. writes' \in [Tasks -> Seq(Writes)]
    BY <1>1
  <2>3. QED
    BY <1>1, <1>3, <1>5, <2>1, <2>2 DEF Shapes
<1>7. ResumeInv'
  BY <1>1, <1>4 DEF ResumeInv
<1>8. ASSUME NEW t \in Tasks PROVE QueueInv(t)' /\ VerdictInv(t)'
  <2>1. /\ task'[t] = NoTask /\ writes'[t] = <<>> /\ note'[t] = "none"
        /\ said'[t] = <<>> \/ said'[t] = said[t]
    BY <1>1, <1>2
  <2>2. QueueInv(t)'
    BY <1>1, <1>4, <2>1 DEF QueueInv, Ended, Terminal, Active
  <2>3. VerdictInv(t)'
    BY <1>1, <1>3, <1>4, <2>1 DEF VerdictInv, Ended, Terminal
  <2>4. QED
    BY <2>2, <2>3
<1>9. \A c \in Callers : CallInv(c)'
  BY <1>1, <1>4 DEF CallInv
<1>10. QED
  BY <1>6, <1>7, <1>8, <1>9 DEF TaskInv

LEMMA MarkLostPreserves ==
    ASSUME TaskInv, NEW t \in Tasks, MarkLost(t)
    PROVE  TaskInv'
<1>1. /\ t \in pending /\ pending' = pending \ {t}
      /\ disk' = [disk EXCEPT ![t] = "lost"] \/ disk' = disk
      /\ UNCHANGED <<task, writes, call, note, said, fresh, resuming>>
  BY DEF MarkLost, memory
<1>2. /\ Shapes /\ ResumeInv /\ \A u \in Tasks : QueueInv(u) /\ VerdictInv(u)
      /\ \A c \in Callers : CallInv(c)
  BY DEF TaskInv
<1>3. /\ resuming /\ disk[t] \in Active /\ \A u \in Tasks : task[u].status = "none"
  BY <1>1, <1>2 DEF ResumeInv
<1>4. /\ disk' \in [Tasks -> Status \cup {"absent"}] /\ disk'[t] \in {disk[t], "lost"}
      /\ \A u \in Tasks : u # t => disk'[u] = disk[u]
  BY <1>1, <1>2 DEF Shapes, Status, Terminal
<1>5. Shapes'
  BY <1>1, <1>2, <1>4 DEF Shapes
<1>6. ResumeInv'
  <2>1. resuming' /\ \A u \in Tasks : task'[u].status = "none"
    BY <1>1, <1>3
  <2>2. ASSUME NEW u \in pending' PROVE disk'[u] \in Active
    BY <1>1, <1>2, <1>4 DEF ResumeInv, Shapes
  <2>3. QED
    BY <2>1, <2>2 DEF ResumeInv
<1>7. ASSUME NEW u \in Tasks PROVE QueueInv(u)' /\ VerdictInv(u)'
  <2>1. CASE u # t
    BY <1>1, <1>2, <1>4, <2>1 DEF QueueInv, VerdictInv, Ended
  <2>2. CASE u = t
    <3>1. /\ Len(writes[t]) = 0 /\ ~Ended(t) /\ disk[t] \notin Terminal /\ ~task[t].live
      BY <1>2, <1>3 DEF QueueInv, Ended, Terminal, Active, Status
    <3>2. said[t] = <<>> /\ note[t] = "none" /\ ~task[t].fired
      BY <1>2, <3>1 DEF VerdictInv
    <3>3. QueueInv(t)'
      BY <1>1, <1>2, <1>3, <1>4, <3>1 DEF QueueInv, Ended, Terminal, Active
    <3>4. VerdictInv(t)'
      BY <1>1, <1>3, <1>4, <3>1, <3>2 DEF VerdictInv, Ended, Terminal
    <3>5. QED
      BY <2>2, <3>3, <3>4
  <2>3. QED
    BY <2>1, <2>2
<1>8. ASSUME NEW c \in Callers PROVE CallInv(c)'
  <2>1. call[c].pc \in {"idle", "returned"}
    <3>1. call[c].pc # "idle" => call[c].task \in Tasks
      BY <1>2 DEF CallInv
    <3>2. "none" \notin Status
      BY DEF Status, Terminal, Active
    <3>3. QED
      BY <1>2, <1>3, <3>1, <3>2 DEF CallInv
  <2>2. CASE call[c].pc = "idle"
    BY <1>1, <2>2 DEF CallInv
  <2>3. CASE call[c].pc = "returned"
    <3>1. call[c].task \in Tasks /\ disk[call[c].task] \in Terminal
      BY <1>2, <2>3 DEF CallInv
    <3>2. call[c].task # t
      BY <1>3, <3>1 DEF Active, Terminal
    <3>3. QED
      BY <1>1, <1>4, <2>3, <3>1, <3>2 DEF CallInv
  <2>4. QED
    BY <2>1, <2>2, <2>3
<1>9. QED
  BY <1>5, <1>6, <1>7, <1>8 DEF TaskInv

LEMMA RestoreNotificationPreserves ==
    ASSUME TaskInv, NEW t \in Tasks, RestoreNotification(t)
    PROVE  TaskInv'
<1>1. /\ resuming /\ pending = {} /\ disk[t] \in Terminal /\ ~Delivered(t) /\ Say(t, disk[t])
      /\ UNCHANGED <<task, writes, disk, call, note, pending, resuming>>
  BY DEF RestoreNotification, memory
<1>2. Shapes /\ VerdictInv(t) /\ ResumeInv
  BY DEF TaskInv
<1>3. said[t] = <<>>
  BY <1>1, <1>2 DEF VerdictInv, Delivered
<1>4. /\ said' \in [Tasks -> Seq(Terminal)] /\ said'[t] = <<disk[t]>>
      /\ \A u \in Tasks : u # t => said'[u] = said[u]
      /\ fresh' \subseteq Tasks
  BY <1>1, <1>2, <1>3, SayEffect
<1>5. task[t].status = "none" /\ ~Ended(t)
  BY <1>1, <1>2 DEF ResumeInv, Ended, Terminal
<1>6. note[t] = "none" /\ ~task[t].fired
  BY <1>2, <1>5 DEF VerdictInv
<1>7. VerdictInv(t)'
  BY <1>1, <1>4, <1>5, <1>6 DEF VerdictInv, Ended, Terminal
<1>8. Shapes' /\ ResumeInv'
  BY <1>1, <1>2, <1>4 DEF Shapes, ResumeInv
<1>9. QED
  BY <1>1, <1>4, <1>7, <1>8, SpokenPreserves

LEMMA ResumeEndsPreserves ==
    ASSUME TaskInv, ResumeEnds
    PROVE  TaskInv'
<1>1. /\ resuming /\ pending = {} /\ resuming' = FALSE
      /\ \A t \in Tasks : disk[t] \in Terminal => Delivered(t)
      /\ UNCHANGED <<task, writes, disk, call, note, said, fresh, pending>>
  BY DEF ResumeEnds, memory
<1>2. Shapes' /\ ResumeInv'
  BY <1>1 DEF TaskInv, Shapes, ResumeInv
<1>3. \A t \in Tasks : QueueInv(t)'
  BY <1>1 DEF TaskInv, QueueInv, Ended
<1>4. ASSUME NEW t \in Tasks PROVE VerdictInv(t)'
  <2>1. disk[t] \in Terminal => said[t] # <<>>
    BY <1>1 DEF Delivered
  <2>2. QED
    BY <1>1, <2>1 DEF TaskInv, VerdictInv, Ended
<1>5. \A c \in Callers : CallInv(c)'
  BY <1>1 DEF TaskInv, CallInv, Ended
<1>6. QED
  BY <1>2, <1>3, <1>4, <1>5 DEF TaskInv

-----------------------------------------------------------------------------
(* The theorems.                                                            *)

LEMMA TaskInvStep == WritesLand /\ TaskInv /\ [Next]_vars => TaskInv'
<1> SUFFICES ASSUME WritesLand, TaskInv, [Next]_vars PROVE TaskInv'
  OBVIOUS
<1>1. ASSUME NEW t \in Tasks, TaskStep(t) PROVE TaskInv'
  <2>1. CASE ReserveSlot(t)
    BY <2>1, ReserveSlotPreserves
  <2>2. CASE StartFails(t)
    BY <2>2, StartFailsPreserves
  <2>3. CASE Register(t)
    BY <2>3, RegisterPreserves
  <2>4. CASE AwaitApproval(t)
    BY <2>4, AwaitApprovalPreserves
  <2>5. CASE ProcessExits(t)
    BY <2>5, ProcessExitsPreserves
  <2>6. CASE WaitRejects(t)
    BY <2>6, WaitRejectsPreserves
  <2>7. CASE AgentSettles(t)
    BY <2>7, AgentSettlesPreserves
  <2>8. QED
    BY <1>1, <2>1, <2>2, <2>3, <2>4, <2>5, <2>6, <2>7 DEF TaskStep
<1>2. ASSUME NEW t \in Tasks, Write(t) PROVE TaskInv'
  BY <1>2, WriteLandsPreserves DEF Write
<1>3. ASSUME NEW t \in Tasks, Notify(t) PROVE TaskInv'
  BY <1>3, NotifyPreserves
<1>4. ASSUME NEW t \in Tasks, FlushSteer(t) PROVE TaskInv'
  BY <1>4, FlushSteerPreserves
<1>5. ASSUME NEW c \in Callers, Answer(c) PROVE TaskInv'
  BY <1>5, GraceEndsPreserves, KillReturnsPreserves, ReturnPreserves DEF Answer
<1>6. ASSUME NEW c \in Callers, NEW t \in Tasks, Stop(c, t) PROVE TaskInv'
  BY <1>6, StopPreserves
<1>7. ASSUME NEW c \in Callers, NEW t \in Tasks, WaitForTerminal(c, t) PROVE TaskInv'
  BY <1>7, WaitForTerminalPreserves
<1>8. CASE Crash
  BY <1>8, CrashPreserves
<1>9. CASE Restore
  BY <1>9, MarkLostPreserves, RestoreNotificationPreserves, ResumeEndsPreserves DEF Restore
<1>10. CASE UNCHANGED vars
  <2>1. UNCHANGED <<task, writes, disk, call, note, said, fresh, pending, resuming>>
    BY <1>10 DEF vars
  <2>2. Shapes' /\ ResumeInv'
    BY <2>1 DEF TaskInv, Shapes, ResumeInv
  <2>3. \A t \in Tasks : QueueInv(t)' /\ VerdictInv(t)'
    BY <2>1 DEF TaskInv, QueueInv, VerdictInv, Ended
  <2>4. \A c \in Callers : CallInv(c)'
    BY <2>1 DEF TaskInv, CallInv, Ended
  <2>5. QED
    BY <2>2, <2>3, <2>4 DEF TaskInv
<1>11. QED
  BY <1>1, <1>2, <1>3, <1>4, <1>5, <1>6, <1>7, <1>8, <1>9, <1>10, Zenon DEF Next

LEMMA TaskInvHolds == WritesLand /\ Spec => []TaskInv
<1>1. WritesLand => []WritesLand
  <2>1. WritesLand => WritesLand'
    BY DEF WritesLand
  <2>2. QED
    BY <2>1, PTL
<1>2. Init => TaskInv
  BY InitTaskInv
<1>3. WritesLand /\ TaskInv /\ [Next]_vars => TaskInv'
  BY TaskInvStep
<1>4. QED
  BY <1>1, <1>2, <1>3, PTL DEF Spec

\* However many tasks end, are stopped, fail and overrun their deadlines at
\* once, and wherever crashes fall, each leaves one verdict in the
\* conversation, the one in its file, as long as no write of a task's file
\* fails (manager.ts finalizeTerminal, persistLive, fireTerminalCallbacks;
\* background/index.ts restoreBackgroundTaskNotification).
THEOREM OneVerdictCorrect == WritesLand /\ Spec => []OneVerdict
<1>1. TaskInv => OneVerdict
  BY DEF TaskInv, VerdictInv, OneVerdict
<1>2. QED
  BY <1>1, TaskInvHolds, PTL

\* stop and waitForTerminal answer only when the end of the task is in its
\* file, however many callers and writes the task's queue holds.
THEOREM ReturnsDurableCorrect == WritesLand /\ Spec => []ReturnsDurable
<1>1. TaskInv => ReturnsDurable
  BY DEF TaskInv, CallInv, ReturnsDurable
<1>2. QED
  BY <1>1, TaskInvHolds, PTL

=============================================================================
