-------------------------- MODULE AgentHarness_proofs --------------------------
(***************************************************************************)
(* Proofs about AgentHarness, for any features, any attempts and any       *)
(* number of operations, responses, items, aborts and crashes.             *)
(***************************************************************************)
EXTENDS AgentHarnessInv, TLAPS

-----------------------------------------------------------------------------
(* Every constructor of an id yields one. *)
LEMMA IdsAreIds ==
    /\ \A op \in Nat : InputId(op) \in InputIds /\ CompactionId(op) \in IdSet
    /\ \A i \in Nat : ItemId(i) \in QueuedIds /\ WriteId(i) \in DeferredIds
    /\ AutoId \in AutoIds
    /\ \A op, att, step \in Nat : AssistantId(op, att, step) \in AssistantIds
    /\ \A id \in IdSet : ResultIdOf(id) \in IdSet
BY DEF InputId, CompactionId, ItemId, WriteId, AutoId, AssistantId, ResultIdOf, Id, IdSet, IdKinds,
       IdsOf, InputIds, QueuedIds, DeferredIds, AutoIds, AssistantIds

LEMMA KindsOfIds ==
    /\ AssistantIds \subseteq IdSet /\ DeferredIds \subseteq IdSet /\ InputIds \subseteq IdSet
    /\ QueuedIds \subseteq InputIds /\ \A label \in IdTodo : TodoIds(label) \subseteq IdSet
    /\ TodoIds("steer") = QueuedIds
    /\ TodoIds("writes") = DeferredIds /\ TodoIds("abortWrites") = DeferredIds
BY DEF IdSet, IdKinds, IdsOf, AssistantIds, DeferredIds, InputIds, QueuedIds, TodoIds

LEMMA TodoSeqs ==
    /\ \A label \in IdTodo : \A s \in Seq(TodoIds(label)) : s \in Seq(IdSet)
    /\ \A s \in Seq(DeferredIds) : s \in Seq(IdSet)
BY KindsOfIds

LEMMA IdleIsOK == ProcOK(Idle) /\ Idle.pc = "idle"
BY DEF Idle, ProcSet, Labels, Progress, ProcOK, IdTodo, ToolTodo

LEMMA InitShape == Init => Shape
<1> SUFFICES ASSUME Init PROVE Shape
  OBVIOUS
<1>1. InitLane \in LaneSet /\ InitLane.op = None
  BY DEF InitLane, LaneSet, Queues, Statuses
<1>2. ProcShape
  BY IdleIsOK DEF Init, ProcShape, ProcOK
<1>3. HistoryShape
  BY DEF Init, HistoryShape
<1>4. QED
  BY <1>1, <1>2, <1>3 DEF Init, Shape, DiskShape, LaneShape, ChainShape

(* Reducing a record keeps the lane's shape; the open operation is the old *)
(* one, none, or the one the record starts.                                *)
LEMMA ApplyRecordShape ==
    ASSUME NEW l \in LaneSet, NEW r \in RecordSet
    PROVE  /\ ApplyRecord(l, r) \in LaneSet
           /\ \/ ApplyRecord(l, r).op \in {l.op, None}
              \/ r.kind = "operation_started" /\ ApplyRecord(l, r).op = r.op
<1> USE DEF LaneSet, Queues, Statuses
<1>1. CASE r \in StartedSet
  <2>1. ApplyRecord(l, r) = OperationStarted(l, r)
    BY <1>1 DEF ApplyRecord, StartedSet
  <2>2. << >> \in Seq(ToolSet) /\ r.op \in Nat /\ r.opKind \in OpKinds
    BY <1>1 DEF StartedSet
  <2>3. r.kind = "operation_started"
    BY <1>1 DEF StartedSet
  <2> DEFINE a == [l EXCEPT !.status = "running", !.op = r.op]
             b == [a EXCEPT !.kind = r.opKind, !.abortRequested = FALSE]
             d == [b EXCEPT !.attempts = 0, !.maxAttempts = 0, !.dangling = << >>]
  <2>4. a \in LaneSet /\ a.op = r.op
    BY <2>2
  <2> HIDE DEF a
  <2>5. b \in LaneSet /\ b.op = r.op
    BY <2>2, <2>4
  <2> HIDE DEF b
  <2>6. d \in LaneSet /\ d.op = r.op
    BY <2>2, <2>5
  <2>7. OperationStarted(l, r) \in {l, d}
    BY DEF OperationStarted, a, b
  <2> HIDE DEF d
  <2>8. QED
    BY <2>1, <2>3, <2>6, <2>7
<1>2. CASE r \in AbortSet
  <2>1. ApplyRecord(l, r) = AbortRequested(l, r)
    BY <1>2 DEF ApplyRecord, AbortSet
  <2>2. QED
    BY <2>1, ZenonT(40) DEF AbortRequested
<1>3. CASE r \in FinishedSet
  <2>1. ApplyRecord(l, r) = OperationFinished(l, r)
    BY <1>3 DEF ApplyRecord, FinishedSet
  <2>2. << >> \in Seq(ToolSet) /\ << >> \in Seq(Nat)
    OBVIOUS
  <2> DEFINE a == [l EXCEPT !.status = "idle", !.op = None, !.kind = None]
             b == [a EXCEPT !.abortRequested = FALSE, !.attempts = 0, !.maxAttempts = 0]
             d == [b EXCEPT !.dangling = << >>]
             e == [d EXCEPT !.queues.steer = << >>]
             f == [e EXCEPT !.queues.followUp = IF r.outcome = "aborted" THEN << >> ELSE @]
  <2>3. a \in LaneSet /\ a.op = None
    OBVIOUS
  <2> HIDE DEF a
  <2>4. b \in LaneSet /\ b.op = None
    BY <2>3
  <2> HIDE DEF b
  <2>5. d \in LaneSet /\ d.op = None
    BY <2>2, <2>4
  <2> HIDE DEF d
  <2>6. e \in LaneSet /\ e.op = None
    BY <2>2, <2>5
  <2> HIDE DEF e
  <2>7. f \in LaneSet /\ f.op = None
    BY <2>2, <2>6
  <2>8. OperationFinished(l, r) \in {l, f}
    BY DEF OperationFinished, a, b, d, e
  <2> HIDE DEF f
  <2>9. QED
    BY <2>1, <2>7, <2>8
<1>4. CASE r \in ToolRecords
  <2>1. ApplyRecord(l, r) = ToolStarted(l, r) /\ r.tool \in ToolSet
    BY <1>4 DEF ApplyRecord, ToolRecords
  <2>2. l.dangling \in Seq(ToolSet)
    OBVIOUS
  <2>3. Append(l.dangling, r.tool) \in Seq(ToolSet)
    BY <2>1, <2>2
  <2>4. QED
    BY <2>1, <2>3 DEF ToolStarted
<1>5. CASE r \in EnqueuedSet
  <2>1. ApplyRecord(l, r) = QueueEnqueued(l, r) /\ r.item \in Nat /\ r.queue \in Queues
    BY <1>5 DEF ApplyRecord, EnqueuedSet
  <2>2. l.queues[r.queue] \in Seq(Nat)
    BY <2>1
  <2>3. Append(l.queues[r.queue], r.item) \in Seq(Nat)
    BY <2>1, <2>2
  <2>4. [l.queues EXCEPT ![r.queue] = Append(@, r.item)] \in [Queues -> Seq(Nat)]
    BY <2>1, <2>3
  <2>5. QED
    BY <2>1, <2>4 DEF QueueEnqueued
<1>6. CASE r \in AttemptSet
  <2>1. ApplyRecord(l, r) = TaskAttempt(l, r) /\ r.attempt \in Nat /\ r.maxAttempts \in Nat
    BY <1>6 DEF ApplyRecord, AttemptSet
  <2>2. QED
    BY <2>1, ZenonT(40) DEF TaskAttempt
<1>7. CASE r \in DeferredSet
  BY <1>7 DEF ApplyRecord, DeferredSet
<1>8. QED
  BY <1>1, <1>2, <1>3, <1>4, <1>5, <1>6, <1>7 DEF RecordSet

-----------------------------------------------------------------------------
(* What an action may do to one coroutine and to the chain, and still      *)
(* leave everything in shape.                                              *)
LEMMA LabelsAre ==
    {"idle", "beforeRun", "compact", "navigate", "move", "input", "top", "writes", "readSteer",
     "steer", "ask", "model", "toolStarted", "execute", "assistant", "result", "stepEnd",
     "roundEnd", "park", "abortNote", "abortRead", "abortWrites", "finish", "release", "resumed",
     "redeem", "ensure", "reconcile", "replayed"} \subseteq Labels
BY DEF Labels

LEMMA PlainAre ==
    /\ Plain \subseteq Labels
    /\ {"beforeRun", "compact", "navigate", "move", "input", "top", "readSteer", "ask", "model",
        "toolStarted", "execute", "assistant", "result", "stepEnd", "roundEnd", "park",
        "abortNote", "abortRead", "release", "redeem"} \subseteq Plain
BY DEF Plain, Labels, IdTodo, ToolTodo

LEMMA PlainGoto ==
    ASSUME NEW p, ProcOK(p), p.pc # "idle", NEW label \in Plain
    PROVE  ProcOK([p EXCEPT !.pc = label]) /\ [p EXCEPT !.pc = label].pc = label
BY PlainAre DEF ProcOK, ProcSet, Plain, IdTodo, ToolTodo

LEMMA StartedProcs ==
    ASSUME NEW label \in Plain, NEW op \in Nat
    PROVE  /\ LET q == [Idle EXCEPT !.pc = label, !.op = op, !.att = 1, !.holds = TRUE]
              IN  q \in ProcSet /\ q.op = op /\ q.pc = label
           /\ LET q == [Idle EXCEPT !.pc = label, !.op = op, !.holds = TRUE]
              IN  q \in ProcSet /\ q.op = op /\ q.pc = label
           /\ LET q == [Idle EXCEPT !.pc = label, !.op = op]
              IN  q \in ProcSet /\ q.op = op /\ q.pc = label
BY IdleIsOK, PlainAre DEF ProcOK, ProcSet

LEMMA UpdateShape ==
    ASSUME ProcShape, NEW c \in Callers, NEW q, ProcOK(q), Update(c, q), UNCHANGED ops
    PROVE  proc' \in [Callers -> ProcSet] /\ \A d \in Callers : ProcOK(proc[d])'
BY DEF ProcShape, Update, ProcOK

LEMMA AppendEntryShape ==
    ASSUME ChainShape, NEW c \in Callers, NEW id \in IdSet \cup {AutoId}, NEW what \in Whats, NEW tok \in Nat,
           AppendEntry(c, id, what, tok) \/ UNCHANGED chain, UNCHANGED ops
    PROVE  ChainShape'
<1> DEFINE a == [by |-> c, put |-> "entry", what |-> [id |-> id, what |-> what, tok |-> tok]]
<1>1. a \in ChainSet /\ a.put = "entry"
  BY DEF ChainSet, EntryAppends, PutSet, Writers
<1>2. CASE UNCHANGED chain
  BY <1>2 DEF ChainShape
<1>3. CASE chain' = Append(chain, a)
  <2> HIDE DEF a
  <2>1. chain' \in Seq(ChainSet) /\ DOMAIN chain' = 1..(Len(chain) + 1)
    BY <1>1, <1>3 DEF ChainShape
  <2>2. \A i \in DOMAIN chain' : chain'[i] = a \/ (i \in DOMAIN chain /\ chain'[i] = chain[i])
    BY <1>1, <1>3, <2>1 DEF ChainShape
  <2>3. QED
    BY <1>1, <2>1, <2>2 DEF ChainShape
<1>4. QED
  BY <1>2, <1>3 DEF AppendEntry

LEMMA AppendRecordShape ==
    ASSUME ChainShape, NEW by \in Writers, NEW r \in RecordSet, AppendRecord(by, r),
           r.kind = "operation_started" => r.op \in 1..Len(ops'), Len(ops) <= Len(ops'),
           Len(ops) \in Nat, Len(ops') \in Nat
    PROVE  ChainShape'
<1> DEFINE a == [by |-> by, put |-> "record", what |-> r]
<1>1. a \in ChainSet /\ a.what = r
  BY DEF ChainSet, RecordAppends
<1>2. chain' = Append(chain, a)
  BY DEF AppendRecord
<1> HIDE DEF a
<1>3. chain' \in Seq(ChainSet) /\ DOMAIN chain' = 1..(Len(chain) + 1)
  BY <1>1, <1>2 DEF ChainShape
<1>4. \A i \in DOMAIN chain' : chain'[i] = a \/ (i \in DOMAIN chain /\ chain'[i] = chain[i])
  BY <1>1, <1>2, <1>3 DEF ChainShape
<1>5. QED
  BY <1>1, <1>3, <1>4 DEF ChainShape

(* A step that changes only the chain and one coroutine. *)
LEMMA QuietShape ==
    ASSUME Shape, Quiet, ChainShape', NEW c \in Callers, NEW q, ProcOK(q),
           Update(c, q) \/ UNCHANGED proc
    PROVE  Shape'
<1>1. UNCHANGED <<runtime, signal, lane, entries, durable, ops, toolLog, writeLog, responses,
                  executed, sealed, started, finished, enqueued, returned, acked, used>>
  BY DEF Quiet, Silent, disk, history
<1>2. proc' \in [Callers -> ProcSet] /\ \A d \in Callers : ProcOK(proc[d])'
  BY <1>1, UpdateShape DEF Shape, ProcShape, ProcOK
<1>3. ProcShape'
  BY <1>1, <1>2 DEF Shape, ProcShape
<1>4. DiskShape' /\ LaneShape' /\ HistoryShape'
  BY <1>1 DEF Shape, DiskShape, LaneShape, HistoryShape
<1>5. QED
  BY <1>3, <1>4 DEF Shape

LEMMA PlainStep ==
    ASSUME Shape, NEW c \in Callers, proc[c].pc # "idle", NEW label \in Plain, Goto(c, label),
           NEW id \in IdSet \cup {AutoId}, NEW what \in Whats, NEW tok \in Nat,
           AppendEntry(c, id, what, tok) \/ UNCHANGED chain, Quiet
    PROVE  Shape'
<1>1. Update(c, [proc[c] EXCEPT !.pc = label])
  BY DEF Goto, Update
<1>2. ProcOK([proc[c] EXCEPT !.pc = label])
  BY PlainGoto DEF Shape, ProcShape
<1>3. UNCHANGED ops
  BY DEF Quiet, Silent, disk
<1>4. ChainShape'
  BY <1>3, AppendEntryShape DEF Shape
<1>5. QED
  BY <1>1, <1>2, <1>4, QuietShape

LEMMA UpdateStep ==
    ASSUME Shape, NEW c \in Callers, NEW q, ProcOK(q), Update(c, q) \/ UNCHANGED proc,
           NEW id \in IdSet \cup {AutoId}, NEW what \in Whats, NEW tok \in Nat,
           AppendEntry(c, id, what, tok) \/ UNCHANGED chain, Quiet
    PROVE  Shape'
BY AppendEntryShape, QuietShape DEF Quiet, Silent, disk, Shape

LEMMA RecordStep ==
    ASSUME Shape, NEW c \in Callers, NEW q, ProcOK(q), Update(c, q), NEW r \in RecordSet,
           r.kind = "operation_started" => r.op \in 1..Len(ops),
           AppendRecord(c, r), Quiet
    PROVE  Shape'
BY AppendRecordShape, QuietShape DEF Quiet, Silent, disk, Shape, DiskShape, Writers

LEMMA FinishOK ==
    ASSUME NEW p, ProcOK(p), p.pc # "idle", NEW o \in Outcomes
    PROVE  ProcOK([p EXCEPT !.pc = "finish", !.outcome = o])
<1> DEFINE q == [p EXCEPT !.pc = "finish", !.outcome = o]
<1>1. q \in ProcSet /\ q.pc = "finish" /\ q.outcome = o /\ q.op = p.op
  BY LabelsAre DEF ProcOK, ProcSet, Progress
<1> HIDE DEF q
<1>2. ProcOK(q)
  BY <1>1 DEF ProcOK, IdTodo, ToolTodo
<1>3. QED
  BY <1>2 DEF q

LEMMA TodoOK ==
    ASSUME NEW p, ProcOK(p), p.pc # "idle", NEW label \in IdTodo, NEW s \in Seq(TodoIds(label)),
           label = "abortWrites" => p.outcome \in Outcomes
    PROVE  ProcOK([p EXCEPT !.pc = label, !.todo = s])
<1> DEFINE q == [p EXCEPT !.pc = label, !.todo = s]
<1>1. q \in ProcSet /\ q.pc = label /\ q.todo = s /\ q.op = p.op /\ q.outcome = p.outcome
  BY LabelsAre, TodoSeqs DEF ProcOK, ProcSet, IdTodo
<1> HIDE DEF q
<1>2. ProcOK(q)
  BY <1>1 DEF ProcOK, IdTodo, ToolTodo
<1>3. QED
  BY <1>2 DEF q

LEMMA ToolsOK ==
    ASSUME NEW p, ProcOK(p), p.pc # "idle", NEW label \in ToolTodo, NEW s \in Seq(ToolSet),
           label = "replayed" => s # << >>
    PROVE  ProcOK([p EXCEPT !.pc = label, !.todo = s])
<1> DEFINE q == [p EXCEPT !.pc = label, !.todo = s]
<1>1. q \in ProcSet /\ q.pc = label /\ q.todo = s /\ q.op = p.op
  BY LabelsAre DEF ProcOK, ProcSet, ToolTodo
<1> HIDE DEF q
<1>2. ProcOK(q)
  BY <1>1 DEF ProcOK, IdTodo, ToolTodo
<1>3. QED
  BY <1>2 DEF q

LEMMA WriteTodoShape ==
    ASSUME Shape, NEW c \in Callers, NEW here \in IdTodo, NEW what \in Whats,
           NEW next \in Plain \cup {"finish"}, next = "finish" => here = "abortWrites",
           WriteTodo(c, here, what, next)
    PROVE  Shape'
<1> DEFINE todo == proc[c].todo
<1>1. /\ proc[c].pc = here /\ Quiet /\ ProcOK(proc[c]) /\ todo \in Seq(TodoIds(here))
      /\ proc[c].pc # "idle" /\ proc[c] \in ProcSet
      /\ here = "abortWrites" => proc[c].outcome \in Outcomes
  BY DEF WriteTodo, At, Shape, ProcShape, ProcOK, IdTodo
<1>2. CASE todo = << >> /\ Goto(c, next) /\ UNCHANGED chain
  <2>1. CASE next \in Plain
    BY IdsAreIds, <1>1, <1>2, <2>1, PlainStep
  <2>2. CASE next = "finish"
    <3>1. [proc[c] EXCEPT !.pc = "finish", !.outcome = proc[c].outcome]
            = [proc[c] EXCEPT !.pc = "finish"]
      BY <1>1 DEF ProcSet
    <3>2. ProcOK([proc[c] EXCEPT !.pc = "finish"])
      BY <1>1, <2>2, <3>1, FinishOK
    <3>3. Update(c, [proc[c] EXCEPT !.pc = "finish"])
      BY <1>2, <2>2 DEF Goto, Update
    <3>4. 0 \in Nat
      BY IdsAreIds
    <3>5. QED
      BY <1>1, <1>2, <3>2, <3>3, <3>4, UpdateStep
  <2>3. QED
    BY <2>1, <2>2
<1>3. CASE todo # << >> /\ AppendEntry(c, Head(todo), what, 0)
           /\ Update(c, [proc[c] EXCEPT !.todo = Tail(todo)])
  <2>1. Head(todo) \in IdSet /\ Tail(todo) \in Seq(TodoIds(here)) /\ 0 \in Nat
    BY <1>1, <1>3, KindsOfIds
  <2>2. [proc[c] EXCEPT !.todo = Tail(todo)] = [proc[c] EXCEPT !.pc = here, !.todo = Tail(todo)]
    BY <1>1 DEF ProcSet
  <2>3. ProcOK([proc[c] EXCEPT !.todo = Tail(todo)])
    BY <1>1, <2>1, <2>2, TodoOK
  <2>4. QED
    BY <1>1, <1>3, <2>1, <2>3, UpdateStep
<1>4. QED
  BY <1>2, <1>3 DEF WriteTodo

LEMMA OpsShape ==
    ASSUME Shape, NEW c \in Callers, proc[c].pc # "idle"
    PROVE  /\ proc[c].op \in 1..Len(ops) /\ ops[proc[c].op].kind \in OpKinds
           /\ ops[proc[c].op].input \in InputIds \cup {None}
<1>1. proc[c].op \in 1..Len(ops)
  BY DEF Shape, ProcShape, ProcOK
<1>2. ops \in Seq(OpSet)
  BY DEF Shape, DiskShape
<1>3. ops[proc[c].op] \in OpSet
  BY <1>1, <1>2
<1>4. QED
  BY <1>1, <1>3 DEF OpSet

(* Starting and accepting. *)
LEMMA StartShape ==
    ASSUME Shape, NEW c \in Callers, Start(c)
    PROVE  Shape'
<1>1. /\ Len(ops) \in Nat /\ ProcOK(proc[c])
      /\ \A k \in OpKinds, input \in InputIds \cup {None} :
           LET longer == Append(ops, [kind |-> k, input |-> input])
           IN  /\ longer \in Seq(OpSet)
               /\ Len(longer) = Len(ops) + 1
  BY DEF Shape, DiskShape, ProcShape, OpSet
<1>2. ASSUME NEW q, NEW k \in OpKinds, NEW input \in InputIds \cup {None},
             q \in ProcSet, q.op = Len(ops) + 1, q.pc \in Plain,
             Update(c, q), ops' = Append(ops, [kind |-> k, input |-> input]),
             UNCHANGED <<entries, durable, toolLog, writeLog>>,
             ChainShape', LaneShape', HistoryShape',
             runtime' \in Callers \cup {None}, signal' \in [Callers -> BOOLEAN]
      PROVE  Shape'
  <2>1. ops' \in Seq(OpSet) /\ Len(ops') = Len(ops) + 1
    BY <1>1, <1>2
  <2>2. DiskShape'
    BY <1>1, <1>2, <2>1 DEF Shape, DiskShape
  <2>3. proc' \in [Callers -> ProcSet] /\ proc'[c] = q
        /\ \A d \in Callers \ {c} : proc'[d] = proc[d]
    BY <1>2 DEF Shape, ProcShape, Update
  <2>4. \A d \in Callers : ProcOK(proc[d])'
    BY <1>1, <1>2, <2>1, <2>3 DEF Shape, ProcShape, ProcOK, Plain, IdTodo, ToolTodo
  <2>5. QED
    BY <1>2, <2>2, <2>3, <2>4 DEF Shape, ProcShape
<1>4. ASSUME UNCHANGED lane, UNCHANGED history, Len(ops) <= Len(ops'), Len(ops') \in Nat
      PROVE  LaneShape' /\ HistoryShape' /\ (UNCHANGED chain => ChainShape')
  BY <1>1, <1>4 DEF Shape, LaneShape, HistoryShape, history, ChainShape
<1>5. ASSUME NEW input, input = None \/ input \in InputIds, StartRun(c, input)
      PROVE  Shape'
  <2> DEFINE in == IF input = None THEN InputId(Len(ops) + 1) ELSE input
             q == [Idle EXCEPT !.pc = "beforeRun", !.op = Len(ops) + 1, !.att = 1, !.holds = TRUE]
  <2>1. /\ ops' = Append(ops, [kind |-> "prompt", input |-> in]) /\ Update(c, q)
        /\ UNCHANGED <<lane, chain, entries, durable, toolLog, writeLog, history>>
        /\ runtime' \in Callers \cup {None} /\ signal' \in [Callers -> BOOLEAN]
    BY <1>5 DEF StartRun, Shape, ProcShape
  <2>2. in \in InputIds /\ "prompt" \in OpKinds
    BY <1>1, <1>5, IdsAreIds DEF OpKinds
  <2>3. q \in ProcSet /\ q.op = Len(ops) + 1 /\ q.pc \in Plain
    <3>1. "beforeRun" \in Plain /\ Len(ops) + 1 \in Nat
      BY <1>1, PlainAre
    <3>2. QED
      BY <3>1, StartedProcs, Zenon
  <2> HIDE DEF in, q
  <2>4. Len(ops') = Len(ops) + 1
    BY <1>1, <2>1, <2>2
  <2>5. LaneShape' /\ HistoryShape' /\ ChainShape'
    BY <1>1, <1>4, <2>1, <2>4
  <2>6. QED
    BY <1>2, <2>1, <2>2, <2>3, <2>5
<1>6. CASE Prompt(c)
  BY <1>5, <1>6 DEF Prompt
<1>7. CASE Drain(c)
  <2>1. PICK k \in Unconsumed(Waiting) : StartRun(c, ItemId(Waiting[k]))
    BY <1>7 DEF Drain
  <2>2. Waiting \in Seq(Nat)
    BY DEF Waiting, Shape, LaneShape, LaneSet, Queues
  <2>3. Waiting[k] \in Nat
    BY <2>2 DEF Unconsumed
  <2>4. ItemId(Waiting[k]) \in InputIds
    BY <2>3, IdsAreIds, KindsOfIds
  <2>5. QED
    BY <1>5, <2>1, <2>4
<1>8. CASE Compact(c)
  <2> DEFINE q == [Idle EXCEPT !.pc = "compact", !.op = Len(ops) + 1, !.holds = TRUE]
             r == [kind |-> "operation_started", op |-> Len(ops) + 1, opKind |-> "compaction"]
  <2>1. /\ ops' = Append(ops, [kind |-> "compaction", input |-> None]) /\ Update(c, q)
        /\ AppendRecord(c, r)
        /\ UNCHANGED <<lane, entries, durable, toolLog, writeLog, history>>
        /\ runtime' \in Callers \cup {None} /\ signal' \in [Callers -> BOOLEAN]
    BY <1>8 DEF Compact, Shape, ProcShape
  <2>2. q \in ProcSet /\ q.op = Len(ops) + 1 /\ q.pc \in Plain
    <3>1. "compact" \in Plain /\ Len(ops) + 1 \in Nat
      BY <1>1, PlainAre
    <3>2. QED
      BY <3>1, StartedProcs, Zenon
  <2>3. "compaction" \in OpKinds /\ r \in RecordSet /\ r.op = Len(ops) + 1
    BY <1>1 DEF OpKinds, RecordSet, StartedSet
  <2> HIDE DEF q, r
  <2>4. Len(ops') = Len(ops) + 1
    BY <1>1, <2>1, <2>3
  <2>5. ChainShape'
    BY <1>1, <2>1, <2>3, <2>4, AppendRecordShape DEF Shape, Writers
  <2>6. LaneShape' /\ HistoryShape'
    BY <1>1, <1>4, <2>1, <2>4
  <2>7. QED
    BY <1>2, <2>1, <2>2, <2>3, <2>5, <2>6
<1>9. CASE Navigate(c)
  <2> DEFINE q == [Idle EXCEPT !.pc = "navigate", !.op = Len(ops) + 1]
  <2>1. /\ ops' = Append(ops, [kind |-> "navigation", input |-> None]) /\ Update(c, q)
        /\ UNCHANGED <<runtime, signal, lane, chain, entries, durable, toolLog, writeLog, history>>
        /\ runtime' \in Callers \cup {None} /\ signal' \in [Callers -> BOOLEAN]
    BY <1>9 DEF Navigate, Shape, ProcShape
  <2>2. q \in ProcSet /\ q.op = Len(ops) + 1 /\ q.pc \in Plain
    <3>1. "navigate" \in Plain /\ Len(ops) + 1 \in Nat
      BY <1>1, PlainAre
    <3>2. QED
      BY <3>1, StartedProcs, Zenon
  <2>3. "navigation" \in OpKinds
    BY DEF OpKinds
  <2> HIDE DEF q
  <2>4. Len(ops') = Len(ops) + 1
    BY <1>1, <2>1, <2>3
  <2>5. LaneShape' /\ HistoryShape' /\ ChainShape'
    BY <1>1, <1>4, <2>1, <2>4
  <2>6. QED
    BY <1>2, <2>1, <2>2, <2>3, <2>5
<1>10. QED
  BY <1>6, <1>7, <1>8, <1>9 DEF Start

LEMMA AcceptShape ==
    ASSUME Shape, NEW c \in Callers,
           BeforeRun(c) \/ ApplyCompaction(c) \/ NavigateStart(c) \/ NavigateMove(c)
             \/ MaterialiseInput(c)
    PROVE  Shape'
<1> DEFINE p == proc[c]
<1>1. ProcOK(p) /\ p \in ProcSet /\ p.op \in Nat
  BY DEF Shape, ProcShape, ProcOK, ProcSet
<1>2. 0 \in Nat /\ CompactionId(p.op) \in IdSet
  BY <1>1, IdsAreIds
<1>3. ASSUME p.pc # "idle"
      PROVE  /\ StartedRecord(p.op) \in RecordSet /\ p.op \in 1..Len(ops)
             /\ StartedRecord(p.op).op = p.op
  BY <1>3, OpsShape, <1>1 DEF StartedRecord, RecordSet, StartedSet
<1>4. CASE BeforeRun(c)
  <2>1. CASE /\ Update(c, Idle) /\ runtime' = None
             /\ UNCHANGED <<chain, signal>> /\ Silent
    BY <2>1, IdleIsOK, UpdateShape DEF Silent, disk, Shape, ProcShape, DiskShape, LaneShape,
       ChainShape, HistoryShape, history
  <2>2. CASE AppendRecord(c, StartedRecord(p.op)) /\ Goto(c, "input") /\ Quiet
    BY <1>4, PlainAre, <1>1, <2>2, PlainGoto, <1>3, RecordStep DEF BeforeRun, At, Goto, Update
  <2>3. QED
    BY <1>4, <2>1, <2>2 DEF BeforeRun
<1>5. CASE ApplyCompaction(c)
  <2> DEFINE q(outcome) == [p EXCEPT !.pc = "finish", !.outcome = outcome]
  <2>1. p.pc = "compact" /\ Quiet
    BY <1>5 DEF ApplyCompaction, At
  <2>2. \A o \in {"aborted", "declined", "completed"} : ProcOK(q(o))
    BY <1>1, <2>1, FinishOK DEF Outcomes
  <2>3. PICK o \in {"aborted", "declined", "completed"} :
          /\ Update(c, q(o))
          /\ AppendEntry(c, CompactionId(p.op), "compaction", 0) \/ UNCHANGED chain
    BY <1>5, Zenon DEF ApplyCompaction
  <2>4. "compaction" \in Whats
    BY DEF Whats
  <2> HIDE DEF q
  <2>5. QED
    BY <1>2, <2>1, <2>2, <2>3, <2>4, UpdateStep
<1>6. CASE NavigateStart(c)
  BY <1>6, PlainAre, <1>1, PlainGoto, <1>3, RecordStep DEF NavigateStart, At, Goto, Update
<1>7. CASE NavigateMove(c)
  BY <1>7, <1>1, FinishOK, <1>2, UpdateStep DEF NavigateMove, At, Outcomes, Whats
<1>8. CASE MaterialiseInput(c)
  <2>1. p.pc = "input" /\ Quiet /\ Goto(c, "top") /\ "top" \in Plain /\ "input" \in Whats
    BY <1>8, PlainAre DEF MaterialiseInput, At, Whats
  <2>2. PICK id \in IdSet : AppendEntry(c, id, "input", 0) \/ UNCHANGED chain
    BY <2>1, OpsShape, <1>2, <1>8, KindsOfIds DEF MaterialiseInput
  <2>3. QED
    BY <1>2, <2>1, <2>2, PlainStep
<1>9. QED
  BY <1>4, <1>5, <1>6, <1>7, <1>8

LEMMA AppendApiShape ==
    ASSUME ChainShape, NEW r \in RecordSet, r.kind # "operation_started",
           AppendRecord("api", r), UNCHANGED ops, Len(ops) \in Nat
    PROVE  ChainShape'
BY AppendRecordShape DEF Writers

(* The turn loop: most of its steps only move on, with or without an entry *)
(* appended.                                                               *)
LEMMA LoopShape ==
    ASSUME Shape, NEW c \in Callers,
           \/ LoopTop(c) \/ CheckpointWrites(c) \/ CheckpointRead(c) \/ CheckpointSteer(c)
           \/ Ask(c) \/ CutOff(c) \/ Defer(c) \/ FlushAssistant(c) \/ WriteResult(c)
           \/ RoundEnd(c) \/ Park(c) \/ AbortNote(c) \/ AbortRead(c) \/ AbortWrites(c) \/ Finish(c)
    PROVE  Shape'
<1> DEFINE p == proc[c]
<1>1. ProcOK(p) /\ p \in ProcSet /\ p.op \in Nat /\ p.att \in Nat /\ p.step \in Nat /\ p.resp \in Nat
  BY DEF Shape, ProcShape, ProcOK, ProcSet
<1>2. 0 \in Nat /\ Slot(c) \in AssistantIds /\ ResultIdOf(Slot(c)) \in IdSet
      /\ Slot(c) \in IdSet /\ AssistantId(p.op, p.att, p.step + 1) \in IdSet
  BY <1>1, IdsAreIds, KindsOfIds DEF Slot
<1>3. {"input", "deferred", "partial", "call", "text", "result", "continue", "handle", "aborted"}
        \subseteq Whats
  BY DEF Whats
<1>4. writeLog \in Seq(DeferredIds)
  BY DEF Shape, DiskShape
<1>5. CASE LoopTop(c)
  <2>1. p.pc # "idle" /\ Quiet /\ UNCHANGED chain
    BY <1>5 DEF LoopTop, At
  <2>2. CASE Goto(c, "abortNote")
    BY <1>1, <1>2, <1>3, <2>1, <2>2, PlainAre, PlainStep
  <2>3. CASE Update(c, [p EXCEPT !.pc = "writes", !.todo = writeLog])
    BY KindsOfIds, <1>1, <1>4, <2>1, TodoOK, <1>2, <1>3, <2>3, UpdateStep DEF IdTodo
  <2>4. QED
    BY <1>5, <2>2, <2>3 DEF LoopTop
<1>6. CASE CheckpointWrites(c) \/ CheckpointSteer(c) \/ AbortWrites(c)
  <2>1. {"writes", "steer", "abortWrites"} \subseteq IdTodo /\ {"readSteer", "ask"} \subseteq Plain
    BY PlainAre DEF IdTodo
  <2>2. CASE CheckpointWrites(c)
    BY <1>3, <2>1, <2>2, WriteTodoShape DEF CheckpointWrites
  <2>3. CASE CheckpointSteer(c)
    BY <1>3, <2>1, <2>3, WriteTodoShape DEF CheckpointSteer
  <2>4. CASE AbortWrites(c)
    BY <1>3, <2>1, <2>4, WriteTodoShape DEF AbortWrites
  <2>5. QED
    BY <1>6, <2>2, <2>3, <2>4
<1>7. CASE CheckpointRead(c)
  <2> DEFINE items == lane.queues["steer"]
  <2>1. p.pc # "idle" /\ Quiet /\ UNCHANGED chain
        /\ Update(c, [p EXCEPT !.pc = "steer", !.todo = ItemIds(items)])
    BY <1>7 DEF CheckpointRead, At
  <2>2. items \in Seq(Nat)
    BY DEF Shape, LaneShape, LaneSet, Queues
  <2>3. ItemIds(items) \in Seq(QueuedIds)
    BY <2>2, IdsAreIds DEF ItemIds
  <2>4. "steer" \in IdTodo /\ "steer" # "abortWrites" /\ TodoIds("steer") = QueuedIds
    BY KindsOfIds DEF IdTodo
  <2>5. ProcOK([p EXCEPT !.pc = "steer", !.todo = ItemIds(items)])
    BY <1>1, <2>1, <2>3, <2>4, TodoOK
  <2>6. QED
    BY <1>2, <1>3, <2>1, <2>5, UpdateStep
<1>8. CASE Ask(c) \/ Defer(c)
  BY <1>8, <1>2, <1>3, PlainAre, PlainStep DEF Ask, Defer, At
<1>9. CASE CutOff(c)
  BY <1>9, <1>1, PlainAre, PlainGoto, FinishOK, <1>2, <1>3, UpdateStep DEF CutOff, At, Outcomes
<1>10. CASE FlushAssistant(c)
  BY <1>10, <1>1, <1>2, <1>3, PlainAre, PlainStep DEF FlushAssistant, At
<1>11. CASE WriteResult(c)
  BY <1>11, <1>1, <1>2, <1>3, PlainAre, PlainStep DEF WriteResult, At
<1>12. CASE RoundEnd(c)
  <2> DEFINE q == [p EXCEPT !.pc = "top", !.round = @ + 1, !.step = 0]
  <2>1. /\ p.pc # "idle" /\ p.pc = "roundEnd" /\ Quiet
        /\ \/ AppendEntry(c, AutoId, "continue", 0) /\ Update(c, q)
           \/ Update(c, [p EXCEPT !.pc = "finish", !.outcome = "completed"]) /\ UNCHANGED chain
    BY <1>12 DEF RoundEnd, At
  <2>2. ProcOK(q)
    <3>1. p.round + 1 \in Nat /\ "top" \in Labels /\ 0 \in Nat
      BY <1>1, LabelsAre DEF ProcSet
    <3>2. q \in ProcSet /\ q.pc = "top" /\ q.op = p.op
      BY <1>1, <3>1 DEF ProcSet
    <3> HIDE DEF q
    <3>3. QED
      BY <1>1, <2>1, <3>2 DEF ProcOK, IdTodo, ToolTodo
  <2>3. ProcOK([p EXCEPT !.pc = "finish", !.outcome = "completed"])
    BY <1>1, <2>1, FinishOK DEF Outcomes
  <2> HIDE DEF q
  <2>4. QED
    BY <1>2, <1>3, <2>1, <2>2, <2>3, UpdateStep
<1>13. CASE Park(c)
  BY <1>13, <1>1, <1>2, <1>3, PlainAre, PlainStep DEF Park, At
<1>14. CASE AbortNote(c)
  <2> DEFINE queued == lane.queues["steer"] \o lane.queues["followUp"]
             dead == { queued[k] : k \in Unconsumed(queued) }
             q == [p EXCEPT !.pc = "abortRead", !.dead = dead]
  <2>1. p.pc # "idle" /\ Quiet /\ Update(c, q) /\ AppendEntry(c, AutoId, "aborted", 0)
    BY <1>14 DEF AbortNote, At
  <2>2. queued \in Seq(Nat)
    BY DEF Shape, LaneShape, LaneSet, Queues
  <2> HIDE DEF queued
  <2>3. dead \in SUBSET Nat
    BY <2>2 DEF Unconsumed
  <2> HIDE DEF dead
  <2>4. ProcOK(q)
    <3>1. q \in ProcSet /\ q.pc = "abortRead" /\ q.op = p.op
      BY <1>1, <2>3, LabelsAre DEF ProcSet
    <3> HIDE DEF q
    <3>2. QED
      BY <1>1, <2>1, <3>1 DEF ProcOK, IdTodo, ToolTodo
  <2> HIDE DEF q
  <2>5. QED
    BY <1>2, <1>3, <2>1, <2>4, UpdateStep
<1>15. CASE AbortRead(c)
  <2> DEFINE q == [p EXCEPT !.pc = "abortWrites", !.todo = writeLog, !.outcome = "aborted"]
  <2>1. p.pc # "idle" /\ Quiet /\ Update(c, q) /\ UNCHANGED chain
    BY <1>15 DEF AbortRead, At
  <2>2. ProcOK(q)
    <3>1. q \in ProcSet /\ q.pc = "abortWrites" /\ q.op = p.op /\ q.outcome = "aborted"
          /\ q.todo = writeLog
      BY <1>1, <1>4, LabelsAre, TodoSeqs DEF ProcSet, Progress, Outcomes
    <3> HIDE DEF q
    <3>2. QED
      BY <1>1, <1>4, <2>1, <3>1, KindsOfIds DEF ProcOK, IdTodo, ToolTodo, Outcomes
  <2> HIDE DEF q
  <2>3. QED
    BY <1>2, <1>3, <2>1, <2>2, UpdateStep
<1>16. CASE Finish(c)
  <2> DEFINE r == [kind |-> "operation_finished", op |-> p.op, outcome |-> p.outcome]
  <2>1. p.pc = "finish" /\ Quiet /\ Goto(c, "release") /\ AppendRecord(c, r)
    BY <1>16 DEF Finish, At
  <2>2. r \in RecordSet /\ r.kind # "operation_started"
    BY <1>1, <2>1 DEF ProcOK, RecordSet, FinishedSet
  <2>3. Update(c, [p EXCEPT !.pc = "release"]) /\ ProcOK([p EXCEPT !.pc = "release"])
    BY <1>1, <2>1, PlainAre, PlainGoto DEF Goto, Update
  <2> HIDE DEF r
  <2>4. QED
    BY <2>1, <2>2, <2>3, RecordStep
<1>17. QED
  BY <1>5, <1>6, <1>7, <1>8, <1>9, <1>10, <1>11, <1>12, <1>13, <1>14, <1>15, <1>16

LEMMA ExecutedShape ==
    ASSUME executed \in [1..MaxResponses -> Nat], NEW r,
           executed' = executed \/ executed' = [executed EXCEPT ![r] = @ + 1]
    PROVE  executed' \in [1..MaxResponses -> Nat]
OBVIOUS

LEMMA CountersShape ==
    ASSUME used \in [items : Nat, aborts : Nat, crashes : Nat],
           \/ used' = [used EXCEPT !.items = @ + 1]
           \/ used' = [used EXCEPT !.aborts = @ + 1]
           \/ used' = [used EXCEPT !.crashes = @ + 1]
    PROVE  used' \in [items : Nat, aborts : Nat, crashes : Nat]
OBVIOUS

(* The steps of a response that touch more than the chain. *)
LEMMA ResponseShape ==
    ASSUME Shape, BoundsAssumption, NEW c \in Callers,
           Answer(c) \/ RecordTool(c) \/ ExecuteTool(c) \/ StepEnd(c) \/ Release(c)
    PROVE  Shape'
<1> DEFINE p == proc[c]
<1>1. ProcOK(p) /\ p \in ProcSet /\ p.op \in Nat /\ p.resp \in Nat /\ p.step \in Nat
  BY DEF Shape, ProcShape, ProcOK, ProcSet
<1>2. Slot(c) \in AssistantIds /\ Tool(c) \in ToolSet
  BY <1>1, IdsAreIds DEF ProcSet, Slot, Tool, ToolSet
<1>3. ASSUME NEW q, ProcOK(q), Update(c, q), UNCHANGED <<disk, runtime, signal>>
      PROVE  ProcShape' /\ DiskShape'
  BY <1>3, UpdateShape DEF disk, Shape, ProcShape, DiskShape
<1>4. ASSUME UNCHANGED <<lane, disk>>
      PROVE  LaneShape' /\ (UNCHANGED chain => ChainShape')
  BY <1>4 DEF disk, Shape, LaneShape, ChainShape
<1>5. CASE Answer(c)
  <2> DEFINE q(label, replay, outcome) ==
               [p EXCEPT !.pc = label, !.step = @ + 1, !.resp = responses + 1,
                         !.replay = replay, !.outcome = outcome]
  <2>1. /\ p.pc # "idle" /\ responses' = responses + 1
        /\ UNCHANGED <<chain, runtime, signal, lane, disk, executed, sealed, started, finished,
                       enqueued, returned, acked, used>>
    BY <1>5 DEF Answer, At
  <2>2. \E label \in {"assistant", "toolStarted"}, replay \in {"never", "safe"},
           outcome \in {"text", "tool"} : Update(c, q(label, replay, outcome))
    BY <1>5 DEF Answer
  <2>3. ASSUME NEW label \in {"assistant", "toolStarted"}, NEW replay \in {"never", "safe"},
               NEW outcome \in {"text", "tool"}
        PROVE  ProcOK(q(label, replay, outcome))
    <3> DEFINE r == q(label, replay, outcome)
    <3>1. responses + 1 \in Nat /\ p.step + 1 \in Nat
      BY <1>1, SMTT(30) DEF Shape, HistoryShape
    <3>2. label \in Labels /\ outcome \in Progress
      BY LabelsAre DEF Progress
    <3>3. r \in ProcSet /\ r.pc = label /\ r.op = p.op
      BY <1>1, <3>1, <3>2 DEF ProcSet
    <3> HIDE DEF r
    <3>4. ProcOK(r)
      BY <1>1, <2>1, <3>3 DEF ProcOK, IdTodo, ToolTodo
    <3>5. QED
      BY <3>4 DEF r
  <2> HIDE DEF q
  <2>4. HistoryShape'
    BY <2>1 DEF Shape, HistoryShape
  <2>5. QED
    BY <1>3, <1>4, <2>1, <2>2, <2>3, <2>4 DEF Shape
<1>6. CASE RecordTool(c)
  <2>1. /\ p.pc # "idle" /\ Goto(c, "execute") /\ UNCHANGED <<runtime, signal, disk, history>>
    BY <1>6 DEF RecordTool, At
  <2>2. Update(c, [p EXCEPT !.pc = "execute"]) /\ ProcOK([p EXCEPT !.pc = "execute"])
    BY <1>1, <2>1, PlainAre, PlainGoto DEF Goto, Update
  <2>3. HistoryShape' /\ UNCHANGED ops
    BY <2>1 DEF Shape, HistoryShape, history, disk
  <2>4. CASE \E t \in toolLog : t.id = Slot(c)
    <3> DEFINE t == CHOOSE t \in toolLog : t.id = Slot(c)
               r == [kind |-> "tool_started", tool |-> t]
    <3>1. t \in toolLog /\ t \in ToolSet
      BY <2>4 DEF Shape, DiskShape
    <3>2. lane' = ToolStarted(lane, [tool |-> t]) /\ UNCHANGED chain
      BY <1>6, <2>4 DEF RecordTool
    <3> HIDE DEF t
    <3>3. r \in RecordSet /\ r.kind = "tool_started" /\ r.tool = t
      BY <3>1 DEF RecordSet, ToolRecords
    <3>4. ApplyRecord(lane, r) = ToolStarted(lane, r)
      BY <3>3 DEF ApplyRecord
    <3>5. ToolStarted(lane, r) = ToolStarted(lane, [tool |-> t])
      BY <3>3 DEF ToolStarted
    <3> HIDE DEF r
    <3>6. lane' \in LaneSet /\ lane'.op \in {lane.op, None}
      BY <3>2, <3>3, <3>4, <3>5, ApplyRecordShape DEF Shape, LaneShape
    <3>7. LaneShape' /\ ChainShape'
      BY <2>3, <3>2, <3>6 DEF Shape, LaneShape, ChainShape
    <3>8. QED
      BY <1>3, <2>1, <2>2, <2>3, <3>7 DEF Shape
  <2>5. CASE ~\E t \in toolLog : t.id = Slot(c)
    <3> DEFINE r == [kind |-> "tool_started", tool |-> Tool(c)]
    <3>1. AppendRecord(c, r) /\ UNCHANGED lane
      BY <1>6, <2>5 DEF RecordTool
    <3>2. r \in RecordSet /\ r.kind # "operation_started"
      BY <1>2 DEF RecordSet, ToolRecords
    <3> HIDE DEF r
    <3>3. ChainShape'
      BY <2>3, <3>1, <3>2, AppendRecordShape DEF Shape, Writers, DiskShape
    <3>4. QED
      BY <1>3, <1>4, <2>1, <2>2, <2>3, <3>1, <3>3 DEF Shape
  <2>6. QED
    BY <2>4, <2>5
<1>7. CASE ExecuteTool(c)
  <2>1. /\ p.pc # "idle" /\ Goto(c, "assistant")
        /\ executed' = executed \/ executed' = [executed EXCEPT ![p.resp] = @ + 1]
        /\ UNCHANGED <<chain, runtime, signal, lane, disk, responses, sealed, started, finished,
                       enqueued, returned, acked, used>>
    BY <1>7 DEF ExecuteTool, At
  <2>2. Update(c, [p EXCEPT !.pc = "assistant"]) /\ ProcOK([p EXCEPT !.pc = "assistant"])
    BY <1>1, <2>1, PlainAre, PlainGoto DEF Goto, Update
  <2>3. HistoryShape'
    BY <2>1, ExecutedShape DEF Shape, HistoryShape
  <2>4. QED
    BY <1>3, <1>4, <2>1, <2>2, <2>3 DEF Shape
<1>8. CASE StepEnd(c)
  <2>1. /\ p.pc # "idle"
        /\ Goto(c, "top") \/ Goto(c, "roundEnd")
        /\ sealed' = sealed \cup {p.resp}
        /\ UNCHANGED <<chain, runtime, signal, lane, disk, responses, executed, started, finished,
                       enqueued, returned, acked, used>>
    BY <1>8 DEF StepEnd, At
  <2>2. PICK label \in Plain : Goto(c, label)
    BY <2>1, PlainAre
  <2>3. Update(c, [p EXCEPT !.pc = label])
    BY <2>2 DEF Goto, Update
  <2>4. ProcOK([p EXCEPT !.pc = label])
    BY <1>1, <2>1, PlainGoto
  <2>5. HistoryShape'
    BY <1>1, <2>1 DEF Shape, HistoryShape
  <2>6. QED
    BY <1>3, <1>4, <2>1, <2>3, <2>4, <2>5 DEF Shape
<1>9. CASE Release(c)
  <2>1. /\ p.pc # "idle" /\ Update(c, Idle) /\ returned' = returned \cup p.dead
        /\ runtime' \in {None, runtime}
        /\ UNCHANGED <<chain, signal, lane, disk, responses, executed, sealed, started, finished,
                       enqueued, acked, used>>
    BY <1>9 DEF Release, At, ReturnedBy
  <2>2. UNCHANGED <<entries, durable, ops, toolLog, writeLog>>
    BY <2>1 DEF disk
  <2>3. proc' \in [Callers -> ProcSet] /\ \A d \in Callers : ProcOK(proc[d])'
    BY <2>1, <2>2, IdleIsOK, UpdateShape DEF Shape
  <2>4. ProcShape' /\ DiskShape'
    BY <2>1, <2>2, <2>3 DEF Shape, ProcShape, DiskShape
  <2>5. HistoryShape'
    BY <1>1, <2>1 DEF Shape, HistoryShape, ProcSet
  <2>6. QED
    BY <1>4, <2>1, <2>4, <2>5 DEF Shape
<1>10. QED
  BY <1>5, <1>6, <1>7, <1>8, <1>9

LEMMA SuffixFrom ==
    ASSUME NEW S, NEW s \in Seq(S), NEW k \in DOMAIN s
    PROVE  /\ SubSeq(s, k, Len(s)) \in Seq(S) /\ SubSeq(s, k, Len(s)) # << >>
           /\ Head(SubSeq(s, k, Len(s))) = s[k]
OBVIOUS

LEMMA ResumeShape ==
    ASSUME Shape, BoundsAssumption, NEW c \in Callers,
           \/ Resume(c) \/ Resumed(c) \/ Redeem(c) \/ EnsureAssistant(c) \/ Reconcile(c)
           \/ WriteReplayed(c) \/ Reconciled(c)
    PROVE  Shape'
<1> DEFINE p == proc[c]
<1>1. ProcOK(p) /\ p \in ProcSet /\ p.op \in Nat
  BY DEF Shape, ProcShape, ProcOK, ProcSet
<1>2. 0 \in Nat
  BY IdsAreIds
<1>3. {"exhausted", "ready", "call", "interrupted", "result"} \subseteq Whats
  BY DEF Whats
<1>4. ASSUME p.pc \in ToolTodo, NEW k \in DOMAIN p.todo
      PROVE  /\ p.todo \in Seq(ToolSet) /\ p.todo[k] \in ToolSet /\ p.todo[k].id \in IdSet
             /\ p.todo[k].resp \in Nat /\ ResultIdOf(p.todo[k].id) \in IdSet
  <2>1. p.todo \in Seq(ToolSet)
    BY <1>1, <1>4 DEF ProcOK
  <2>2. p.todo[k] \in ToolSet
    BY <1>4, <2>1
  <2>3. p.todo[k].id \in IdSet /\ p.todo[k].resp \in Nat
    BY <2>2, KindsOfIds DEF ToolSet
  <2>4. QED
    BY <2>1, <2>2, <2>3, IdsAreIds
<1>5. {"resumed", "ensure", "reconcile", "replayed"} \subseteq ToolTodo /\ "idle" \notin ToolTodo
  BY DEF ToolTodo
<1>6. CASE Resume(c)
  <2> DEFINE attempt == lane.attempts + 1
             b == [Idle EXCEPT !.op = lane.op, !.att = attempt, !.todo = lane.dangling]
             r == [kind |-> "task_attempt", op |-> lane.op, attempt |-> attempt,
                   maxAttempts |-> MaxAttempts]
  <2>1. lane.op \in 1..Len(ops) /\ lane.op \in Nat /\ attempt \in Nat
        /\ lane.dangling \in Seq(ToolSet) /\ MaxAttempts \in Nat
    BY <1>6, SMTT(30) DEF Resume, Shape, LaneShape, LaneSet, BoundsAssumption, DiskShape
  <2>2. Quiet
    BY <1>6 DEF Resume
  <2>3. b \in ProcSet /\ b.op = lane.op /\ b.todo = lane.dangling
    BY IdleIsOK, <2>1 DEF ProcOK, ProcSet
  <2>4. r \in RecordSet /\ r.kind # "operation_started"
    BY <2>1 DEF RecordSet, AttemptSet
  <2>5. \/ Update(c, [b EXCEPT !.pc = "ensure", !.outcome = "aborted"]) /\ UNCHANGED chain
        \/ /\ Update(c, [b EXCEPT !.pc = "finish", !.outcome = "failed"])
           /\ AppendEntry(c, AutoId, "exhausted", 0)
        \/ Update(c, [b EXCEPT !.pc = "resumed"]) /\ AppendRecord(c, r)
    BY <1>6, Zenon DEF Resume
  <2> HIDE DEF b, r
  <2>6. ASSUME NEW label \in {"ensure", "finish"}, NEW outcome \in {"aborted", "failed"}
        PROVE  ProcOK([b EXCEPT !.pc = label, !.outcome = outcome])
    <3> DEFINE q == [b EXCEPT !.pc = label, !.outcome = outcome]
    <3>1. label \in Labels /\ outcome \in Progress /\ outcome \in Outcomes
      BY LabelsAre DEF Progress, Outcomes
    <3>2. q \in ProcSet /\ q.pc = label /\ q.outcome = outcome /\ q.op = lane.op
          /\ q.todo = lane.dangling
      BY <2>3, <3>1 DEF ProcSet
    <3> HIDE DEF q
    <3>3. ProcOK(q)
      BY <2>1, <3>1, <3>2 DEF ProcOK, IdTodo
    <3>4. QED
      BY <3>3 DEF q
  <2>7. ProcOK([b EXCEPT !.pc = "resumed"])
    <3> DEFINE q == [b EXCEPT !.pc = "resumed"]
    <3>1. q \in ProcSet /\ q.pc = "resumed" /\ q.op = lane.op /\ q.todo = lane.dangling
      BY <2>3, LabelsAre DEF ProcSet
    <3> HIDE DEF q
    <3>2. ProcOK(q)
      BY <2>1, <3>1 DEF ProcOK, IdTodo
    <3>3. QED
      BY <3>2 DEF q
  <2>8. CASE Update(c, [b EXCEPT !.pc = "resumed"]) /\ AppendRecord(c, r)
    BY <2>2, <2>4, <2>7, <2>8, RecordStep
  <2>9. CASE \/ Update(c, [b EXCEPT !.pc = "ensure", !.outcome = "aborted"]) /\ UNCHANGED chain
             \/ /\ Update(c, [b EXCEPT !.pc = "finish", !.outcome = "failed"])
                /\ AppendEntry(c, AutoId, "exhausted", 0)
    BY <1>2, <1>3, <2>2, <2>6, <2>9, UpdateStep
  <2>10. QED
    BY <2>5, <2>8, <2>9
<1>7. CASE Resumed(c)
  <2>1. /\ p.pc = "resumed" /\ Quiet /\ UNCHANGED chain
        /\ Goto(c, "move") \/ Goto(c, "redeem") \/ Goto(c, "ensure")
    BY <1>7 DEF Resumed, At
  <2>2. CASE Goto(c, "move") \/ Goto(c, "redeem")
    BY <1>2, <1>3, <2>1, <2>2, PlainAre, PlainStep
  <2>3. CASE Goto(c, "ensure")
    <3>1. p.todo \in Seq(ToolSet)
      BY <1>1, <2>1 DEF ProcOK, ToolTodo
    <3>2. [p EXCEPT !.pc = "ensure", !.todo = p.todo] = [p EXCEPT !.pc = "ensure"]
      BY <1>1 DEF ProcSet
    <3>3. ProcOK([p EXCEPT !.pc = "ensure"])
      BY <1>1, <1>5, <2>1, <3>1, <3>2, ToolsOK
    <3>4. Update(c, [p EXCEPT !.pc = "ensure"])
      BY <2>3 DEF Goto, Update
    <3>5. QED
      BY <1>2, <1>3, <2>1, <3>3, <3>4, UpdateStep
  <2>4. QED
    BY <2>1, <2>2, <2>3
<1>8. CASE Redeem(c)
  <2>1. /\ p.pc = "redeem" /\ Quiet
        /\ \/ Update(c, [p EXCEPT !.pc = "finish", !.outcome = "completed"])
           \/ Update(c, Idle)
           \/ Update(c, [p EXCEPT !.pc = "finish", !.outcome = "failed"])
        /\ AppendEntry(c, AutoId, "ready", 0) \/ UNCHANGED chain
    BY <1>8, Zenon DEF Redeem, At
  <2>2. \A o \in Outcomes : ProcOK([p EXCEPT !.pc = "finish", !.outcome = o])
    BY <1>1, <2>1, FinishOK
  <2>3. "completed" \in Outcomes /\ "failed" \in Outcomes
    BY DEF Outcomes
  <2>4. PICK q : ProcOK(q) /\ Update(c, q)
    BY <2>1, <2>2, <2>3, IdleIsOK
  <2>5. QED
    BY <1>2, <1>3, <2>1, <2>4, UpdateStep
<1>9. CASE EnsureAssistant(c)
  <2>1. p.pc = "ensure" /\ Quiet
    BY <1>9 DEF EnsureAssistant, At
  <2>2. CASE Goto(c, "reconcile") /\ UNCHANGED chain
    <3>1. p.todo \in Seq(ToolSet)
      BY <1>1, <2>1 DEF ProcOK, ToolTodo
    <3>2. [p EXCEPT !.pc = "reconcile", !.todo = p.todo] = [p EXCEPT !.pc = "reconcile"]
      BY <1>1 DEF ProcSet
    <3>3. ProcOK([p EXCEPT !.pc = "reconcile"])
      BY <1>1, <1>5, <2>1, <3>1, <3>2, ToolsOK
    <3>4. Update(c, [p EXCEPT !.pc = "reconcile"])
      BY <2>2 DEF Goto, Update
    <3>5. QED
      BY <1>2, <1>3, <2>1, <2>2, <3>3, <3>4, UpdateStep
  <2>3. CASE \E k \in DOMAIN p.todo : /\ AppendEntry(c, p.todo[k].id, "call", p.todo[k].resp)
                                      /\ UNCHANGED proc
    BY <2>3, <1>4, <1>5, <2>1, <1>1, <1>3, UpdateStep
  <2>4. QED
    BY <1>9, <2>2, <2>3 DEF EnsureAssistant
<1>10. CASE Reconcile(c)
  <2>1. p.pc = "reconcile" /\ p.pc \in ToolTodo /\ p.pc # "idle"
    BY <1>10 DEF Reconcile, At, ToolTodo
  <2>2. PICK k \in DOMAIN p.todo :
          \/ /\ executed' = [executed EXCEPT ![p.todo[k].resp] = @ + 1]
             /\ Update(c, [p EXCEPT !.pc = "replayed", !.todo = SubSeq(p.todo, k, Len(p.todo))])
             /\ UNCHANGED chain
          \/ /\ AppendEntry(c, ResultIdOf(p.todo[k].id), "interrupted", p.todo[k].resp)
             /\ UNCHANGED <<executed, proc>>
    BY <1>10 DEF Reconcile, Unanswered
  <2>3. /\ p.todo \in Seq(ToolSet) /\ ResultIdOf(p.todo[k].id) \in IdSet /\ p.todo[k].resp \in Nat
    BY <1>4, <2>1
  <2>4. UNCHANGED <<runtime, signal, lane, disk, responses, sealed, started, finished,
                    enqueued, returned, acked, used>>
    BY <1>10 DEF Reconcile
  <2>5. UNCHANGED <<entries, durable, ops, toolLog, writeLog>>
    BY <2>4 DEF disk
  <2>6. SubSeq(p.todo, k, Len(p.todo)) \in Seq(ToolSet) /\ SubSeq(p.todo, k, Len(p.todo)) # << >>
    BY <2>3, SuffixFrom
  <2>7. ProcOK([p EXCEPT !.pc = "replayed", !.todo = SubSeq(p.todo, k, Len(p.todo))])
    BY <1>1, <1>5, <2>1, <2>6, ToolsOK
  <2>8. proc' \in [Callers -> ProcSet] /\ \A d \in Callers : ProcOK(proc[d])'
    BY <2>5, <2>7, UpdateShape, <2>2 DEF Shape, ProcShape, ProcOK
  <2>9. ChainShape'
    BY <2>5, <1>3, <2>3, AppendEntryShape, <2>2 DEF Shape, ChainShape
  <2>10. HistoryShape'
    BY <2>2, ExecutedShape, <2>4 DEF Shape, HistoryShape
  <2>11. QED
    BY <2>4, <2>5, <2>8, <2>9, <2>10 DEF Shape, DiskShape, LaneShape, ProcShape
<1>11. CASE WriteReplayed(c)
  <2>1. p.pc = "replayed" /\ Quiet /\ Goto(c, "reconcile") /\ p.pc \in ToolTodo
    BY <1>11 DEF WriteReplayed, At, ToolTodo
  <2>2. p.todo \in Seq(ToolSet)
    BY <1>1, <2>1 DEF ProcOK
  <2>3. AppendEntry(c, ResultIdOf(Head(p.todo).id), "result", Head(p.todo).resp)
    BY <1>11 DEF WriteReplayed
  <2>4. p.todo # << >>
    BY <1>1, <2>1 DEF ProcOK
  <2>5. Head(p.todo) \in ToolSet
    BY <2>2, <2>4
  <2>6. ResultIdOf(Head(p.todo).id) \in IdSet /\ Head(p.todo).resp \in Nat
    BY <2>5, IdsAreIds, KindsOfIds DEF ToolSet
  <2>7. [p EXCEPT !.pc = "reconcile", !.todo = p.todo] = [p EXCEPT !.pc = "reconcile"]
    BY <1>1 DEF ProcSet
  <2>8. ProcOK([p EXCEPT !.pc = "reconcile"])
    BY <1>1, <1>5, <2>1, <2>2, <2>7, ToolsOK
  <2>9. Update(c, [p EXCEPT !.pc = "reconcile"])
    BY <2>1 DEF Goto, Update
  <2>10. QED
    BY <1>3, <2>1, <2>3, <2>6, <2>8, <2>9, UpdateStep
<1>12. CASE Reconciled(c)
  <2>1. p.pc = "reconcile" /\ p.pc # "idle" /\ UNCHANGED chain /\ Silent
    BY <1>12 DEF Reconciled, At
  <2>2. UNCHANGED <<lane, entries, durable, ops, toolLog, writeLog, history>>
    BY <2>1 DEF Silent, disk
  <2>3. CASE Goto(c, "abortNote") /\ UNCHANGED <<runtime, signal>>
    BY <1>1, <1>2, <1>3, <2>1, <2>3, PlainAre, PlainStep DEF Quiet
  <2>4. CASE /\ Update(c, [p EXCEPT !.pc = "input", !.holds = TRUE,
                                    !.att = EntryAttempt(@), !.todo = <<>>])
             /\ runtime' = c /\ signal' = [signal EXCEPT ![c] = FALSE]
    <3> DEFINE q == [p EXCEPT !.pc = "input", !.holds = TRUE, !.att = EntryAttempt(@), !.todo = <<>>]
    <3>1. p.att + 1 \in Nat /\ << >> \in Seq(IdSet) /\ "input" \in Labels
      BY <1>1, LabelsAre DEF ProcSet
    <3>2. q \in ProcSet /\ q.pc = "input" /\ q.op = p.op
      BY <1>1, <3>1 DEF ProcSet, EntryAttempt
    <3> HIDE DEF q
    <3>3. ProcOK(q)
      BY <1>1, <2>1, <3>2 DEF ProcOK, IdTodo, ToolTodo
    <3>4. proc' \in [Callers -> ProcSet] /\ \A d \in Callers : ProcOK(proc[d])'
      BY <2>2, <2>4, <3>3, UpdateShape DEF Shape, q
    <3>5. ProcShape'
      BY <2>4, <3>4 DEF Shape, ProcShape
    <3>6. QED
      BY <2>1, <2>2, <3>5 DEF Shape, DiskShape, LaneShape, ChainShape, HistoryShape, history
  <2>5. QED
    BY <1>12, <2>3, <2>4 DEF Reconciled
<1>13. QED
  BY <1>6, <1>7, <1>8, <1>9, <1>10, <1>11, <1>12

(* Calls that only append, commits and crashes. *)
LEMMA ApiShape ==
    ASSUME Shape, Abort \/ DeferWrite \/ \E queue \in Queues : Enqueue(queue)
    PROVE  Shape'
<1>1. CASE Abort
  <2>1. /\ signal' \in [Callers -> BOOLEAN]
        /\ acked' \subseteq Nat
        /\ UNCHANGED <<lane, proc, runtime, disk, responses, executed, sealed, started, finished,
                       enqueued, returned>>
    BY <1>1 DEF Shape, ProcShape, ProcSet, Abort, HistoryShape
  <2>2. used' \in [items : Nat, aborts : Nat, crashes : Nat]
    BY <1>1, CountersShape DEF Abort, Shape, HistoryShape
  <2>3. UNCHANGED <<entries, durable, ops, toolLog, writeLog>> /\ Len(ops) \in Nat
    BY <2>1 DEF disk, Shape, DiskShape
  <2>4. ChainShape'
    <3> DEFINE r == [kind |-> "abort_requested", op |-> lane.op]
    <3>1. CASE UNCHANGED chain
      BY <2>3, <3>1 DEF Shape, ChainShape
    <3>2. CASE lane.op # None /\ AppendRecord("api", r)
      <4>1. r \in RecordSet /\ r.kind # "operation_started"
        BY <3>2 DEF Shape, LaneShape, LaneSet, RecordSet, AbortSet
      <4> HIDE DEF r
      <4>2. QED
        BY <2>3, <3>2, <4>1, AppendApiShape DEF Shape
    <3>3. QED
      BY <1>1, <3>1, <3>2 DEF Abort
  <2>5. ProcShape'
    BY <2>1, <2>3 DEF Shape, ProcShape, ProcOK
  <2>6. QED
    BY <2>1, <2>2, <2>3, <2>4, <2>5 DEF Shape, DiskShape, LaneShape, HistoryShape
<1>2. ASSUME NEW r \in RecordSet, r.kind # "operation_started", AppendRecord("api", r),
             used' = [used EXCEPT !.items = @ + 1],
             UNCHANGED <<lane, proc, runtime, signal, disk, responses, executed, sealed, started,
                         finished, enqueued, returned, acked>>
      PROVE  Shape'
  <2>1. UNCHANGED <<entries, durable, ops, toolLog, writeLog>> /\ Len(ops) \in Nat
    BY <1>2 DEF disk, Shape, DiskShape
  <2>2. ChainShape'
    BY <1>2, <2>1, AppendApiShape DEF Shape
  <2>3. used' \in [items : Nat, aborts : Nat, crashes : Nat]
    BY <1>2, CountersShape DEF Shape, HistoryShape
  <2>4. ProcShape'
    BY <1>2, <2>1 DEF Shape, ProcShape, ProcOK
  <2>5. QED
    BY <1>2, <2>1, <2>2, <2>3, <2>4 DEF Shape, DiskShape, LaneShape, HistoryShape
<1>3. used.items + 1 \in Nat /\ WriteId(used.items + 1) \in DeferredIds
  BY IdsAreIds DEF Shape, HistoryShape
<1>4. CASE DeferWrite
  <2> DEFINE r == [kind |-> "write_deferred", entry |-> WriteId(used.items + 1)]
  <2>1. r \in RecordSet /\ r.kind # "operation_started"
    BY <1>3 DEF RecordSet, DeferredSet
  <2> HIDE DEF r
  <2>2. QED
    BY <1>2, <1>4, <2>1 DEF DeferWrite, r
<1>5. ASSUME NEW queue \in Queues, Enqueue(queue)
      PROVE  Shape'
  <2> DEFINE r == [kind |-> "queue_enqueued", queue |-> queue, item |-> used.items + 1]
  <2>1. r \in RecordSet /\ r.kind # "operation_started"
    BY <1>3 DEF RecordSet, EnqueuedSet
  <2> HIDE DEF r
  <2>2. QED
    BY <1>2, <1>5, <2>1 DEF Enqueue, r
<1>6. QED
  BY <1>1, <1>4, <1>5

(* The head of the chain and what remains of it. *)
LEMMA HeadOfChain ==
    ASSUME ChainShape, chain # << >>
    PROVE  /\ Head(chain) = chain[1] /\ 1 \in DOMAIN chain /\ Head(chain) \in ChainSet
           /\ Tail(chain) \in Seq(ChainSet)
           /\ DOMAIN chain = 1..Len(chain) /\ Len(chain) \in Nat
           /\ DOMAIN Tail(chain) = 1..(Len(chain) - 1)
           /\ \A i \in DOMAIN Tail(chain) : i + 1 \in DOMAIN chain /\ Tail(chain)[i] = chain[i + 1]
           /\ Head(chain).put = "entry" => Head(chain).what \in PutSet
           /\ Head(chain).put # "entry" => /\ Head(chain).put = "record"
                                           /\ Head(chain).what \in RecordSet
BY DEF ChainShape, ChainSet, EntryAppends, RecordAppends

LEMMA CommitShape ==
    ASSUME Shape, Commit
    PROVE  Shape'
<1> DEFINE h == Head(chain)
<1>1. chain # << >> /\ chain' = Tail(chain)
      /\ UNCHANGED <<proc, runtime, signal, ops, responses, executed, sealed, returned, used>>
  BY DEF Commit
<1>2. ChainShape'
  BY <1>1, HeadOfChain DEF Shape, ChainShape
<1>3. ProcShape'
  BY <1>1 DEF Shape, ProcShape, ProcOK
<1>4. CASE h.put = "entry"
  <2>1. h.what \in PutSet /\ CommitEntry(h.what)
    BY <1>1, <1>4, HeadOfChain DEF Commit, Shape
  <2> DEFINE n == IF h.what.id = AutoId THEN [h.what EXCEPT !.id.n = Len(entries) + 1] ELSE h.what
  <2>2. entries' = Append(entries, n)
        /\ UNCHANGED <<lane, durable, toolLog, writeLog, started, finished, enqueued, acked>>
    BY <2>1 DEF CommitEntry
  <2>3. n \in EntrySet
    <3>1. h.what.id \in IdSet \cup {AutoId} /\ Len(entries) + 1 \in Nat
      BY <2>1 DEF PutSet, Shape, DiskShape
    <3>2. [AutoId EXCEPT !.n = Len(entries) + 1] \in AutoIds
      BY <3>1 DEF AutoIds, AutoId, Id
    <3>3. QED
      BY <2>1, <3>2 DEF EntrySet, PutSet
  <2> HIDE DEF n
  <2>4. entries' \in Seq(EntrySet)
    BY <2>2, <2>3 DEF Shape, DiskShape
  <2>5. QED
    BY <1>1, <1>2, <1>3, <2>2, <2>4 DEF Shape, DiskShape, LaneShape, HistoryShape
<1>5. CASE h.put # "entry"
  <2> DEFINE r == h.what
  <2>1. r \in RecordSet /\ CommitRecord(r) /\ h.put = "record" /\ h = chain[1] /\ 1 \in DOMAIN chain
    BY <1>1, <1>5, HeadOfChain DEF Commit, Shape
  <2>2. r.kind = "operation_started" => r.op \in 1..Len(ops)
    BY <2>1 DEF Shape, ChainShape
  <2> HIDE DEF h
  <2>3. \A l \in LaneSet : l.op \in {None} \cup 1..Len(ops) =>
          ApplyRecord(l, r) \in LaneSet /\ ApplyRecord(l, r).op \in {None} \cup 1..Len(ops)
    BY <2>1, <2>2, ApplyRecordShape
  <2>4. lane' = ApplyRecord(lane, r) /\ durable' = ApplyRecord(durable, r) /\ UNCHANGED entries
    BY <2>1 DEF CommitRecord
  <2>5. LaneShape'
    BY <1>1, <2>3, <2>4 DEF Shape, LaneShape
  <2>6. /\ r.kind = "tool_started" => r.tool \in ToolSet
        /\ r.kind = "write_deferred" => r.entry \in DeferredIds
        /\ r.kind = "operation_started" => r.op \in Nat
        /\ r.kind = "abort_requested" => r.op \in Nat
        /\ r.kind = "operation_finished" => <<r.op, r.outcome>> \in Nat \X Outcomes
        /\ r.kind = "queue_enqueued" => <<r.queue, r.item>> \in Queues \X Nat
    BY <2>1 DEF RecordSet, ToolRecords, DeferredSet, StartedSet, AbortSet, FinishedSet, EnqueuedSet,
                AttemptSet
  <2>7. toolLog' \subseteq ToolSet
    BY <2>1, <2>6 DEF CommitRecord, Shape, DiskShape
  <2>8. writeLog' \in Seq(DeferredIds)
    BY <2>1, <2>6 DEF CommitRecord, Shape, DiskShape
  <2>9. DiskShape'
    BY <1>1, <2>3, <2>4, <2>7, <2>8 DEF Shape, DiskShape
  <2>10. started' \subseteq Nat /\ acked' \subseteq Nat /\ enqueued' \subseteq Queues \X Nat
    BY <2>1, <2>6 DEF CommitRecord, Shape, HistoryShape
  <2>11. finished' \in Seq(Nat \X Outcomes)
    BY <2>1, <2>6 DEF CommitRecord, Shape, HistoryShape
  <2>12. HistoryShape'
    BY <1>1, <2>10, <2>11 DEF Shape, HistoryShape
  <2>13. QED
    BY <1>2, <1>3, <2>5, <2>9, <2>12 DEF Shape
<1>6. QED
  BY <1>4, <1>5

LEMMA CrashShape ==
    ASSUME Shape, Crash
    PROVE  Shape'
<1>1. /\ lane' = FinishRestore(durable) /\ chain' = << >> /\ proc' = [c \in Callers |-> Idle]
      /\ runtime' = None /\ signal' = [c \in Callers |-> FALSE]
      /\ used' = [used EXCEPT !.crashes = @ + 1]
      /\ UNCHANGED <<disk, responses, executed, sealed, started, finished, enqueued, returned,
                     acked>>
  BY DEF Crash
<1>2. UNCHANGED <<entries, durable, ops, toolLog, writeLog>>
  BY <1>1 DEF disk
<1>3. LaneShape'
  BY <1>1, <1>2 DEF Shape, DiskShape, FinishRestore, LaneSet, Statuses, LaneShape
<1>4. ProcShape'
  BY IdleIsOK, <1>1 DEF ProcOK, ProcShape
<1>5. used' \in [items : Nat, aborts : Nat, crashes : Nat]
  BY <1>1, CountersShape DEF Shape, HistoryShape
<1>6. QED
  BY <1>1, <1>2, <1>3, <1>4, <1>5 DEF Shape, DiskShape, ChainShape, HistoryShape

LEMMA StepShape ==
    ASSUME Shape, BoundsAssumption, [Next]_vars
    PROVE  Shape'
<1>1. ASSUME NEW c \in Callers, Start(c) \/ Resume(c) \/ Drive(c)
      PROVE  Shape'
  BY <1>1, StartShape, AcceptShape, LoopShape, ResponseShape, ResumeShape DEF Drive
<1>2. CASE Abort \/ DeferWrite \/ \E queue \in Queues : Enqueue(queue)
  BY <1>2, ApiShape
<1>3. CASE Commit
  BY <1>3, CommitShape
<1>4. CASE Crash
  BY <1>4, CrashShape
<1>5. CASE UNCHANGED vars
  BY <1>5 DEF vars, live, disk, history, Shape, DiskShape, LaneShape, ChainShape, ProcShape, ProcOK,
              HistoryShape
<1>6. QED
  BY <1>1, <1>2, <1>3, <1>4, <1>5 DEF Next

(* Every variable keeps its shape. *)
THEOREM ShapeCorrect == Spec => []Shape
BY InitShape, StepShape, BoundsAssumption, PTL DEF Spec

-----------------------------------------------------------------------------
(* The reducer, record by record: what each kind does to the fields the    *)
(* invariants speak of.                                                    *)
LEMMA ReducedFields ==
    ASSUME NEW l \in LaneSet, NEW r \in RecordSet
    PROVE  LET n == ApplyRecord(l, r)
           IN  /\ r.kind = "operation_started" =>
                    IF l.op = None
                    THEN /\ n.op = r.op /\ n.status = "running" /\ n.attempts = 0
                         /\ n.dangling = << >> /\ n.queues = l.queues
                    ELSE n = l
               /\ r.kind = "operation_finished" =>
                    IF l.op # None /\ l.op = r.op
                    THEN /\ n.op = None /\ n.status = "idle" /\ n.attempts = 0
                         /\ n.dangling = << >>
                         /\ n.queues["steer"] = << >> /\ n.queues["nextRun"] = l.queues["nextRun"]
                         /\ n.queues["followUp"] = IF r.outcome = "aborted" THEN << >>
                                                   ELSE l.queues["followUp"]
                    ELSE n = l
               /\ r.kind = "abort_requested" =>
                    /\ n.op = l.op /\ n.attempts = l.attempts /\ n.dangling = l.dangling
                    /\ n.queues = l.queues
                    /\ n.status = l.status \/ (n.status = "aborting" /\ l.op # None)
               /\ r.kind = "tool_started" =>
                    /\ n.op = l.op /\ n.status = l.status /\ n.attempts = l.attempts
                    /\ n.queues = l.queues
                    /\ n.dangling = IF l.op = None THEN l.dangling ELSE Append(l.dangling, r.tool)
               /\ r.kind = "queue_enqueued" =>
                    /\ n.op = l.op /\ n.status = l.status /\ n.attempts = l.attempts
                    /\ n.dangling = l.dangling
                    /\ n.queues = [l.queues EXCEPT ![r.queue] = Append(@, r.item)]
               /\ r.kind = "task_attempt" =>
                    /\ n.op = l.op /\ n.status = l.status /\ n.dangling = l.dangling
                    /\ n.queues = l.queues
                    /\ n.attempts = IF l.op # None /\ l.op = r.op /\ r.attempt > l.attempts
                                    THEN r.attempt ELSE l.attempts
               /\ r.kind = "write_deferred" => n = l
<1> USE DEF LaneSet, Queues
<1>1. CASE r.kind = "operation_started"
  BY <1>1 DEF ApplyRecord, OperationStarted
<1>2. CASE r.kind = "operation_finished"
  BY <1>2 DEF ApplyRecord, OperationFinished
<1>3. CASE r.kind = "abort_requested"
  BY <1>3 DEF ApplyRecord, AbortRequested
<1>4. CASE r.kind = "tool_started"
  BY <1>4 DEF ApplyRecord, ToolStarted
<1>5. CASE r.kind = "queue_enqueued"
  BY <1>5 DEF ApplyRecord, QueueEnqueued
<1>6. CASE r.kind = "task_attempt"
  BY <1>6 DEF ApplyRecord, TaskAttempt
<1>7. CASE r.kind = "write_deferred"
  BY <1>7 DEF ApplyRecord
<1>8. r.kind \in {"operation_started", "abort_requested", "operation_finished", "tool_started",
                  "queue_enqueued", "task_attempt", "write_deferred"}
  BY DEF RecordSet, StartedSet, AbortSet, FinishedSet, ToolRecords, EnqueuedSet, AttemptSet,
         DeferredSet
<1> HIDE DEF LaneSet, Queues
<1>9. QED
  BY <1>1, <1>2, <1>3, <1>4, <1>5, <1>6, <1>7, <1>8

-----------------------------------------------------------------------------
(* What reached the disk stays there.                                      *)

(* Only a resolved append writes to the disk. *)
LEMMA OnlyCommitWrites ==
    ASSUME [Next]_vars
    PROVE  Commit \/ UNCHANGED <<entries, durable, toolLog, writeLog, started, finished, enqueued>>
<1>1. ASSUME NEW c \in Callers, Start(c)
      PROVE  UNCHANGED <<entries, durable, toolLog, writeLog, started, finished, enqueued>>
  BY <1>1 DEF Start, Prompt, Drain, StartRun, Compact, Navigate, history
<1>2. ASSUME NEW c \in Callers, Resume(c)
      PROVE  UNCHANGED <<entries, durable, toolLog, writeLog, started, finished, enqueued>>
  BY <1>2 DEF Resume, Quiet, Silent, disk, history
<1>3. ASSUME NEW c \in Callers, Drive(c)
      PROVE  UNCHANGED <<entries, durable, toolLog, writeLog, started, finished, enqueued>>
  BY <1>3 DEF Drive, BeforeRun, ApplyCompaction, NavigateStart, NavigateMove, MaterialiseInput,
      LoopTop, CheckpointWrites, CheckpointRead, CheckpointSteer, WriteTodo, Ask, CutOff, Defer,
      Answer, RecordTool, ExecuteTool, FlushAssistant, WriteResult, StepEnd, RoundEnd, Park,
      AbortNote, AbortRead, AbortWrites, Finish, Release, Resumed, Redeem, EnsureAssistant,
      Reconcile, WriteReplayed, Reconciled, Quiet, Silent, disk, history
<1>4. CASE Abort \/ DeferWrite \/ \E queue \in Queues : Enqueue(queue)
  BY <1>4 DEF Abort, DeferWrite, Enqueue, disk
<1>5. CASE Crash
  BY <1>5 DEF Crash, disk
<1>6. CASE UNCHANGED vars
  BY <1>6 DEF vars, disk, history
<1>7. QED
  BY <1>1, <1>2, <1>3, <1>4, <1>5, <1>6 DEF Next

(* An entry in the tree stays in it. *)
LEMMA TreeGrows ==
    ASSUME Shape, [Next]_vars
    PROVE  \A id : InTree(id) => InTree(id)'
<1>1. CASE Commit
  <2>1. entries' = entries \/ \E e : entries' = Append(entries, e)
    BY <1>1 DEF Commit, CommitEntry, CommitRecord
  <2>2. entries \in Seq(EntrySet)
    BY DEF Shape, DiskShape
  <2>3. CASE entries' = entries
    BY <2>3 DEF InTree
  <2>4. ASSUME NEW e, entries' = Append(entries, e)
        PROVE  \A id : InTree(id) => InTree(id)'
    BY <2>2, <2>4 DEF InTree
  <2>5. QED
    BY <2>1, <2>3, <2>4
<1>2. CASE UNCHANGED entries
  BY <1>2 DEF InTree
<1>3. QED
  BY <1>1, <1>2, OnlyCommitWrites

(* What is returned stays returned. *)
LEMMA ReturnedGrows ==
    ASSUME [Next]_vars
    PROVE  returned \subseteq returned'
<1>1. ASSUME NEW c \in Callers, Start(c) \/ Resume(c)
      PROVE  returned \subseteq returned'
  BY <1>1 DEF Start, Prompt, Drain, StartRun, Compact, Navigate, Resume, Quiet, Silent, history
<1>2. ASSUME NEW c \in Callers, Drive(c)
      PROVE  returned \subseteq returned'
  BY <1>2 DEF Drive, BeforeRun, ApplyCompaction, NavigateStart, NavigateMove, MaterialiseInput,
      LoopTop, CheckpointWrites, CheckpointRead, CheckpointSteer, WriteTodo, Ask, CutOff, Defer,
      Answer, RecordTool, ExecuteTool, FlushAssistant, WriteResult, StepEnd, RoundEnd, Park,
      AbortNote, AbortRead, AbortWrites, Finish, Release, Resumed, Redeem, EnsureAssistant,
      Reconcile, WriteReplayed, Reconciled, Quiet, Silent, history
<1>3. CASE Abort \/ DeferWrite \/ (\E queue \in Queues : Enqueue(queue)) \/ Commit \/ Crash
             \/ UNCHANGED vars
  BY <1>3 DEF Abort, DeferWrite, Enqueue, Commit, Crash, vars, history
<1>4. QED
  BY <1>1, <1>2, <1>3 DEF Next

LEMMA InitNextRun == Init => NextRunSurvives
BY DEF Init, NextRunSurvives

(* No record removes from the nextRun queue. *)
LEMMA StepNextRun ==
    ASSUME Shape, [Next]_vars, NextRunSurvives
    PROVE  NextRunSurvives'
<1> USE DEF Queues
<1>1. \A i : InTree(ItemId(i)) \/ i \in returned => InTree(ItemId(i))' \/ i \in returned'
  BY TreeGrows, ReturnedGrows DEF ItemId, Id
<1>2. CASE UNCHANGED <<durable, enqueued>>
  BY <1>1, <1>2 DEF NextRunSurvives, Known
<1>3. CASE Commit /\ ~UNCHANGED <<durable, enqueued>>
  <2> DEFINE h == Head(chain)
             r == h.what
  <2>1. h.put # "entry" /\ CommitRecord(r) /\ r \in RecordSet
    BY <1>3, HeadOfChain DEF Shape, Commit, CommitEntry
  <2>2. /\ durable' = ApplyRecord(durable, r) /\ durable \in LaneSet
        /\ enqueued' = IF r.kind = "queue_enqueued" THEN enqueued \cup {<<r.queue, r.item>>}
                       ELSE enqueued
    BY <2>1 DEF CommitRecord, Shape, DiskShape
  <2> HIDE DEF h, r
  <2>3. durable.queues \in [Queues -> Seq(Nat)]
    BY <2>2 DEF LaneSet
  <2>4. CASE r.kind = "queue_enqueued"
    <3>1. r.queue \in Queues /\ r.item \in Nat
      BY <2>1, <2>4 DEF RecordSet, StartedSet, AbortSet, FinishedSet, ToolRecords, EnqueuedSet,
                        AttemptSet, DeferredSet
    <3>2. durable'.queues = [durable.queues EXCEPT ![r.queue] = Append(@, r.item)]
      BY <2>1, <2>2, <2>4, ReducedFields
    <3> DEFINE was == durable.queues["nextRun"]
               now == durable'.queues["nextRun"]
    <3>3. was \in Seq(Nat) /\ (r.queue # "nextRun" => now = was)
          /\ (r.queue = "nextRun" => now = Append(was, r.item))
      BY <2>3, <3>1, <3>2
    <3> HIDE DEF was, now
    <3>4. /\ \A k \in DOMAIN was : k \in DOMAIN now /\ now[k] = was[k]
          /\ r.queue = "nextRun" => \E k \in DOMAIN now : now[k] = r.item
      <4>1. CASE r.queue = "nextRun"
        BY <3>1, <3>3, <4>1
      <4>2. QED
        BY <3>3, <4>1
    <3>5. \A x \in enqueued' : x \in enqueued \/ (x[2] = r.item /\ r.queue = x[1])
      <4>1. enqueued' = enqueued \cup {<<r.queue, r.item>>}
        BY <2>2, <2>4
      <4>2. <<r.queue, r.item>>[2] = r.item /\ <<r.queue, r.item>>[1] = r.queue
        OBVIOUS
      <4>3. ASSUME NEW x, x = <<r.queue, r.item>>
            PROVE  x[2] = r.item /\ r.queue = x[1]
        BY <4>2, <4>3, Zenon
      <4>4. \A x \in enqueued' : x \in enqueued \/ x = <<r.queue, r.item>>
        BY <4>1
      <4>5. QED
        BY <4>3, <4>4, Zenon
    <3>6. QED
      BY <1>1, <3>4, <3>5 DEF NextRunSurvives, Known, was, now
  <2>5. CASE r.kind # "queue_enqueued"
    <3>1. durable'.queues["nextRun"] = durable.queues["nextRun"]
      <4>1. r.kind \in {"operation_started", "abort_requested", "operation_finished",
                        "tool_started", "task_attempt", "write_deferred"}
        BY <2>1, <2>5 DEF RecordSet, StartedSet, AbortSet, FinishedSet, ToolRecords, EnqueuedSet,
                          AttemptSet, DeferredSet
      <4>2. QED
        BY <2>1, <2>2, <4>1, ReducedFields
    <3>2. QED
      BY <1>1, <2>2, <2>5, <3>1 DEF NextRunSurvives, Known
  <2>6. QED
    BY <2>4, <2>5
<1>4. QED
  BY <1>2, <1>3, OnlyCommitWrites

(* A nextRun item is queued on disk, in the tree or handed back, whatever  *)
(* aborts and crashes came between.                                        *)
THEOREM NextRunCorrect == Spec => []NextRunSurvives
BY InitShape, InitNextRun, StepShape, StepNextRun, BoundsAssumption, PTL DEF Spec

-----------------------------------------------------------------------------
(* What a step of a caller does, field by field.                           *)

LEMMA Updated ==
    ASSUME Shape, NEW c \in Callers, NEW q, Update(c, q)
    PROVE  proc'[c] = q /\ \A d \in Callers \ {c} : proc'[d] = proc[d]
BY DEF Update, Shape, ProcShape

LEMMA Went ==
    ASSUME Shape, NEW c \in Callers, NEW label, Goto(c, label)
    PROVE  Turns(c, label)
BY DEF Goto, Shape, ProcShape, Turns, Keeps, ProcSet

LEMMA Ended ==
    ASSUME Shape, NEW c \in Callers, NEW o,
           Update(c, [proc[c] EXCEPT !.pc = "finish", !.outcome = o])
    PROVE  Ends(c, {o})
<1>1. proc'[c] = [proc[c] EXCEPT !.pc = "finish", !.outcome = o] /\ proc[c] \in ProcSet
  BY Updated DEF Shape, ProcShape
<1>2. QED
  BY <1>1 DEF Ends, Keeps, ProcSet

LEMMA Listed ==
    ASSUME Shape, NEW c \in Callers, NEW label, NEW todo,
           Update(c, [proc[c] EXCEPT !.pc = label, !.todo = todo])
    PROVE  Lists(c, label, todo)
<1>1. proc'[c] = [proc[c] EXCEPT !.pc = label, !.todo = todo] /\ proc[c] \in ProcSet
  BY Updated DEF Shape, ProcShape
<1>2. QED
  BY <1>1 DEF Lists, Keeps, ProcSet

LEMMA QuietIsStill == Quiet => Still
BY DEF Quiet, Silent, Still, disk, history

LEMMA AcceptEffects ==
    ASSUME Shape, NEW c \in Callers
    PROVE  /\ BeforeRun(c) =>
                /\ At(c, "beforeRun") /\ Still
                /\ \/ proc'[c] = Idle /\ UNCHANGED chain
                   \/ Turns(c, "input") /\ AppendRecord(c, StartedRecord(proc[c].op))
           /\ ApplyCompaction(c) =>
                /\ At(c, "compact") /\ Still /\ Ends(c, {"aborted", "declined", "completed"})
                /\ \/ UNCHANGED chain
                   \/ AppendEntry(c, CompactionId(proc[c].op), "compaction", 0)
           /\ NavigateStart(c) =>
                /\ At(c, "navigate") /\ Still /\ Turns(c, "move")
                /\ AppendRecord(c, StartedRecord(proc[c].op))
           /\ NavigateMove(c) =>
                /\ At(c, "move") /\ Still /\ Ends(c, {"completed"})
                /\ AppendEntry(c, AutoId, "moved", proc[c].op)
           /\ MaterialiseInput(c) =>
                /\ At(c, "input") /\ Still /\ Turns(c, "top")
                /\ \/ UNCHANGED chain
                   \/ ops[proc[c].op].input # None /\ AppendEntry(c, ops[proc[c].op].input, "input", 0)
<1>1. ASSUME BeforeRun(c)
      PROVE  /\ At(c, "beforeRun") /\ Still
             /\ \/ proc'[c] = Idle /\ UNCHANGED chain
                \/ Turns(c, "input") /\ AppendRecord(c, StartedRecord(proc[c].op))
  BY <1>1, Updated, Went, QuietIsStill DEF BeforeRun, Still, Silent, disk, history
<1>2. ASSUME ApplyCompaction(c)
      PROVE  /\ At(c, "compact") /\ Still /\ Ends(c, {"aborted", "declined", "completed"})
             /\ \/ UNCHANGED chain
                \/ AppendEntry(c, CompactionId(proc[c].op), "compaction", 0)
  BY <1>2, Ended, QuietIsStill, Zenon DEF ApplyCompaction, Ends
<1>3. ASSUME NavigateStart(c)
      PROVE  /\ At(c, "navigate") /\ Still /\ Turns(c, "move")
             /\ AppendRecord(c, StartedRecord(proc[c].op))
  BY <1>3, Went, QuietIsStill DEF NavigateStart
<1>4. ASSUME NavigateMove(c)
      PROVE  /\ At(c, "move") /\ Still /\ Ends(c, {"completed"})
             /\ AppendEntry(c, AutoId, "moved", proc[c].op)
  BY <1>4, Ended, QuietIsStill DEF NavigateMove
<1>5. ASSUME MaterialiseInput(c)
      PROVE  /\ At(c, "input") /\ Still /\ Turns(c, "top")
             /\ \/ UNCHANGED chain
                \/ ops[proc[c].op].input # None /\ AppendEntry(c, ops[proc[c].op].input, "input", 0)
  BY <1>5, Went, QuietIsStill DEF MaterialiseInput
<1>6. QED
  BY <1>1, <1>2, <1>3, <1>4, <1>5

LEMMA TodoEffects ==
    ASSUME Shape, NEW c \in Callers, NEW here, NEW what, NEW next, WriteTodo(c, here, what, next)
    PROVE  /\ At(c, here) /\ Still
           /\ \/ proc[c].todo = << >> /\ Turns(c, next) /\ UNCHANGED chain
              \/ /\ proc[c].todo # << >> /\ Lists(c, here, Tail(proc[c].todo))
                 /\ AppendEntry(c, Head(proc[c].todo), what, 0)
<1>1. At(c, here) /\ Still /\ proc[c] \in ProcSet /\ proc[c].pc = here
  BY QuietIsStill DEF WriteTodo, At, Shape, ProcShape
<1>2. CASE proc[c].todo = << >> /\ Goto(c, next) /\ UNCHANGED chain
  BY <1>1, <1>2, Went
<1>3. CASE /\ proc[c].todo # << >> /\ AppendEntry(c, Head(proc[c].todo), what, 0)
           /\ Update(c, [proc[c] EXCEPT !.todo = Tail(proc[c].todo)])
  BY <1>1, <1>3, Listed DEF ProcSet
<1>4. QED
  BY <1>2, <1>3 DEF WriteTodo

LEMMA LoopEffects ==
    ASSUME Shape, NEW c \in Callers
    PROVE  /\ LoopTop(c) =>
                /\ At(c, "top") /\ Still /\ UNCHANGED chain
                /\ Turns(c, "abortNote") \/ Lists(c, "writes", writeLog)
           /\ CheckpointRead(c) =>
                /\ At(c, "readSteer") /\ Still /\ UNCHANGED chain
                /\ Lists(c, "steer", ItemIds(lane.queues["steer"]))
           /\ Ask(c) =>
                /\ At(c, "ask") /\ Still /\ UNCHANGED chain
                /\ Turns(c, "abortNote") \/ Turns(c, "model")
           /\ CutOff(c) =>
                /\ At(c, "model") /\ Still
                /\ \/ UNCHANGED chain
                   \/ AppendEntry(c, AssistantId(proc[c].op, proc[c].att, proc[c].step + 1),
                                  "partial", 0)
                /\ Turns(c, "abortNote") \/ Ends(c, {"failed"})
           /\ Defer(c) => At(c, "model") /\ Still /\ UNCHANGED chain /\ Turns(c, "park")
           /\ FlushAssistant(c) =>
                /\ At(c, "assistant") /\ Still
                /\ AppendEntry(c, Slot(c), IF proc[c].outcome = "tool" THEN "call" ELSE "text",
                               proc[c].resp)
                /\ \/ proc[c].outcome = "tool" /\ Turns(c, "result")
                   \/ proc[c].outcome # "tool" /\ Turns(c, "abortNote")
                   \/ proc[c].outcome # "tool" /\ Turns(c, "stepEnd")
           /\ WriteResult(c) =>
                /\ At(c, "result") /\ Still /\ Turns(c, "stepEnd")
                /\ AppendEntry(c, ResultIdOf(Slot(c)), "result", proc[c].resp)
           /\ Park(c) =>
                /\ At(c, "park") /\ Still /\ Turns(c, "release")
                /\ AppendEntry(c, AutoId, "handle", 0)
<1>1. ASSUME LoopTop(c)
      PROVE  /\ At(c, "top") /\ Still /\ UNCHANGED chain
             /\ Turns(c, "abortNote") \/ Lists(c, "writes", writeLog)
  BY <1>1, Went, Listed, QuietIsStill DEF LoopTop
<1>2. ASSUME CheckpointRead(c)
      PROVE  /\ At(c, "readSteer") /\ Still /\ UNCHANGED chain
             /\ Lists(c, "steer", ItemIds(lane.queues["steer"]))
  BY <1>2, Listed, QuietIsStill DEF CheckpointRead
<1>3. ASSUME Ask(c)
      PROVE  /\ At(c, "ask") /\ Still /\ UNCHANGED chain
             /\ Turns(c, "abortNote") \/ Turns(c, "model")
  BY <1>3, Went, QuietIsStill DEF Ask
<1>4. ASSUME CutOff(c)
      PROVE  /\ At(c, "model") /\ Still
             /\ \/ UNCHANGED chain
                \/ AppendEntry(c, AssistantId(proc[c].op, proc[c].att, proc[c].step + 1),
                               "partial", 0)
             /\ Turns(c, "abortNote") \/ Ends(c, {"failed"})
  BY Went, Ended, <1>4, QuietIsStill DEF Goto, Update, CutOff
<1>5. ASSUME Defer(c)
      PROVE  At(c, "model") /\ Still /\ UNCHANGED chain /\ Turns(c, "park")
  BY <1>5, Went, QuietIsStill DEF Defer
<1>6. ASSUME FlushAssistant(c)
      PROVE  /\ At(c, "assistant") /\ Still
             /\ AppendEntry(c, Slot(c), IF proc[c].outcome = "tool" THEN "call" ELSE "text",
                            proc[c].resp)
             /\ \/ proc[c].outcome = "tool" /\ Turns(c, "result")
                \/ proc[c].outcome # "tool" /\ Turns(c, "abortNote")
                \/ proc[c].outcome # "tool" /\ Turns(c, "stepEnd")
  BY <1>6, Went, QuietIsStill DEF FlushAssistant
<1>7. ASSUME WriteResult(c)
      PROVE  /\ At(c, "result") /\ Still /\ Turns(c, "stepEnd")
             /\ AppendEntry(c, ResultIdOf(Slot(c)), "result", proc[c].resp)
  BY <1>7, Went, QuietIsStill DEF WriteResult
<1>8. ASSUME Park(c)
      PROVE  /\ At(c, "park") /\ Still /\ Turns(c, "release")
             /\ AppendEntry(c, AutoId, "handle", 0)
  BY <1>8, Went, QuietIsStill DEF Park
<1>9. QED
  BY <1>1, <1>2, <1>3, <1>4, <1>5, <1>6, <1>7, <1>8

LEMMA ResponseEffects ==
    ASSUME Shape, NEW c \in Callers
    PROVE  /\ Answer(c) =>
                /\ At(c, "model") /\ UNCHANGED chain
                /\ responses < MaxResponses /\ responses' = responses + 1
                /\ UNCHANGED <<lane, entries, durable, ops, toolLog, writeLog, executed, sealed,
                               started, finished, enqueued, returned, acked, used>>
                /\ proc'[c].op = proc[c].op /\ proc'[c].att = proc[c].att
                /\ proc'[c].round = proc[c].round
                /\ proc'[c].todo = proc[c].todo /\ proc'[c].dead = proc[c].dead
                /\ proc'[c].step = proc[c].step + 1 /\ proc'[c].resp = responses + 1
                /\ \/ proc'[c].pc = "assistant" /\ proc'[c].outcome = "text"
                   \/ proc'[c].pc = "toolStarted" /\ proc'[c].outcome = "tool"
           /\ RecordTool(c) =>
                /\ At(c, "toolStarted") /\ Turns(c, "execute")
                /\ UNCHANGED <<entries, durable, ops, toolLog, writeLog, responses, executed,
                               sealed, started, finished, enqueued, returned, acked, used>>
                /\ \/ /\ \E t \in toolLog : t.id = Slot(c)
                      /\ \E t \in toolLog : lane' = ToolStarted(lane, [tool |-> t])
                      /\ UNCHANGED chain
                   \/ /\ ~\E t \in toolLog : t.id = Slot(c)
                      /\ AppendRecord(c, [kind |-> "tool_started", tool |-> Tool(c)])
                      /\ UNCHANGED lane
           /\ ExecuteTool(c) =>
                /\ At(c, "execute") /\ Turns(c, "assistant") /\ UNCHANGED chain
                /\ UNCHANGED <<lane, entries, durable, ops, toolLog, writeLog, responses, sealed,
                               started, finished, enqueued, returned, acked, used>>
                /\ \/ executed' = executed
                   \/ executed' = [executed EXCEPT ![proc[c].resp] = @ + 1]
           /\ StepEnd(c) =>
                /\ At(c, "stepEnd") /\ UNCHANGED chain /\ sealed' = sealed \cup {proc[c].resp}
                /\ Turns(c, "top") \/ Turns(c, "roundEnd")
                /\ UNCHANGED <<lane, entries, durable, ops, toolLog, writeLog, responses, executed,
                               started, finished, enqueued, returned, acked, used>>
<1> USE DEF Shape, ProcShape
<1>1. ASSUME Answer(c)
      PROVE  /\ At(c, "model") /\ UNCHANGED chain
             /\ responses < MaxResponses /\ responses' = responses + 1
             /\ UNCHANGED <<lane, entries, durable, ops, toolLog, writeLog, executed, sealed,
                            started, finished, enqueued, returned, acked, used>>
             /\ proc'[c].op = proc[c].op /\ proc'[c].att = proc[c].att
             /\ proc'[c].round = proc[c].round
             /\ proc'[c].todo = proc[c].todo /\ proc'[c].dead = proc[c].dead
             /\ proc'[c].step = proc[c].step + 1 /\ proc'[c].resp = responses + 1
             /\ \/ proc'[c].pc = "assistant" /\ proc'[c].outcome = "text"
                \/ proc'[c].pc = "toolStarted" /\ proc'[c].outcome = "tool"
  <2>1. PICK answer \in {"text"} \cup (Features \cap {"tool", "safeTool"}) :
          Update(c, [proc[c] EXCEPT
             !.pc = IF answer = "text" THEN "assistant" ELSE "toolStarted",
             !.step = @ + 1, !.resp = responses + 1,
             !.replay = IF answer = "safeTool" THEN "safe" ELSE "never",
             !.outcome = IF answer = "text" THEN "text" ELSE "tool"])
    BY <1>1 DEF Answer
  <2>2. proc[c] \in ProcSet
    OBVIOUS
  <2> DEFINE q == [proc[c] EXCEPT
             !.pc = IF answer = "text" THEN "assistant" ELSE "toolStarted",
             !.step = @ + 1, !.resp = responses + 1,
             !.replay = IF answer = "safeTool" THEN "safe" ELSE "never",
             !.outcome = IF answer = "text" THEN "text" ELSE "tool"]
  <2>3. /\ q.op = proc[c].op /\ q.att = proc[c].att /\ q.round = proc[c].round
        /\ q.todo = proc[c].todo /\ q.dead = proc[c].dead
        /\ q.step = proc[c].step + 1 /\ q.resp = responses + 1
        /\ q.pc = IF answer = "text" THEN "assistant" ELSE "toolStarted"
        /\ q.outcome = IF answer = "text" THEN "text" ELSE "tool"
    BY <2>2 DEF ProcSet
  <2>4. proc'[c] = q
    BY <2>1, Updated
  <2> HIDE DEF q
  <2>5. QED
    BY <1>1, <2>3, <2>4 DEF Answer, disk
<1>2. ASSUME RecordTool(c)
      PROVE  /\ At(c, "toolStarted") /\ Turns(c, "execute")
             /\ UNCHANGED <<entries, durable, ops, toolLog, writeLog, responses, executed,
                            sealed, started, finished, enqueued, returned, acked, used>>
             /\ \/ /\ \E t \in toolLog : t.id = Slot(c)
                   /\ \E t \in toolLog : lane' = ToolStarted(lane, [tool |-> t])
                   /\ UNCHANGED chain
                \/ /\ ~\E t \in toolLog : t.id = Slot(c)
                   /\ AppendRecord(c, [kind |-> "tool_started", tool |-> Tool(c)])
                   /\ UNCHANGED lane
  <2>1. Turns(c, "execute") /\ At(c, "toolStarted")
    BY <1>2, Went DEF RecordTool
  <2>2. UNCHANGED <<entries, durable, ops, toolLog, writeLog, responses, executed,
                    sealed, started, finished, enqueued, returned, acked, used>>
    BY <1>2 DEF RecordTool, disk, history
  <2>3. CASE \E t \in toolLog : t.id = Slot(c)
    <3> DEFINE t == CHOOSE t \in toolLog : t.id = Slot(c)
    <3>1. t \in toolLog
      BY <2>3
    <3>2. lane' = ToolStarted(lane, [tool |-> t]) /\ UNCHANGED chain
      BY <1>2, <2>3 DEF RecordTool
    <3> HIDE DEF t
    <3>3. QED
      BY <2>1, <2>2, <2>3, <3>1, <3>2
  <2>4. CASE ~\E t \in toolLog : t.id = Slot(c)
    BY <1>2, <2>1, <2>2, <2>4 DEF RecordTool
  <2>5. QED
    BY <2>3, <2>4
<1>3. ASSUME ExecuteTool(c)
      PROVE  /\ At(c, "execute") /\ Turns(c, "assistant") /\ UNCHANGED chain
             /\ UNCHANGED <<lane, entries, durable, ops, toolLog, writeLog, responses, sealed,
                            started, finished, enqueued, returned, acked, used>>
             /\ \/ executed' = executed
                \/ executed' = [executed EXCEPT ![proc[c].resp] = @ + 1]
  BY <1>3, Went DEF ExecuteTool, disk
<1>4. ASSUME StepEnd(c)
      PROVE  /\ At(c, "stepEnd") /\ UNCHANGED chain /\ sealed' = sealed \cup {proc[c].resp}
             /\ Turns(c, "top") \/ Turns(c, "roundEnd")
             /\ UNCHANGED <<lane, entries, durable, ops, toolLog, writeLog, responses, executed,
                            started, finished, enqueued, returned, acked, used>>
  BY <1>4, Went DEF StepEnd, disk
<1>5. QED
  BY <1>1, <1>2, <1>3, <1>4

LEMMA EndEffects ==
    ASSUME Shape, NEW c \in Callers
    PROVE  /\ RoundEnd(c) =>
                /\ At(c, "roundEnd") /\ Still
                /\ \/ /\ proc[c].round + 1 < MaxRounds
                      /\ AppendEntry(c, AutoId, "continue", 0)
                      /\ proc'[c].op = proc[c].op /\ proc'[c].att = proc[c].att
                      /\ proc'[c].pc = "top" /\ proc'[c].step = 0
                      /\ proc'[c].dead = proc[c].dead
                   \/ Ends(c, {"completed"}) /\ UNCHANGED chain
           /\ AbortNote(c) =>
                /\ At(c, "abortNote") /\ Still /\ Keeps(c) /\ proc'[c].pc = "abortRead"
                /\ proc'[c].outcome = proc[c].outcome
                /\ AppendEntry(c, AutoId, "aborted", 0)
                /\ LET queued == lane.queues["steer"] \o lane.queues["followUp"]
                   IN  proc'[c].dead = { queued[k] : k \in Unconsumed(queued) }
           /\ AbortRead(c) =>
                /\ At(c, "abortRead") /\ Still /\ Keeps(c) /\ proc'[c].pc = "abortWrites"
                /\ proc'[c].outcome = "aborted" /\ proc'[c].todo = writeLog
                /\ proc'[c].dead = proc[c].dead /\ UNCHANGED chain
           /\ Finish(c) =>
                /\ At(c, "finish") /\ Still /\ Turns(c, "release")
                /\ AppendRecord(c, [kind |-> "operation_finished", op |-> proc[c].op,
                                    outcome |-> proc[c].outcome])
           /\ Release(c) =>
                /\ At(c, "release") /\ proc'[c] = Idle /\ UNCHANGED chain
                /\ returned' = returned \cup ReturnedBy(c)
                /\ UNCHANGED <<lane, entries, durable, ops, toolLog, writeLog, responses, executed,
                               sealed, started, finished, enqueued, acked, used>>
<1>1. proc[c] \in ProcSet
  BY DEF Shape, ProcShape
<1>2. ASSUME RoundEnd(c)
      PROVE  /\ At(c, "roundEnd") /\ Still
             /\ \/ /\ proc[c].round + 1 < MaxRounds
                   /\ AppendEntry(c, AutoId, "continue", 0)
                   /\ proc'[c].op = proc[c].op /\ proc'[c].att = proc[c].att
                   /\ proc'[c].pc = "top" /\ proc'[c].step = 0
                   /\ proc'[c].dead = proc[c].dead
                \/ Ends(c, {"completed"}) /\ UNCHANGED chain
  <2> DEFINE q == [proc[c] EXCEPT !.pc = "top", !.round = @ + 1, !.step = 0]
  <2>1. /\ q.op = proc[c].op /\ q.att = proc[c].att /\ q.pc = "top" /\ q.step = 0
        /\ q.dead = proc[c].dead
    BY <1>1 DEF ProcSet
  <2>2. Update(c, q) => proc'[c] = q
    BY Updated
  <2> HIDE DEF q
  <2>3. Update(c, [proc[c] EXCEPT !.pc = "finish", !.outcome = "completed"])
          => Ends(c, {"completed"})
    BY Ended
  <2>4. QED
    BY <1>2, <2>1, <2>2, <2>3, QuietIsStill DEF RoundEnd, q
<1>3. ASSUME AbortNote(c)
      PROVE  /\ At(c, "abortNote") /\ Still /\ Keeps(c) /\ proc'[c].pc = "abortRead"
             /\ proc'[c].outcome = proc[c].outcome
             /\ AppendEntry(c, AutoId, "aborted", 0)
             /\ LET queued == lane.queues["steer"] \o lane.queues["followUp"]
                IN  proc'[c].dead = { queued[k] : k \in Unconsumed(queued) }
  <2> DEFINE queued == lane.queues["steer"] \o lane.queues["followUp"]
             items == { queued[k] : k \in Unconsumed(queued) }
             q == [proc[c] EXCEPT !.pc = "abortRead", !.dead = items]
  <2>1. Update(c, q)
    BY <1>3 DEF AbortNote
  <2> HIDE DEF items
  <2>2. /\ q.op = proc[c].op /\ q.att = proc[c].att /\ q.step = proc[c].step
        /\ q.round = proc[c].round /\ q.resp = proc[c].resp /\ q.replay = proc[c].replay
        /\ q.pc = "abortRead" /\ q.outcome = proc[c].outcome /\ q.dead = items
    BY <1>1 DEF ProcSet
  <2>3. proc'[c] = q
    BY <2>1, Updated
  <2> HIDE DEF q
  <2>4. Keeps(c)
    BY <2>2, <2>3 DEF Keeps
  <2>5. QED
    BY <1>3, <2>2, <2>3, <2>4, QuietIsStill DEF AbortNote, items
<1>4. ASSUME AbortRead(c)
      PROVE  /\ At(c, "abortRead") /\ Still /\ Keeps(c) /\ proc'[c].pc = "abortWrites"
             /\ proc'[c].outcome = "aborted" /\ proc'[c].todo = writeLog
             /\ proc'[c].dead = proc[c].dead /\ UNCHANGED chain
  <2> DEFINE q == [proc[c] EXCEPT !.pc = "abortWrites", !.todo = writeLog, !.outcome = "aborted"]
  <2>1. Update(c, q)
    BY <1>4 DEF AbortRead
  <2>2. /\ q.op = proc[c].op /\ q.att = proc[c].att /\ q.step = proc[c].step
        /\ q.round = proc[c].round /\ q.resp = proc[c].resp /\ q.replay = proc[c].replay
        /\ q.pc = "abortWrites" /\ q.outcome = "aborted" /\ q.dead = proc[c].dead
        /\ q.todo = writeLog
    BY <1>1 DEF ProcSet
  <2>3. proc'[c] = q
    BY <2>1, Updated
  <2> HIDE DEF q
  <2>4. QED
    BY <1>4, <2>2, <2>3, QuietIsStill DEF AbortRead, Keeps
<1>5. ASSUME Finish(c)
      PROVE  /\ At(c, "finish") /\ Still /\ Turns(c, "release")
             /\ AppendRecord(c, [kind |-> "operation_finished", op |-> proc[c].op,
                                 outcome |-> proc[c].outcome])
  BY <1>5, Went, QuietIsStill DEF Finish
<1>6. ASSUME Release(c)
      PROVE  /\ At(c, "release") /\ proc'[c] = Idle /\ UNCHANGED chain
             /\ returned' = returned \cup ReturnedBy(c)
             /\ UNCHANGED <<lane, entries, durable, ops, toolLog, writeLog, responses, executed,
                            sealed, started, finished, enqueued, acked, used>>
  BY <1>6, Updated DEF Release, disk
<1>7. QED
  BY <1>2, <1>3, <1>4, <1>5, <1>6

LEMMA ResumeEffects ==
    ASSUME Shape, NEW c \in Callers
    PROVE  /\ Resumed(c) =>
                /\ At(c, "resumed") /\ Still /\ UNCHANGED chain
                /\ Turns(c, "move") \/ Turns(c, "redeem") \/ Turns(c, "ensure")
           /\ Redeem(c) =>
                /\ At(c, "redeem") /\ Still
                /\ \/ Ends(c, {"completed"}) /\ AppendEntry(c, AutoId, "ready", 0)
                   \/ proc'[c] = Idle /\ UNCHANGED chain
                   \/ Ends(c, {"failed"}) /\ UNCHANGED chain
           /\ EnsureAssistant(c) =>
                /\ At(c, "ensure") /\ Still
                /\ \/ Turns(c, "reconcile") /\ UNCHANGED chain
                   \/ \E k \in DOMAIN proc[c].todo :
                        /\ AppendEntry(c, proc[c].todo[k].id, "call", proc[c].todo[k].resp)
                        /\ UNCHANGED proc
           /\ Reconcile(c) =>
                /\ At(c, "reconcile")
                /\ UNCHANGED <<lane, entries, durable, ops, toolLog, writeLog, responses, sealed,
                               started, finished, enqueued, returned, acked, used>>
                /\ \E k \in Unanswered(c) :
                     LET t == proc[c].todo[k]
                     IN  \/ /\ t.replay = "safe" /\ proc[c].outcome # "aborted"
                            /\ executed' = [executed EXCEPT ![t.resp] = @ + 1]
                            /\ Lists(c, "replayed", SubSeq(proc[c].todo, k, Len(proc[c].todo)))
                            /\ UNCHANGED chain
                         \/ /\ AppendEntry(c, ResultIdOf(t.id), "interrupted", t.resp)
                            /\ UNCHANGED <<executed, proc>>
           /\ WriteReplayed(c) =>
                /\ At(c, "replayed") /\ Still /\ Turns(c, "reconcile")
                /\ AppendEntry(c, ResultIdOf(Head(proc[c].todo).id), "result",
                               Head(proc[c].todo).resp)
           /\ Reconciled(c) =>
                /\ At(c, "reconcile") /\ Unanswered(c) = {} /\ Still /\ UNCHANGED chain
                /\ \/ proc[c].outcome = "aborted" /\ Turns(c, "abortNote")
                   \/ /\ proc[c].outcome # "aborted"
                      /\ proc'[c].pc = "input" /\ proc'[c].op = proc[c].op
                      /\ proc'[c].att = proc[c].att + 1 /\ proc'[c].round = proc[c].round
                      /\ proc'[c].todo = << >> /\ proc'[c].dead = proc[c].dead
<1>1. proc[c] \in ProcSet
  BY DEF Shape, ProcShape
<1>2. ASSUME Resumed(c)
      PROVE  /\ At(c, "resumed") /\ Still /\ UNCHANGED chain
             /\ Turns(c, "move") \/ Turns(c, "redeem") \/ Turns(c, "ensure")
  BY <1>2, Went, QuietIsStill DEF Resumed
<1>3. ASSUME Redeem(c)
      PROVE  /\ At(c, "redeem") /\ Still
             /\ \/ Ends(c, {"completed"}) /\ AppendEntry(c, AutoId, "ready", 0)
                \/ proc'[c] = Idle /\ UNCHANGED chain
                \/ Ends(c, {"failed"}) /\ UNCHANGED chain
  BY <1>3, Ended, Updated, QuietIsStill DEF Redeem
<1>4. ASSUME EnsureAssistant(c)
      PROVE  /\ At(c, "ensure") /\ Still
             /\ \/ Turns(c, "reconcile") /\ UNCHANGED chain
                \/ \E k \in DOMAIN proc[c].todo :
                     /\ AppendEntry(c, proc[c].todo[k].id, "call", proc[c].todo[k].resp)
                     /\ UNCHANGED proc
  BY <1>4, Went, QuietIsStill DEF EnsureAssistant
<1>5. ASSUME Reconcile(c)
      PROVE  /\ At(c, "reconcile")
             /\ UNCHANGED <<lane, entries, durable, ops, toolLog, writeLog, responses, sealed,
                            started, finished, enqueued, returned, acked, used>>
             /\ \E k \in Unanswered(c) :
                  LET t == proc[c].todo[k]
                  IN  \/ /\ t.replay = "safe" /\ proc[c].outcome # "aborted"
                         /\ executed' = [executed EXCEPT ![t.resp] = @ + 1]
                         /\ Lists(c, "replayed", SubSeq(proc[c].todo, k, Len(proc[c].todo)))
                         /\ UNCHANGED chain
                      \/ /\ AppendEntry(c, ResultIdOf(t.id), "interrupted", t.resp)
                         /\ UNCHANGED <<executed, proc>>
  BY <1>5, Listed DEF Reconcile, Replayable, disk
<1>6. ASSUME WriteReplayed(c)
      PROVE  /\ At(c, "replayed") /\ Still /\ Turns(c, "reconcile")
             /\ AppendEntry(c, ResultIdOf(Head(proc[c].todo).id), "result",
                            Head(proc[c].todo).resp)
  BY <1>6, Went, QuietIsStill DEF WriteReplayed
<1>7. ASSUME Reconciled(c)
      PROVE  /\ At(c, "reconcile") /\ Unanswered(c) = {} /\ Still /\ UNCHANGED chain
             /\ \/ proc[c].outcome = "aborted" /\ Turns(c, "abortNote")
                \/ /\ proc[c].outcome # "aborted"
                   /\ proc'[c].pc = "input" /\ proc'[c].op = proc[c].op
                   /\ proc'[c].att = proc[c].att + 1 /\ proc'[c].round = proc[c].round
                   /\ proc'[c].todo = << >> /\ proc'[c].dead = proc[c].dead
  <2>1. Still
    BY <1>7 DEF Reconciled, Silent, Still, disk, history
  <2> DEFINE q == [proc[c] EXCEPT !.pc = "input", !.holds = TRUE, !.att = EntryAttempt(@), !.todo = <<>>]
  <2>2. /\ q.pc = "input" /\ q.op = proc[c].op /\ q.att = proc[c].att + 1
        /\ q.round = proc[c].round /\ q.todo = << >> /\ q.dead = proc[c].dead
    BY <1>1 DEF ProcSet, EntryAttempt
  <2>3. Update(c, q) => proc'[c] = q
    BY Updated
  <2> HIDE DEF q
  <2>4. QED
    BY <1>7, <2>1, <2>2, <2>3, Went DEF Reconciled, q
<1>8. QED
  BY <1>2, <1>3, <1>4, <1>5, <1>6, <1>7

LEMMA StartEffects ==
    ASSUME Shape, NEW c \in Callers, Start(c)
    PROVE  /\ proc[c].pc = "idle" /\ lane.status = "idle" /\ Len(ops) < MaxOps
           /\ UNCHANGED <<lane, entries, durable, toolLog, writeLog, responses, executed, sealed,
                          started, finished, enqueued, returned, acked, used>>
           /\ proc'[c].op = Len(ops) + 1 /\ proc'[c].round = 0 /\ proc'[c].outcome = "none"
           /\ proc'[c].todo = << >> /\ proc'[c].dead = {}
           /\ \E kind \in OpKinds, input \in InputIds \cup {None} :
                /\ ops' = Append(ops, [kind |-> kind, input |-> input])
                /\ \/ input = None \/ input \notin QueuedIds
                   \/ \E k \in DOMAIN Waiting : input = ItemId(Waiting[k])
           /\ \/ /\ proc'[c].pc \in {"beforeRun", "navigate"} /\ UNCHANGED chain
                 /\ proc'[c].pc = "beforeRun" => proc'[c].att = 1
              \/ /\ proc'[c].pc = "compact"
                 /\ AppendRecord(c, [kind |-> "operation_started", op |-> Len(ops) + 1,
                                     opKind |-> "compaction"])
<1> DEFINE op == Len(ops) + 1
           b == [Idle EXCEPT !.pc = "beforeRun", !.op = op, !.att = 1, !.holds = TRUE]
           m == [Idle EXCEPT !.pc = "compact", !.op = op, !.holds = TRUE]
           n == [Idle EXCEPT !.pc = "navigate", !.op = op]
           Begins(q) == /\ q.op = op /\ q.round = 0 /\ q.outcome = "none"
                        /\ q.todo = << >> /\ q.dead = {}
<1>1. Len(ops) \in Nat /\ op \in Nat
  BY DEF Shape, DiskShape
<1>2. InputId(op) \in InputIds /\ InputId(op) \notin QueuedIds
  BY <1>1, IdsAreIds DEF InputId, Id, QueuedIds, IdsOf
<1>3. /\ Begins(b) /\ b.pc = "beforeRun" /\ b.att = 1
      /\ Begins(m) /\ m.pc = "compact" /\ Begins(n) /\ n.pc = "navigate"
  BY DEF Idle
<1>4. \A q : Update(c, q) => proc'[c] = q
  BY Updated
<1> HIDE DEF op, b, m, n
<1>5. ASSUME NEW input, input = None \/ input \in InputIds, StartRun(c, input)
      PROVE  /\ Begins(proc'[c]) /\ proc'[c].pc = "beforeRun" /\ proc'[c].att = 1
             /\ proc[c].pc = "idle" /\ lane.status = "idle" /\ Len(ops) < MaxOps
             /\ ops' = Append(ops, [kind |-> "prompt",
                                    input |-> IF input = None THEN InputId(op) ELSE input])
             /\ UNCHANGED <<lane, chain, entries, durable, toolLog, writeLog, history>>
  BY <1>5, <1>3, <1>4 DEF StartRun, b, op, MayStart
<1>6. CASE Prompt(c)
  BY <1>2, <1>5, <1>6 DEF Prompt, OpKinds, history, op
<1>7. CASE Drain(c)
  <2>1. PICK k \in Unconsumed(Waiting) : StartRun(c, ItemId(Waiting[k]))
    BY <1>7 DEF Drain
  <2>2. Waiting \in Seq(Nat)
    BY DEF Waiting, Shape, LaneShape, LaneSet, Queues
  <2>3. Waiting[k] \in Nat /\ k \in DOMAIN Waiting
    BY <2>2 DEF Unconsumed
  <2>4. ItemId(Waiting[k]) \in InputIds
    BY <2>3, IdsAreIds, KindsOfIds
  <2>5. \E input \in InputIds :
          /\ input \notin QueuedIds \/ input = ItemId(Waiting[k])
          /\ ops' = Append(ops, [kind |-> "prompt", input |-> input])
    BY <1>2, <1>5, <2>1, <2>4
  <2>6. QED
    BY <1>5, <2>1, <2>3, <2>4, <2>5 DEF OpKinds, history, op
<1>8. CASE Compact(c)
  BY <1>8, <1>3, <1>4 DEF Compact, m, op, OpKinds, MayStart, history
<1>9. CASE Navigate(c)
  BY <1>9, <1>3, <1>4 DEF Navigate, n, op, OpKinds, MayStart, history
<1>10. QED
  BY <1>6, <1>7, <1>8, <1>9 DEF Start

LEMMA ResumeStarts ==
    ASSUME Shape, NEW c \in Callers, Resume(c)
    PROVE  /\ proc[c].pc = "idle" /\ lane.op # None /\ Still
           /\ proc'[c].op = lane.op /\ proc'[c].att = lane.attempts + 1 /\ proc'[c].round = 0
           /\ proc'[c].todo = lane.dangling /\ proc'[c].dead = {}
           /\ \/ proc'[c].pc = "ensure" /\ proc'[c].outcome = "aborted" /\ UNCHANGED chain
              \/ /\ proc'[c].pc = "finish" /\ proc'[c].outcome = "failed"
                 /\ AppendEntry(c, AutoId, "exhausted", 0)
              \/ /\ proc'[c].pc = "resumed" /\ proc'[c].outcome = "none"
                 /\ AppendRecord(c, [kind |-> "task_attempt", op |-> lane.op,
                                     attempt |-> lane.attempts + 1, maxAttempts |-> MaxAttempts])
<1> DEFINE p == [Idle EXCEPT !.op = lane.op, !.att = lane.attempts + 1, !.todo = lane.dangling]
           a == [p EXCEPT !.pc = "ensure", !.outcome = "aborted"]
           f == [p EXCEPT !.pc = "finish", !.outcome = "failed"]
           r == [p EXCEPT !.pc = "resumed"]
<1>1. /\ a.op = lane.op /\ a.att = lane.attempts + 1 /\ a.round = 0 /\ a.todo = lane.dangling
      /\ a.dead = {} /\ a.pc = "ensure" /\ a.outcome = "aborted"
  BY DEF Idle
<1>2. /\ f.op = lane.op /\ f.att = lane.attempts + 1 /\ f.round = 0 /\ f.todo = lane.dangling
      /\ f.dead = {} /\ f.pc = "finish" /\ f.outcome = "failed"
  BY DEF Idle
<1>3. /\ r.op = lane.op /\ r.att = lane.attempts + 1 /\ r.round = 0 /\ r.todo = lane.dangling
      /\ r.dead = {} /\ r.pc = "resumed" /\ r.outcome = "none"
  BY DEF Idle
<1>4. /\ proc[c].pc = "idle" /\ lane.op # None /\ Quiet
      /\ \/ Update(c, a) /\ UNCHANGED chain
         \/ Update(c, f) /\ AppendEntry(c, AutoId, "exhausted", 0)
         \/ /\ Update(c, r)
            /\ AppendRecord(c, [kind |-> "task_attempt", op |-> lane.op,
                                attempt |-> lane.attempts + 1, maxAttempts |-> MaxAttempts])
  BY DEF Resume
<1> HIDE DEF a, f, r
<1>5. QED
  BY <1>1, <1>2, <1>3, <1>4, Updated, QuietIsStill

-----------------------------------------------------------------------------
(* The life of an operation, when one caller at a time drives the lane.    *)

LEMMA InitLife == BoundsAssumption /\ Init => Life
BY DEF Init, Life, OwnAppends, Phases, Phase, OpenOps, FinishedOps, InitLane, Idle, Ready, Working,
       Early, BoundsAssumption

LEMMA EntryIssued ==
    ASSUME NEW c, NEW id, NEW what, NEW tok, AppendEntry(c, id, what, tok)
    PROVE  \/ UNCHANGED chain
           \/ \E a : chain' = Append(chain, a) /\ a.by = c /\ a.put = "entry"
BY DEF AppendEntry

LEMMA RecordIssued ==
    ASSUME NEW c, NEW r, AppendRecord(c, r)
    PROVE  \E a : chain' = Append(chain, a) /\ a.by = c /\ a.put = "record" /\ a.what = r
BY DEF AppendRecord

LEMMA StillKeeps ==
    ASSUME Shape, Life, Still
    PROVE  KeepsOpen
BY DEF Still, KeepsOpen, Shape, DiskShape, Life, OpenOps

(* The step of a caller that waited for nothing. *)
LEMMA LifeStep ==
    ASSUME OneCaller, Shape, Life, NEW c \in Callers, Ready(c), KeepsOpen, IssuesDue(c)
    PROVE  Life'
<1>1. chain \in Seq(ChainSet) /\ \A i \in DOMAIN chain : chain[i].by \notin Callers
  BY DEF OneCaller, Ready, Shape, ChainShape
<1>2. OpenOps'
  BY DEF Life, OpenOps, FinishedOps, KeepsOpen
<1>3. CASE UNCHANGED chain /\ Phase(proc'[c], TRUE)
  BY <1>3, <1>1, <1>2 DEF Ready, OneCaller, Phases, Phase, KeepsOpen, Life, OwnAppends
<1>4. ASSUME NEW a, chain' = Append(chain, a), a.by = c, Due(proc'[c], a), Phase(proc'[c], FALSE)
      PROVE  Life'
  <2>1. /\ DOMAIN chain = 1..Len(chain) /\ Len(chain) \in Nat
        /\ DOMAIN chain' = 1..(Len(chain) + 1) /\ chain'[Len(chain) + 1] = a
        /\ \A i \in DOMAIN chain : chain'[i] = chain[i]
    BY <1>1, <1>4
  <2>2. ~Ready(c)'
    BY <2>1, <1>4 DEF Ready
  <2>3. Phases'
    BY <1>4, <2>2 DEF OneCaller, Phases, Phase, KeepsOpen
  <2>4. \A i \in DOMAIN chain' :
          \/ i = Len(chain) + 1 /\ chain'[i] = a
          \/ i \in DOMAIN chain /\ chain'[i] = chain[i] /\ chain[i].by \notin Callers
    BY <1>1, <2>1
  <2>5. Due(proc[c], a)'
    BY <1>4 DEF Due, DueRecord, KeepsOpen
  <2>6. OwnAppends'
    BY <1>4, <2>4, <2>5 DEF Life, OwnAppends
  <2>7. QED
    BY <1>2, <2>3, <2>6 DEF Life
<1>5. QED
  BY <1>3, <1>4 DEF IssuesDue

LEMMA RecordDue ==
    ASSUME NEW c, NEW r, AppendRecord(c, r), DueRecord(proc'[c], r), Phase(proc'[c], FALSE)
    PROVE  IssuesDue(c)
<1>1. PICK a : chain' = Append(chain, a) /\ a.by = c /\ a.put = "record" /\ a.what = r
  BY RecordIssued
<1>2. Due(proc'[c], a)
  BY <1>1 DEF Due
<1>3. QED
  BY <1>1, <1>2 DEF IssuesDue

LEMMA LabelKinds ==
    /\ {"top", "writes", "readSteer", "steer", "ask", "model", "toolStarted", "execute",
        "assistant", "result", "stepEnd", "roundEnd", "park", "abortNote", "abortRead",
        "abortWrites", "finish", "resumed", "redeem", "ensure", "reconcile", "replayed"}
         \subseteq Working
    /\ \A label \in Working : label \notin Early /\ label # "release"
BY DEF Working, Early, Labels

(* A step within an operation that may append one entry. *)
LEMMA LifeWithin ==
    ASSUME OneCaller, Shape, Life, NEW c \in Callers, Ready(c), KeepsOpen, lane.op = proc[c].op,
           proc'[c].op = proc[c].op, proc'[c].pc \in Working \cup {"release"},
           \/ UNCHANGED chain
           \/ /\ \E id, what, tok : AppendEntry(c, id, what, tok)
              /\ proc'[c].pc \notin {"resumed", "execute"}
    PROVE  Life'
<1>1. Phase(proc'[c], TRUE) /\ Phase(proc'[c], FALSE)
  BY LabelKinds DEF Phase, Early
<1>2. \/ UNCHANGED chain
      \/ \E a : chain' = Append(chain, a) /\ a.by = c /\ Due(proc'[c], a)
  BY LabelKinds, EntryIssued DEF Early, Due
<1>3. IssuesDue(c)
  BY <1>1, <1>2 DEF IssuesDue
<1>4. QED
  BY <1>3, LifeStep

LEMMA LifeAccept ==
    ASSUME OneCaller, Shape, Life, NEW c \in Callers,
           BeforeRun(c) \/ ApplyCompaction(c) \/ NavigateStart(c) \/ NavigateMove(c)
             \/ MaterialiseInput(c)
    PROVE  Life'
<1> DEFINE p == proc[c]
<1>1. Phase(p, Ready(c))
  BY DEF Life, Phases
<1>2. ASSUME p.pc \in {"beforeRun", "navigate"}, At(c, p.pc), Still, NEW label \in {"input", "move"},
             Turns(c, label), AppendRecord(c, StartedRecord(p.op))
      PROVE  Life'
  <2>1. lane.op = None /\ p.op \notin started
    BY <1>1, <1>2 DEF Phase
  <2>2. Phase(proc'[c], FALSE)
    BY <1>2 DEF Phase, Turns, Working, Early
  <2>3. DueRecord(proc'[c], StartedRecord(p.op))
    BY <1>2, <2>1 DEF DueRecord, StartedRecord, Turns, Keeps
  <2>4. \E a : chain' = Append(chain, a) /\ a.by = c /\ Due(proc'[c], a)
    BY <1>2, <2>3, RecordIssued DEF Due
  <2>5. Ready(c)
    BY <1>2 DEF At
  <2>6. IssuesDue(c)
    BY <2>2, <2>4 DEF IssuesDue
  <2>7. QED
    BY <1>2, <2>5, <2>6, StillKeeps, LifeStep
<1>3. CASE BeforeRun(c)
  <2>1. At(c, "beforeRun") /\ Still
    BY <1>3, AcceptEffects
  <2>2. CASE proc'[c] = Idle /\ UNCHANGED chain
    BY <2>1, <2>2, StillKeeps, LifeStep DEF Phase, Idle, Working, Early, At, IssuesDue
  <2>3. CASE Turns(c, "input") /\ AppendRecord(c, StartedRecord(p.op))
    BY <1>2, <2>1, <2>3 DEF At
  <2>4. QED
    BY <1>3, <2>2, <2>3, AcceptEffects
<1>4. CASE NavigateStart(c)
  BY <1>4, AcceptEffects, <1>2 DEF At
<1>5. ASSUME At(c, p.pc), p.pc \in {"compact", "move", "input"}, Still,
             proc'[c].op = p.op, proc'[c].pc \in {"finish", "top"},
             UNCHANGED chain \/ \E id, what, tok : AppendEntry(c, id, what, tok)
      PROVE  Life'
  BY <1>1, <1>5, LabelKinds, StillKeeps, LifeWithin DEF Phase, At
<1>6. CASE ApplyCompaction(c)
  BY <1>6, AcceptEffects, <1>5 DEF At, Ends, Keeps
<1>7. CASE NavigateMove(c)
  BY <1>7, AcceptEffects, <1>5 DEF At, Ends, Keeps
<1>8. CASE MaterialiseInput(c)
  BY <1>8, AcceptEffects, <1>5 DEF At, Turns, Keeps
<1>9. QED
  BY <1>3, <1>4, <1>6, <1>7, <1>8

(* What the loop does: each of its labels is within the operation. *)
LEMMA LifeLoop ==
    ASSUME OneCaller, Shape, Life, NEW c \in Callers,
           LoopTop(c) \/ CheckpointWrites(c) \/ CheckpointRead(c) \/ CheckpointSteer(c) \/ Ask(c)
             \/ CutOff(c) \/ Defer(c) \/ FlushAssistant(c) \/ WriteResult(c) \/ RoundEnd(c)
             \/ Park(c) \/ AbortNote(c) \/ AbortRead(c) \/ AbortWrites(c)
    PROVE  Life'
<1> DEFINE p == proc[c]
<1>1. ASSUME p.pc \in Working
      PROVE  lane.op = p.op
  BY <1>1 DEF Life, Phases, Phase
<1>2. ASSUME p.pc \in Working, At(c, p.pc), Still, proc'[c].op = p.op,
             proc'[c].pc \in Working \cup {"release"},
             \/ UNCHANGED chain
             \/ /\ \E id, what, tok : AppendEntry(c, id, what, tok)
                /\ proc'[c].pc \notin {"resumed", "execute"}
      PROVE  Life'
  BY <1>1, <1>2, StillKeeps, LifeWithin DEF At
<1>3. ASSUME NEW here \in Working \ {"resumed", "execute"}, NEW what, NEW next \in Working,
             WriteTodo(c, here, what, next)
      PROVE  Life'
  BY <1>3, TodoEffects, <1>2 DEF At, Turns, Lists, Keeps
<1>4. CASE CheckpointWrites(c) \/ CheckpointSteer(c) \/ AbortWrites(c)
  BY <1>3, <1>4, LabelKinds DEF CheckpointWrites, CheckpointSteer, AbortWrites
<1>5. CASE LoopTop(c) \/ CheckpointRead(c) \/ Ask(c) \/ Defer(c)
  BY <1>5, LoopEffects, <1>2, LabelKinds DEF Turns, Lists, Keeps, At
<1>6. CASE CutOff(c) \/ FlushAssistant(c) \/ WriteResult(c) \/ Park(c)
  BY <1>6, LoopEffects, <1>2, LabelKinds DEF Turns, Ends, Keeps, At
<1>7. CASE RoundEnd(c) \/ AbortNote(c) \/ AbortRead(c)
  <2>1. /\ Still /\ proc'[c].op = p.op
        /\ p.pc \in {"roundEnd", "abortNote", "abortRead"} /\ At(c, p.pc)
        /\ proc'[c].pc \in {"top", "finish", "abortRead", "abortWrites"}
    BY <1>7, EndEffects DEF Ends, Keeps, At
  <2>2. UNCHANGED chain \/ \E id, what, tok : AppendEntry(c, id, what, tok)
    BY <1>7, EndEffects
  <2>3. QED
    BY <1>2, <2>1, <2>2, LabelKinds
<1>8. QED
  BY <1>4, <1>5, <1>6, <1>7

LEMMA LifeResponse ==
    ASSUME OneCaller, Shape, Life, NEW c \in Callers,
           Answer(c) \/ RecordTool(c) \/ ExecuteTool(c) \/ StepEnd(c)
    PROVE  Life'
<1> DEFINE p == proc[c]
<1>1. Len(ops) \in Nat /\ Len(ops) <= MaxOps /\ lane \in LaneSet
  BY DEF Shape, DiskShape, LaneShape, Life, OpenOps
<1>2. p.pc \in {"model", "toolStarted", "execute", "stepEnd"} /\ Ready(c)
  BY ResponseEffects DEF At
<1>3. lane.op = p.op
  BY <1>2, LabelKinds DEF Life, Phases, Phase
<1>4. CASE Answer(c) \/ ExecuteTool(c) \/ StepEnd(c)
  <2>1. UNCHANGED <<lane, durable, ops, started, finished, chain>> /\ proc'[c].op = p.op
        /\ proc'[c].pc \in {"assistant", "toolStarted", "top", "roundEnd"}
    BY <1>4, ResponseEffects DEF Turns, Keeps
  <2>2. KeepsOpen /\ proc'[c].pc \in Working
    BY <1>1, <2>1, LabelKinds DEF KeepsOpen
  <2>3. QED
    BY <1>2, <1>3, <2>1, <2>2, LifeWithin
<1>5. CASE RecordTool(c)
  <2>1. UNCHANGED <<durable, ops, started, finished>> /\ Turns(c, "execute")
    BY <1>5, ResponseEffects
  <2>2. proc'[c].op = p.op /\ proc'[c].pc = "execute" /\ proc'[c].pc \in Working
        /\ ToolOf(proc'[c]) = Tool(c)
    BY <2>1, LabelKinds DEF Turns, Keeps, ToolOf, Tool, Slot
  <2>3. CASE UNCHANGED chain /\ \E t \in toolLog : lane' = ToolStarted(lane, [tool |-> t])
    BY <1>1, <2>1, <2>3, <1>2, <1>3, <2>2, LifeWithin DEF KeepsOpen, ToolStarted, LaneSet
  <2>4. CASE UNCHANGED lane /\ AppendRecord(c, [kind |-> "tool_started", tool |-> Tool(c)])
    <3>1. KeepsOpen
      BY <1>1, <2>1, <2>4 DEF KeepsOpen
    <3>2. Phase(proc'[c], FALSE)
      BY <1>3, <2>2 DEF Phase
    <3>3. DueRecord(proc'[c], [kind |-> "tool_started", tool |-> Tool(c)])
      BY <2>2 DEF DueRecord
    <3>4. IssuesDue(c)
      BY <2>4, <3>2, <3>3, RecordDue
    <3>5. QED
      BY <1>2, <3>1, <3>4, LifeStep
  <2>5. QED
    BY <1>5, <2>3, <2>4, ResponseEffects
<1>6. QED
  BY <1>4, <1>5

LEMMA IdlePhase == Phase(Idle, TRUE)
BY DEF Phase, Idle, Working, Early

LEMMA LifeEnd ==
    ASSUME OneCaller, Shape, Life, NEW c \in Callers, Finish(c) \/ Release(c)
    PROVE  Life'
<1> DEFINE p == proc[c]
<1>1. CASE Finish(c)
  <2> DEFINE r == [kind |-> "operation_finished", op |-> p.op, outcome |-> p.outcome]
  <2>1. At(c, "finish") /\ Still /\ Turns(c, "release") /\ AppendRecord(c, r)
    BY <1>1, EndEffects
  <2>2. lane.op = p.op
    BY <2>1, LabelKinds DEF At, Life, Phases, Phase
  <2>3. DueRecord(proc'[c], r) /\ Phase(proc'[c], FALSE)
    BY <2>1, <2>2 DEF DueRecord, Phase, Turns, Keeps, Working
  <2> HIDE DEF r
  <2>4. IssuesDue(c) /\ Ready(c)
    BY <2>1, <2>3, RecordDue DEF At
  <2>5. QED
    BY <2>1, <2>4, StillKeeps, LifeStep
<1>2. CASE Release(c)
  <2>1. Ready(c) /\ proc'[c] = Idle /\ UNCHANGED <<chain, lane, durable, ops, started, finished>>
    BY <1>2, EndEffects DEF At
  <2>2. KeepsOpen
    BY <2>1 DEF KeepsOpen, Shape, DiskShape, Life, OpenOps
  <2>3. QED
    BY <2>1, <2>2, IdlePhase, LifeStep DEF IssuesDue
<1>3. QED
  BY <1>1, <1>2

LEMMA LifeResume ==
    ASSUME OneCaller, Shape, Life, NEW c \in Callers,
           Resume(c) \/ Resumed(c) \/ Redeem(c) \/ EnsureAssistant(c) \/ Reconcile(c)
             \/ WriteReplayed(c) \/ Reconciled(c)
    PROVE  Life'
<1> DEFINE p == proc[c]
           entered == \E id, what, tok : AppendEntry(c, id, what, tok)
<1>1. p.pc \in Working => lane.op = p.op
  BY DEF Life, Phases, Phase
<1>2. CASE Resume(c)
  <2> DEFINE r == [kind |-> "task_attempt", op |-> lane.op, attempt |-> lane.attempts + 1,
                   maxAttempts |-> MaxAttempts]
  <2>1. /\ p.pc = "idle" /\ Still /\ proc'[c].op = lane.op /\ proc'[c].att = lane.attempts + 1
        /\ \/ proc'[c].pc = "ensure" /\ UNCHANGED chain
           \/ proc'[c].pc = "finish" /\ entered
           \/ proc'[c].pc = "resumed" /\ AppendRecord(c, r)
    BY <1>2, ResumeStarts
  <2>2. Ready(c)
    BY <2>1 DEF Life, Phases, Phase
  <2>3. Phase(proc'[c], TRUE) /\ Phase(proc'[c], FALSE)
    BY <2>1 DEF Phase
  <2>4. CASE proc'[c].pc = "ensure" /\ UNCHANGED chain
    BY <2>1, <2>2, <2>3, <2>4, StillKeeps, LifeStep DEF IssuesDue
  <2>5. CASE proc'[c].pc = "finish" /\ entered
    <3>1. IssuesDue(c)
      BY <2>3, <2>5, EntryIssued DEF IssuesDue, Due, Early
    <3>2. QED
      BY <2>1, <2>2, <3>1, StillKeeps, LifeStep
  <2>6. CASE proc'[c].pc = "resumed" /\ AppendRecord(c, r)
    <3>1. DueRecord(proc'[c], r)
      BY <2>1, <2>6 DEF DueRecord
    <3> HIDE DEF r
    <3>2. IssuesDue(c)
      BY <2>3, <2>6, <3>1, RecordDue
    <3>3. QED
      BY <2>1, <2>2, <3>2, StillKeeps, LifeStep
  <2>7. QED
    BY <2>1, <2>4, <2>5, <2>6
<1>3. ASSUME p.pc \in Working, At(c, p.pc), KeepsOpen, proc'[c].op = p.op,
             \/ proc'[c].pc \in {"move", "input"} /\ UNCHANGED chain
             \/ proc'[c].pc \in Working \ {"resumed", "execute"} /\ (UNCHANGED chain \/ entered)
      PROVE  Life'
  <2>1. lane.op = p.op /\ Ready(c)
    BY <1>1, <1>3 DEF At
  <2>2. CASE proc'[c].pc \in {"move", "input"} /\ UNCHANGED chain
    BY <1>3, <2>1, <2>2, LifeStep DEF Phase, IssuesDue
  <2>3. CASE proc'[c].pc \in Working \ {"resumed", "execute"} /\ (UNCHANGED chain \/ entered)
    BY <1>3, <2>1, <2>3, LifeWithin
  <2>4. QED
    BY <1>3, <2>2, <2>3
<1>4. CASE Resumed(c)
  BY <1>4, ResumeEffects, <1>3, StillKeeps, LabelKinds DEF At, Turns, Keeps
<1>5. CASE Redeem(c)
  BY <1>5, ResumeEffects, IdlePhase, StillKeeps, LifeStep, <1>3, LabelKinds DEF IssuesDue, At,
     Ends, Keeps
<1>6. CASE EnsureAssistant(c)
  BY <1>6, ResumeEffects, <1>3, StillKeeps, LabelKinds DEF Turns, Keeps, At
<1>7. CASE Reconcile(c)
  BY <1>7, ResumeEffects, <1>3, LabelKinds DEF Lists, Keeps, At, KeepsOpen, Shape, DiskShape,
     Life, OpenOps
<1>8. CASE WriteReplayed(c)
  BY <1>8, ResumeEffects, <1>3, StillKeeps, LabelKinds DEF At, Turns, Keeps
<1>9. CASE Reconciled(c)
  BY <1>9, ResumeEffects, <1>3, StillKeeps, LabelKinds DEF Turns, Keeps, At
<1>10. QED
  BY <1>2, <1>4, <1>5, <1>6, <1>7, <1>8, <1>9

LEMMA LifeStart ==
    ASSUME OneCaller, BoundsAssumption, Shape, Life, NEW c \in Callers, Start(c)
    PROVE  Life'
<1> DEFINE p == proc[c]
           r == [kind |-> "operation_started", op |-> Len(ops) + 1, opKind |-> "compaction"]
<1>1. /\ p.pc = "idle" /\ lane.status = "idle" /\ Len(ops) < MaxOps
      /\ UNCHANGED <<lane, durable, started, finished>> /\ proc'[c].op = Len(ops) + 1
      /\ \E o : ops' = Append(ops, o)
      /\ \/ proc'[c].pc \in {"beforeRun", "navigate"} /\ UNCHANGED chain
         \/ proc'[c].pc = "compact" /\ AppendRecord(c, r)
  BY StartEffects
<1>2. Len(ops) \in Nat /\ MaxOps \in Nat /\ Len(ops') = Len(ops) + 1
  BY <1>1 DEF Shape, DiskShape, BoundsAssumption
<1>3. KeepsOpen
  BY <1>1, <1>2 DEF KeepsOpen
<1>4. Ready(c) /\ lane.op = None /\ Len(ops) + 1 \notin started
  BY <1>1, <1>2 DEF Life, Phases, Phase, OpenOps
<1>5. CASE proc'[c].pc \in {"beforeRun", "navigate"} /\ UNCHANGED chain
  BY <1>1, <1>4, <1>5, <1>3, LifeStep DEF Phase, Working, Early, IssuesDue
<1>6. CASE proc'[c].pc = "compact" /\ AppendRecord(c, r)
  <2>1. Phase(proc'[c], FALSE) /\ DueRecord(proc'[c], r)
    BY <1>1, <1>4, <1>6 DEF Phase, Working, Early, DueRecord
  <2> HIDE DEF r
  <2>2. IssuesDue(c)
    BY <1>6, <2>1, RecordDue
  <2>3. QED
    BY <1>3, <1>4, <2>2, LifeStep
<1>7. QED
  BY <1>1, <1>5, <1>6

LEMMA LifeApi ==
    ASSUME OneCaller, BoundsAssumption, Shape, Life,
           Abort \/ DeferWrite \/ \E queue \in Queues : Enqueue(queue)
    PROVE  Life'
<1>1. UNCHANGED <<lane, proc, durable, ops, started, finished>>
  BY DEF Abort, DeferWrite, Enqueue, disk
<1>2. OpenOps'
  BY <1>1 DEF Life, OpenOps, FinishedOps
<1>3. UNCHANGED chain \/ \E a : /\ chain' = Append(chain, a) /\ a.by = "api"
                                /\ a.put = "record" /\ a.what.kind \in ApiKinds
  <2>1. ASSUME NEW r, r.kind \in ApiKinds, AppendRecord("api", r)
        PROVE  \E a : /\ chain' = Append(chain, a) /\ a.by = "api"
                      /\ a.put = "record" /\ a.what.kind \in ApiKinds
    BY <2>1 DEF AppendRecord
  <2>2. CASE Abort
    <3> DEFINE r == [kind |-> "abort_requested", op |-> lane.op]
    <3>1. r.kind \in ApiKinds
      BY DEF ApiKinds
    <3>2. AppendRecord("api", r) \/ UNCHANGED chain
      BY <2>2 DEF Abort
    <3> HIDE DEF r
    <3>3. QED
      BY <2>1, <3>1, <3>2
  <2>3. CASE DeferWrite
    <3> DEFINE r == [kind |-> "write_deferred", entry |-> WriteId(used.items + 1)]
    <3>1. r.kind \in ApiKinds
      BY DEF ApiKinds
    <3>2. AppendRecord("api", r)
      BY <2>3 DEF DeferWrite
    <3> HIDE DEF r
    <3>3. QED
      BY <2>1, <3>1, <3>2
  <2>4. ASSUME NEW queue \in Queues, Enqueue(queue)
        PROVE  \E a : /\ chain' = Append(chain, a) /\ a.by = "api"
                      /\ a.put = "record" /\ a.what.kind \in ApiKinds
    <3> DEFINE r == [kind |-> "queue_enqueued", queue |-> queue, item |-> used.items + 1]
    <3>1. r.kind \in ApiKinds
      BY DEF ApiKinds
    <3>2. AppendRecord("api", r)
      BY <2>4 DEF Enqueue
    <3> HIDE DEF r
    <3>3. QED
      BY <2>1, <3>1, <3>2
  <2>5. QED
    BY <2>2, <2>3, <2>4
<1>4. chain \in Seq(ChainSet) /\ "api" \notin Callers
  BY DEF Shape, ChainShape, BoundsAssumption
<1>5. CASE UNCHANGED chain
  BY <1>1, <1>2, <1>5 DEF Life, OwnAppends, Due, DueRecord, Phases, Phase, Ready
<1>6. ASSUME NEW a, chain' = Append(chain, a), a.by = "api", a.put = "record",
             a.what.kind \in ApiKinds
      PROVE  Life'
  <2>1. \A i \in DOMAIN chain' : \/ a = chain'[i] /\ i \notin DOMAIN chain
                                 \/ i \in DOMAIN chain /\ chain'[i] = chain[i]
    BY <1>4, <1>6
  <2>2. \A i \in DOMAIN chain : i \in DOMAIN chain' /\ chain'[i] = chain[i]
    BY <1>4, <1>6
  <2>3. OwnAppends'
    <3>1. /\ \A i \in DOMAIN chain' :
               chain'[i].by \in Callers => i \in DOMAIN chain /\ chain'[i] = chain[i]
          /\ \A i \in DOMAIN chain' :
               chain'[i].by \notin Callers /\ i \notin DOMAIN chain
                 => chain'[i].put = "record" /\ chain'[i].what.kind \in ApiKinds
      BY <1>4, <1>6, <2>1
    <3>2. \A p, b : Due(p, b) => Due(p, b)'
      BY <1>1 DEF Due, DueRecord
    <3>3. QED
      BY <1>1, <2>1, <3>1, <3>2 DEF Life, OwnAppends
  <2>4. \A c \in Callers : Ready(c)' <=> Ready(c)
    BY <1>4, <1>6, <2>1, <2>2 DEF Ready
  <2>5. Phases'
    BY <1>1, <2>4 DEF Life, Phases, Phase
  <2>6. QED
    BY <1>2, <2>3, <2>5 DEF Life
<1>7. QED
  BY <1>3, <1>5, <1>6

LEMMA LifeCrash ==
    ASSUME Shape, Life, Crash
    PROVE  Life'
<1>1. /\ lane' = FinishRestore(durable) /\ chain' = << >> /\ proc' = [c \in Callers |-> Idle]
      /\ UNCHANGED <<durable, ops, started, finished>>
  BY DEF Crash, disk
<1>2. durable \in LaneSet
  BY DEF Shape, DiskShape
<1>3. /\ lane'.op = durable.op /\ lane'.queues = durable.queues /\ lane'.attempts = durable.attempts
      /\ lane'.status = "idle" <=> durable.status = "idle"
  BY <1>1, <1>2 DEF FinishRestore, LaneSet
<1>4. OpenOps'
  BY <1>1, <1>3 DEF Life, OpenOps, FinishedOps
<1>5. DOMAIN chain' = {} /\ \A c \in Callers : proc'[c] = Idle /\ Ready(c)'
  BY <1>1 DEF Ready
<1>6. Phases' /\ OwnAppends'
  BY <1>5, IdlePhase DEF Phases, Phase, OwnAppends, Working, Early, Idle
<1>7. QED
  BY <1>4, <1>6 DEF Life

(* A record reduces two lanes that agree to two lanes that agree. *)
LEMMA ReducedAgree ==
    ASSUME NEW l \in LaneSet, NEW d \in LaneSet, NEW r \in RecordSet,
           d.op = l.op, d.queues = l.queues, d.attempts = l.attempts,
           l.status = "idle" <=> l.op = None, d.status = "idle" <=> d.op = None,
           l.op = None => l.attempts = 0, r.kind = "operation_started" => r.op # None
    PROVE  LET m == ApplyRecord(l, r)
               n == ApplyRecord(d, r)
           IN  /\ n.op = m.op /\ n.queues = m.queues /\ n.attempts = m.attempts
               /\ m.status = "idle" <=> m.op = None
               /\ n.status = "idle" <=> n.op = None
               /\ m.op = None => m.attempts = 0
<1> DEFINE R(x) == ApplyRecord(x, r)
<1>1. CASE r.kind = "operation_started"
  <2>1. \A x \in LaneSet : IF x.op = None
                           THEN /\ R(x).op = r.op /\ R(x).status = "running"
                                /\ R(x).attempts = 0 /\ R(x).queues = x.queues
                           ELSE R(x) = x
    BY <1>1, ReducedFields, ZenonT(40)
  <2> HIDE DEF R
  <2>2. QED
    BY <1>1, <2>1 DEF R
<1>2. CASE r.kind = "operation_finished"
  <2>1. \A x \in LaneSet : IF x.op # None /\ x.op = r.op
                           THEN /\ R(x).op = None /\ R(x).status = "idle" /\ R(x).attempts = 0
                                /\ R(x).queues = [x.queues EXCEPT !.steer = << >>,
                                      !.followUp = IF r.outcome = "aborted" THEN << >> ELSE @]
                           ELSE R(x) = x
    BY <1>2 DEF ApplyRecord, OperationFinished, LaneSet
  <2> HIDE DEF R
  <2>2. CASE l.op # None /\ l.op = r.op
    <3>1. /\ R(l).op = None /\ R(l).status = "idle" /\ R(l).attempts = 0
          /\ R(l).queues = [l.queues EXCEPT !.steer = << >>,
                              !.followUp = IF r.outcome = "aborted" THEN << >> ELSE @]
      BY <2>1, <2>2
    <3>2. /\ R(d).op = None /\ R(d).status = "idle" /\ R(d).attempts = 0
          /\ R(d).queues = [l.queues EXCEPT !.steer = << >>,
                              !.followUp = IF r.outcome = "aborted" THEN << >> ELSE @]
      BY <2>1, <2>2
    <3>3. QED
      BY <3>1, <3>2 DEF R
  <2>3. CASE ~(l.op # None /\ l.op = r.op)
    BY <2>1, <2>3 DEF R
  <2>4. QED
    BY <2>2, <2>3
<1>3. CASE r.kind = "abort_requested"
  <2>1. \A x \in LaneSet : /\ R(x).op = x.op /\ R(x).attempts = x.attempts
                           /\ R(x).queues = x.queues
                           /\ R(x).status = x.status \/ (R(x).status = "aborting" /\ x.op # None)
    BY <1>3, ReducedFields, ZenonT(40)
  <2> HIDE DEF R
  <2>2. QED
    BY <2>1 DEF R
<1>4. CASE r.kind = "tool_started"
  <2>1. \A x \in LaneSet : /\ R(x).op = x.op /\ R(x).attempts = x.attempts
                           /\ R(x).queues = x.queues /\ R(x).status = x.status
    BY <1>4, ReducedFields, ZenonT(40)
  <2> HIDE DEF R
  <2>2. QED
    BY <2>1 DEF R
<1>5. CASE r.kind = "queue_enqueued"
  <2>1. \A x \in LaneSet : /\ R(x).op = x.op /\ R(x).attempts = x.attempts
                           /\ R(x).status = x.status
                           /\ R(x).queues = [x.queues EXCEPT ![r.queue] = Append(@, r.item)]
    BY <1>5, ReducedFields
  <2> HIDE DEF R
  <2>2. QED
    BY <2>1, ZenonT(40) DEF R
<1>6. CASE r.kind = "task_attempt"
  <2>1. \A x \in LaneSet : /\ R(x).op = x.op /\ R(x).queues = x.queues
                           /\ R(x).status = x.status
                           /\ R(x).attempts = IF x.op # None /\ x.op = r.op
                                                  /\ r.attempt > x.attempts
                                              THEN r.attempt ELSE x.attempts
    BY <1>6, ReducedFields, ZenonT(40)
  <2> HIDE DEF R
  <2>2. QED
    BY <2>1 DEF R
<1>7. CASE r.kind = "write_deferred"
  <2>1. \A x \in LaneSet : R(x) = x
    BY <1>7, ReducedFields
  <2> HIDE DEF R
  <2>2. QED
    BY <2>1 DEF R
<1>8. QED
  BY <1>1, <1>2, <1>3, <1>4, <1>5, <1>6, <1>7 DEF RecordSet, StartedSet, AbortSet, FinishedSet,
     ToolRecords, EnqueuedSet, AttemptSet, DeferredSet

(* What a commit does to the chain. *)
LEMMA HeadGone ==
    ASSUME Shape, Life, Commit
    PROVE  /\ \A i \in DOMAIN chain' : i + 1 \in DOMAIN chain /\ chain'[i] = chain[i + 1]
           /\ \A i \in DOMAIN chain : i = 1 \/ (i - 1 \in DOMAIN chain' /\ chain'[i - 1] = chain[i])
           /\ 1 \in DOMAIN chain /\ Head(chain) = chain[1]
           /\ Head(chain).by \in Callers =>
                \A i \in DOMAIN chain' : chain'[i].by \notin Callers
           /\ \A c \in Callers : Ready(c)' <=> (Ready(c) \/ Head(chain).by = c)
<1>1. chain # << >> /\ chain' = Tail(chain) /\ chain \in Seq(ChainSet)
  BY DEF Commit, Shape, ChainShape
<1>2. /\ \A i \in DOMAIN chain' : i + 1 \in DOMAIN chain /\ chain'[i] = chain[i + 1] /\ i + 1 # 1
      /\ \A i \in DOMAIN chain : i = 1 \/ (i - 1 \in DOMAIN chain' /\ chain'[i - 1] = chain[i])
      /\ 1 \in DOMAIN chain /\ Head(chain) = chain[1]
  BY <1>1
<1>3. Head(chain).by \in Callers => \A i \in DOMAIN chain' : chain'[i].by \notin Callers
  BY <1>2 DEF Life, OwnAppends
<1>4. ASSUME NEW c \in Callers
      PROVE  Ready(c)' <=> (Ready(c) \/ Head(chain).by = c)
  BY <1>2, <1>3 DEF Ready
<1>5. QED
  BY <1>2, <1>3, <1>4

LEMMA RecordKinds ==
    ASSUME NEW r \in RecordSet
    PROVE  /\ r.kind \in {"operation_started", "operation_finished", "abort_requested",
                          "tool_started", "queue_enqueued", "task_attempt", "write_deferred"}
           /\ r.kind \in {"operation_started", "operation_finished"} => r.op \in Nat
           /\ r.kind = "operation_finished" => r.outcome \in Outcomes
           /\ r.kind = "queue_enqueued" => r.queue \in Queues /\ r.item \in Nat
BY DEF RecordSet, StartedSet, AbortSet, FinishedSet, ToolRecords, EnqueuedSet, AttemptSet, DeferredSet

(* The head of the chain, when it is a record and when it is an entry. *)
LEMMA CommitEffects ==
    ASSUME Shape, Commit
    PROVE  /\ UNCHANGED <<proc, runtime, signal, ops, responses, executed, sealed, returned, used>>
           /\ Head(chain) = chain[1] /\ 1 \in DOMAIN chain /\ Head(chain).by \in Writers
           /\ \/ /\ Head(chain).put = "entry" /\ Head(chain).what \in PutSet
                 /\ CommitEntry(Head(chain).what)
              \/ /\ Head(chain).put = "record" /\ Head(chain).what \in RecordSet
                 /\ CommitRecord(Head(chain).what)
                 /\ Head(chain).what.kind = "operation_started" =>
                      Head(chain).what.op \in 1..Len(ops)
<1>1. chain # << >> /\ Head(chain) \in ChainSet /\ Head(chain) = chain[1] /\ 1 \in DOMAIN chain
  BY HeadOfChain DEF Commit, Shape
<1>2. Head(chain).by \in Writers
  BY <1>1 DEF ChainSet, EntryAppends, RecordAppends
<1>3. UNCHANGED <<proc, runtime, signal, ops, responses, executed, sealed, returned, used>>
  BY DEF Commit
<1>4. \/ /\ Head(chain).put = "entry" /\ Head(chain).what \in PutSet
         /\ CommitEntry(Head(chain).what)
      \/ /\ Head(chain).put = "record" /\ Head(chain).what \in RecordSet
         /\ CommitRecord(Head(chain).what)
  BY HeadOfChain DEF Commit, Shape
<1>5. Head(chain).put = "record" /\ Head(chain).what.kind = "operation_started"
        => Head(chain).what.op \in 1..Len(ops)
  BY <1>1 DEF Shape, ChainShape
<1>6. QED
  BY <1>1, <1>2, <1>3, <1>4, <1>5

(* A record in its place keeps the lane, the journal and the history in    *)
(* agreement.                                                              *)
LEMMA OpenCommit ==
    ASSUME NoneIsNoName, Shape, OpenOps, UNCHANGED ops, NEW r \in RecordSet, CommitRecord(r),
           r.kind = "operation_started" =>
             lane.op = None /\ r.op \notin started /\ r.op \in 1..Len(ops),
           r.kind = "operation_finished" => lane.op = r.op
    PROVE  /\ OpenOps'
           /\ r.kind = "operation_started" => lane'.op = r.op
           /\ r.kind = "operation_finished" => lane'.op = None
           /\ r.kind \notin {"operation_started", "operation_finished"} =>
                lane'.op = lane.op /\ UNCHANGED <<started, finished>>
<1>1. /\ lane' = ApplyRecord(lane, r) /\ durable' = ApplyRecord(durable, r)
      /\ lane \in LaneSet /\ durable \in LaneSet
      /\ started' = IF r.kind = "operation_started" THEN started \cup {r.op} ELSE started
      /\ finished' = IF r.kind = "operation_finished"
                     THEN Append(finished, <<r.op, r.outcome>>) ELSE finished
  BY DEF CommitRecord, Shape, LaneShape, DiskShape
<1>2. r.kind \in {"operation_started", "operation_finished"} => r.op \in Nat /\ r.op # None
  BY RecordKinds DEF NoneIsNoName
<1>3. /\ durable'.op = lane'.op /\ durable'.queues = lane'.queues
      /\ durable'.attempts = lane'.attempts
      /\ lane'.status = "idle" <=> lane'.op = None
      /\ durable'.status = "idle" <=> durable'.op = None
      /\ lane'.op = None => lane'.attempts = 0
  BY <1>1, <1>2, ReducedAgree DEF OpenOps
<1>4. /\ r.kind = "operation_started" => lane'.op = r.op
      /\ r.kind = "operation_finished" => lane'.op = None
      /\ r.kind \notin {"operation_started", "operation_finished"} => lane'.op = lane.op
  <2>1. CASE r.kind = "operation_started"
    BY <1>1, <2>1, ReducedFields
  <2>2. CASE r.kind = "operation_finished"
    BY <1>1, <1>2, <2>2, ReducedFields
  <2>3. CASE r.kind \in {"abort_requested", "tool_started"}
    BY <1>1, <2>3, ReducedFields
  <2>4. CASE r.kind \in {"queue_enqueued", "task_attempt", "write_deferred"}
    BY <1>1, <2>4, ReducedFields
  <2>5. QED
    BY <2>1, <2>2, <2>3, <2>4, RecordKinds
<1>5. CASE r.kind = "operation_started"
  <2>1. started' = started \cup {r.op} /\ finished' = finished /\ FinishedOps' = FinishedOps
    BY <1>1, <1>5 DEF FinishedOps
  <2>2. lane.op = None /\ r.op \notin started /\ r.op \in 1..Len(ops) /\ lane'.op = r.op
        /\ FinishedOps \subseteq started
    BY <1>4, <1>5 DEF OpenOps
  <2>3. \A op \in started : op \in FinishedOps
    BY <1>2, <1>5, <2>2, BoundsAssumption DEF OpenOps, NoneIsNoName, Shape, HistoryShape
  <2>4. /\ lane'.op \in started' /\ lane'.op \notin FinishedOps'
        /\ \A op \in started' : op \in FinishedOps' \/ lane'.op = op
        /\ FinishedOps' \subseteq started' /\ started' \subseteq 1..Len(ops)
    BY <2>1, <2>2, <2>3 DEF OpenOps
  <2>5. QED
    BY <1>3, <1>5, <2>1, <2>4 DEF OpenOps
<1>6. CASE r.kind = "operation_finished"
  <2>1. started' = started /\ finished' = Append(finished, <<r.op, r.outcome>>)
        /\ finished \in Seq(Nat \X Outcomes) /\ lane.op = r.op
    BY <1>1, <1>6 DEF Shape, HistoryShape
  <2>2. /\ DOMAIN finished = 1..Len(finished) /\ Len(finished) \in Nat
        /\ DOMAIN finished' = 1..(Len(finished) + 1)
        /\ finished'[Len(finished) + 1] = <<r.op, r.outcome>>
        /\ \A i \in DOMAIN finished : finished'[i] = finished[i]
    BY <2>1
  <2>3. <<r.op, r.outcome>>[1] = r.op
    OBVIOUS
  <2>4. \A i \in DOMAIN finished' : \/ i \in DOMAIN finished /\ finished'[i][1] = finished[i][1]
                                    \/ i = Len(finished) + 1 /\ finished'[i][1] = r.op
    BY <2>2, <2>3
  <2>5. FinishedOps' = FinishedOps \cup {r.op}
    BY <2>2, <2>3, <2>4 DEF FinishedOps
  <2>6. r.op \notin FinishedOps /\ r.op \in started
    BY <1>2, <1>6, <2>1 DEF OpenOps
  <2>7. \A i \in DOMAIN finished : finished[i][1] # r.op
    BY <2>6 DEF FinishedOps
  <2>8. \A i, j \in DOMAIN finished' : finished'[i][1] = finished'[j][1] => i = j
    BY <2>4, <2>7 DEF OpenOps
  <2>9. \A op \in started' : op \in FinishedOps' \/ lane'.op = op
    BY <2>1, <2>5 DEF OpenOps
  <2>10. QED
    BY <1>3, <1>4, <1>6, <2>1, <2>5, <2>6, <2>8, <2>9 DEF OpenOps
<1>7. CASE r.kind \notin {"operation_started", "operation_finished"}
  BY <1>1, <1>7, <1>3, <1>4 DEF OpenOps, FinishedOps
<1>8. QED
  BY <1>5, <1>6, <1>7

LEMMA LifeCommit ==
    ASSUME OneCaller, NoneIsNoName, BoundsAssumption, Shape, Life, Commit
    PROVE  Life'
<1> DEFINE h == Head(chain)
           r == h.what
<1>1. /\ UNCHANGED <<proc, ops>> /\ h = chain[1] /\ 1 \in DOMAIN chain
      /\ \/ h.put = "entry" /\ CommitEntry(r)
         \/ /\ h.put = "record" /\ r \in RecordSet /\ CommitRecord(r)
            /\ r.kind = "operation_started" => r.op \in 1..Len(ops)
  BY CommitEffects
<1>2. /\ \A i \in DOMAIN chain' : i + 1 \in DOMAIN chain /\ chain'[i] = chain[i + 1]
      /\ h.by \in Callers => \A i \in DOMAIN chain' : chain'[i].by \notin Callers
      /\ \A c \in Callers : Ready(c)' <=> (Ready(c) \/ h.by = c)
      /\ \A i \in DOMAIN chain' : i \in Int
  BY CommitShape, HeadGone DEF Shape, ChainShape
<1>3. /\ h.by \in Callers => Due(proc[h.by], h)
      /\ h.by \notin Callers => h.put = "record" /\ r.kind \in ApiKinds
  BY <1>1 DEF Life, OwnAppends
<1> HIDE DEF h
<1>4. ASSUME UNCHANGED <<started>>, lane'.op = lane.op
      PROVE  OwnAppends'
  <2>1. \A p, a : Due(p, a) => Due(p, a)'
    BY <1>4 DEF Due, DueRecord
  <2>2. \A i, j \in DOMAIN chain' : chain'[i].by \in Callers /\ chain'[j].by \in Callers => i = j
    <3>1. SUFFICES ASSUME NEW i \in DOMAIN chain', NEW j \in DOMAIN chain',
                          chain'[i].by \in Callers, chain'[j].by \in Callers
                   PROVE  i = j
      OBVIOUS
    <3>2. i + 1 = j + 1 /\ i \in Int /\ j \in Int
      BY <1>2, <3>1 DEF Life, OwnAppends
    <3>3. QED
      BY <3>2
  <2>3. QED
    BY <1>1, <1>2, <2>1, <2>2 DEF Life, OwnAppends
<1>5. CASE h.put = "entry"
  <2>1. UNCHANGED <<lane, durable, started, finished>>
    BY <1>1, <1>5 DEF CommitEntry
  <2>2. OpenOps'
    BY <1>1, <2>1 DEF Life, OpenOps, FinishedOps
  <2>3. \A c \in Callers : h.by = c => proc[c].pc \notin Early
    BY <1>3, <1>5 DEF Due
  <2>4. Phases'
    BY <1>1, <1>2, <2>1, <2>3 DEF Life, Phases, Phase, Early
  <2>5. QED
    BY <1>4, <2>1, <2>2, <2>4 DEF Life
<1>6. CASE h.put = "record"
  <2>1. r \in RecordSet /\ CommitRecord(r) /\ r.kind = "operation_started" => r.op \in 1..Len(ops)
    BY <1>1, <1>6
  <2>2. CASE h.by \notin Callers
    BY <1>3, <2>2, <1>1, <1>6, OpenCommit, <1>2, <1>4 DEF Life, ApiKinds, Phases, Phase
  <2>3. CASE h.by \in Callers
    <3>0. PICK c \in Callers : c = h.by
      BY <2>3
    <3> DEFINE p == proc[c]
    <3>1. DueRecord(p, r)
      BY <1>3, <1>6, <2>3, <3>0 DEF Due
    <3>2. /\ OpenOps'
          /\ r.kind = "operation_started" => lane'.op = r.op
          /\ r.kind = "operation_finished" => lane'.op = None
          /\ r.kind \notin {"operation_started", "operation_finished"} =>
               lane'.op = lane.op /\ UNCHANGED <<started, finished>>
      BY <1>1, <1>6, <3>1, OpenCommit DEF Life, DueRecord
    <3>3. Phase(p, TRUE)'
      <4>1. proc'[c] = p /\ (p.pc \in Working => lane.op = p.op)
        BY <1>1 DEF Life, Phases, Phase
      <4>2. CASE r.kind = "operation_started"
        BY <3>1, <3>2, <4>1, <4>2 DEF DueRecord, Phase, Early, Working
      <4>3. CASE r.kind = "operation_finished"
        BY <3>1, <3>2, <4>1, <4>3 DEF DueRecord, Phase, Early, Working
      <4>4. CASE r.kind \in {"task_attempt", "tool_started"}
        BY <3>1, <3>2, <4>1, <4>4 DEF DueRecord, Phase
      <4>5. QED
        BY <3>1, <4>2, <4>3, <4>4 DEF DueRecord
    <3>4. Phases'
      BY <1>2, <3>0, <3>3 DEF OneCaller, Phases
    <3>5. OwnAppends'
      BY <1>2, <2>3 DEF Life, OwnAppends
    <3>6. QED
      BY <3>2, <3>4, <3>5 DEF Life
  <2>4. QED
    BY <2>2, <2>3
<1>7. QED
  BY <1>1, <1>5, <1>6

(* Life is inductive when one caller drives the lane. *)
LEMMA StepLife ==
    ASSUME OneCaller, NoneIsNoName, BoundsAssumption, Shape, Life, [Next]_vars
    PROVE  Life'
<1>1. ASSUME NEW c \in Callers, Start(c) \/ Resume(c) \/ Drive(c)
      PROVE  Life'
  BY <1>1, LifeStart, LifeAccept, LifeLoop, LifeResponse, LifeEnd, LifeResume DEF Drive
<1>2. CASE Abort \/ DeferWrite \/ \E queue \in Queues : Enqueue(queue)
  BY <1>2, LifeApi
<1>3. CASE Commit
  BY <1>3, LifeCommit
<1>4. CASE Crash
  BY <1>4, LifeCrash
<1>5. CASE UNCHANGED vars
  BY <1>5 DEF vars, live, disk, history, Life, OwnAppends, Due, DueRecord, Phases, Phase, Ready,
              OpenOps, FinishedOps
<1>6. QED
  BY <1>1, <1>2, <1>3, <1>4, <1>5 DEF Next

THEOREM LifeCorrect == OneCaller /\ NoneIsNoName /\ Spec => []Life
<1> SUFFICES ASSUME OneCaller, NoneIsNoName PROVE Spec => []Life
  OBVIOUS
<1>1. Init => Shape /\ Life
  BY InitShape, InitLife, BoundsAssumption
<1>2. Shape /\ Life /\ [Next]_vars => (Shape /\ Life)'
  BY StepShape, StepLife, BoundsAssumption
<1>3. QED
  BY <1>1, <1>2, PTL DEF Spec

-----------------------------------------------------------------------------
(* One operation at a time.                                                *)

(* Nothing is accepted or ended but by its caller's record, in its place.  *)
LEMMA HeadDue ==
    ASSUME Life, 1 \in DOMAIN chain, Head(chain) = chain[1], Head(chain).put = "record"
    PROVE  /\ Head(chain).what.kind = "operation_started" =>
                lane.op = None /\ Head(chain).what.op \notin started
           /\ Head(chain).what.kind = "operation_finished" => lane.op = Head(chain).what.op
BY DEF Life, OwnAppends, Due, DueRecord, ApiKinds

LEMMA OpenIs ==
    NoneIsNoName /\ Shape /\ Life
      => OpenOp = lane.op /\ (lane.op # None => lane.op \in 1..MaxOps)
<1> SUFFICES ASSUME NoneIsNoName, Shape, Life
             PROVE  OpenOp = lane.op /\ (lane.op # None => lane.op \in 1..MaxOps)
  OBVIOUS
<1>1. MaxOps \in Nat /\ Len(ops) \in Nat /\ \A op \in started : op # None /\ op \in 1..MaxOps
  BY BoundsAssumption DEF Life, OpenOps, NoneIsNoName, Shape, DiskShape
<1>2. OpenNow = IF lane.op = None THEN {} ELSE {lane.op}
  BY <1>1 DEF OpenNow, Life, OpenOps
<1>3. QED
  BY <1>1, <1>2 DEF OpenOp, Life, OpenOps

(* An operation that ended has one outcome. *)
LEMMA OutcomeIs ==
    Shape /\ Life =>
      \A i \in DOMAIN finished :
        LastOutcome(finished[i][1]) = finished[i][2] /\ finished[i][1] \in FinishedOps
<1> SUFFICES ASSUME Shape, Life, NEW i \in DOMAIN finished
             PROVE  LastOutcome(finished[i][1]) = finished[i][2] /\ finished[i][1] \in FinishedOps
  OBVIOUS
<1>1. finished[i] \in Nat \X Outcomes /\ finished \in Seq(Nat \X Outcomes)
  BY DEF Shape, HistoryShape
<1>2. finished[i] = <<finished[i][1], finished[i][2]>> /\ finished[i][2] \in Outcomes
  BY <1>1
<1> DEFINE op == finished[i][1]
           P(o) == \E k \in DOMAIN finished :
                     finished[k] = <<op, o>> /\ \A j \in DOMAIN finished : finished[j][1] = op => j <= k
<1>3. P(finished[i][2])
  BY <1>1, <1>2 DEF Life, OpenOps
<1>4. ASSUME NEW o \in Outcomes, P(o)
      PROVE  o = finished[i][2]
  BY <1>4 DEF Life, OpenOps
<1>5. LastOutcome(op) = CHOOSE o \in Outcomes : P(o)
  BY DEF LastOutcome
<1> HIDE DEF P
<1>6. LastOutcome(op) = finished[i][2]
  BY <1>2, <1>3, <1>4, <1>5
<1>7. QED
  BY <1>6 DEF FinishedOps

LEMMA InitAbstract == NoneIsNoName /\ Init => Abstract!Init
BY DEF Init, Abstract!Init, OpenOp, OpenNow, OutcomeNow, FinishedOps

LEMMA StepAbstract ==
    ASSUME OneCaller, NoneIsNoName, Shape, Life, Shape', Life', [Next]_vars
    PROVE  [Abstract!Next]_(Abstract!vars)
<1>1. OpenOp = lane.op /\ OpenOp' = lane'.op /\ (lane.op # None => lane.op \in 1..MaxOps)
      /\ (lane'.op # None => lane'.op \in 1..MaxOps)
  <2>1. (NoneIsNoName /\ Shape /\ Life
           => OpenOp = lane.op /\ (lane.op # None => lane.op \in 1..MaxOps))'
    BY OpenIs, PTL
  <2>2. QED
    BY <2>1, OpenIs DEF NoneIsNoName
<1>9. /\ \A i \in DOMAIN finished : LastOutcome(finished[i][1]) = finished[i][2]
      /\ \A i \in DOMAIN finished' :
           LastOutcome(finished[i][1])' = finished'[i][2] /\ finished'[i][1] \in FinishedOps'
  <2>1. (Shape /\ Life =>
          \A i \in DOMAIN finished :
            LastOutcome(finished[i][1]) = finished[i][2] /\ finished[i][1] \in FinishedOps)'
    BY OutcomeIs, PTL
  <2>2. QED
    BY <2>1, OutcomeIs
<1>2. CASE UNCHANGED <<started, finished>>
  BY <1>2 DEF OpenOp, OpenNow, OutcomeNow, FinishedOps, LastOutcome, Abstract!vars
<1>3. CASE Commit /\ ~UNCHANGED <<started, finished>>
  <2> DEFINE r == Head(chain).what
  <2>1. /\ UNCHANGED ops /\ Head(chain).put = "record" /\ r \in RecordSet /\ CommitRecord(r)
        /\ r.kind = "operation_started" => r.op \in 1..Len(ops)
        /\ Head(chain) = chain[1] /\ 1 \in DOMAIN chain
    BY <1>3, CommitEffects DEF CommitEntry
  <2>2. /\ r.kind = "operation_started" => lane.op = None /\ r.op \notin started
        /\ r.kind = "operation_finished" => lane.op = r.op
    BY <2>1, HeadDue
  <2> HIDE DEF r
  <2>3. /\ r.kind = "operation_started" => lane'.op = r.op
        /\ r.kind = "operation_finished" => lane'.op = None
    BY <2>1, <2>2, OpenCommit DEF Life
  <2>4. CASE r.kind = "operation_started"
    <3>1. finished' = finished
      BY <2>1, <2>4 DEF CommitRecord
    <3>2. OutcomeNow' = OutcomeNow
      BY <3>1 DEF OutcomeNow, FinishedOps, LastOutcome
    <3>3. r.op # None /\ r.op \in 1..MaxOps
      BY <1>1, <2>1, <2>3, <2>4, RecordKinds DEF NoneIsNoName
    <3>4. OutcomeNow[r.op] = None
      BY <2>2, <2>4, <3>3 DEF OutcomeNow, Life, OpenOps
    <3>5. Abstract!Accept(r.op)
      BY <1>1, <2>2, <2>3, <2>4, <3>2, <3>4 DEF Abstract!Accept
    <3>6. QED
      BY <3>3, <3>5 DEF Abstract!Next
  <2>5. CASE r.kind = "operation_finished"
    <3>1. /\ finished' = Append(finished, <<r.op, r.outcome>>) /\ r.outcome \in Outcomes
          /\ r.op \in Nat /\ r.op # None
      BY <2>1, <2>5, RecordKinds DEF CommitRecord, NoneIsNoName
    <3>2. /\ DOMAIN finished = 1..Len(finished) /\ Len(finished) \in Nat
          /\ DOMAIN finished' = 1..(Len(finished) + 1)
          /\ finished'[Len(finished) + 1] = <<r.op, r.outcome>>
          /\ \A i \in DOMAIN finished : finished'[i] = finished[i]
      BY <3>1 DEF Shape, HistoryShape
    <3>3. PICK last \in DOMAIN finished' :
            finished'[last][1] = r.op /\ finished'[last][2] = r.outcome
            /\ \A i \in DOMAIN finished' : i = last \/ i \in DOMAIN finished
      BY <3>2
    <3>4. PICK op \in Nat : op = r.op
      BY <3>1
    <3>5. LastOutcome(op)' = r.outcome /\ op \in FinishedOps'
      BY <1>9, <3>3, <3>4 DEF LastOutcome
    <3>6. ASSUME NEW o \in FinishedOps
          PROVE  LastOutcome(o)' = LastOutcome(o) /\ o \in FinishedOps'
      <4>1. PICK i \in DOMAIN finished : o = finished[i][1]
        BY DEF FinishedOps
      <4>2. i \in DOMAIN finished' /\ finished'[i] = finished[i]
        BY <3>2, <4>1
      <4>3. LastOutcome(o) = finished[i][2]
        BY <1>9, <4>1
      <4>4. LastOutcome(finished[i][1])' = finished'[i][2] /\ finished'[i][1] \in FinishedOps'
        BY <1>9, <4>2
      <4>5. LastOutcome(finished[i][1])' = LastOutcome(o)'
        BY <4>1, <4>2 DEF LastOutcome
      <4>6. QED
        BY <4>1, <4>2, <4>3, <4>4, <4>5
    <3>7. FinishedOps' \subseteq FinishedOps \cup {op}
      BY <3>2, <3>3, <3>4 DEF FinishedOps
    <3>8. OutcomeNow' = [OutcomeNow EXCEPT ![op] = r.outcome]
      <4>1. op \notin FinishedOps
        BY <2>2, <2>5, <3>1, <3>4 DEF Life, OpenOps
      <4>2. ASSUME NEW o \in 1..MaxOps
            PROVE  OutcomeNow'[o] = IF o = op THEN r.outcome ELSE OutcomeNow[o]
        BY <3>5, <3>6, <3>7 DEF OutcomeNow
      <4>3. QED
        BY <4>2 DEF OutcomeNow
    <3>9. Abstract!Finish(r.outcome)
      <4>1. OpenOp = op /\ OpenOp' = None /\ op # None
        BY <1>1, <2>2, <2>3, <2>5, <3>1, <3>4
      <4>2. QED
        BY <3>8, <4>1 DEF Abstract!Finish
    <3>10. QED
      BY <3>1, <3>9 DEF Abstract!Next
  <2>6. QED
    BY <1>3, <2>1, <2>4, <2>5 DEF CommitRecord
<1>4. QED
  BY <1>2, <1>3, OnlyCommitWrites

(* The lane accepts operations one at a time and gives each one outcome,   *)
(* for good, whatever crashes and resumes happen underneath.               *)
THEOREM OneOperationAtATimeCorrect == OneCaller /\ NoneIsNoName /\ Spec => OneOperationAtATime
<1> SUFFICES ASSUME OneCaller, NoneIsNoName PROVE Spec => OneOperationAtATime
  OBVIOUS
<1>1. Init => Abstract!Init
  BY InitAbstract
<1>2. Shape /\ Life /\ Shape' /\ Life' /\ [Next]_vars => [Abstract!Next]_(Abstract!vars)
  BY StepAbstract
<1>3. Spec => []Life
  BY LifeCorrect
<1>4. QED
  BY <1>1, <1>2, <1>3, ShapeCorrect, PTL DEF OneOperationAtATime, Spec, Abstract!Spec

(* An accepted operation without an outcome is open on disk.               *)
THEOREM AcceptedIsOpenCorrect == OneCaller /\ NoneIsNoName /\ Spec => []AcceptedIsOpen
<1>1. Life => AcceptedIsOpen
  BY DEF Life, OpenOps, AcceptedIsOpen
<1>2. QED
  BY <1>1, LifeCorrect, PTL

-----------------------------------------------------------------------------
(* Entries are written once.                                               *)

LEMMA EntryIssuing ==
    ASSUME NEW c, NEW id, NEW what, NEW tok, AppendEntry(c, id, what, tok)
    PROVE  Issuing(c)
<1> DEFINE a == [by |-> c, put |-> "entry", what |-> [id |-> id, what |-> what, tok |-> tok]]
<1>1. a.put = "entry" /\ a.what.id = id /\ a.by = c
  OBVIOUS
<1>2. UNCHANGED chain \/ (~InTree(id) /\ chain' = Append(chain, a))
  BY DEF AppendEntry
<1> HIDE DEF a
<1>3. QED
  BY <1>1, <1>2 DEF Issuing, Issued

LEMMA RecordIssuing ==
    ASSUME NEW c, NEW r, AppendRecord(c, r)
    PROVE  Issuing(c)
BY RecordIssued DEF Issuing, Issued

(* A caller writes nothing: it only issues appends. *)
LEMMA CallerWrites ==
    ASSUME NEW c \in Callers, Start(c) \/ Resume(c) \/ Drive(c)
    PROVE  UNCHANGED <<entries, durable, toolLog, writeLog, started, finished, enqueued, used>>
BY DEF Start, Prompt, Drain, StartRun, Compact, Navigate, Resume, Drive, BeforeRun,
       ApplyCompaction, NavigateStart, NavigateMove, MaterialiseInput, LoopTop, CheckpointWrites,
       CheckpointRead, CheckpointSteer, Ask, CutOff, Defer, Answer, RecordTool, ExecuteTool,
       FlushAssistant, WriteResult, StepEnd, RoundEnd, Park, AbortNote, AbortRead, AbortWrites,
       Finish, Release, Resumed, Redeem, EnsureAssistant, Reconcile, WriteReplayed, Reconciled,
       WriteTodo, Quiet, Silent, disk, history

LEMMA CallerIssues ==
    ASSUME Shape, NEW c \in Callers, Start(c) \/ Resume(c) \/ Drive(c)
    PROVE  Issuing(c)
<1>1. UNCHANGED chain => Issuing(c)
  BY DEF Issuing
<1>2. CASE Start(c) \/ Resume(c)
  BY <1>1, <1>2, StartEffects, ResumeStarts, EntryIssuing, RecordIssuing
<1>3. CASE BeforeRun(c) \/ ApplyCompaction(c) \/ NavigateStart(c) \/ NavigateMove(c)
             \/ MaterialiseInput(c)
  BY <1>1, <1>3, AcceptEffects, EntryIssuing, RecordIssuing
<1>4. CASE CheckpointWrites(c) \/ CheckpointSteer(c) \/ AbortWrites(c)
  BY <1>1, <1>4, TodoEffects, EntryIssuing DEF CheckpointWrites, CheckpointSteer, AbortWrites
<1>5. CASE LoopTop(c) \/ CheckpointRead(c) \/ Ask(c) \/ CutOff(c) \/ Defer(c)
             \/ FlushAssistant(c) \/ WriteResult(c) \/ Park(c)
  BY <1>1, <1>5, LoopEffects, EntryIssuing
<1>6. CASE Answer(c) \/ RecordTool(c) \/ ExecuteTool(c) \/ StepEnd(c)
  BY <1>1, <1>6, ResponseEffects, RecordIssuing
<1>7. CASE RoundEnd(c) \/ AbortNote(c) \/ AbortRead(c) \/ Finish(c) \/ Release(c)
  BY <1>1, <1>7, EndEffects, EntryIssuing, RecordIssuing
<1>8. CASE Resumed(c) \/ Redeem(c) \/ EnsureAssistant(c) \/ Reconcile(c) \/ WriteReplayed(c)
             \/ Reconciled(c)
  BY <1>1, <1>8, ResumeEffects, EntryIssuing
<1>9. QED
  BY <1>2, <1>3, <1>4, <1>5, <1>6, <1>7, <1>8 DEF Drive

LEMMA ChainSteps ==
    ASSUME Shape, [Next]_vars
    PROVE  \/ Commit
           \/ Crash /\ chain' = << >> /\ UNCHANGED entries
           \/ \E by \in Writers : Issuing(by) /\ UNCHANGED entries
<1>1. UNCHANGED chain => Issuing("api")
  BY DEF Issuing
<1>2. ASSUME Abort \/ DeferWrite \/ \E queue \in Queues : Enqueue(queue)
      PROVE  Issuing("api")
  BY <1>1, <1>2, RecordIssuing DEF Abort, DeferWrite, Enqueue
<1>3. Crash => chain' = << >> /\ UNCHANGED entries
  BY DEF Crash, disk
<1>4. UNCHANGED vars => Issuing("api")
  BY <1>1 DEF vars, live
<1>5. Commit \/ UNCHANGED entries
  BY OnlyCommitWrites
<1>6. QED
  BY <1>2, <1>3, <1>4, <1>5, CallerIssues DEF Next, Writers

LEMMA InitUnique == Init => Unique
BY DEF Init, Unique, EntriesUnique

LEMMA StepUnique ==
    ASSUME OneCaller, Shape, Life, Unique, Shape', [Next]_vars
    PROVE  Unique'
<1>1. UNCHANGED entries => /\ EntriesUnique' /\ \A id : InTree(id)' <=> InTree(id)
                           /\ \A i \in DOMAIN entries' : entries'[i].id.k = "auto"
                                                            => entries'[i].id.n = i
  BY DEF Unique, EntriesUnique, InTree
<1>2. CASE chain' = << >> /\ UNCHANGED entries
  BY <1>1, <1>2 DEF Unique
<1>3. CASE \E by \in Writers : Issuing(by) /\ UNCHANGED entries
  <2>1. CASE UNCHANGED chain
    BY <1>1, <1>3, <2>1 DEF Unique
  <2>2. ASSUME NEW a, chain' = Append(chain, a), Issued(a)
        PROVE  Unique'
    BY <2>2, <1>1, <1>3 DEF Shape, ChainShape, Unique, Issued
  <2>3. QED
    BY <1>3, <2>1, <2>2 DEF Issuing
<1>4. CASE Commit
  <2> DEFINE h == Head(chain)
             e == h.what
             n == IF e.id = AutoId THEN [e EXCEPT !.id.n = Len(entries) + 1] ELSE e
  <2>1. /\ \A i \in DOMAIN chain' : i + 1 \in DOMAIN chain /\ chain'[i] = chain[i + 1]
        /\ h.by \in Callers => \A i \in DOMAIN chain' : chain'[i].by \notin Callers
    BY <1>4, HeadGone
  <2>2. /\ h = chain[1] /\ 1 \in DOMAIN chain
        /\ \/ h.put = "entry" /\ e \in PutSet /\ CommitEntry(e)
           \/ h.put = "record" /\ CommitRecord(e)
    BY <1>4, CommitEffects
  <2>3. CASE h.put = "record" /\ CommitRecord(e)
    BY <2>3, <1>1, <2>1 DEF CommitRecord, Unique
  <2>4. CASE h.put = "entry" /\ e \in PutSet /\ CommitEntry(e)
    <3>1. \A i \in DOMAIN chain' : chain'[i].put # "entry"
      BY <2>1, <2>2, <2>4 DEF Life, OwnAppends
    <3>2. entries' = Append(entries, n) /\ entries \in Seq(EntrySet) /\ Len(entries) \in Nat
      BY <2>4 DEF CommitEntry, Shape, DiskShape
    <3>3. e.id = AutoId \/ (e.id \in IdSet /\ ~InTree(e.id))
      BY <2>2, <2>4 DEF Unique, PutSet
    <3>4. CASE e.id = AutoId
      <4>1. n.id.k = "auto" /\ n.id.n = Len(entries) + 1
        BY <2>4, <3>4 DEF PutSet, AutoId, Id
      <4> HIDE DEF n
      <4>2. /\ \A i \in DOMAIN entries : entries'[i] = entries[i] /\ entries[i].id # n.id
            /\ \A i \in DOMAIN entries' : i \in DOMAIN entries \/ i = Len(entries) + 1
            /\ entries'[Len(entries) + 1] = n
        <5>1. \A i \in DOMAIN entries : entries[i].id.k = "auto" => entries[i].id.n = i /\ i < n.id.n
          BY <3>2, <4>1 DEF Unique
        <5>2. \A i \in DOMAIN entries : entries[i].id # n.id
          BY <4>1, <5>1
        <5>3. \A i \in DOMAIN entries : entries'[i] = entries[i]
          BY <3>2
        <5>4. /\ \A i \in DOMAIN entries' : i \in DOMAIN entries \/ i = Len(entries) + 1
              /\ entries'[Len(entries) + 1] = n
          BY <3>2
        <5>5. QED
          BY <5>2, <5>3, <5>4
      <4>3. QED
        BY <3>1, <3>2, <4>1, <4>2 DEF Unique, EntriesUnique
    <3>5. CASE e.id # AutoId
      <4>1. n = e /\ e.id.k # "auto" /\ ~InTree(e.id)
        BY <3>3, <3>5 DEF IdSet, IdsOf, IdKinds
      <4> HIDE DEF n, e
      <4>2. /\ \A i \in DOMAIN entries : entries'[i] = entries[i] /\ entries[i].id # e.id
            /\ \A i \in DOMAIN entries' : i \in DOMAIN entries \/ i = Len(entries) + 1
            /\ entries'[Len(entries) + 1] = n
        BY <3>2, <4>1 DEF InTree
      <4>3. QED
        BY <3>1, <4>1, <4>2 DEF Unique, EntriesUnique
    <3>6. QED
      BY <3>4, <3>5
  <2>5. QED
    BY <2>2, <2>3, <2>4
<1>5. QED
  BY <1>2, <1>3, <1>4, ChainSteps

(* An entry is written once, however often its append was retried. *)
THEOREM EntriesUniqueCorrect == OneCaller /\ NoneIsNoName /\ Spec => []EntriesUnique
<1> SUFFICES ASSUME OneCaller, NoneIsNoName PROVE Spec => []EntriesUnique
  OBVIOUS
<1>1. Init => Unique
  BY InitUnique
<1>2. Shape /\ Shape' /\ Life /\ Unique /\ [Next]_vars => Unique'
  BY StepUnique
<1>3. Unique => EntriesUnique
  BY DEF Unique
<1>4. Spec => []Life
  BY LifeCorrect
<1>5. QED
  BY <1>1, <1>2, <1>3, <1>4, ShapeCorrect, PTL DEF Spec

-----------------------------------------------------------------------------
(* Ids and attempts, when a run has a single round.                        *)

LEMMA CountedAre ==
    /\ Looping \cap ToolTodo = {} /\ "input" \notin Looping \cup ToolTodo
    /\ "beforeRun" \notin Looping \cup ToolTodo
    /\ {"idle", "compact", "navigate", "move", "park", "abortNote", "abortRead", "abortWrites",
        "finish", "release", "redeem"} \cap Counted = {}
BY DEF Looping, ToolTodo, Counted

LEMMA AdvanceCounts ==
    ASSUME Shape, Life, NEW c \in Callers, KeepsCount, Advance(c), AttemptOK(proc[c], TRUE),
           Phase(proc[c], TRUE), Ready(c)
    PROVE  /\ AttemptOK(proc[c], Ready(c))'
           /\ \A id \in AssistantIds, before \in {{"toolStarted"}, {"toolStarted", "execute", "assistant"}} :
                /\ id.op \in started /\ (id.op = lane.op => id.att <= lane.attempts + 1)
                /\ OldFor(proc[c], TRUE, id, before)
                => OldFor(proc[c], Ready(c), id, before)'
<1> DEFINE p == proc[c]
           q == proc'[c]
           kept(id, before) ==
             /\ id.op \in started /\ (id.op = lane.op => id.att <= lane.attempts + 1)
             /\ OldFor(p, TRUE, id, before)
<1>1. /\ p \in ProcSet /\ lane \in LaneSet /\ lane'.op = lane.op /\ lane'.attempts = lane.attempts
      /\ started' = started /\ lane.attempts \in Nat /\ p.att \in Nat /\ p.step \in Nat
      /\ (lane.op = None => lane.attempts = 0)
  BY DEF Shape, ProcShape, LaneShape, ProcSet, LaneSet, KeepsCount, Life, OpenOps
<1>2. \A id \in AssistantIds : id.att \in Nat /\ id.n \in Nat
  BY DEF AssistantIds, IdsOf
<1>3. CASE q.round = 0 /\ q.pc \notin Counted
  BY <1>3 DEF Counted, ToolTodo, AttemptOK, OldFor, Behind
<1>4. CASE q.round = 0 /\ q.pc = "beforeRun" /\ q.att = 1 /\ lane.op = None
  BY <1>1, <1>4, CountedAre DEF AttemptOK, OldFor, Behind
<1>5. CASE Within(c) /\ p.pc = "beforeRun" /\ q.pc = "input"
  BY <1>5, <1>1, CountedAre DEF Phase, AttemptOK, OldFor, Behind, Within
<1>6. CASE Within(c) /\ p.pc = "input" /\ q.pc = "top"
  <2>1. AttemptOK(proc[c], Ready(c))'
    BY <1>1, <1>6, CountedAre DEF AttemptOK, Behind, Within, Looping
  <2>2. ASSUME NEW id \in AssistantIds, NEW before, kept(id, before)
        PROVE  OldFor(proc[c], Ready(c), id, before)'
    BY <1>6, <2>2, <1>1, <1>2, CountedAre DEF OldFor, Behind, AttemptOK, Within, ToolTodo
  <2>3. QED
    BY <2>1, <2>2
<1>7. CASE /\ Within(c) /\ p.pc \in Looping /\ q.pc \in Looping
           /\ \/ q.step = p.step + 1
              \/ /\ q.step = p.step /\ q.pc # "toolStarted"
                 /\ q.pc \in {"execute", "assistant"} => p.pc \in {"toolStarted", "execute"}
  <2>1. q.pc \notin ToolTodo /\ q.pc # "input" /\ q.pc # "beforeRun"
    BY <1>7, CountedAre
  <2>2. AttemptOK(proc[c], Ready(c))'
    BY <1>1, <1>7, <2>1 DEF AttemptOK, Behind, Within
  <2>3. ASSUME NEW id \in AssistantIds,
               NEW before \in {{"toolStarted"}, {"toolStarted", "execute", "assistant"}},
               kept(id, before)
        PROVE  OldFor(proc[c], Ready(c), id, before)'
    BY <1>7, <2>3, <1>1, <1>2, <2>1 DEF OldFor, Behind, Within
  <2>4. QED
    BY <2>2, <2>3
<1>8. CASE Within(c) /\ p.pc \in ToolTodo /\ q.pc \in ToolTodo \ {"resumed"} /\ q.outcome = p.outcome
  BY <1>8, CountedAre, <1>1 DEF Behind, AttemptOK, OldFor, Within
<1>9. CASE q.round = 0 /\ q.pc = "resumed" /\ ~Ready(c)' /\ q.att = lane.attempts + 1
  BY <1>1, <1>9, CountedAre DEF AttemptOK, OldFor, Behind, ToolTodo, Looping
<1>10. CASE q.round = 0 /\ q.pc \in ToolTodo \ {"resumed"} /\ q.outcome = "aborted"
  BY <1>1, <1>10, CountedAre DEF AttemptOK, OldFor, Behind
<1>11. CASE /\ q.op = p.op /\ q.att = p.att + 1 /\ q.round = p.round
            /\ p.pc = "reconcile" /\ p.outcome # "aborted" /\ q.pc = "input"
  BY <1>11, <1>1, CountedAre DEF Behind, ToolTodo, AttemptOK, OldFor
<1>12. QED
  BY <1>3, <1>4, <1>5, <1>6, <1>7, <1>8, <1>9, <1>10, <1>11 DEF Advance

LEMMA StillCounts == Still => KeepsCount
BY DEF Still, KeepsCount

LEMMA AppendedNotReady ==
    ASSUME Shape, NEW c, NEW r, AppendRecord(c, r)
    PROVE  ~Ready(c)'
BY RecordIssued DEF Shape, ChainShape, Ready

LEMMA AdvanceStarts ==
    ASSUME Shape, Life, NEW c \in Callers, Start(c) \/ Resume(c)
    PROVE  Advance(c) /\ KeepsCount /\ Ready(c)
<1>1. CASE Start(c)
  BY <1>1, StartEffects, CountedAre DEF Life, OpenOps, Advance, KeepsCount, Phases, Phase
<1>2. CASE Resume(c)
  BY <1>2, ResumeStarts, AppendedNotReady, CountedAre, StillCounts DEF Advance, ToolTodo, Life,
     Phases, Phase
<1>3. QED
  BY <1>1, <1>2

LEMMA AdvanceAccepts ==
    ASSUME Shape, Life, NEW c \in Callers, AttemptOK(proc[c], TRUE),
           BeforeRun(c) \/ ApplyCompaction(c) \/ NavigateStart(c) \/ NavigateMove(c)
             \/ MaterialiseInput(c)
    PROVE  Advance(c) /\ KeepsCount /\ Ready(c)
<1>1. Still /\ Ready(c) /\ proc[c].round = 0
  BY AcceptEffects DEF At, AttemptOK
<1>2. CASE BeforeRun(c)
  <2>1. proc[c].pc = "beforeRun" /\ (proc'[c] = Idle \/ Turns(c, "input"))
    BY <1>2, AcceptEffects DEF At
  <2>2. CASE proc'[c] = Idle
    BY <2>2, <1>1, StillCounts, CountedAre DEF Idle, Advance
  <2>3. CASE Turns(c, "input")
    BY <2>3, <1>1, StillCounts, <2>1 DEF Turns, Keeps, Within, Advance
  <2>4. QED
    BY <2>1, <2>2, <2>3
<1>3. CASE ApplyCompaction(c) \/ NavigateStart(c) \/ NavigateMove(c)
  BY <1>1, <1>3, AcceptEffects, CountedAre, StillCounts DEF Turns, Ends, Keeps, Advance
<1>4. CASE MaterialiseInput(c)
  BY <1>4, AcceptEffects, <1>1, StillCounts DEF At, Turns, Keeps, Within, Advance
<1>5. Advance(c)
  BY <1>2, <1>3, <1>4
<1>6. QED
  BY <1>1, <1>5, StillCounts

LEMMA LoopingAre ==
    {"top", "writes", "readSteer", "steer", "ask", "model", "toolStarted", "execute",
     "assistant", "result", "stepEnd", "roundEnd"} \subseteq Looping
BY DEF Looping

LEMMA AdvanceLoops ==
    ASSUME OneRound, Shape, Life, NEW c \in Callers, AttemptOK(proc[c], TRUE),
           LoopTop(c) \/ CheckpointWrites(c) \/ CheckpointRead(c) \/ CheckpointSteer(c) \/ Ask(c)
             \/ CutOff(c) \/ Defer(c) \/ FlushAssistant(c) \/ WriteResult(c) \/ RoundEnd(c)
             \/ Park(c) \/ AbortNote(c) \/ AbortRead(c) \/ AbortWrites(c)
    PROVE  Advance(c) /\ KeepsCount /\ Ready(c)
<1> DEFINE p == proc[c]
           q == proc'[c]
<1>1. p.round = 0
  BY DEF AttemptOK
<1>2. ASSUME Within(c), q.step = p.step, p.pc \in Looping,
             q.pc \in Looping \ {"toolStarted", "execute", "assistant"}
      PROVE  Advance(c)
  BY <1>2 DEF Advance
<1>3. ASSUME Keeps(c), q.pc \notin Counted
      PROVE  Advance(c)
  BY <1>1, <1>3 DEF Advance, Keeps
<1>4. ASSUME NEW here, NEW what, NEW next, WriteTodo(c, here, what, next),
             \/ here \in Looping /\ {here, next} \subseteq Looping \ {"toolStarted", "execute", "assistant"}
             \/ here \notin Counted /\ next \notin Counted
      PROVE  Advance(c) /\ Still /\ Ready(c)
  BY <1>4, TodoEffects, <1>2, <1>3 DEF Turns, Lists, At, Keeps, Within
<1>5. CASE CheckpointWrites(c) \/ CheckpointSteer(c) \/ AbortWrites(c)
  BY <1>4, <1>5, LoopingAre, CountedAre, StillCounts
     DEF CheckpointWrites, CheckpointSteer, AbortWrites
<1>6. CASE LoopTop(c) \/ CheckpointRead(c) \/ Ask(c) \/ Defer(c)
  BY <1>6, LoopEffects, <1>2, <1>3, LoopingAre, CountedAre, StillCounts DEF Turns, Lists, At,
     Keeps, Within
<1>7. CASE CutOff(c) \/ FlushAssistant(c) \/ WriteResult(c) \/ Park(c)
  BY <1>7, LoopEffects, <1>2, <1>3, LoopingAre, CountedAre, StillCounts DEF Turns, Ends, At,
     Keeps, Within
<1>8. CASE RoundEnd(c) \/ AbortNote(c) \/ AbortRead(c)
  <2>1. CASE RoundEnd(c)
    <3>1. Still /\ Ready(c) /\ (p.round + 1 < MaxRounds \/ Ends(c, {"completed"}))
      BY <2>1, EndEffects DEF At
    <3>2. ~(p.round + 1 < MaxRounds)
      BY <1>1 DEF OneRound
    <3>3. QED
      BY <1>3, <3>1, <3>2, CountedAre, StillCounts DEF Ends
  <2>2. CASE AbortNote(c) \/ AbortRead(c)
    BY <2>2, EndEffects, <1>3, CountedAre, StillCounts DEF At
  <2>3. QED
    BY <1>8, <2>1, <2>2
<1>9. QED
  BY <1>5, <1>6, <1>7, <1>8

LEMMA AdvanceResponds ==
    ASSUME Shape, Life, NEW c \in Callers, AttemptOK(proc[c], TRUE),
           Answer(c) \/ RecordTool(c) \/ ExecuteTool(c) \/ StepEnd(c)
    PROVE  Advance(c) /\ KeepsCount /\ Ready(c)
<1>1. proc[c].pc \in {"model", "toolStarted", "execute", "stepEnd"} /\ Ready(c)
  BY ResponseEffects DEF At
<1>2. KeepsCount
  <2>1. CASE RecordTool(c)
    BY <2>1, ResponseEffects DEF ToolStarted, Shape, LaneShape, LaneSet, KeepsCount
  <2>2. QED
    BY <2>1, ResponseEffects DEF KeepsCount
<1>3. CASE Answer(c)
  BY <1>3, ResponseEffects, <1>1, <1>2, LoopingAre DEF At, Advance, Within
<1>4. CASE RecordTool(c) \/ ExecuteTool(c) \/ StepEnd(c)
  BY <1>4, ResponseEffects, <1>1, <1>2, LoopingAre DEF Turns, At, Advance, Within, Keeps
<1>5. QED
  BY <1>3, <1>4

LEMMA AdvanceEnds ==
    ASSUME Shape, Life, NEW c \in Callers, AttemptOK(proc[c], TRUE), Finish(c) \/ Release(c)
    PROVE  Advance(c) /\ KeepsCount /\ Ready(c)
<1>1. /\ Ready(c) /\ UNCHANGED <<lane, started, toolLog, entries>>
      /\ proc'[c].pc \in {"release", "idle"} /\ proc'[c].round = 0
  <2>1. CASE Finish(c)
    BY <2>1, EndEffects DEF At, Still, Turns, Keeps, AttemptOK
  <2>2. CASE Release(c)
    <3>1. Ready(c) /\ UNCHANGED <<lane, started, toolLog, entries>> /\ proc'[c] = Idle
      BY <2>2, EndEffects DEF At
    <3>2. QED
      BY <3>1 DEF Idle
  <2>3. QED
    BY <2>1, <2>2
<1>2. QED
  BY <1>1, CountedAre DEF Advance, KeepsCount

LEMMA AdvanceResumes ==
    ASSUME Shape, Life, NEW c \in Callers, AttemptOK(proc[c], TRUE),
           Resumed(c) \/ Redeem(c) \/ EnsureAssistant(c) \/ Reconcile(c) \/ WriteReplayed(c)
             \/ Reconciled(c)
    PROVE  Advance(c) /\ KeepsCount /\ Ready(c)
<1> DEFINE p == proc[c]
           q == proc'[c]
<1>1. Ready(c) /\ p.round = 0
  BY ResumeEffects DEF At, AttemptOK
<1>2. KeepsCount
  BY ResumeEffects, StillCounts DEF KeepsCount
<1>3. ASSUME Keeps(c), q.outcome = p.outcome, p.pc \in ToolTodo, q.pc \in ToolTodo \ {"resumed"}
      PROVE  Advance(c)
  BY <1>3 DEF Advance, Keeps, Within
<1>4. ASSUME q.round = 0, q.pc \in {"idle", "finish", "move", "redeem", "abortNote"}
      PROVE  Advance(c)
  BY <1>4, CountedAre DEF Advance
<1>5. CASE Resumed(c)
  BY <1>1, <1>2, <1>3, <1>4, <1>5, ResumeEffects DEF Turns, Keeps, At, ToolTodo
<1>6. CASE Redeem(c)
  BY <1>1, <1>2, <1>4, <1>6, ResumeEffects DEF Ends, Keeps, Idle
<1>7. CASE EnsureAssistant(c)
  BY <1>1, <1>2, <1>3, <1>7, ResumeEffects DEF Turns, Keeps, At, ToolTodo
<1>8. CASE Reconcile(c)
  BY <1>1, <1>2, <1>3, <1>8, ResumeEffects DEF Lists, Keeps, At, ToolTodo
<1>9. CASE WriteReplayed(c)
  BY <1>1, <1>2, <1>3, <1>9, ResumeEffects DEF Turns, Keeps, At, ToolTodo
<1>10. CASE Reconciled(c)
  BY <1>10, ResumeEffects, <1>1, <1>2, <1>4 DEF At, Turns, Keeps, Advance
<1>11. QED
  BY <1>5, <1>6, <1>7, <1>8, <1>9, <1>10

(* Every step of a caller moves it forward and counts nothing. *)
LEMMA Advances ==
    ASSUME OneRound, Shape, Life, NEW c \in Callers, AttemptOK(proc[c], Ready(c)),
           Start(c) \/ Resume(c) \/ Drive(c)
    PROVE  Advance(c) /\ KeepsCount /\ Ready(c)
<1>1. CASE Start(c) \/ Resume(c)
  BY <1>1, AdvanceStarts
<1>2. CASE Drive(c)
  <2>1. Ready(c)
    BY <1>2, AcceptEffects, LoopEffects, TodoEffects, ResponseEffects, EndEffects, ResumeEffects
       DEF Drive, At, CheckpointWrites, CheckpointSteer, AbortWrites
  <2>2. AttemptOK(proc[c], TRUE)
    BY <2>1 DEF AttemptOK, Behind
  <2>3. QED
    BY <1>2, <2>2, AdvanceAccepts, AdvanceLoops, AdvanceResponds, AdvanceEnds, AdvanceResumes
       DEF Drive
<1>3. QED
  BY <1>1, <1>2

-----------------------------------------------------------------------------
(* Only a resume has dangling tools to settle. *)
LEMMA OutsideResume ==
    ASSUME Shape, NEW c \in Callers, Start(c) \/ Drive(c), proc'[c].pc \in ToolTodo
    PROVE  /\ proc[c].pc \in ToolTodo
           /\ \/ Resumed(c) \/ EnsureAssistant(c) \/ Reconcile(c) \/ WriteReplayed(c)
<1>1. CASE Start(c)
  BY <1>1, StartEffects DEF ToolTodo
<1>2. CASE BeforeRun(c) \/ ApplyCompaction(c) \/ NavigateStart(c) \/ NavigateMove(c)
             \/ MaterialiseInput(c)
  BY <1>2, AcceptEffects DEF ToolTodo, Turns, Ends, Idle
<1>3. CASE CheckpointWrites(c) \/ CheckpointSteer(c) \/ AbortWrites(c)
  BY <1>3, TodoEffects DEF ToolTodo, CheckpointWrites, CheckpointSteer, AbortWrites, Turns, Lists
<1>4. CASE LoopTop(c) \/ CheckpointRead(c) \/ Ask(c) \/ CutOff(c) \/ Defer(c) \/ FlushAssistant(c)
             \/ WriteResult(c) \/ Park(c)
  BY <1>4, LoopEffects DEF ToolTodo, Turns, Ends, Lists
<1>5. CASE Answer(c) \/ RecordTool(c) \/ ExecuteTool(c) \/ StepEnd(c)
  BY <1>5, ResponseEffects DEF ToolTodo, Turns
<1>6. CASE RoundEnd(c) \/ AbortNote(c) \/ AbortRead(c) \/ Finish(c) \/ Release(c)
  <2>1. proc'[c].pc \in {"top", "finish", "abortRead", "abortWrites", "release", "idle"}
    <3>1. RoundEnd(c) => proc'[c].pc \in {"top", "finish"}
      BY EndEffects DEF Ends
    <3>2. AbortNote(c) \/ AbortRead(c) => proc'[c].pc \in {"abortRead", "abortWrites"}
      BY EndEffects
    <3>3. Finish(c) => proc'[c].pc = "release"
      BY EndEffects DEF Turns
    <3>4. Release(c) => proc'[c].pc = "idle"
      <4>1. Release(c) => proc'[c] = Idle
        BY EndEffects
      <4>2. QED
        BY <4>1 DEF Idle
    <3>5. QED
      BY <1>6, <3>1, <3>2, <3>3, <3>4
  <2>2. QED
    BY <2>1 DEF ToolTodo
<1>7. CASE Redeem(c) \/ Reconciled(c)
  BY <1>7, ResumeEffects DEF ToolTodo, Turns, Ends, Idle
<1>8. CASE Resumed(c) \/ EnsureAssistant(c) \/ Reconcile(c) \/ WriteReplayed(c)
  BY <1>8, ResumeEffects DEF ToolTodo, At
<1>9. QED
  BY <1>1, <1>2, <1>3, <1>4, <1>5, <1>6, <1>7, <1>8 DEF Drive

(* What a resume still has to settle it had to settle before. *)
LEMMA TodoShrinks ==
    ASSUME Shape, NEW c \in Callers, proc[c].pc \in ToolTodo,
           Resumed(c) \/ EnsureAssistant(c) \/ Reconcile(c) \/ WriteReplayed(c)
    PROVE  \A k \in DOMAIN proc'[c].todo :
             \E j \in DOMAIN proc[c].todo : proc'[c].todo[k] = proc[c].todo[j]
<1>1. CASE proc'[c].todo = proc[c].todo
  BY <1>1
<1>2. CASE \E k \in DOMAIN proc[c].todo : proc'[c].todo = SubSeq(proc[c].todo, k, Len(proc[c].todo))
  BY <1>2 DEF Shape, ProcShape, ProcOK
<1>3. CASE Resumed(c) \/ EnsureAssistant(c) \/ WriteReplayed(c)
  BY <1>1, <1>3, ResumeEffects DEF Turns
<1>4. CASE Reconcile(c)
  BY <1>1, <1>2, <1>4, ResumeEffects DEF Lists, Unanswered
<1>5. QED
  BY <1>3, <1>4

LEMMA InitRecalled == Init => Recalled
BY DEF Init, InitLane, Idle, Recalled, ToolTodo

(* A record adds to the dangling tools only one whose intent it is. *)
LEMMA ReducedDangling ==
    ASSUME NEW l \in LaneSet, NEW r \in RecordSet
    PROVE  \A k \in DOMAIN ApplyRecord(l, r).dangling :
             \/ k \in DOMAIN l.dangling /\ ApplyRecord(l, r).dangling[k] = l.dangling[k]
             \/ r.kind = "tool_started" /\ ApplyRecord(l, r).dangling[k] = r.tool
<1> DEFINE n == ApplyRecord(l, r)
           t == r.tool
           adds(s) == s \in {l.dangling, << >>} \/ (r.kind = "tool_started" /\ s = Append(l.dangling, t))
<1>1. l.dangling \in Seq(ToolSet)
  BY DEF LaneSet
<1>2. adds(n.dangling)
  <2>1. CASE r.kind \in {"operation_started", "operation_finished"}
    BY <2>1, ReducedFields, ZenonT(40)
  <2>2. CASE r.kind \in {"abort_requested", "queue_enqueued", "task_attempt", "write_deferred"}
    BY <2>2, ReducedFields, ZenonT(40)
  <2>3. CASE r.kind = "tool_started"
    BY <2>3, ReducedFields
  <2>4. QED
    BY <2>1, <2>2, <2>3, RecordKinds
<1>3. ASSUME NEW s, adds(s), NEW k \in DOMAIN s
      PROVE  \/ k \in DOMAIN l.dangling /\ s[k] = l.dangling[k]
             \/ r.kind = "tool_started" /\ s[k] = t
  BY <1>1, <1>3
<1>4. QED
  BY <1>2, <1>3

(* Only the record of a tool reduces the lane outside a commit. *)
LEMMA CallerLane ==
    ASSUME NEW c \in Callers, Start(c) \/ Resume(c) \/ Drive(c)
    PROVE  RecordTool(c) \/ UNCHANGED lane
BY DEF Start, Prompt, Drain, StartRun, Compact, Navigate, Resume, Drive, BeforeRun,
       ApplyCompaction, NavigateStart, NavigateMove, MaterialiseInput, LoopTop, CheckpointWrites,
       CheckpointRead, CheckpointSteer, Ask, CutOff, Defer, Answer, ExecuteTool, FlushAssistant,
       WriteResult, StepEnd, RoundEnd, Park, AbortNote, AbortRead, AbortWrites, Finish, Release,
       Resumed, Redeem, EnsureAssistant, Reconcile, WriteReplayed, Reconciled, WriteTodo, Quiet,
       Silent

LEMMA StepRecalled ==
    ASSUME OneCaller, Shape, Recalled, [Next]_vars
    PROVE  Recalled'
<1> DEFINE Logged(s) == \A k \in DOMAIN s : s[k] \in toolLog
<1>1. lane \in LaneSet /\ durable \in LaneSet /\ lane.dangling \in Seq(ToolSet)
  BY DEF Shape, LaneShape, DiskShape, LaneSet
<1>2. CASE Commit
  <2>1. /\ UNCHANGED proc
        /\ \/ CommitEntry(Head(chain).what)
           \/ Head(chain).what \in RecordSet /\ CommitRecord(Head(chain).what)
    BY <1>2, CommitEffects
  <2>2. CASE CommitEntry(Head(chain).what)
    BY <2>1, <2>2 DEF Recalled, CommitEntry
  <2>3. CASE Head(chain).what \in RecordSet /\ CommitRecord(Head(chain).what)
    <3> DEFINE r == Head(chain).what
    <3>1. /\ lane' = ApplyRecord(lane, r) /\ durable' = ApplyRecord(durable, r)
          /\ toolLog \subseteq toolLog' /\ (r.kind = "tool_started" => r.tool \in toolLog')
      BY <2>3 DEF CommitRecord
    <3>2. \A k \in DOMAIN lane'.dangling : lane'.dangling[k] \in toolLog'
      BY <1>1, <2>3, <3>1, ReducedDangling DEF Recalled
    <3>3. \A k \in DOMAIN durable'.dangling : durable'.dangling[k] \in toolLog'
      BY <1>1, <2>3, <3>1, ReducedDangling DEF Recalled
    <3>4. QED
      BY <2>1, <3>1, <3>2, <3>3 DEF Recalled
  <2>4. QED
    BY <2>1, <2>2, <2>3
<1>3. CASE Crash
  BY <1>1, <1>3 DEF Crash, FinishRestore, Recalled, LaneSet, Idle, ToolTodo, disk
<1>4. CASE UNCHANGED vars
  BY <1>4 DEF vars, live, disk, Recalled
<1>5. CASE Abort \/ DeferWrite \/ \E queue \in Queues : Enqueue(queue)
  BY <1>5 DEF Abort, DeferWrite, Enqueue, disk, Recalled
<1>6. ASSUME NEW c \in Callers, Start(c) \/ Resume(c) \/ Drive(c)
      PROVE  Recalled'
  <2>1. UNCHANGED <<durable, toolLog>>
    BY <1>6, CallerWrites
  <2>2. Logged(lane'.dangling)
    <3>1. CASE RecordTool(c)
      <4>1. UNCHANGED lane \/ \E t \in toolLog : lane' = ToolStarted(lane, [tool |-> t])
        BY <3>1, ResponseEffects
      <4>2. \A t \in toolLog : ToolStarted(lane, [tool |-> t]).dangling
                                 \in {lane.dangling, Append(lane.dangling, t)}
        BY <1>1 DEF ToolStarted, LaneSet
      <4>3. \A t \in toolLog : Logged(Append(lane.dangling, t))
        BY <1>1 DEF Recalled
      <4>4. QED
        BY <4>1, <4>2, <4>3 DEF Recalled
    <3>2. CASE ~RecordTool(c)
      BY <1>6, <3>2, CallerLane DEF Recalled
    <3>3. QED
      BY <3>1, <3>2
  <2>3. proc'[c].pc \in ToolTodo => Logged(proc'[c].todo)
    BY ResumeStarts, OutsideResume, TodoShrinks, <1>6 DEF Recalled, ToolTodo
  <2>4. QED
    BY <2>1, <2>2, <2>3 DEF Recalled, OneCaller
<1>7. QED
  BY <1>2, <1>3, <1>4, <1>5, <1>6 DEF Next

-----------------------------------------------------------------------------

LEMMA EntryAdds ==
    ASSUME Shape, NEW c, NEW x, NEW what, NEW tok, AppendEntry(c, x, what, tok), UNCHANGED entries
    PROVE  \A id : Written(id)' <=> Written(id) \/ id = x
<1>1. chain \in Seq(ChainSet)
  BY DEF Shape, ChainShape
<1>2. CASE InTree(x)
  BY <1>2 DEF AppendEntry, Written, InTree
<1>3. CASE ~InTree(x)
  <2> DEFINE a == [by |-> c, put |-> "entry", what |-> [id |-> x, what |-> what, tok |-> tok]]
  <2>1. chain' = Append(chain, a) /\ a.put = "entry" /\ a.what.id = x
    BY <1>3 DEF AppendEntry
  <2> HIDE DEF a
  <2>2. /\ DOMAIN chain' = DOMAIN chain \cup {Len(chain) + 1}
        /\ chain'[Len(chain) + 1] = a /\ \A i \in DOMAIN chain : chain'[i] = chain[i]
    BY <1>1, <2>1
  <2>3. QED
    BY <2>1, <2>2 DEF Written, InTree
<1>4. QED
  BY <1>2, <1>3

LEMMA RecordAdds ==
    ASSUME Shape, NEW c, NEW r, AppendRecord(c, r), UNCHANGED entries
    PROVE  \A id : Written(id)' <=> Written(id)
BY RecordIssued DEF Shape, ChainShape, Written, InTree

LEMMA NothingAdds ==
    ASSUME UNCHANGED <<chain, entries>>
    PROVE  \A id : Written(id)' <=> Written(id)
BY DEF Written, InTree

(* A commit moves a pre-allocated id from the chain to the tree. *)
LEMMA CommitAdds ==
    ASSUME Shape, Life, Commit
    PROVE  \A id \in IdSet : Written(id)' <=> Written(id)
<1> DEFINE h == Head(chain)
           e == h.what
<1>1. chain \in Seq(ChainSet) /\ entries \in Seq(EntrySet)
  BY DEF Shape, ChainShape, DiskShape
<1>2. /\ \A i \in DOMAIN chain' : i + 1 \in DOMAIN chain /\ chain'[i] = chain[i + 1]
      /\ \A i \in DOMAIN chain : i = 1 \/ (i - 1 \in DOMAIN chain' /\ chain'[i - 1] = chain[i])
      /\ 1 \in DOMAIN chain /\ h = chain[1]
  BY HeadGone
<1>3. CASE h.put = "record" /\ UNCHANGED entries
  BY <1>3, <1>2 DEF Written, InTree
<1>4. CASE h.put = "entry" /\ e \in PutSet /\ CommitEntry(e)
  <2>1. PICK f : /\ entries' = Append(entries, f)
                 /\ f.id = e.id \/ (e.id = AutoId /\ f.id.k = "auto")
    <3>1. CASE e.id = AutoId
      BY <1>4, <3>1 DEF AutoId, Id, PutSet, CommitEntry
    <3>2. CASE e.id # AutoId
      BY <1>4, <3>2 DEF CommitEntry
    <3>3. QED
      BY <3>1, <3>2
  <2>2. /\ DOMAIN entries' = DOMAIN entries \cup {Len(entries) + 1}
        /\ entries'[Len(entries) + 1] = f /\ \A i \in DOMAIN entries : entries'[i] = entries[i]
    BY <1>1, <2>1
  <2>3. ASSUME NEW id \in IdSet
        PROVE  Written(id)' <=> Written(id)
    BY <2>1, <2>2, <1>2, <1>4 DEF IdSet, IdsOf, IdKinds, AutoId, Id, InTree, Written
  <2>4. QED
    BY <2>3
<1>5. QED
  BY <1>3, <1>4, CommitEffects DEF CommitRecord

LEMMA OtherIds ==
    /\ \A op : CompactionId(op) \notin AssistantIds
    /\ AutoId \notin AssistantIds
    /\ AssistantIds \cap InputIds = {} /\ AssistantIds \cap DeferredIds = {}
    /\ \A id \in AssistantIds : ResultIdOf(id) \notin AssistantIds
BY DEF CompactionId, AutoId, Id, AssistantIds, InputIds, DeferredIds, IdsOf, ResultIdOf

LEMMA WritesAssistant ==
    ASSUME Shape, NEW c \in Callers, Start(c) \/ Resume(c) \/ Drive(c),
           NEW id \in AssistantIds, Written(id)'
    PROVE  Written(id) \/ Flushes(c, id)
<1> DEFINE p == proc[c]
           plain == \E x, what, tok : x \notin AssistantIds /\ AppendEntry(c, x, what, tok)
           record == \E r : AppendRecord(c, r)
<1>1. ASSUME UNCHANGED entries, UNCHANGED chain \/ plain \/ record
      PROVE  Written(id)
  BY <1>1, EntryAdds, RecordAdds, NothingAdds
<1>2. CASE Start(c)
  BY <1>1, <1>2, StartEffects
<1>3. CASE Resume(c)
  BY <1>1, <1>3, ResumeStarts, OtherIds DEF Still
<1>4. CASE BeforeRun(c) \/ ApplyCompaction(c) \/ NavigateStart(c) \/ NavigateMove(c)
             \/ MaterialiseInput(c)
  <2>1. UNCHANGED entries
    BY <1>4, AcceptEffects DEF Still
  <2>2. MaterialiseInput(c) => UNCHANGED chain \/ plain
    BY AcceptEffects, OpsShape, OtherIds DEF At
  <2>3. BeforeRun(c) \/ ApplyCompaction(c) \/ NavigateStart(c) \/ NavigateMove(c) =>
          UNCHANGED chain \/ plain \/ record
    BY AcceptEffects, OtherIds
  <2>4. QED
    BY <1>1, <1>4, <2>1, <2>2, <2>3
<1>5. CASE CheckpointWrites(c) \/ CheckpointSteer(c) \/ AbortWrites(c)
  <2>1. UNCHANGED entries /\ p.pc \in IdTodo
    BY <1>5, TodoEffects DEF Still, At, CheckpointWrites, CheckpointSteer, AbortWrites, IdTodo
  <2>2. \/ UNCHANGED chain
        \/ p.todo # << >> /\ \E what : AppendEntry(c, Head(p.todo), what, 0)
    BY <1>5, TodoEffects DEF CheckpointWrites, CheckpointSteer, AbortWrites
  <2>3. p.todo # << >> => Head(p.todo) \notin AssistantIds
    BY <2>1, OtherIds, KindsOfIds DEF Shape, ProcShape, ProcOK, TodoIds
  <2>4. QED
    BY <1>1, <2>1, <2>2, <2>3
<1>6. CASE LoopTop(c) \/ CheckpointRead(c) \/ Ask(c) \/ Defer(c) \/ Park(c)
  BY <1>1, <1>6, LoopEffects, OtherIds DEF Still
<1>7. CASE WriteResult(c)
  BY <1>7, LoopEffects, IdsAreIds, OtherIds, <1>1 DEF Still, Slot, Shape, ProcShape, ProcSet
<1>8. CASE CutOff(c)
  BY <1>8, LoopEffects, <1>1, EntryAdds DEF Still, At, Turns, Ends, Flushes
<1>9. CASE FlushAssistant(c)
  BY <1>9, LoopEffects, EntryAdds DEF Still, At, Turns, Flushes
<1>10. CASE Answer(c) \/ RecordTool(c) \/ ExecuteTool(c) \/ StepEnd(c)
  BY <1>1, <1>10, ResponseEffects
<1>11. CASE RoundEnd(c) \/ AbortNote(c) \/ AbortRead(c) \/ Finish(c) \/ Release(c)
  BY <1>11, EndEffects, OtherIds, <1>1 DEF Still
<1>12. CASE Resumed(c) \/ Redeem(c) \/ Reconciled(c)
  BY <1>1, <1>12, ResumeEffects, OtherIds DEF Still
<1>13. CASE EnsureAssistant(c)
  BY <1>13, ResumeEffects, <1>1, EntryAdds DEF Still, At, Flushes
<1>14. CASE Reconcile(c) \/ WriteReplayed(c)
  <2>1. p.pc \in {"reconcile", "replayed"}
    BY <1>14, ResumeEffects DEF At
  <2>2. p.todo \in Seq(ToolSet) /\ (p.pc = "replayed" => p.todo # << >>)
    BY <2>1 DEF Shape, ProcShape, ProcOK, ToolTodo
  <2>3. p.todo # << >> => 1 \in DOMAIN p.todo /\ Head(p.todo) = p.todo[1]
    BY <2>2
  <2>4. /\ UNCHANGED entries
        /\ \/ UNCHANGED chain
           \/ \E k \in DOMAIN p.todo : \E what, tok : AppendEntry(c, ResultIdOf(p.todo[k].id), what, tok)
    <3>1. CASE Reconcile(c)
      BY <3>1, ResumeEffects DEF Unanswered
    <3>2. CASE WriteReplayed(c)
      BY <3>2, ResumeEffects, <2>2, <2>3 DEF At, Still
    <3>3. QED
      BY <1>14, <3>1, <3>2
  <2>5. \A k \in DOMAIN p.todo : p.todo[k].id \in AssistantIds
    <3>1. \A k \in DOMAIN p.todo : p.todo[k] \in ToolSet
      BY <2>2
    <3>2. QED
      BY <3>1 DEF ToolSet
  <2>6. QED
    BY <1>1, <2>4, <2>5, OtherIds
<1>15. QED
  BY <1>2, <1>3, <1>4, <1>5, <1>6, <1>7, <1>8, <1>9, <1>10, <1>11, <1>12, <1>13, <1>14 DEF Drive

-----------------------------------------------------------------------------

LEMMA InitFresh == Init => Fresh
BY DEF Init, InitLane, Idle, Fresh, Attempts, AttemptOK, Behind, ToolTodo, Looping, FreshTools,
       FreshEntries, Written, InTree

LEMMA ToolIds == Shape => \A t \in toolLog : t.id \in AssistantIds
BY DEF Shape, DiskShape, ToolSet

LEMMA FreshCaller ==
    ASSUME OneCaller, OneRound, NoneIsNoName, Shape, Life, Recalled, Fresh, NEW c \in Callers,
           Start(c) \/ Resume(c) \/ Drive(c)
    PROVE  Fresh'
<1> DEFINE p == proc[c]
           q == proc'[c]
<1>1. Callers = {c}
  BY DEF OneCaller
<1>2. AttemptOK(p, Ready(c))
  BY DEF Fresh, Attempts
<1>3. Advance(c) /\ KeepsCount /\ Ready(c)
  BY <1>2, Advances
<1>4. AttemptOK(p, TRUE) /\ Phase(p, TRUE)
  BY <1>2, <1>3 DEF AttemptOK, Behind, Life, Phases, Phase
<1>5. /\ AttemptOK(proc[c], Ready(c))'
      /\ \A id \in AssistantIds, before \in {{"toolStarted"}, {"toolStarted", "execute", "assistant"}} :
           /\ id.op \in started /\ (id.op = lane.op => id.att <= lane.attempts + 1)
           /\ OldFor(p, TRUE, id, before)
           => OldFor(proc[c], Ready(c), id, before)'
  BY <1>3, <1>4, AdvanceCounts
<1>6. \A id \in AssistantIds, before \in {{"toolStarted"}, Flushing} : Old(id, before) => Old(id, before)'
  BY <1>3, <1>1, <1>5 DEF OldFor, Behind, KeepsCount, Old, Flushing
<1>7. Attempts'
  BY <1>1, <1>5 DEF Attempts
<1>8. FreshTools'
  BY <1>3, <1>6, ToolIds DEF Fresh, FreshTools, KeepsCount
<1>9. ASSUME NEW id \in AssistantIds, Flushes(c, id)
      PROVE  Old(id, Flushing)'
  <2>1. p \in ProcSet /\ p.step \in Nat /\ lane'.op = lane.op /\ lane'.attempts = lane.attempts
        /\ started' = started
    BY <1>3 DEF Shape, ProcShape, ProcSet, KeepsCount
  <2>2. CASE p.pc \in {"model", "assistant"}
    <3>1. lane.op = p.op /\ p.op \in started /\ p.op # None
      <4>1. p.pc \in Working
        BY <2>2 DEF Working, Early, Labels
      <4>2. lane.op = p.op
        BY <4>1 DEF Life, Phases, Phase
      <4>3. lane.op # None
        BY <2>2, OpsShape, <4>2 DEF Shape, DiskShape, NoneIsNoName
      <4>4. QED
        BY <4>2, <4>3 DEF Life, OpenOps
    <3>2. p.att = lane.attempts + 1
      BY <1>4, <2>2 DEF AttemptOK, Looping
    <3>3. /\ id.op = p.op /\ id.att = p.att /\ id.n \in {p.step, p.step + 1}
          /\ p.pc = "assistant" => id.n = p.step
      BY <1>9, <2>2 DEF Flushes, Slot, AssistantId, Id
    <3>4. OldFor(proc[c], Ready(c), id, Flushing)'
      <4>1. CASE p.pc = "model"
        BY <1>9, <4>1 DEF Flushes, OldFor, Behind, Looping, ToolTodo
      <4>2. CASE p.pc = "assistant"
        BY <1>9, <4>2, <2>1, <3>3 DEF Flushes, Keeps, OldFor, Behind, Looping, ToolTodo,
           Flushing
      <4>3. QED
        BY <2>2, <4>1, <4>2
    <3>5. QED
      BY <1>1, <2>1, <3>1, <3>2, <3>3, <3>4 DEF Old, Shape, LaneShape, LaneSet
  <2>3. CASE p.pc = "ensure"
    <3>1. PICK k \in DOMAIN p.todo : id = p.todo[k].id
      BY <1>9, <2>3 DEF Flushes
    <3>2. p.todo[k] \in toolLog
      BY <2>3 DEF Recalled, ToolTodo
    <3>3. Old(id, {"toolStarted"})'
      BY <1>6, <3>1, <3>2 DEF Fresh, FreshTools
    <3>4. q.pc \notin Flushing
      <4>1. EnsureAssistant(c)
        BY <2>3
           DEF Start, Prompt, Drain, StartRun, Compact, Navigate, Resume, Drive, BeforeRun,
           ApplyCompaction, NavigateStart, NavigateMove, MaterialiseInput, LoopTop,
           CheckpointWrites, CheckpointRead, CheckpointSteer, Ask, CutOff, Defer, Answer,
           RecordTool, ExecuteTool, FlushAssistant, WriteResult, StepEnd, RoundEnd, Park,
           AbortNote, AbortRead, AbortWrites, Finish, Release, Resumed, Redeem, Reconcile,
           WriteReplayed, Reconciled, WriteTodo, At
      <4>2. q.pc \in {"ensure", "reconcile"}
        BY <2>3, <4>1, ResumeEffects DEF Turns
      <4>3. QED
        BY <4>2 DEF Flushing
    <3>5. QED
      BY <1>1, <3>3, <3>4 DEF Old, OldFor
  <2>4. QED
    BY <1>9, <2>2, <2>3 DEF Flushes
<1>10. FreshEntries'
  BY <1>6, <1>9, WritesAssistant DEF Fresh, FreshEntries, Flushing
<1>11. QED
  BY <1>7, <1>8, <1>10 DEF Fresh

(* Steps that leave the coroutines alone, or end them all. *)
LEMMA FreshKept ==
    ASSUME Fresh, UNCHANGED <<proc, started, toolLog>>,
           lane'.op = lane.op, lane'.attempts = lane.attempts,
           \A c \in Callers : Ready(c)' <=> Ready(c),
           \A id \in AssistantIds : Written(id)' => Written(id)
    PROVE  Fresh'
BY DEF Fresh, Attempts, AttemptOK, Behind, Old, OldFor, FreshTools, FreshEntries

LEMMA FreshCrash ==
    ASSUME Shape, Life, Fresh, Crash
    PROVE  Fresh'
<1>1. /\ lane'.op = lane.op /\ lane'.attempts = lane.attempts
      /\ UNCHANGED <<started, toolLog, entries>> /\ chain' = << >>
      /\ proc' = [c \in Callers |-> Idle]
  BY DEF Crash, disk, FinishRestore, Life, OpenOps, Shape, DiskShape, LaneSet
<1>2. \A c \in Callers : /\ proc'[c].pc = "idle" /\ proc'[c].round = 0
                         /\ "idle" \notin Looping \cup ToolTodo
  BY <1>1 DEF Idle, Looping, ToolTodo
<1>3. \A id, before : Old(id, before) => Old(id, before)'
  BY <1>1, <1>2 DEF Old, OldFor, Behind
<1>4. Attempts'
  BY <1>2 DEF Attempts, AttemptOK, Behind, ToolTodo
<1>5. \A id : Written(id)' => Written(id)
  BY <1>1 DEF Written, InTree
<1>6. QED
  BY <1>1, <1>3, <1>4, <1>5 DEF Fresh, FreshTools, FreshEntries

LEMMA ApiReady ==
    ASSUME BoundsAssumption, Shape, Abort \/ DeferWrite \/ \E queue \in Queues : Enqueue(queue)
    PROVE  /\ \A c \in Callers : Ready(c)' <=> Ready(c)
           /\ \A id : Written(id)' <=> Written(id)
<1>1. UNCHANGED entries
  BY DEF Abort, DeferWrite, Enqueue, disk
<1>2. UNCHANGED chain \/ \E r : AppendRecord("api", r)
  BY DEF Abort, DeferWrite, Enqueue
<1>3. \A c \in Callers : Ready(c)' <=> Ready(c)
  <2>1. CASE UNCHANGED chain
    BY <2>1 DEF Ready
  <2>2. ASSUME NEW r, AppendRecord("api", r)
        PROVE  \A c \in Callers : Ready(c)' <=> Ready(c)
    <3>1. PICK a : chain' = Append(chain, a) /\ a.by = "api"
      BY <2>2, RecordIssued
    <3>2. chain \in Seq(ChainSet)
      BY DEF Shape, ChainShape
    <3>3. /\ DOMAIN chain' = DOMAIN chain \cup {Len(chain) + 1}
          /\ chain'[Len(chain) + 1] = a /\ \A i \in DOMAIN chain : chain'[i] = chain[i]
      BY <3>1, <3>2
    <3>4. QED
      BY <3>1, <3>3 DEF Ready, BoundsAssumption
  <2>3. QED
    BY <1>2, <2>1, <2>2
<1>4. \A id : Written(id)' <=> Written(id)
  BY <1>1, <1>2, RecordAdds, NothingAdds
<1>5. QED
  BY <1>3, <1>4

LEMMA FreshApi ==
    ASSUME BoundsAssumption, Shape, Fresh,
           Abort \/ DeferWrite \/ \E queue \in Queues : Enqueue(queue)
    PROVE  Fresh'
BY ApiReady, FreshKept DEF Abort, DeferWrite, Enqueue, disk

(* An entry moves to the tree; the coroutine behind it, if any, is past    *)
(* the labels where the wait counts.                                       *)
LEMMA FreshEntry ==
    ASSUME Shape, Life, Fresh, Commit, Head(chain).put = "entry"
    PROVE  Fresh'
<1>1. Head(chain).put # "record"
  BY DEF Commit
<1>2. UNCHANGED <<proc, started, toolLog, lane>>
  BY <1>1, CommitEffects DEF CommitEntry
<1>3. \A id \in AssistantIds : Written(id)' => Written(id)
  BY CommitAdds, KindsOfIds
<1>4. \A c \in Callers : Ready(c)' => Ready(c) \/ proc[c].pc # "resumed"
  <2>1. ASSUME NEW c \in Callers, Ready(c)', ~Ready(c)
        PROVE  proc[c].pc # "resumed"
    BY <2>1, HeadGone, <1>1 DEF Life, OwnAppends, Due
  <2>2. QED
    BY <2>1
<1>5. \A c \in Callers : Ready(c) => Ready(c)'
  BY HeadGone
<1>6. \A c \in Callers : Behind(proc[c], Ready(c))' <=> Behind(proc[c], Ready(c))
  BY <1>2, <1>4, <1>5 DEF Behind
<1>7. Attempts'
  BY <1>2, <1>4, <1>5, <1>6 DEF Fresh, Attempts, AttemptOK
<1>8. \A id, before : Old(id, before) => Old(id, before)'
  BY <1>2, <1>6 DEF Old, OldFor
<1>9. QED
  BY <1>2, <1>3, <1>7, <1>8 DEF Fresh, FreshTools, FreshEntries

(* A record of its caller: the operation begins or ends, the attempt is    *)
(* counted, the intent of a tool is on disk.                               *)
LEMMA FreshRecord ==
    ASSUME OneCaller, NoneIsNoName, BoundsAssumption, Shape, Life, Fresh, Commit, Shape',
           NEW c \in Callers, Head(chain).put = "record", Head(chain).by = c
    PROVE  Fresh'
<1> DEFINE p == proc[c]
<1>0. PICK r : r = Head(chain).what
  OBVIOUS
<1>1. Callers = {c}
  BY DEF OneCaller
<1>2. /\ r \in RecordSet /\ CommitRecord(r) /\ UNCHANGED proc
      /\ Head(chain) = chain[1] /\ 1 \in DOMAIN chain
  BY <1>0, CommitEffects
<1>3. DueRecord(p, r)
  BY <1>2, <1>0 DEF Life, OwnAppends, Due
<1>4. ~Ready(c) /\ Ready(c)'
  BY <1>2, HeadGone DEF Ready
<1>5. \A id \in AssistantIds : (Written(id)' <=> Written(id)) /\ id.op \in Nat /\ id.att \in Nat /\ id.n \in Nat
  BY CommitAdds, KindsOfIds DEF AssistantIds, IdsOf
<1>6. /\ lane \in LaneSet /\ lane' = ApplyRecord(lane, r) /\ p \in ProcSet
      /\ toolLog' = IF r.kind = "tool_started" THEN toolLog \cup {r.tool} ELSE toolLog
      /\ started' = IF r.kind = "operation_started" THEN started \cup {r.op} ELSE started
  BY <1>2 DEF CommitRecord, Shape, LaneShape, ProcShape
<1>7. lane.attempts \in Nat /\ p.att \in Nat /\ p.step \in Nat /\ p.op \in Nat
  BY <1>6 DEF LaneSet, ProcSet
<1>8. AttemptOK(p, FALSE)
  BY <1>4 DEF Fresh, Attempts, AttemptOK, Behind
<1>9. \A id, before : Old(id, before) =>
         /\ id.op \in started /\ (id.op = lane.op => id.att <= lane.attempts + 1)
         /\ OldFor(p, FALSE, id, before)
  BY <1>4 DEF Old, OldFor, Behind
<1>10. SUFFICES /\ AttemptOK(proc[c], TRUE)'
                /\ \A id \in AssistantIds, before \in {{"toolStarted"}, Flushing} :
                     Old(id, before) =>
                       /\ id.op \in started'
                       /\ (id.op = lane'.op => id.att <= lane'.attempts + 1)
                       /\ OldFor(proc[c], TRUE, id, before)'
                /\ r.kind = "tool_started" =>
                       /\ r.tool.id.op \in started'
                       /\ (r.tool.id.op = lane'.op => r.tool.id.att <= lane'.attempts + 1)
                       /\ OldFor(proc[c], TRUE, r.tool.id, {"toolStarted"})'
  <2>1. Attempts'
    BY <1>1, <1>4, <1>10 DEF Attempts, AttemptOK, Behind
  <2>2. \A id : OldFor(proc[c], TRUE, id, {"toolStarted"})' => OldFor(proc[c], Ready(c), id, {"toolStarted"})'
    BY <1>4 DEF OldFor, Behind
  <2>3. \A id : OldFor(proc[c], TRUE, id, Flushing)' => OldFor(proc[c], Ready(c), id, Flushing)'
    BY <1>4 DEF OldFor, Behind
  <2>4. \A id \in AssistantIds : Old(id, Flushing) => Old(id, Flushing)'
    BY <1>1, <1>10, <2>3 DEF Old
  <2>5. \A id \in AssistantIds : Old(id, {"toolStarted"}) => Old(id, {"toolStarted"})'
    BY <1>1, <1>10, <2>2 DEF Old
  <2>6. r.kind = "tool_started" => Old(r.tool.id, {"toolStarted"})'
    BY <1>1, <1>10, <2>2 DEF Old
  <2>7. FreshTools'
    BY <1>6, <2>5, <2>6, ToolIds DEF Fresh, FreshTools
  <2>8. FreshEntries'
    BY <1>5, <2>4 DEF Fresh, FreshEntries
  <2>9. QED
    BY <2>1, <2>7, <2>8 DEF Fresh
<1>11. CASE r.kind = "operation_started"
  <2>1. p.pc \in {"compact", "move", "input"} /\ r.op = p.op /\ lane.op = None /\ p.op \notin started
    BY <1>3, <1>11 DEF DueRecord
  <2>2. lane'.op = p.op /\ lane'.attempts = 0 /\ lane.attempts = 0
    BY <1>6, <1>2, <1>11, <2>1, ReducedFields, ZenonT(40) DEF Life, OpenOps
  <2>3. p.pc \notin Looping /\ p.pc \notin ToolTodo
    BY <2>1 DEF Looping, ToolTodo
  <2>4. QED
    BY <1>2, <1>6, <1>7, <1>8, <1>9, <1>11, <2>1, <2>2, <2>3 DEF AttemptOK, OldFor, Behind, ToolTodo
<1>12. CASE r.kind = "operation_finished"
  <2>1. p.pc = "release" /\ lane.op = p.op
    BY <1>3, <1>12 DEF DueRecord
  <2>2. lane'.op = None
    <3>1. lane.op = r.op /\ lane.op # None
      BY <1>3, <1>7, <1>12, <2>1 DEF DueRecord, NoneIsNoName
    <3>2. QED
      BY <1>2, <1>6, <1>12, <3>1, ReducedFields
  <2>3. p.pc \notin Looping /\ p.pc \notin ToolTodo
    BY <2>1 DEF Looping, ToolTodo
  <2>4. QED
    BY <1>2, <1>5, <1>6, <1>8, <1>9, <1>12, <2>1, <2>2, <2>3 DEF AttemptOK, OldFor, Behind, NoneIsNoName
<1>13. CASE r.kind = "task_attempt"
  <2>1. p.pc = "resumed" /\ r.op = p.op /\ r.attempt = p.att
    BY <1>3, <1>13 DEF DueRecord
  <2>2. lane.op = p.op /\ p.att = lane.attempts + 1
    BY <1>4, <1>8, <2>1 DEF Life, Phases, Phase, AttemptOK, Working, Early, Labels
  <2>3. lane'.op = lane.op /\ lane'.attempts = p.att
    <3>1. lane.op = r.op /\ lane.op # None /\ r.attempt > lane.attempts
      BY <1>7, <2>1, <2>2 DEF NoneIsNoName
    <3>2. QED
      BY <1>2, <1>6, <1>13, <2>1, <3>1, ReducedFields
  <2>4. p.pc \notin Looping
    BY <2>1 DEF Looping
  <2>5. QED
    BY <1>2, <1>5, <1>6, <1>7, <1>8, <1>9, <1>13, <2>1, <2>2, <2>3, <2>4
       DEF AttemptOK, OldFor, Behind, ToolTodo
<1>14. CASE r.kind = "tool_started"
  <2>1. p.pc = "execute" /\ r.tool = ToolOf(p)
    BY <1>3, <1>14 DEF DueRecord
  <2>2. lane.op = p.op /\ p.op \in started
    BY <1>7, <2>1 DEF Life, OpenOps, Phases, Phase, Working, Early, Labels, NoneIsNoName
  <2>3. lane'.op = lane.op /\ lane'.attempts = lane.attempts
    BY <1>2, <1>6, <1>14, ReducedFields, ZenonT(40)
  <2>4. p.att = lane.attempts + 1 /\ p.pc \notin ToolTodo
    BY <1>8, <2>1 DEF AttemptOK, Looping, ToolTodo
  <2>5. /\ r.tool.id.op = p.op /\ r.tool.id.att = p.att /\ r.tool.id.n = p.step
    BY <2>1 DEF ToolOf, AssistantId, Id
  <2>6. AttemptOK(proc[c], TRUE)'
    BY <1>2, <1>8, <2>1, <2>3, <2>4 DEF AttemptOK, Behind
  <2>7. \A id, before : OldFor(p, FALSE, id, before) => OldFor(proc[c], TRUE, id, before)'
    BY <1>2, <2>1, <2>3 DEF OldFor, Behind, ToolTodo
  <2>8. OldFor(proc[c], TRUE, r.tool.id, {"toolStarted"})'
    BY <1>2, <1>7, <2>1, <2>4, <2>5 DEF OldFor, Behind
  <2>9. started' = started
    BY <1>6, <1>14
  <2>10. \A id, before : Old(id, before) =>
           /\ id.op \in started' /\ (id.op = lane'.op => id.att <= lane'.attempts + 1)
           /\ OldFor(proc[c], TRUE, id, before)'
    BY <1>9, <2>3, <2>7, <2>9
  <2>11. /\ r.tool.id.op \in started'
         /\ (r.tool.id.op = lane'.op => r.tool.id.att <= lane'.attempts + 1)
    BY <1>7, <2>2, <2>3, <2>4, <2>5, <2>9
  <2>12. QED
    BY <2>6, <2>8, <2>10, <2>11
<1>15. QED
  BY <1>3, <1>11, <1>12, <1>13, <1>14 DEF DueRecord

LEMMA StepFresh ==
    ASSUME OneCaller, OneRound, NoneIsNoName, BoundsAssumption, Shape, Life, Recalled, Fresh,
           Shape', [Next]_vars
    PROVE  Fresh'
<1>1. CASE Commit
  <2>1. CASE Head(chain).put = "entry"
    BY <1>1, <2>1, FreshEntry
  <2>2. CASE Head(chain).put = "record" /\ Head(chain).by \in Callers
    BY <1>1, <2>2, FreshRecord
  <2>3. CASE Head(chain).put = "record" /\ Head(chain).by \notin Callers
    <3> DEFINE r == Head(chain).what
    <3>1. /\ r \in RecordSet /\ CommitRecord(r) /\ UNCHANGED proc
          /\ Head(chain) = chain[1] /\ 1 \in DOMAIN chain
      BY <1>1, <2>3, CommitEffects
    <3>2. r.kind \in ApiKinds
      BY <2>3, <3>1 DEF Life, OwnAppends
    <3>3. UNCHANGED <<proc, started, toolLog>> /\ lane \in LaneSet /\ lane' = ApplyRecord(lane, r)
      BY <3>1, <3>2 DEF CommitRecord, ApiKinds, Shape, LaneShape
    <3>4. lane'.op = lane.op /\ lane'.attempts = lane.attempts
      BY <3>1, <3>2, <3>3, ReducedFields, ZenonT(40) DEF ApiKinds
    <3>5. \A c \in Callers : Ready(c)' <=> Ready(c)
      BY <1>1, <2>3, HeadGone
    <3>6. \A id \in AssistantIds : Written(id)' => Written(id)
      BY <1>1, CommitAdds, KindsOfIds
    <3>7. QED
      BY <3>3, <3>4, <3>5, <3>6, FreshKept
  <2>4. QED
    BY <1>1, <2>1, <2>2, <2>3, CommitEffects
<1>2. CASE Crash
  BY <1>2, FreshCrash
<1>3. CASE Abort \/ DeferWrite \/ \E queue \in Queues : Enqueue(queue)
  BY <1>3, FreshApi
<1>4. CASE \E c \in Callers : Start(c) \/ Resume(c) \/ Drive(c)
  BY <1>4, FreshCaller
<1>5. CASE UNCHANGED vars
  BY <1>5, FreshKept, NothingAdds DEF vars, live, disk, history, Ready
<1>6. QED
  BY <1>1, <1>2, <1>3, <1>4, <1>5 DEF Next

-----------------------------------------------------------------------------
(* The live lane and the journal reduce to the same.                       *)

LEMMA AgreeIs ==
    ASSUME NEW l \in LaneSet, NEW d \in LaneSet
    PROVE  [l EXCEPT !.status = "any"] = [d EXCEPT !.status = "any"] <=> Agree(l, d)
<1>1. [l EXCEPT !.status = "any"] = [d EXCEPT !.status = "any"] => Agree(l, d)
  <2> SUFFICES ASSUME [l EXCEPT !.status = "any"] = [d EXCEPT !.status = "any"]
               PROVE  Agree(l, d)
    OBVIOUS
  <2> DEFINE m == [l EXCEPT !.status = "any"]
             n == [d EXCEPT !.status = "any"]
  <2>1. /\ m.op = l.op /\ m.kind = l.kind /\ m.abortRequested = l.abortRequested
        /\ m.attempts = l.attempts /\ m.maxAttempts = l.maxAttempts
        /\ m.dangling = l.dangling /\ m.queues = l.queues
    BY DEF LaneSet
  <2>2. /\ n.op = d.op /\ n.kind = d.kind /\ n.abortRequested = d.abortRequested
        /\ n.attempts = d.attempts /\ n.maxAttempts = d.maxAttempts
        /\ n.dangling = d.dangling /\ n.queues = d.queues
    BY DEF LaneSet
  <2>3. QED
    BY <2>1, <2>2 DEF Agree
<1>2. Agree(l, d) => [l EXCEPT !.status = "any"] = [d EXCEPT !.status = "any"]
  BY DEF Agree, LaneSet
<1>3. QED
  BY <1>1, <1>2

LEMMA ReducedSame ==
    ASSUME NEW l \in LaneSet, NEW d \in LaneSet, NEW r \in RecordSet, Agree(l, d)
    PROVE  Agree(ApplyRecord(l, r), ApplyRecord(d, r))
<1>1. CASE r.kind = "operation_started"
  BY <1>1 DEF ApplyRecord, OperationStarted, Agree, LaneSet
<1>2. CASE r.kind = "abort_requested"
  BY <1>2 DEF ApplyRecord, AbortRequested, Agree, LaneSet
<1>3. CASE r.kind = "operation_finished"
  BY <1>3, ZenonT(40) DEF ApplyRecord, OperationFinished, Agree, LaneSet
<1>4. CASE r.kind = "tool_started"
  BY <1>4 DEF ApplyRecord, ToolStarted, Agree, LaneSet
<1>5. CASE r.kind = "queue_enqueued"
  BY <1>5 DEF ApplyRecord, QueueEnqueued, Agree, LaneSet
<1>6. CASE r.kind = "task_attempt"
  BY <1>6 DEF ApplyRecord, TaskAttempt, Agree, LaneSet
<1>7. CASE r.kind = "write_deferred"
  BY <1>7 DEF ApplyRecord, Agree
<1>8. QED
  BY <1>1, <1>2, <1>3, <1>4, <1>5, <1>6, <1>7, RecordKinds

LEMMA MatchesIs == Shape => (LiveMatchesJournal <=> Agree(lane, durable))
BY AgreeIs DEF LiveMatchesJournal, Shape, LaneShape, DiskShape

(* The intent of a new call is never taken for one already recorded. *)
LEMMA NewIntent ==
    ASSUME Shape, Fresh, NEW c \in Callers, proc[c].pc = "toolStarted"
    PROVE  ~\E t \in toolLog : t.id = Slot(c)
<1>1. SUFFICES ASSUME NEW t \in toolLog, t.id = Slot(c)
               PROVE  FALSE
  OBVIOUS
<1>2. OldFor(proc[c], Ready(c), Slot(c), {"toolStarted"})
  BY <1>1 DEF Fresh, FreshTools, Old
<1>3. Slot(c).op = proc[c].op /\ Slot(c).att = proc[c].att /\ Slot(c).n = proc[c].step
  BY DEF Slot, AssistantId, Id
<1>4. proc[c].step \in Nat
  BY DEF Shape, ProcShape, ProcSet
<1>5. QED
  BY <1>2, <1>3, <1>4 DEF OldFor, Looping

LEMMA StepLive ==
    ASSUME Shape, Fresh, Shape', LiveMatchesJournal, [Next]_vars
    PROVE  LiveMatchesJournal'
<1>1. Agree(lane, durable) /\ lane \in LaneSet /\ durable \in LaneSet
  BY MatchesIs DEF Shape, LaneShape, DiskShape
<1>2. SUFFICES Agree(lane', durable')
  BY <1>2, AgreeIs DEF Shape, LaneShape, DiskShape, LiveMatchesJournal
<1>3. CASE Commit
  BY <1>3, CommitEffects, <1>1, ReducedSame DEF CommitEntry, CommitRecord
<1>4. CASE Crash
  BY <1>1, <1>4 DEF Crash, FinishRestore, disk, LaneSet, Agree
<1>5. CASE Abort \/ DeferWrite \/ \E queue \in Queues : Enqueue(queue)
  BY <1>1, <1>5 DEF Abort, DeferWrite, Enqueue, disk
<1>6. ASSUME NEW c \in Callers, Start(c) \/ Resume(c) \/ Drive(c)
      PROVE  UNCHANGED <<lane, durable>>
  BY NewIntent, ResponseEffects, <1>6, CallerLane, CallerWrites DEF At
<1>7. CASE UNCHANGED vars
  BY <1>1, <1>7 DEF vars, live, disk
<1>8. QED
  BY <1>1, <1>3, <1>4, <1>5, <1>6, <1>7 DEF Next

-----------------------------------------------------------------------------
(* Responses, intents and executions.                                      *)

(* The other steps of a caller touch no response and settle no tool. *)
LEMMA OtherSteps ==
    ASSUME Shape, NEW c \in Callers, Start(c) \/ Resume(c) \/ Drive(c), ~Handles(c)
    PROVE  /\ UNCHANGED <<responses, executed, sealed>>
           /\ proc[c].pc \notin Responding \cup {"replayed"}
           /\ proc'[c].pc \notin Responding \cup {"replayed"}
<1>1. CASE Start(c)
  BY <1>1, StartEffects DEF Responding
<1>2. CASE Resume(c)
  BY <1>2, ResumeStarts DEF Responding, Still
<1>3. CASE BeforeRun(c) \/ ApplyCompaction(c) \/ NavigateStart(c) \/ NavigateMove(c)
             \/ MaterialiseInput(c)
  BY <1>3, AcceptEffects DEF Responding, Still, Turns, Ends, Idle, At
<1>4. CASE CheckpointWrites(c) \/ CheckpointSteer(c) \/ AbortWrites(c)
  BY <1>4, TodoEffects DEF Responding, Still, Turns, Lists, At, CheckpointWrites,
     CheckpointSteer, AbortWrites
<1>5. CASE LoopTop(c) \/ CheckpointRead(c) \/ Ask(c) \/ CutOff(c) \/ Defer(c) \/ Park(c)
  BY <1>5, LoopEffects DEF Responding, Still, Turns, Ends, Lists, At
<1>6. CASE RoundEnd(c)
  BY <1>6, EndEffects DEF Ends, At, Responding, Still
<1>7. CASE AbortNote(c) \/ AbortRead(c)
  BY <1>7, EndEffects DEF At, Responding, Still
<1>8. CASE Finish(c)
  BY <1>8, EndEffects DEF Turns, At, Responding, Still
<1>9. CASE Release(c)
  <2>1. UNCHANGED <<responses, executed, sealed>> /\ proc[c].pc = "release" /\ proc'[c] = Idle
    BY <1>9, EndEffects DEF At
  <2>2. QED
    BY <2>1 DEF Responding, Idle
<1>10. CASE Resumed(c) \/ Redeem(c) \/ EnsureAssistant(c) \/ Reconciled(c)
  BY <1>10, ResumeEffects DEF Responding, Still, Turns, Ends, Idle, At
<1>11. QED
  BY <1>1, <1>2, <1>3, <1>4, <1>5, <1>6, <1>7, <1>8, <1>9, <1>10 DEF Drive, Handles

LEMMA InitTools == BoundsAssumption /\ Init => Tools
BY DEF Init, Idle, Tools, Calls, ToolPhase, Responding, BoundsAssumption

LEMMA ToolsCaller ==
    ASSUME OneCaller, BoundsAssumption, Shape, Life, Recalled, Fresh, Tools, NEW c \in Callers,
           Start(c) \/ Resume(c) \/ Drive(c)
    PROVE  Tools'
<1> DEFINE p == proc[c]
           q == proc'[c]
<1>1. Callers = {c}
  BY DEF OneCaller
<1>2. /\ UNCHANGED toolLog /\ p \in ProcSet /\ responses \in Nat
      /\ executed \in [1..MaxResponses -> Nat] /\ MaxResponses \in Nat
  BY CallerWrites DEF BoundsAssumption, Shape, ProcShape, HistoryShape
<1>3. Calls /\ ToolPhase(p, Ready(c))
  BY DEF Tools
<1>4. SUFFICES Calls' /\ ToolPhase(proc[c], Ready(c))'
  BY <1>1, <1>4 DEF Tools
<1>5. CASE ~Handles(c)
  BY <1>2, <1>3, <1>5, OtherSteps DEF Calls, ToolPhase, Responding
<1>6. CASE Answer(c)
  <2>1. /\ UNCHANGED executed /\ responses < MaxResponses /\ responses' = responses + 1
        /\ q.resp = responses + 1
        /\ \/ q.pc = "assistant" /\ q.outcome = "text"
           \/ q.pc = "toolStarted" /\ q.outcome = "tool"
    BY <1>6, ResponseEffects
  <2>2. responses' \in DOMAIN executed /\ executed'[responses'] = 0
    BY <1>2, <1>3, <2>1 DEF Calls
  <2>3. Calls'
    BY <1>2, <1>3, <2>1, <2>2 DEF Calls, ToolSet
  <2>4. \A t \in toolLog' : t.resp # q.resp
    BY <1>2, <1>3, <2>1 DEF Calls
  <2>5. QED
    BY <1>2, <2>1, <2>2, <2>3, <2>4 DEF ToolPhase, Responding
<1>7. CASE RecordTool(c)
  <2>1. /\ p.pc = "toolStarted" /\ Turns(c, "execute") /\ UNCHANGED <<responses, executed>>
        /\ \E r : AppendRecord(c, r)
    BY <1>7, ResponseEffects, NewIntent DEF At
  <2>2. ~Ready(c)'
    BY <2>1, AppendedNotReady
  <2>3. q.pc = "execute" /\ q.resp = p.resp /\ q.outcome = p.outcome
    BY <2>1 DEF Turns, Keeps
  <2>4. QED
    BY <1>2, <1>3, <2>1, <2>2, <2>3 DEF Calls, ToolPhase, Responding
<1>8. CASE ExecuteTool(c)
  <2>1. /\ p.pc = "execute" /\ Ready(c) /\ Turns(c, "assistant") /\ UNCHANGED <<responses, chain>>
        /\ executed' = executed \/ executed' = [executed EXCEPT ![p.resp] = @ + 1]
    BY <1>8, ResponseEffects DEF At
  <2>2. q.pc = "assistant" /\ q.resp = p.resp /\ q.outcome = p.outcome /\ ToolOf(q) = ToolOf(p)
    BY <2>1 DEF Turns, Keeps, ToolOf
  <2>3. p.resp = responses
    BY <1>3, <2>1 DEF ToolPhase, Responding
  <2>4. Calls'
    BY <1>2, <1>3, <2>1, <2>3, SMTT(30) DEF Calls
  <2>5. QED
    BY <1>2, <1>3, <2>1, <2>2, <2>4 DEF ToolPhase, Responding
<1>9. CASE FlushAssistant(c) \/ WriteResult(c) \/ StepEnd(c)
  <2>1. /\ UNCHANGED <<responses, executed>> /\ p.pc \in {"assistant", "result", "stepEnd"}
        /\ Keeps(c) /\ q.outcome = p.outcome
        /\ q.pc \in {"result", "stepEnd", "abortNote", "top", "roundEnd"}
        /\ q.pc = "result" => p.pc = "assistant" /\ p.outcome = "tool"
    BY <1>9, LoopEffects, ResponseEffects DEF At, Turns, Still
  <2>2. q.resp = p.resp /\ ToolOf(q) = ToolOf(p)
    BY <2>1 DEF Keeps, ToolOf
  <2>3. QED
    BY <1>2, <1>3, <2>1, <2>2 DEF Calls, ToolPhase, Responding
<1>10. CASE Reconcile(c)
  <2>1. /\ UNCHANGED responses /\ p.pc = "reconcile" /\ q.pc \in {"reconcile", "replayed"}
        /\ \/ executed' = executed
           \/ \E k \in DOMAIN p.todo : executed' = [executed EXCEPT ![p.todo[k].resp] = @ + 1]
    BY <1>10, ResumeEffects DEF At, Lists, Unanswered
  <2>2. \A k \in DOMAIN p.todo : p.todo[k] \in toolLog
    BY <2>1 DEF Recalled, ToolTodo
  <2>3. \A r \in DOMAIN executed : r > responses => executed'[r] = executed[r]
    BY <1>2, <1>3, <2>1, <2>2, SMTT(30) DEF Calls
  <2>4. DOMAIN executed' = DOMAIN executed
    BY <2>1
  <2>5. Calls'
    BY <1>2, <1>3, <2>1, <2>3, <2>4 DEF Calls
  <2>6. QED
    BY <2>1, <2>5 DEF ToolPhase, Responding
<1>11. CASE WriteReplayed(c)
  BY <1>2, <1>3, <1>11, ResumeEffects DEF Calls, ToolPhase, Responding, Turns, Still
<1>12. QED
  BY <1>5, <1>6, <1>7, <1>8, <1>9, <1>10, <1>11 DEF Handles

LEMMA StepTools ==
    ASSUME OneCaller, BoundsAssumption, Shape, Life, Recalled, Fresh, Tools, [Next]_vars
    PROVE  Tools'
<1>1. CASE Commit
  <2>1. UNCHANGED <<proc, responses, executed>>
    BY <1>1, CommitEffects
  <2>2. ASSUME UNCHANGED toolLog,
               \A c \in Callers : proc[c].pc = "execute" => (Ready(c)' <=> Ready(c))
        PROVE  Tools'
    BY <2>1, <2>2 DEF Tools, Calls, ToolPhase
  <2>3. CASE Head(chain).put = "entry" \/ Head(chain).by \notin Callers
    <3>1. UNCHANGED toolLog
      <4>1. CASE CommitEntry(Head(chain).what)
        BY <4>1 DEF CommitEntry
      <4>2. CASE Head(chain).put = "record" /\ CommitRecord(Head(chain).what)
        BY <1>1, <2>3, <4>2, HeadGone DEF Life, OwnAppends, CommitRecord, ApiKinds
      <4>3. QED
        BY <1>1, <4>1, <4>2, CommitEffects
    <3>2. ASSUME NEW c \in Callers, proc[c].pc = "execute", Head(chain).by = c
          PROVE  FALSE
      BY <1>1, <2>3, <3>2, HeadGone DEF Life, OwnAppends, Due
    <3>3. QED
      BY <1>1, <2>2, <3>1, <3>2, HeadGone
  <2>4. ASSUME NEW c \in Callers, Head(chain).put = "record", Head(chain).by = c
        PROVE  Tools'
    <3>1. PICK r : r = Head(chain).what
      OBVIOUS
    <3>2. /\ CommitRecord(r) /\ Head(chain) = chain[1] /\ 1 \in DOMAIN chain
      BY <1>1, <2>4, <3>1, CommitEffects
    <3>3. DueRecord(proc[c], r)
      BY <2>4, <3>2, <3>1 DEF Life, OwnAppends, Due
    <3>4. CASE r.kind # "tool_started"
      BY <3>2, <3>3, <3>4, <2>2 DEF CommitRecord, DueRecord, OneCaller
    <3>5. CASE r.kind = "tool_started"
      <4>1. /\ proc[c].pc = "execute" /\ toolLog' = toolLog \cup {ToolOf(proc[c])}
        BY <3>2, <3>3, <3>5 DEF CommitRecord, DueRecord
      <4>2. ~Ready(c) /\ Ready(c)'
        BY <1>1, <2>4, <3>2, HeadGone DEF Ready
      <4>3. /\ proc[c].resp = responses /\ responses > 0 /\ \A t \in toolLog : t.resp # proc[c].resp
            /\ executed[proc[c].resp] = 0 /\ proc[c].outcome = "tool"
        BY <4>1, <4>2 DEF Tools, ToolPhase, Responding
      <4>4. ToolOf(proc[c]).resp = proc[c].resp
        BY DEF ToolOf
      <4>5. Calls'
        BY <2>1, <4>1, <4>3, <4>4 DEF Tools, Calls, Shape, HistoryShape
      <4>6. ToolPhase(proc[c], Ready(c))'
        BY <2>1, <4>1, <4>2, <4>3 DEF ToolPhase, Responding
      <4>7. QED
        BY <4>5, <4>6 DEF Tools, OneCaller
    <3>6. QED
      BY <3>4, <3>5
  <2>5. QED
    BY <1>1, <2>3, <2>4, CommitEffects
<1>2. CASE Crash
  BY <1>2 DEF Crash, disk, Tools, Calls, ToolPhase, Responding, Idle
<1>3. CASE Abort \/ DeferWrite \/ \E queue \in Queues : Enqueue(queue)
  <2>1. UNCHANGED <<proc, toolLog, responses, executed>>
    BY <1>3 DEF Abort, DeferWrite, Enqueue, disk
  <2>2. \A c \in Callers : Ready(c)' <=> Ready(c)
    BY <1>3, ApiReady
  <2>3. QED
    BY <2>1, <2>2 DEF Tools, Calls, ToolPhase
<1>4. CASE \E c \in Callers : Start(c) \/ Resume(c) \/ Drive(c)
  BY <1>4, ToolsCaller
<1>5. CASE UNCHANGED vars
  BY <1>5 DEF vars, live, disk, history, Tools, Calls, ToolPhase, Ready
<1>6. QED
  BY <1>1, <1>2, <1>3, <1>4, <1>5 DEF Next

-----------------------------------------------------------------------------
(* What runs, how often, and what remains of it.                           *)

(* The executions a caller adds: the first of a recorded call, or a replay *)
(* of a dangling call that is safe to replay and has no result.            *)
LEMMA Executions ==
    ASSUME Shape, Recalled, Tools, NEW c \in Callers, Start(c) \/ Resume(c) \/ Drive(c)
    PROVE  \/ executed' = executed
           \/ /\ proc[c].pc = "execute" /\ Ready(c) /\ ToolOf(proc[c]) \in toolLog
              /\ executed[proc[c].resp] = 0 /\ Turns(c, "assistant") /\ proc[c].outcome = "tool"
              /\ executed' = [executed EXCEPT ![proc[c].resp] = @ + 1]
           \/ \E t \in toolLog :
                /\ proc[c].pc = "reconcile" /\ Ready(c) /\ t.replay = "safe"
                /\ ~InTree(ResultIdOf(t.id))
                /\ proc'[c].pc = "replayed" /\ Head(proc'[c].todo) = t
                /\ executed' = [executed EXCEPT ![t.resp] = @ + 1]
<1> DEFINE p == proc[c]
<1>1. CASE ~Handles(c)
  BY <1>1, OtherSteps
<1>2. CASE Answer(c) \/ RecordTool(c) \/ StepEnd(c)
  BY <1>2, ResponseEffects
<1>3. CASE FlushAssistant(c) \/ WriteResult(c)
  BY <1>3, LoopEffects DEF Still
<1>4. CASE WriteReplayed(c)
  BY <1>4, ResumeEffects DEF Still
<1>5. CASE ExecuteTool(c)
  BY <1>5, ResponseEffects DEF At, Tools, ToolPhase
<1>6. CASE Reconcile(c)
  <2>1. p.pc = "reconcile" /\ Ready(c) /\ p.todo \in Seq(ToolSet)
    BY <1>6, ResumeEffects DEF At, Shape, ProcShape, ProcOK, ToolTodo
  <2>2. ASSUME executed' # executed
        PROVE  \E k \in Unanswered(c) :
                 /\ p.todo[k].replay = "safe"
                 /\ executed' = [executed EXCEPT ![p.todo[k].resp] = @ + 1]
                 /\ Lists(c, "replayed", SubSeq(p.todo, k, Len(p.todo)))
    BY <1>6, <2>2, ResumeEffects
  <2>3. ASSUME NEW k \in Unanswered(c), Lists(c, "replayed", SubSeq(p.todo, k, Len(p.todo)))
        PROVE  /\ proc'[c].pc = "replayed" /\ Head(proc'[c].todo) = p.todo[k]
               /\ p.todo[k] \in toolLog /\ ~InTree(ResultIdOf(p.todo[k].id))
    BY <2>1, <2>3, SuffixFrom DEF Unanswered, Recalled, ToolTodo, Lists
  <2>4. QED
    BY <2>1, <2>2, <2>3
<1>7. QED
  BY <1>1, <1>2, <1>3, <1>4, <1>5, <1>6 DEF Handles

(* Only a caller runs a tool, only a crash counts as one. *)
LEMMA OthersExecute ==
    ASSUME Commit \/ Crash \/ Abort \/ DeferWrite \/ (\E queue \in Queues : Enqueue(queue))
             \/ UNCHANGED vars
    PROVE  UNCHANGED executed
BY DEF Commit, Crash, Abort, DeferWrite, Enqueue, vars, history

LEMMA LogGrows == [Next]_vars => toolLog \subseteq toolLog'
BY OnlyCommitWrites, CommitEffects DEF Commit, CommitEntry, CommitRecord

LEMMA StepSideEffects ==
    ASSUME Shape, Recalled, Tools, SideEffectsAtMostOnce, [Next]_vars
    PROVE  SideEffectsAtMostOnce'
<1>1. toolLog \subseteq toolLog'
  BY LogGrows
<1>2. executed \in [1..MaxResponses -> Nat]
  BY DEF Shape, HistoryShape
<1>3. CASE UNCHANGED executed
  BY <1>1, <1>3 DEF SideEffectsAtMostOnce
<1>4. ASSUME NEW t \in toolLog, executed' = [executed EXCEPT ![t.resp] = @ + 1],
             t.replay = "never" => executed[t.resp] = 0
      PROVE  SideEffectsAtMostOnce'
  <2>1. ASSUME NEW r \in DOMAIN executed', executed'[r] > 0
        PROVE  \E u \in toolLog' : u.resp = r /\ (u.replay = "never" => executed'[r] = 1)
    BY <1>1, <1>2, <1>4, <2>1 DEF SideEffectsAtMostOnce
  <2>2. QED
    BY <2>1 DEF SideEffectsAtMostOnce
<1>5. ASSUME NEW c \in Callers, Start(c) \/ Resume(c) \/ Drive(c)
      PROVE  SideEffectsAtMostOnce'
  BY <1>3, <1>4, <1>5, Executions DEF ToolOf
<1>6. QED
  BY <1>3, <1>5, OthersExecute DEF Next

LEMMA OnceCounts == Shape /\ Once => ReplayedOncePerCrash
BY DEF Shape, HistoryShape, Once, ReplayedOncePerCrash

(* A result on its way is written, or stays on its way. *)
LEMMA AnsweredStays ==
    ASSUME OneCaller, Shape, Life, NEW c \in Callers, Start(c) \/ Resume(c) \/ Drive(c),
           NEW t \in toolLog, Answered(t)
    PROVE  Answered(t)'
<1> DEFINE p == proc[c]
           q == proc'[c]
<1>1. UNCHANGED entries
  BY CallerWrites
<1>2. \A id : Written(id) => Written(id)'
  <2>1. CASE UNCHANGED chain
    BY <1>1, <2>1, NothingAdds
  <2>2. ASSUME NEW a, chain' = Append(chain, a)
        PROVE  \A id : Written(id) => Written(id)'
    BY <2>2, <1>1 DEF Shape, ChainShape, Written, InTree
  <2>3. QED
    BY <2>1, <2>2, CallerIssues DEF Issuing
<1>3. CASE Written(ResultIdOf(t.id))
  BY <1>2, <1>3 DEF Answered
<1>4. CASE p.pc \in {"assistant", "result"} /\ p.outcome = "tool" /\ ToolOf(p) = t
  <2>1. p.pc \in Responding
    BY <1>4 DEF Responding
  <2>2. Handles(c)
    BY <2>1, OtherSteps
  <2>3. FlushAssistant(c) \/ WriteResult(c)
    BY <1>4, <2>2, ResponseEffects, ResumeEffects DEF Handles, At
  <2>4. CASE FlushAssistant(c)
    BY <1>4, <2>4, LoopEffects DEF Turns, Keeps, ToolOf, Answered
  <2>5. CASE WriteResult(c)
    BY <1>4, <2>5, LoopEffects, EntryAdds DEF Still, Slot, ToolOf, Answered
  <2>6. QED
    BY <2>3, <2>4, <2>5
<1>5. CASE p.pc = "replayed" /\ Head(p.todo) = t
  <2>1. Handles(c)
    BY <1>5, OtherSteps
  <2>2. WriteReplayed(c)
    BY <1>5, <2>1, ResponseEffects, LoopEffects, ResumeEffects DEF Handles, At
  <2>3. /\ UNCHANGED entries /\ \E what, tok : AppendEntry(c, ResultIdOf(t.id), what, tok)
    BY <1>5, <2>2, ResumeEffects DEF Still
  <2>4. Written(ResultIdOf(t.id))'
    BY <2>3, EntryAdds
  <2>5. QED
    BY <2>4 DEF Answered
<1>6. QED
  BY <1>3, <1>4, <1>5 DEF Answered, OneCaller

(* A coroutine that waits for nothing has its entries in the tree. *)
LEMMA ReadyInTree ==
    ASSUME OneCaller, Life, NEW c \in Callers, Ready(c), NEW id, Written(id)
    PROVE  InTree(id)
BY DEF OneCaller, Life, OwnAppends, Ready, Written

LEMMA StepOnce ==
    ASSUME OneCaller, BoundsAssumption, Shape, Life, Recalled, Tools, Once, [Next]_vars
    PROVE  Once'
<1>1. /\ executed \in [1..MaxResponses -> Nat] /\ used.crashes \in Nat
      /\ \A t \in toolLog : t.id \in IdSet /\ ResultIdOf(t.id) \in IdSet
  BY ToolIds, KindsOfIds, IdsAreIds DEF Shape, HistoryShape
<1>2. ASSUME UNCHANGED <<toolLog, executed>>, used'.crashes = used.crashes,
             \A t \in toolLog : Answered(t) => Answered(t)'
      PROVE  Once'
  BY <1>2 DEF Once
<1>3. CASE Commit
  <2>1. UNCHANGED <<proc, executed, used>>
    BY <1>3, CommitEffects
  <2>2. \A t \in toolLog : Answered(t) => Answered(t)'
    BY <1>1, <1>3, <2>1, CommitAdds DEF Answered
  <2>3. CASE UNCHANGED toolLog
    BY <1>2, <2>1, <2>2, <2>3
  <2>4. CASE ~UNCHANGED toolLog
    <3>1. PICK r : /\ r = Head(chain).what /\ CommitRecord(r) /\ r.kind = "tool_started"
                   /\ Head(chain) = chain[1] /\ 1 \in DOMAIN chain /\ Head(chain).put = "record"
      BY <1>3, <2>4, CommitEffects DEF CommitEntry, CommitRecord
    <3>2. PICK c \in Callers : Head(chain).by = c
      BY <3>1 DEF Life, OwnAppends, ApiKinds
    <3>3. proc[c].pc = "execute" /\ toolLog' = toolLog \cup {ToolOf(proc[c])}
      BY <3>1, <3>2 DEF Life, OwnAppends, Due, DueRecord, CommitRecord
    <3>4. executed[proc[c].resp] = 0 /\ ToolOf(proc[c]).resp = proc[c].resp
      BY <3>3 DEF Tools, ToolPhase, ToolOf
    <3>5. ASSUME NEW r2 \in DOMAIN executed, executed[r2] > used.crashes
          PROVE  r2 # proc[c].resp
      BY <1>1, <3>4, <3>5
    <3>6. QED
      BY <2>1, <2>2, <3>3, <3>4, <3>5 DEF Once
  <2>5. QED
    BY <2>3, <2>4
<1>4. CASE Crash
  <2>1. /\ UNCHANGED <<executed, toolLog>> /\ used'.crashes = used.crashes + 1
    BY <1>1, <1>4 DEF Crash, disk, Shape, HistoryShape
  <2>2. \A r \in DOMAIN executed : ~(executed[r] > used'.crashes)
    BY <1>1, <2>1 DEF Once
  <2>3. QED
    BY <2>1, <2>2 DEF Once
<1>5. CASE Abort \/ DeferWrite \/ \E queue \in Queues : Enqueue(queue)
  <2>1. UNCHANGED <<toolLog, executed, proc, entries>> /\ used'.crashes = used.crashes
    BY <1>5 DEF Abort, DeferWrite, Enqueue, disk, Shape, HistoryShape
  <2>2. \A id : Written(id) => Written(id)'
    BY <1>5, <2>1, RecordAdds, NothingAdds DEF Abort, DeferWrite, Enqueue
  <2>3. QED
    BY <1>2, <2>1, <2>2 DEF Answered
<1>6. ASSUME NEW c \in Callers, Start(c) \/ Resume(c) \/ Drive(c)
      PROVE  Once'
  <2>1. UNCHANGED <<toolLog, used>>
    BY <1>6, CallerWrites
  <2>2. \A t \in toolLog : Answered(t) => Answered(t)'
    BY <1>6, AnsweredStays
  <2>3. ASSUME NEW t \in toolLog, executed' = [executed EXCEPT ![t.resp] = @ + 1],
               executed[t.resp] <= used.crashes, Answered(t)'
        PROVE  Once'
    <3>1. \A u \in toolLog : u.resp = t.resp => u = t
      BY DEF Tools, Calls
    <3>2. ASSUME NEW r \in DOMAIN executed', executed'[r] > used'.crashes
          PROVE  executed'[r] = 1 + used'.crashes /\ \A u \in toolLog : u.resp = r => Answered(u)'
      <4>1. CASE r = t.resp
        BY <1>1, <2>1, <2>3, <3>1, <3>2, <4>1, SMTT(30)
      <4>2. CASE r # t.resp
        BY <1>1, <2>1, <2>2, <2>3, <3>2, <4>2 DEF Once
      <4>3. QED
        BY <4>1, <4>2
    <3>3. QED
      BY <2>1, <3>2 DEF Once
  <2>4. CASE executed' = executed
    BY <1>2, <2>1, <2>2, <2>4
  <2>5. CASE /\ proc[c].pc = "execute" /\ Ready(c) /\ ToolOf(proc[c]) \in toolLog
             /\ executed[proc[c].resp] = 0 /\ Turns(c, "assistant") /\ proc[c].outcome = "tool"
             /\ executed' = [executed EXCEPT ![proc[c].resp] = @ + 1]
    <3>1. /\ proc'[c].pc = "assistant" /\ proc'[c].outcome = "tool"
          /\ ToolOf(proc'[c]) = ToolOf(proc[c]) /\ ToolOf(proc[c]).resp = proc[c].resp
      BY <2>5 DEF Turns, Keeps, ToolOf
    <3>2. PICK t : t = ToolOf(proc[c])
      OBVIOUS
    <3>3. Answered(t)'
      BY <3>1, <3>2 DEF Answered
    <3>4. t.resp = proc[c].resp /\ t \in toolLog
      BY <2>5, <3>1, <3>2
    <3>5. executed[proc[c].resp] <= used.crashes
      BY <1>1, <2>5
    <3>6. QED
      BY <2>3, <2>5, <3>3, <3>4, <3>5
  <2>6. ASSUME NEW t \in toolLog, proc[c].pc = "reconcile", Ready(c), ~InTree(ResultIdOf(t.id)),
               proc'[c].pc = "replayed", Head(proc'[c].todo) = t,
               executed' = [executed EXCEPT ![t.resp] = @ + 1]
        PROVE  Once'
    <3>1. ~Answered(t)
      BY <2>6, ReadyInTree DEF Answered, OneCaller
    <3>2. t.resp \in DOMAIN executed => executed[t.resp] <= used.crashes
      BY <1>1, <3>1 DEF Once
    <3>3. Answered(t)'
      BY <2>6 DEF Answered
    <3>4. t.resp \in DOMAIN executed
      BY <1>1 DEF Tools, Calls, Shape, HistoryShape, BoundsAssumption
    <3>5. QED
      BY <2>3, <2>6, <3>2, <3>3, <3>4
  <2>7. QED
    BY <1>6, <2>4, <2>5, <2>6, Executions
<1>7. CASE UNCHANGED vars
  BY <1>7, <1>2, NothingAdds DEF vars, live, disk, history, Answered
<1>8. QED
  BY <1>3, <1>4, <1>5, <1>6, <1>7 DEF Next

-----------------------------------------------------------------------------

LEMMA InitRecorded == Init => Recorded
BY DEF Init, Idle, Recorded, ResponsesRecorded

LEMMA MessageKept ==
    ASSUME Shape, UNCHANGED entries, NEW by, Issuing(by), NEW r, Message(r)
    PROVE  Message(r)'
BY DEF Shape, ChainShape, Issuing, Message

LEMMA MessageCommitted ==
    ASSUME Shape, Life, Commit, NEW r, Message(r)
    PROVE  Message(r)'
<1> DEFINE h == Head(chain)
           e == h.what
<1>1. /\ \A i \in DOMAIN chain : i = 1 \/ (i - 1 \in DOMAIN chain' /\ chain'[i - 1] = chain[i])
      /\ 1 \in DOMAIN chain /\ h = chain[1]
  BY HeadGone
<1>2. entries \in Seq(EntrySet)
  BY DEF Shape, DiskShape
<1>3. CASE UNCHANGED entries /\ h.put # "entry"
  BY <1>1, <1>3 DEF Message
<1>4. CASE h.put = "entry" /\ e \in PutSet /\ CommitEntry(e)
  <2>1. PICK f : entries' = Append(entries, f) /\ f.what = e.what /\ f.tok = e.tok
    BY <1>4 DEF CommitEntry, PutSet
  <2>2. /\ DOMAIN entries' = DOMAIN entries \cup {Len(entries) + 1}
        /\ entries'[Len(entries) + 1] = f /\ \A i \in DOMAIN entries : entries'[i] = entries[i]
    BY <1>2, <2>1
  <2>3. QED
    BY <1>1, <2>1, <2>2 DEF Message
<1>5. QED
  BY <1>3, <1>4, CommitEffects DEF CommitRecord

(* The entry of a response is flushed under an id of its own. *)
LEMMA FlushWrites ==
    ASSUME Shape, Fresh, NEW c \in Callers, FlushAssistant(c)
    PROVE  Message(proc[c].resp)'
<1>1. /\ proc[c].pc = "assistant" /\ UNCHANGED entries
      /\ \E what \in {"text", "call"} : AppendEntry(c, Slot(c), what, proc[c].resp)
  BY LoopEffects DEF At, Still
<1>2. ~InTree(Slot(c))
  <2>1. SUFFICES ASSUME InTree(Slot(c))
                 PROVE  FALSE
    OBVIOUS
  <2>2. proc[c].op \in Nat /\ proc[c].att \in Nat /\ proc[c].step \in Nat
    BY DEF Shape, ProcShape, ProcSet
  <2>3. OldFor(proc[c], Ready(c), Slot(c), Flushing)
    BY <2>2, IdsAreIds, <2>1 DEF Slot, Fresh, FreshEntries, Written, Old
  <2>4. Slot(c).op = proc[c].op /\ Slot(c).att = proc[c].att /\ Slot(c).n = proc[c].step
    BY DEF Slot, AssistantId, Id
  <2>5. QED
    BY <1>1, <2>2, <2>3, <2>4 DEF OldFor, Looping, Flushing
<1>3. chain \in Seq(ChainSet)
  BY DEF Shape, ChainShape
<1>4. PICK a : /\ chain' = Append(chain, a) /\ a.put = "entry"
               /\ a.what.what \in {"text", "call"} /\ a.what.tok = proc[c].resp
  BY <1>1, <1>2 DEF AppendEntry
<1>5. Len(chain) + 1 \in DOMAIN chain' /\ chain'[Len(chain) + 1] = a
  BY <1>3, <1>4
<1>6. proc'[c].resp = proc[c].resp
  BY LoopEffects DEF Turns, Keeps
<1>7. \E i \in DOMAIN chain' : /\ chain'[i].put = "entry"
                               /\ chain'[i].what.what \in {"text", "call"}
                               /\ chain'[i].what.tok = proc[c].resp
  BY <1>4, <1>5
<1>8. PICK r : r = proc[c].resp
  OBVIOUS
<1>9. Message(r)'
  BY <1>7, <1>8 DEF Message
<1>10. QED
  BY <1>6, <1>8, <1>9 DEF Message

LEMMA RecordedCaller ==
    ASSUME OneCaller, Shape, Life, Fresh, Recorded, NEW c \in Callers,
           Start(c) \/ Resume(c) \/ Drive(c)
    PROVE  Recorded'
<1> DEFINE p == proc[c]
           q == proc'[c]
<1>1. UNCHANGED entries /\ Issuing(c)
  BY CallerWrites, CallerIssues
<1>2. ASSUME sealed' = sealed, q.pc \in {"result", "stepEnd"} => Message(proc[c].resp)'
      PROVE  Recorded'
  BY <1>1, <1>2 DEF Recorded, ResponsesRecorded, OneCaller
<1>3. CASE ~Handles(c)
  BY <1>2, <1>3, OtherSteps DEF Responding
<1>4. CASE Answer(c) \/ RecordTool(c) \/ ExecuteTool(c)
  BY <1>2, <1>4, ResponseEffects DEF Turns
<1>5. CASE Reconcile(c) \/ WriteReplayed(c)
  BY <1>5, ResumeEffects, <1>2 DEF Turns, Lists, Still, At
<1>6. CASE FlushAssistant(c)
  BY <1>2, <1>6, FlushWrites, LoopEffects DEF Still
<1>7. CASE WriteResult(c)
  BY <1>7, LoopEffects, <1>1, MessageKept, <1>2 DEF At, Turns, Keeps, Still, Recorded, Message
<1>8. CASE StepEnd(c)
  <2>1. /\ p.pc = "stepEnd" /\ Ready(c) /\ sealed' = sealed \cup {p.resp}
        /\ q.pc \in {"top", "roundEnd"}
    BY <1>8, ResponseEffects DEF At, Turns
  <2>2. \A i \in DOMAIN chain : chain[i].put # "entry"
    BY <2>1 DEF Life, OwnAppends, Ready, OneCaller
  <2>3. \E i \in DOMAIN entries : entries[i].what \in {"text", "call"} /\ entries[i].tok = p.resp
    BY <2>1, <2>2 DEF Recorded, Message
  <2>4. QED
    BY <1>1, <2>1, <2>3 DEF Recorded, ResponsesRecorded, OneCaller
<1>9. QED
  BY <1>3, <1>4, <1>5, <1>6, <1>7, <1>8 DEF Handles

LEMMA StepRecorded ==
    ASSUME OneCaller, Shape, Life, Fresh, Recorded, [Next]_vars
    PROVE  Recorded'
<1>1. CASE Commit
  <2>1. UNCHANGED <<proc, sealed>>
    BY <1>1, CommitEffects
  <2>2. \A r : Message(r) => Message(r)'
    BY <1>1, MessageCommitted
  <2>3. \A c \in Callers : proc'[c].pc \in {"result", "stepEnd"} => Message(proc[c].resp)'
    BY <2>1, <2>2 DEF Recorded
  <2>4. \A id \in DOMAIN entries : id \in DOMAIN entries' /\ entries'[id] = entries[id]
    BY <1>1, CommitEffects, SMTT(30) DEF CommitEntry, CommitRecord, Shape, DiskShape
  <2>5. QED
    BY <2>1, <2>3, <2>4 DEF Recorded, ResponsesRecorded
<1>2. CASE Crash
  BY <1>2 DEF Crash, disk, Idle, Recorded, ResponsesRecorded
<1>3. CASE Abort \/ DeferWrite \/ \E queue \in Queues : Enqueue(queue)
  BY <1>3, RecordIssuing, MessageKept DEF Abort, DeferWrite, Enqueue, disk, Issuing, Recorded,
     ResponsesRecorded
<1>4. CASE \E c \in Callers : Start(c) \/ Resume(c) \/ Drive(c)
  BY <1>4, RecordedCaller
<1>5. CASE UNCHANGED vars
  BY <1>5 DEF vars, live, disk, history, Recorded, ResponsesRecorded, Message
<1>6. QED
  BY <1>1, <1>2, <1>3, <1>4, <1>5 DEF Next

-----------------------------------------------------------------------------
(* The theorems.                                                           *)

(* Every resumed run writes under ids of its own and runs tools whose      *)
(* intent is on disk: the invariant the properties below rest on.          *)
THEOREM ResumeInvCorrect == OneCaller /\ OneRound /\ NoneIsNoName /\ Spec => []ResumeInv
<1> SUFFICES ASSUME OneCaller, OneRound, NoneIsNoName
             PROVE  Spec => []ResumeInv
  OBVIOUS
<1>1. BoundsAssumption /\ Init => ResumeInv
  BY InitRecalled, InitFresh, InitTools DEF ResumeInv
<1>2. BoundsAssumption /\ Shape /\ Shape' /\ Life /\ ResumeInv /\ [Next]_vars => ResumeInv'
  BY StepRecalled, StepFresh, StepTools DEF ResumeInv
<1>3. Spec => []Life
  BY LifeCorrect
<1>4. QED
  BY <1>1, <1>2, <1>3, ShapeCorrect, BoundsAssumption, PTL DEF Spec

(* Live appends and restore reduce to the same lane, whatever crashes and  *)
(* resumes came between: only the status tells the two apart.              *)
THEOREM LiveMatchesJournalCorrect ==
    OneCaller /\ OneRound /\ NoneIsNoName /\ Spec => []LiveMatchesJournal
<1> SUFFICES ASSUME OneCaller, OneRound, NoneIsNoName
             PROVE  Spec => []LiveMatchesJournal
  OBVIOUS
<1>1. Init => LiveMatchesJournal
  BY DEF Init, LiveMatchesJournal
<1>2. Shape /\ Shape' /\ ResumeInv /\ LiveMatchesJournal /\ [Next]_vars => LiveMatchesJournal'
  BY StepLive DEF ResumeInv
<1>3. Spec => []ResumeInv
  BY ResumeInvCorrect
<1>4. QED
  BY <1>1, <1>2, <1>3, ShapeCorrect, PTL DEF Spec

(* A tool with side effects runs at most once per call, and only with its  *)
(* intent on disk, whatever crashes and resumes came between.              *)
THEOREM SideEffectsCorrect ==
    OneCaller /\ OneRound /\ NoneIsNoName /\ Spec => []SideEffectsAtMostOnce
<1> SUFFICES ASSUME OneCaller, OneRound, NoneIsNoName
             PROVE  Spec => []SideEffectsAtMostOnce
  OBVIOUS
<1>1. Init => SideEffectsAtMostOnce
  BY DEF Init, SideEffectsAtMostOnce
<1>2. Shape /\ ResumeInv /\ SideEffectsAtMostOnce /\ [Next]_vars => SideEffectsAtMostOnce'
  BY StepSideEffects DEF ResumeInv
<1>3. Spec => []ResumeInv
  BY ResumeInvCorrect
<1>4. QED
  BY <1>1, <1>2, <1>3, ShapeCorrect, PTL DEF Spec

(* A replayable tool runs again only because a crash interrupted it.       *)
THEOREM ReplayedOncePerCrashCorrect ==
    OneCaller /\ OneRound /\ NoneIsNoName /\ Spec => []ReplayedOncePerCrash
<1> SUFFICES ASSUME OneCaller, OneRound, NoneIsNoName
             PROVE  Spec => []ReplayedOncePerCrash
  OBVIOUS
<1>1. Init => Once
  BY DEF Init, Once
<1>2. BoundsAssumption /\ Shape /\ Life /\ ResumeInv /\ Once /\ [Next]_vars => Once'
  BY StepOnce DEF ResumeInv
<1>3. Spec => []Life
  BY LifeCorrect
<1>4. Spec => []ResumeInv
  BY ResumeInvCorrect
<1>5. QED
  BY <1>1, <1>2, <1>3, <1>4, OnceCounts, ShapeCorrect, BoundsAssumption, PTL DEF Spec

(* Every answer of the model whose step ended is in the tree: no flush     *)
(* mistakes the entry of another attempt for its own.                      *)
THEOREM ResponsesRecordedCorrect ==
    OneCaller /\ OneRound /\ NoneIsNoName /\ Spec => []ResponsesRecorded
<1> SUFFICES ASSUME OneCaller, OneRound, NoneIsNoName
             PROVE  Spec => []ResponsesRecorded
  OBVIOUS
<1>1. Init => Recorded
  BY InitRecorded
<1>2. Shape /\ Life /\ ResumeInv /\ Recorded /\ [Next]_vars => Recorded'
  BY StepRecorded DEF ResumeInv
<1>3. Spec => []Life
  BY LifeCorrect
<1>4. Spec => []ResumeInv
  BY ResumeInvCorrect
<1>5. Recorded => ResponsesRecorded
  BY DEF Recorded
<1>6. QED
  BY <1>1, <1>2, <1>3, <1>4, <1>5, ShapeCorrect, PTL DEF Spec

-----------------------------------------------------------------------------
(* Queued items: what an abort hands back is out of the lane for good.     *)

LEMMA InitItems == Init => Items
BY DEF Init, InitLane, Items, Pending, InQueue

(* The append of a caller enqueues nothing. *)
LEMMA CallerEnqueues ==
    ASSUME Shape, Life', NEW c \in Callers, Start(c) \/ Resume(c) \/ Drive(c)
    PROVE  \/ UNCHANGED chain
           \/ \E a : chain' = Append(chain, a) /\ \A i : ~IsEnqueue(a, i)
<1>1. ASSUME NEW a, chain' = Append(chain, a), a.by = c
      PROVE  \A i : ~IsEnqueue(a, i)
  BY <1>1 DEF Shape, ChainShape, Life, OwnAppends, Due, DueRecord, IsEnqueue
<1>2. QED
  BY <1>1, CallerIssues DEF Issuing

(* An append that enqueues nothing leaves the items where they are. *)
LEMMA PendingKept ==
    ASSUME Shape, UNCHANGED chain \/ \E a : chain' = Append(chain, a) /\ \A i : ~IsEnqueue(a, i)
    PROVE  /\ \A i : Pending(i)' <=> Pending(i)
           /\ \A k \in DOMAIN chain' : \A i :
                IsEnqueue(chain'[k], i) => k \in DOMAIN chain /\ chain'[k] = chain[k]
<1>1. CASE UNCHANGED chain
  BY <1>1 DEF Pending
<1>2. ASSUME NEW a, chain' = Append(chain, a), \A i : ~IsEnqueue(a, i)
      PROVE  /\ \A i : Pending(i)' <=> Pending(i)
             /\ \A k \in DOMAIN chain' : \A i :
                  IsEnqueue(chain'[k], i) => k \in DOMAIN chain /\ chain'[k] = chain[k]
  BY <1>2 DEF Shape, ChainShape, Pending
<1>3. QED
  BY <1>1, <1>2

LEMMA ItemsKept ==
    ASSUME Shape, Items, lane'.queues = lane.queues, used'.items = used.items,
           UNCHANGED chain \/ \E a : chain' = Append(chain, a) /\ \A i : ~IsEnqueue(a, i)
    PROVE  Items'
BY PendingKept DEF Items, InQueue

LEMMA ToolQueues ==
    ASSUME Shape, NEW c \in Callers, Start(c) \/ Resume(c) \/ Drive(c)
    PROVE  lane'.queues = lane.queues
<1>1. CASE RecordTool(c)
  BY <1>1, ResponseEffects DEF ToolStarted, Shape, LaneShape, LaneSet
<1>2. QED
  BY <1>1, CallerLane

(* A reduced record grows only the queue of the item it enqueues. *)
LEMMA ReducedQueues ==
    ASSUME NEW l \in LaneSet, NEW r \in RecordSet, NEW q \in Queues, NEW i,
           NEW k \in DOMAIN ApplyRecord(l, r).queues[q], ApplyRecord(l, r).queues[q][k] = i
    PROVE  \/ \E m \in DOMAIN l.queues[q] : l.queues[q][m] = i
           \/ r.kind = "queue_enqueued" /\ r.queue = q /\ r.item = i
<1> DEFINE n == ApplyRecord(l, r)
<1>1. l.queues \in [Queues -> Seq(Nat)] /\ q \in {"steer", "followUp", "nextRun"}
  BY DEF LaneSet, Queues
<1>2. CASE r.kind = "queue_enqueued"
  <2>1. n.queues = [l.queues EXCEPT ![r.queue] = Append(@, r.item)]
    BY <1>2, ReducedFields
  <2>2. n.queues[q] = l.queues[q] \/ (r.queue = q /\ n.queues[q] = Append(l.queues[q], r.item))
    BY <1>1, <2>1
  <2>3. \A j \in DOMAIN Append(l.queues[q], r.item) :
          \/ j \in DOMAIN l.queues[q] /\ Append(l.queues[q], r.item)[j] = l.queues[q][j]
          \/ Append(l.queues[q], r.item)[j] = r.item
    BY <1>1
  <2>4. QED
    BY <1>2, <2>2, <2>3
<1>3. CASE r.kind = "operation_finished"
  <2>1. n.queues[q] \in {l.queues[q], << >>}
    <3>1. CASE l.op # None /\ l.op = r.op
      <4>1. /\ n.queues["steer"] = << >> /\ n.queues["nextRun"] = l.queues["nextRun"]
            /\ n.queues["followUp"] \in {l.queues["followUp"], << >>}
        BY <1>3, <3>1, ReducedFields, ZenonT(40)
      <4>2. QED
        BY <1>1, <4>1
    <3>2. CASE ~(l.op # None /\ l.op = r.op)
      BY <1>3, <3>2, ReducedFields
    <3>3. QED
      BY <3>1, <3>2
  <2>2. QED
    BY <2>1
<1>4. CASE r.kind \notin {"queue_enqueued", "operation_finished"}
  <2>1. n.queues = l.queues
    <3>1. CASE r.kind \in {"operation_started", "abort_requested"}
      BY <3>1, ReducedFields, ZenonT(40)
    <3>2. CASE r.kind \in {"tool_started", "task_attempt", "write_deferred"}
      BY <3>2, ReducedFields
    <3>3. QED
      BY <1>4, <3>1, <3>2, RecordKinds
  <2>2. QED
    BY <2>1
<1>5. QED
  BY <1>2, <1>3, <1>4

(* A commit moves an item from the chain to its queue. *)
LEMMA CommitQueued ==
    ASSUME Shape, Life, Items, Commit
    PROVE  /\ \A i : Pending(i)' => Pending(i) /\ ~IsEnqueue(Head(chain), i)
           /\ \A i : IsEnqueue(Head(chain), i) => Pending(i)
           /\ \A q \in Queues : \A i : InQueue(q, i)' =>
                InQueue(q, i) \/ (IsEnqueue(Head(chain), i) /\ Head(chain).what.queue = q)
<1> DEFINE h == Head(chain)
<1>1. /\ \A k \in DOMAIN chain' : k + 1 \in DOMAIN chain /\ chain'[k] = chain[k + 1]
      /\ 1 \in DOMAIN chain /\ h = chain[1] /\ DOMAIN chain \subseteq Nat
      /\ DOMAIN chain' \subseteq Nat \ {0}
  BY HeadGone DEF Shape, ChainShape, Commit
<1>2. \A i : Pending(i)' => Pending(i) /\ ~IsEnqueue(h, i)
  <2>1. SUFFICES ASSUME NEW i, NEW k \in DOMAIN chain', IsEnqueue(chain'[k], i)
                 PROVE  Pending(i) /\ ~IsEnqueue(h, i)
    BY DEF Pending
  <2>2. IsEnqueue(chain[k + 1], i) /\ k + 1 # 1 /\ k + 1 \in DOMAIN chain
    BY <1>1, <2>1
  <2>3. QED
    BY <1>1, <2>2 DEF Pending, Items
<1>3. \A i : IsEnqueue(h, i) => Pending(i)
  BY <1>1 DEF Pending
<1>4. CASE h.put = "entry" /\ CommitEntry(h.what)
  BY <1>2, <1>3, <1>4 DEF CommitEntry, InQueue
<1>5. CASE h.put = "record" /\ h.what \in RecordSet /\ CommitRecord(h.what)
  BY <1>5, ReducedQueues, <1>2, <1>3 DEF CommitRecord, Shape, LaneShape, InQueue, IsEnqueue
<1>6. QED
  BY <1>4, <1>5, CommitEffects

LEMMA CommitItems ==
    ASSUME Shape, Life, Items, Commit
    PROVE  Items'
<1>1. /\ \A k \in DOMAIN chain' : k + 1 \in DOMAIN chain /\ chain'[k] = chain[k + 1]
      /\ DOMAIN chain \subseteq Nat /\ DOMAIN chain' \subseteq Nat
  BY HeadGone DEF Shape, ChainShape, Commit
<1>2. used' = used
  BY CommitEffects
<1>3. \A k, m \in DOMAIN chain' : \A i : IsEnqueue(chain'[k], i) /\ IsEnqueue(chain'[m], i) => k = m
  <2>1. SUFFICES ASSUME NEW k \in DOMAIN chain', NEW m \in DOMAIN chain', NEW i,
                        IsEnqueue(chain'[k], i), IsEnqueue(chain'[m], i)
                 PROVE  k = m
    OBVIOUS
  <2>2. k + 1 = m + 1
    BY <1>1, <2>1 DEF Items
  <2>3. QED
    BY <1>1, <2>2
<1>4. \A q \in Queues : \A i : InQueue(q, i)' => i <= used'.items /\ ~Pending(i)'
  BY <1>2, CommitQueued DEF Items
<1>5. \A q, s \in Queues : \A i : InQueue(q, i)' /\ InQueue(s, i)' => q = s
  BY CommitQueued DEF Items
<1>6. QED
  BY <1>2, <1>3, <1>4, <1>5, CommitQueued DEF Items

LEMMA ApiItems ==
    ASSUME Shape, Items, Abort \/ DeferWrite \/ \E queue \in Queues : Enqueue(queue)
    PROVE  Items'
<1>1. lane'.queues = lane.queues /\ used \in [items : Nat, aborts : Nat, crashes : Nat]
  BY DEF Abort, DeferWrite, Enqueue, Shape, HistoryShape
<1>2. CASE Abort
  <2>1. used'.items = used.items
    BY <1>1, <1>2 DEF Abort
  <2>2. UNCHANGED chain \/ \E r : AppendRecord("api", r) /\ r.kind = "abort_requested"
    BY <1>2 DEF Abort
  <2>3. UNCHANGED chain \/ \E a : chain' = Append(chain, a) /\ \A i : ~IsEnqueue(a, i)
    <3>1. ASSUME NEW r, AppendRecord("api", r), r.kind = "abort_requested"
          PROVE  \E a : chain' = Append(chain, a) /\ \A i : ~IsEnqueue(a, i)
      <4> DEFINE a == [by |-> "api", put |-> "record", what |-> r]
      <4>1. chain' = Append(chain, a)
        BY <3>1 DEF AppendRecord
      <4>2. \A i : ~IsEnqueue(a, i)
        BY <3>1 DEF IsEnqueue
      <4>3. QED
        BY <4>1, <4>2
    <3>2. QED
      BY <2>2, <3>1
  <2>4. QED
    BY <1>1, <2>1, <2>3, ItemsKept
<1>3. CASE DeferWrite
  <2>1. used'.items = used.items + 1
    BY <1>1, <1>3 DEF DeferWrite
  <2>2. \E r : AppendRecord("api", r) /\ r.kind = "write_deferred"
    BY <1>3 DEF DeferWrite
  <2>3. \E a : chain' = Append(chain, a) /\ \A i : ~IsEnqueue(a, i)
    BY <2>2 DEF AppendRecord, IsEnqueue
  <2>4. /\ \A i : Pending(i)' <=> Pending(i)
        /\ \A k \in DOMAIN chain' : \A i :
             IsEnqueue(chain'[k], i) => k \in DOMAIN chain /\ chain'[k] = chain[k]
    BY <2>3, PendingKept
  <2>5. \A i : Pending(i) => i \in Nat
    BY DEF Pending, IsEnqueue, Shape, ChainShape, ChainSet, EntryAppends, RecordAppends,
       RecordSet, StartedSet, AbortSet, FinishedSet, ToolRecords, EnqueuedSet, AttemptSet, DeferredSet
  <2>6. \A q \in Queues : \A i : InQueue(q, i) => i \in Nat
    BY DEF InQueue, Shape, LaneShape, LaneSet
  <2>7. \A k, m \in DOMAIN chain' : \A i : IsEnqueue(chain'[k], i) /\ IsEnqueue(chain'[m], i) => k = m
    BY <2>4 DEF Items
  <2>8. \A i : Pending(i)' => i <= used'.items
    BY <1>1, <2>1, <2>4, <2>5 DEF Items
  <2>9. \A q \in Queues : \A i : InQueue(q, i)' => InQueue(q, i)
    BY <1>1 DEF InQueue
  <2>10. \A q \in Queues : \A i : InQueue(q, i)' => i <= used'.items /\ ~Pending(i)'
    BY <1>1, <2>1, <2>4, <2>6, <2>9 DEF Items
  <2>11. \A q, s \in Queues : \A i : InQueue(q, i)' /\ InQueue(s, i)' => q = s
    BY <2>9 DEF Items
  <2>12. QED
    BY <2>7, <2>8, <2>10, <2>11 DEF Items
<1>4. ASSUME NEW queue \in Queues, Enqueue(queue)
      PROVE  Items'
  <2>1. used'.items = used.items + 1
    BY <1>1, <1>4 DEF Enqueue
  <2>2. PICK a : chain' = Append(chain, a) /\ \A i : IsEnqueue(a, i) <=> i = used.items + 1
    BY <1>4 DEF Enqueue, AppendRecord, IsEnqueue
  <2>3. chain \in Seq(ChainSet)
    BY DEF Shape, ChainShape
  <2>4. /\ DOMAIN chain' = DOMAIN chain \cup {Len(chain) + 1}
        /\ chain'[Len(chain) + 1] = a /\ \A k \in DOMAIN chain : chain'[k] = chain[k]
    BY <2>2, <2>3
  <2>5. \A i : Pending(i)' <=> Pending(i) \/ i = used.items + 1
    BY <2>2, <2>4 DEF Pending
  <2>6. \A i : Pending(i) => i \in Nat /\ i <= used.items
    BY DEF Items, Pending, IsEnqueue, Shape, ChainShape, ChainSet, EntryAppends, RecordAppends,
       RecordSet, StartedSet, AbortSet, FinishedSet, ToolRecords, EnqueuedSet, AttemptSet, DeferredSet
  <2>7. \A q \in Queues : \A i : InQueue(q, i) => i \in Nat /\ i <= used.items
    BY DEF Items, InQueue, Shape, LaneShape, LaneSet
  <2>8. \A k, m \in DOMAIN chain' : \A i : IsEnqueue(chain'[k], i) /\ IsEnqueue(chain'[m], i) => k = m
    <3>1. SUFFICES ASSUME NEW k \in DOMAIN chain', NEW m \in DOMAIN chain', NEW i,
                          IsEnqueue(chain'[k], i), IsEnqueue(chain'[m], i)
                   PROVE  k = m
      OBVIOUS
    <3>2. CASE i = used.items + 1
      <4>1. ~Pending(i)
        BY <1>1, <2>6, <3>2
      <4>2. k \notin DOMAIN chain /\ m \notin DOMAIN chain
        BY <2>4, <3>1, <4>1 DEF Pending
      <4>3. QED
        BY <2>4, <4>2
    <3>3. CASE i # used.items + 1
      BY <2>2, <2>4, <3>1, <3>3 DEF Items
    <3>4. QED
      BY <3>2, <3>3
  <2>9. \A i : Pending(i)' => i <= used'.items
    BY <1>1, <2>1, <2>5, <2>6
  <2>10. \A q \in Queues : \A i : InQueue(q, i)' => InQueue(q, i)
    BY <1>1 DEF InQueue
  <2>11. \A q \in Queues : \A i : InQueue(q, i)' => i <= used'.items /\ ~Pending(i)'
    BY <1>1, <2>1, <2>5, <2>7, <2>10 DEF Items
  <2>12. QED
    BY <2>8, <2>9, <2>10, <2>11 DEF Items
<1>5. QED
  BY <1>2, <1>3, <1>4

LEMMA StepItems ==
    ASSUME Shape, Life, Life', Items, [Next]_vars
    PROVE  Items'
<1>1. CASE Commit
  BY <1>1, CommitItems
<1>2. CASE Crash
  <2>1. lane'.queues = lane.queues /\ chain' = << >> /\ used'.items = used.items
    BY <1>2 DEF Crash, FinishRestore, Life, OpenOps, Shape, DiskShape, LaneSet, HistoryShape
  <2>2. QED
    BY <2>1 DEF Items, Pending, InQueue
<1>3. CASE Abort \/ DeferWrite \/ \E queue \in Queues : Enqueue(queue)
  BY <1>3, ApiItems
<1>4. ASSUME NEW c \in Callers, Start(c) \/ Resume(c) \/ Drive(c)
      PROVE  Items'
  BY <1>4, ToolQueues, CallerWrites, CallerEnqueues, ItemsKept
<1>5. CASE UNCHANGED vars
  BY <1>5, ItemsKept DEF vars, live, history
<1>6. QED
  BY <1>1, <1>2, <1>3, <1>4, <1>5 DEF Next

-----------------------------------------------------------------------------

LEMMA Joined ==
    ASSUME NEW s \in Seq(Nat), NEW t \in Seq(Nat), NEW k \in DOMAIN (s \o t)
    PROVE  \/ \E j \in DOMAIN s : (s \o t)[k] = s[j]
           \/ \E j \in DOMAIN t : (s \o t)[k] = t[j]
<1>1. CASE k \in DOMAIN s
  BY <1>1
<1>2. CASE k \notin DOMAIN s
  BY <1>2
<1>3. QED
  BY <1>1, <1>2

LEMMA JoinedQueues ==
    ASSUME Shape, NEW q \in Queues, NEW r \in Queues,
           NEW k \in DOMAIN (lane.queues[q] \o lane.queues[r])
    PROVE  LET i == (lane.queues[q] \o lane.queues[r])[k]
           IN  i \in Nat /\ (InQueue(q, i) \/ InQueue(r, i))
<1>1. lane.queues[q] \in Seq(Nat) /\ lane.queues[r] \in Seq(Nat)
  BY DEF Shape, LaneShape, LaneSet
<1>2. PICK s \in Seq(Nat), t \in Seq(Nat) : s = lane.queues[q] /\ t = lane.queues[r]
  BY <1>1
<1>3. s \in Seq(Nat) /\ t \in Seq(Nat) /\ k \in DOMAIN (s \o t)
  BY <1>2
<1>4. (\E j \in DOMAIN s : (s \o t)[k] = s[j]) \/ \E j \in DOMAIN t : (s \o t)[k] = t[j]
  BY <1>3, Joined
<1>5. (s \o t)[k] \in Nat
  BY <1>3, <1>4
<1>6. QED
  BY <1>2, <1>4, <1>5 DEF InQueue

LEMMA ItemIdIs ==
    /\ \A i, j \in Nat : ItemId(i) = ItemId(j) => i = j
    /\ \A i \in Nat : ItemId(i) \in IdSet /\ ItemId(i) \in QueuedIds
    /\ \A i \in Nat : ItemId(i) \notin AssistantIds \cup DeferredIds /\ ItemId(i) # AutoId
    /\ \A i, op : ItemId(i) # CompactionId(op)
    /\ \A i : \A id \in AssistantIds : ResultIdOf(id) # ItemId(i)
BY DEF ItemId, Id, IdSet, IdsOf, IdKinds, QueuedIds, AssistantIds, DeferredIds, AutoId, CompactionId,
       ResultIdOf

(* Operations are only added. *)
LEMMA OpsGrow ==
    ASSUME Shape, [Next]_vars
    PROVE  \A op \in 1..Len(ops) : ops'[op] = ops[op]
<1>1. ops' = ops \/ \E o : ops' = Append(ops, o)
  <2>1. ASSUME NEW c \in Callers, Start(c)
        PROVE  \E o : ops' = Append(ops, o)
    BY <2>1, StartEffects
  <2>2. ASSUME NEW c \in Callers, Resume(c) \/ Drive(c)
        PROVE  ops' = ops
    BY <2>2 DEF Resume, Drive, BeforeRun, ApplyCompaction, NavigateStart, NavigateMove,
       MaterialiseInput, LoopTop, CheckpointWrites, CheckpointRead, CheckpointSteer, Ask, CutOff,
       Defer, Answer, RecordTool, ExecuteTool, FlushAssistant, WriteResult, StepEnd, RoundEnd, Park,
       AbortNote, AbortRead, AbortWrites, Finish, Release, Resumed, Redeem, EnsureAssistant,
       Reconcile, WriteReplayed, Reconciled, WriteTodo, Quiet, Silent, disk
  <2>3. Abort \/ DeferWrite \/ (\E queue \in Queues : Enqueue(queue)) \/ Commit \/ Crash
          \/ UNCHANGED vars => ops' = ops
    BY DEF vars, disk, Abort, DeferWrite, Enqueue, Commit, Crash
  <2>4. QED
    BY <2>1, <2>2, <2>3 DEF Next
<1>2. ops \in Seq(OpSet)
  BY DEF Shape, DiskShape
<1>3. ASSUME NEW o, ops' = Append(ops, o)
      PROVE  \A op \in 1..Len(ops) : ops'[op] = ops[op]
  BY <1>2, <1>3
<1>4. QED
  BY <1>1, <1>3

(* An item is written by a coroutine that aims at it. *)
LEMMA WritesItem ==
    ASSUME Shape, NEW c \in Callers, Start(c) \/ Resume(c) \/ Drive(c),
           NEW i \in Nat, Written(ItemId(i))'
    PROVE  Written(ItemId(i)) \/ Aims(c, i)
<1> DEFINE p == proc[c]
           id == ItemId(i)
           plain == \E x, what, tok : x # id /\ AppendEntry(c, x, what, tok)
           record == \E r : AppendRecord(c, r)
<1>1. ASSUME UNCHANGED entries, UNCHANGED chain \/ plain \/ record
      PROVE  Written(id)
  BY <1>1, EntryAdds, RecordAdds, NothingAdds
<1>2. CASE Start(c)
  BY <1>1, <1>2, StartEffects
<1>3. CASE Resume(c)
  BY <1>1, <1>3, ResumeStarts, ItemIdIs DEF Still
<1>4. CASE BeforeRun(c) \/ ApplyCompaction(c) \/ NavigateStart(c) \/ NavigateMove(c)
  BY <1>4, AcceptEffects, ItemIdIs, <1>1 DEF Still
<1>5. CASE MaterialiseInput(c)
  BY <1>5, AcceptEffects, <1>1 DEF Still, At, Feeds, Aims, Early
<1>6. CASE CheckpointSteer(c)
  <2>1. /\ UNCHANGED entries /\ p.pc = "steer"
        /\ \/ UNCHANGED chain
           \/ p.todo # << >> /\ \E what : AppendEntry(c, Head(p.todo), what, 0)
    BY <1>6, TodoEffects DEF Still, At, CheckpointSteer
  <2>2. p.todo # << >> => 1 \in DOMAIN p.todo /\ Head(p.todo) = p.todo[1]
    BY <2>1 DEF Shape, ProcShape, ProcOK, IdTodo
  <2>3. QED
    BY <1>1, <2>1, <2>2 DEF Aims
<1>7. CASE CheckpointWrites(c) \/ AbortWrites(c)
  <2>1. UNCHANGED entries /\ p.pc \in {"writes", "abortWrites"}
    BY <1>7, TodoEffects DEF Still, At, CheckpointWrites, AbortWrites
  <2>2. \/ UNCHANGED chain
        \/ p.todo # << >> /\ \E what : AppendEntry(c, Head(p.todo), what, 0)
    BY <1>7, TodoEffects DEF CheckpointWrites, AbortWrites
  <2>3. p.todo # << >> => Head(p.todo) # id
    BY <2>1, KindsOfIds, ItemIdIs DEF Shape, ProcShape, ProcOK, IdTodo
  <2>4. QED
    BY <1>1, <2>1, <2>2, <2>3
<1>8. CASE LoopTop(c) \/ CheckpointRead(c) \/ Ask(c) \/ Defer(c) \/ Park(c)
  BY <1>1, <1>8, LoopEffects, ItemIdIs DEF Still
<1>9. CASE CutOff(c) \/ FlushAssistant(c) \/ WriteResult(c)
  BY IdsAreIds, <1>9, LoopEffects, ItemIdIs, <1>1 DEF Slot, Shape, ProcShape, ProcSet, Still
<1>10. CASE Answer(c) \/ RecordTool(c) \/ ExecuteTool(c) \/ StepEnd(c)
  BY <1>1, <1>10, ResponseEffects
<1>11. CASE RoundEnd(c) \/ AbortNote(c) \/ AbortRead(c) \/ Finish(c) \/ Release(c)
  BY <1>11, EndEffects, ItemIdIs, <1>1 DEF Still
<1>12. CASE Resumed(c) \/ Redeem(c) \/ Reconciled(c)
  BY <1>1, <1>12, ResumeEffects, ItemIdIs DEF Still
<1>13. CASE EnsureAssistant(c) \/ Reconcile(c) \/ WriteReplayed(c)
  <2>1. p.pc \in {"ensure", "reconcile", "replayed"} /\ UNCHANGED entries
    BY <1>13, ResumeEffects DEF At, Still
  <2>2. p.todo \in Seq(ToolSet) /\ (p.pc = "replayed" => p.todo # << >>)
    BY <2>1 DEF Shape, ProcShape, ProcOK, ToolTodo
  <2>3. \A k \in DOMAIN p.todo : p.todo[k].id \in AssistantIds
    <3>1. \A k \in DOMAIN p.todo : p.todo[k] \in ToolSet
      BY <2>2
    <3>2. QED
      BY <3>1 DEF ToolSet
  <2>4. p.todo # << >> => 1 \in DOMAIN p.todo /\ Head(p.todo) = p.todo[1]
    BY <2>2
  <2>5. \/ UNCHANGED chain
        \/ \E k \in DOMAIN p.todo : \E x, what, tok :
             x \in {p.todo[k].id, ResultIdOf(p.todo[k].id)} /\ AppendEntry(c, x, what, tok)
    <3>1. CASE EnsureAssistant(c)
      BY <3>1, ResumeEffects
    <3>2. CASE Reconcile(c)
      BY <3>2, ResumeEffects DEF Unanswered
    <3>3. CASE WriteReplayed(c)
      BY <3>3, ResumeEffects, <2>2, <2>4 DEF At
    <3>4. QED
      BY <1>13, <3>1, <3>2, <3>3
  <2>6. UNCHANGED chain \/ plain
    BY <2>3, <2>5, ItemIdIs
  <2>7. QED
    BY <1>1, <2>1, <2>6
<1>14. QED
  BY <1>2, <1>3, <1>4, <1>5, <1>6, <1>7, <1>8, <1>9, <1>10, <1>11, <1>12, <1>13 DEF Drive

(* A coroutine aims at an item of the queues, or at the input of the open  *)
(* operation.                                                              *)
LEMMA AimsSteps ==
    ASSUME NoneIsNoName, Shape, Life, NEW c \in Callers, Start(c) \/ Resume(c) \/ Drive(c),
           NEW i \in Nat, Aims(c, i)'
    PROVE  \/ Aims(c, i)
           \/ lane.op # None /\ Feeds(lane.op, i)
           \/ \E q \in Queues : InQueue(q, i)
<1> DEFINE p == proc[c]
           q == proc'[c]
           aiming == {"beforeRun", "navigate", "compact", "move", "input"}
<1>1. q.pc \in aiming \/ q.pc = "steer"
  BY DEF Aims, Early
<1>2. p.pc # "idle" => ops'[p.op] = ops[p.op]
  BY OpsShape, OpsGrow DEF Next
<1>3. p.pc \in Working => p.op = lane.op /\ lane.op # None
  BY DEF Life, Phases, Phase, Shape, ProcShape, ProcOK, Working, Early, DiskShape, NoneIsNoName
<1>4. p.pc \in aiming /\ q.pc \in aiming /\ q.op = p.op => Aims(c, i)
  BY <1>2 DEF Aims, Early, Feeds
<1>5. p.pc \in Working /\ q.pc \in aiming /\ q.op = p.op => lane.op # None /\ Feeds(lane.op, i)
  BY <1>2, <1>3 DEF Working, Early, Aims, Feeds
<1>6. CASE Start(c)
  <2>1. PICK kind \in OpKinds, input \in InputIds \cup {None} :
          /\ ops' = Append(ops, [kind |-> kind, input |-> input])
          /\ \/ input = None \/ input \notin QueuedIds
             \/ \E k \in DOMAIN Waiting : input = ItemId(Waiting[k])
    BY <1>6, StartEffects
  <2>2. q.op = Len(ops) + 1 /\ q.pc \in aiming
    BY <1>6, StartEffects
  <2>3. ops \in Seq(OpSet)
    BY DEF Shape, DiskShape
  <2>4. ops'[Len(ops) + 1] = [kind |-> kind, input |-> input]
    BY <2>1, <2>3
  <2>5. input # None /\ input = ItemId(i)
    BY <2>2, <2>4 DEF Aims, Feeds
  <2>6. PICK k \in DOMAIN Waiting : ItemId(i) = ItemId(Waiting[k])
    BY <2>1, <2>5, ItemIdIs
  <2>7. /\ Waiting[k] \in Nat
        /\ InQueue("followUp", Waiting[k]) \/ InQueue("nextRun", Waiting[k])
    BY <2>6, JoinedQueues DEF Waiting, Queues
  <2>8. Waiting[k] = i
    BY <2>6, <2>7, ItemIdIs
  <2>9. QED
    BY <2>7, <2>8 DEF Queues
<1>7. CASE Resume(c)
  BY <1>1, <1>7, ResumeStarts
<1>8. CASE BeforeRun(c) \/ ApplyCompaction(c) \/ NavigateStart(c) \/ NavigateMove(c)
             \/ MaterialiseInput(c)
  BY <1>1, <1>4, <1>8, AcceptEffects DEF Turns, Keeps, Ends, At, Idle
<1>9. CASE CheckpointWrites(c) \/ AbortWrites(c)
  BY <1>1, <1>9, TodoEffects DEF Turns, Lists, CheckpointWrites, AbortWrites
<1>10. CASE CheckpointSteer(c)
  <2>1. /\ p.pc = "steer"
        /\ \/ q.pc = "ask"
           \/ p.todo # << >> /\ q.pc = "steer" /\ q.todo = Tail(p.todo)
    BY <1>10, TodoEffects DEF Turns, Lists, CheckpointSteer, At
  <2>2. p.todo \in Seq(TodoIds("steer"))
    BY <2>1 DEF Shape, ProcShape, ProcOK, IdTodo
  <2>3. p.todo # << >> => \A k \in DOMAIN Tail(p.todo) :
          k + 1 \in DOMAIN p.todo /\ Tail(p.todo)[k] = p.todo[k + 1]
    BY <2>2
  <2>4. QED
    BY <1>1, <2>1, <2>3 DEF Aims, Early
<1>11. CASE CheckpointRead(c)
  <2>1. q.pc = "steer" /\ q.todo = ItemIds(lane.queues["steer"])
    BY <1>11, LoopEffects DEF Lists
  <2>2. PICK k \in DOMAIN q.todo : q.todo[k] = ItemId(i)
    BY <2>1 DEF Aims, Early
  <2>3. lane.queues["steer"] \in Seq(Nat)
    BY DEF Shape, LaneShape, LaneSet, Queues
  <2>4. k \in DOMAIN lane.queues["steer"] /\ ItemId(lane.queues["steer"][k]) = ItemId(i)
    BY <2>1, <2>2 DEF ItemIds
  <2>5. lane.queues["steer"][k] = i
    BY <2>3, <2>4, ItemIdIs
  <2>6. QED
    BY <2>4, <2>5 DEF InQueue, Queues
<1>12. CASE LoopTop(c) \/ Ask(c) \/ CutOff(c) \/ Defer(c) \/ FlushAssistant(c) \/ WriteResult(c)
             \/ Park(c)
  BY <1>1, <1>12, LoopEffects DEF Turns, Ends, Lists
<1>13. CASE Answer(c) \/ RecordTool(c) \/ ExecuteTool(c) \/ StepEnd(c)
  BY <1>1, <1>13, ResponseEffects DEF Turns
<1>14. CASE RoundEnd(c) \/ AbortNote(c) \/ AbortRead(c) \/ Finish(c) \/ Release(c)
  <2>1. q.pc \in {"top", "finish", "abortRead", "abortWrites", "release"} \/ q = Idle
    BY <1>14, EndEffects DEF Turns, Ends
  <2>2. QED
    BY <1>1, <2>1 DEF Idle
<1>15. CASE Resumed(c) \/ Reconciled(c)
  BY <1>15, ResumeEffects, <1>1, <1>5 DEF Turns, Keeps, At, Working, Early, Labels
<1>16. CASE Redeem(c) \/ EnsureAssistant(c) \/ Reconcile(c) \/ WriteReplayed(c)
  BY <1>16, ResumeEffects, <1>1 DEF Turns, Ends, Lists, At, Idle
<1>17. QED
  BY <1>6, <1>7, <1>8, <1>9, <1>10, <1>11, <1>12, <1>13, <1>14, <1>15, <1>16 DEF Drive

LEMMA GoneCaller ==
    ASSUME OneCaller, NoneIsNoName, Shape, Life, Life', NEW c \in Callers,
           Start(c) \/ Resume(c) \/ Drive(c), NEW i \in Nat, Gone(i)
    PROVE  Gone(i)'
<1>1. used' = used /\ lane'.queues = lane.queues
  BY CallerWrites, ToolQueues
<1>2. Pending(i)' <=> Pending(i)
  BY CallerEnqueues, PendingKept
<1>3. ~Written(ItemId(i))'
  BY WritesItem DEF Gone
<1>4. \A q \in Queues : ~InQueue(q, i)'
  BY <1>1 DEF Gone, InQueue
<1>5. lane'.op = lane.op
  <2>1. CASE RecordTool(c)
    BY <2>1, ResponseEffects DEF ToolStarted, Shape, LaneShape, LaneSet
  <2>2. QED
    BY <2>1, CallerLane
<1>6. lane.op # None => ops'[lane.op] = ops[lane.op]
  BY OpsGrow DEF Next, Shape, LaneShape
<1>7. lane'.op # None => ~Feeds(lane.op, i)'
  BY <1>5, <1>6 DEF Gone, Feeds
<1>8. \A d \in Callers : ~Aims(d, i)'
  BY AimsSteps DEF Gone, OneCaller
<1>9. QED
  BY <1>1, <1>2, <1>3, <1>4, <1>5, <1>7, <1>8 DEF Gone, Feeds

LEMMA GoneCommit ==
    ASSUME NoneIsNoName, Shape, Life, Items, Commit, NEW i \in Nat, Gone(i)
    PROVE  Gone(i)'
<1> DEFINE h == Head(chain)
<1>1. UNCHANGED <<proc, ops, used>> /\ h = chain[1] /\ 1 \in DOMAIN chain
  BY CommitEffects
<1>2. ~Pending(i)' /\ \A q \in Queues : ~InQueue(q, i)'
  BY CommitQueued DEF Gone
<1>3. ~Written(ItemId(i))'
  BY CommitAdds, ItemIdIs DEF Gone
<1>4. lane'.op # None => ~Feeds(lane'.op, i)
  <2>1. CASE h.put = "entry" /\ CommitEntry(h.what)
    BY <2>1 DEF CommitEntry, Gone
  <2>2. CASE h.put = "record" /\ h.what \in RecordSet /\ CommitRecord(h.what)
    <3>1. PICK r \in RecordSet : r = h.what
      BY <2>2
    <3>2. /\ r.kind = "operation_started" => lane'.op = r.op
          /\ r.kind = "operation_finished" => lane'.op = None
          /\ r.kind \notin {"operation_started", "operation_finished"} => lane'.op = lane.op
      BY <1>1, <2>2, <3>1, HeadDue, CommitEffects, OpenCommit DEF Life
    <3>3. ASSUME r.kind = "operation_started"
          PROVE  ~Feeds(r.op, i)
      BY <1>1, <2>2, <3>1, <3>3 DEF Life, OwnAppends, Due, ApiKinds, DueRecord, Gone, Aims,
         Early
    <3>4. QED
      BY <3>2, <3>3 DEF Gone
  <2>3. QED
    BY <2>1, <2>2, CommitEffects
<1>5. QED
  BY <1>1, <1>2, <1>3, <1>4 DEF Gone, Feeds, Aims

(* A call of the api enqueues only a new item. *)
LEMMA ApiQueued ==
    ASSUME Shape, Abort \/ DeferWrite \/ \E queue \in Queues : Enqueue(queue)
    PROVE  /\ used.items <= used'.items /\ used'.items \in Nat /\ lane' = lane /\ ops' = ops /\ proc' = proc
           /\ \A i : i <= used.items /\ Pending(i)' => Pending(i)
<1>1. used \in [items : Nat, aborts : Nat, crashes : Nat] /\ chain \in Seq(ChainSet)
  BY DEF Shape, HistoryShape, ChainShape
<1>2. lane' = lane /\ ops' = ops /\ proc' = proc
  BY DEF Abort, DeferWrite, Enqueue, disk
<1>3. used'.items \in {used.items, used.items + 1}
  BY <1>1 DEF Abort, DeferWrite, Enqueue
<1>4. \/ UNCHANGED chain
      \/ \E r : AppendRecord("api", r) /\ (r.kind = "queue_enqueued" => r.item = used.items + 1)
  <2>1. Abort => UNCHANGED chain \/ \E r : AppendRecord("api", r) /\ r.kind = "abort_requested"
    BY DEF Abort
  <2>2. DeferWrite => \E r : AppendRecord("api", r) /\ r.kind = "write_deferred"
    BY DEF DeferWrite
  <2>3. ASSUME NEW queue \in Queues, Enqueue(queue)
        PROVE  \E r : AppendRecord("api", r) /\ r.item = used.items + 1
    <3> DEFINE r == [kind |-> "queue_enqueued", queue |-> queue, item |-> used.items + 1]
    <3>1. AppendRecord("api", r) /\ r.item = used.items + 1
      BY <2>3 DEF Enqueue
    <3> HIDE DEF r
    <3>2. QED
      BY <3>1
  <2>4. QED
    BY <2>1, <2>2, <2>3
<1>5. \A i : i <= used.items /\ Pending(i)' => Pending(i)
  <2>1. CASE UNCHANGED chain
    BY <2>1 DEF Pending
  <2>2. ASSUME NEW r, AppendRecord("api", r), r.kind = "queue_enqueued" => r.item = used.items + 1
        PROVE  \A i : i <= used.items /\ Pending(i)' => Pending(i)
    <3>1. PICK a : chain' = Append(chain, a) /\ a.what = r
      BY <2>2 DEF AppendRecord
    <3>2. /\ DOMAIN chain' = DOMAIN chain \cup {Len(chain) + 1}
          /\ chain'[Len(chain) + 1] = a /\ \A k \in DOMAIN chain : chain'[k] = chain[k]
      BY <1>1, <3>1
    <3>3. \A i : IsEnqueue(a, i) => i = used.items + 1
      BY <2>2, <3>1 DEF IsEnqueue
    <3>4. ~(used.items + 1 <= used.items)
      BY <1>1
    <3>5. QED
      BY <3>2, <3>3, <3>4 DEF Pending
  <2>3. QED
    BY <1>4, <2>1, <2>2
<1>6. QED
  BY <1>1, <1>2, <1>3, <1>5

LEMMA GoneStep ==
    ASSUME BoundsAssumption, OneCaller, NoneIsNoName, Shape, Life, Life', Items, [Next]_vars,
           NEW i \in Nat, Gone(i)
    PROVE  Gone(i)'
<1>1. CASE Commit
  BY <1>1, GoneCommit
<1>2. CASE Crash
  <2>1. /\ lane'.queues = lane.queues /\ lane'.op = lane.op
        /\ chain' = << >> /\ used'.items = used.items /\ ops' = ops /\ entries' = entries
        /\ \A c \in Callers : proc'[c] = Idle
    BY <1>2 DEF Crash, FinishRestore, Life, OpenOps, Shape, DiskShape, LaneSet, HistoryShape, disk
  <2>2. ~Written(ItemId(i))'
    BY <2>1 DEF Gone, Written, InTree
  <2>3. \A c \in Callers : ~Aims(c, i)'
    BY <2>1 DEF Aims, Idle
  <2>4. QED
    BY <2>1, <2>2, <2>3 DEF Gone, Pending, InQueue, Feeds
<1>3. CASE Abort \/ DeferWrite \/ \E queue \in Queues : Enqueue(queue)
  <2>1. i <= used'.items
    <3>1. used.items \in Nat
      BY DEF Shape, HistoryShape
    <3>2. QED
      BY <1>3, <3>1, ApiQueued DEF Gone
  <2>2. QED
    BY <1>3, <2>1, ApiQueued, ApiReady DEF Gone, InQueue, Feeds, Aims
<1>4. ASSUME NEW c \in Callers, Start(c) \/ Resume(c) \/ Drive(c)
      PROVE  Gone(i)'
  BY <1>4, GoneCaller
<1>5. CASE UNCHANGED vars
  BY <1>5, NothingAdds DEF vars, live, disk, history, Gone, Pending, InQueue, Feeds, Aims
<1>6. QED
  BY <1>1, <1>2, <1>3, <1>4, <1>5 DEF Next

(* A caller that aims at no item leaves a dying item as it is. *)
LEMMA DyingCaller ==
    ASSUME Shape, Life, Life', NEW c \in Callers, AbortRead(c) \/ AbortWrites(c) \/ Finish(c),
           NEW i \in Nat, Dying(i)
    PROVE  Dying(i)'
<1>1. proc[c].pc \in {"abortRead", "abortWrites", "finish"}
  BY EndEffects, TodoEffects DEF AbortWrites, At
<1>2. Drive(c)
  BY DEF Drive
<1>3. ~Written(ItemId(i))'
  BY <1>1, <1>2, WritesItem DEF Dying, Aims, Early
<1>4. used' = used /\ lane'.queues = lane.queues
  BY <1>2, CallerWrites, ToolQueues
<1>5. ~Pending(i)'
  BY <1>2, CallerEnqueues, PendingKept DEF Dying
<1>6. QED
  BY <1>3, <1>4, <1>5 DEF Dying, InQueue

(* Only the end of the operation takes a dying item out of its queue. *)
LEMMA DyingCommit ==
    ASSUME Shape, Life, Items, Commit, NEW i \in Nat, Dying(i),
           Head(chain).put = "record" => Head(chain).what.kind # "operation_finished"
    PROVE  Dying(i)'
<1> DEFINE h == Head(chain)
<1>1. ~Pending(i)' /\ ~Written(ItemId(i))' /\ used' = used
  BY CommitQueued, CommitAdds, CommitEffects, ItemIdIs DEF Dying
<1>2. \A q \in Queues : InQueue(q, i) => InQueue(q, i)'
  <2>1. CASE h.put = "entry" /\ CommitEntry(h.what)
    BY <2>1 DEF CommitEntry, InQueue
  <2>2. CASE h.put = "record" /\ h.what \in RecordSet /\ CommitRecord(h.what)
    <3>1. PICK r \in RecordSet : r = h.what
      BY <2>2
    <3>2. lane' = ApplyRecord(lane, r) /\ lane \in LaneSet /\ lane.queues \in [Queues -> Seq(Nat)]
      BY <2>2, <3>1 DEF CommitRecord, Shape, LaneShape, LaneSet
    <3>3. \/ lane'.queues = lane.queues
          \/ r.kind = "queue_enqueued" /\ lane'.queues = [lane.queues EXCEPT ![r.queue] = Append(@, r.item)]
      <4>1. CASE r.kind = "queue_enqueued"
        BY <3>2, <4>1, ReducedFields
      <4>2. CASE r.kind \in {"operation_started", "abort_requested"}
        BY <3>2, <4>2, ReducedFields, ZenonT(40)
      <4>3. CASE r.kind \in {"tool_started", "task_attempt", "write_deferred"}
        BY <3>2, <4>3, ReducedFields
      <4>4. r.kind # "operation_finished"
        BY <2>2, <3>1
      <4>5. QED
        BY <4>1, <4>2, <4>3, <4>4, RecordKinds
    <3>4. ASSUME NEW q \in Queues, NEW k \in DOMAIN lane.queues[q]
          PROVE  k \in DOMAIN lane'.queues[q] /\ lane'.queues[q][k] = lane.queues[q][k]
      <4>1. CASE lane'.queues[q] = lane.queues[q]
        BY <4>1
      <4>2. CASE lane'.queues[q] = Append(lane.queues[q], r.item)
        BY <3>2, <4>2
      <4>3. QED
        BY <3>2, <3>3, <4>1, <4>2
    <3>5. QED
      BY <3>4 DEF InQueue
  <2>3. QED
    BY <2>1, <2>2, CommitEffects
<1>3. QED
  BY <1>1, <1>2 DEF Dying, Queues

(* The end of an aborted operation empties the queues of a dying item. *)
LEMMA DyingEnds ==
    ASSUME NoneIsNoName, Shape, Life, Items, Commit, NEW i \in Nat, Dying(i),
           Head(chain).put = "record", Head(chain).what.kind = "operation_finished",
           Head(chain).what.outcome = "aborted", \A c \in Callers : proc[c].pc = "release"
    PROVE  Gone(i)'
<1>1. ~Pending(i)' /\ ~Written(ItemId(i))' /\ UNCHANGED <<used, proc>>
  BY CommitQueued, CommitAdds, CommitEffects, ItemIdIs DEF Dying
<1>2. PICK r \in RecordSet : r = Head(chain).what /\ CommitRecord(r)
  BY CommitEffects
<1>3. lane' = ApplyRecord(lane, r) /\ lane \in LaneSet
  BY <1>2 DEF CommitRecord, Shape, LaneShape
<1>4. lane.op # None /\ lane.op = r.op
  BY <1>2, HeadDue, CommitEffects, RecordKinds DEF NoneIsNoName
<1>5. /\ lane'.op = None /\ lane'.queues["steer"] = << >> /\ lane'.queues["followUp"] = << >>
      /\ lane'.queues["nextRun"] = lane.queues["nextRun"]
  BY <1>2, <1>3, <1>4, ReducedFields
<1>6. ~InQueue("nextRun", i)
  BY DEF Dying, Items, Queues
<1>7. \A q \in Queues : ~InQueue(q, i)'
  BY <1>5, <1>6 DEF InQueue, Queues
<1>8. \A c \in Callers : ~Aims(c, i)'
  BY <1>1 DEF Aims, Early
<1>9. QED
  BY <1>1, <1>5, <1>7, <1>8 DEF Gone, Dying

(* The other steps of a caller hand nothing back. *)
LEMMA HandsNothing ==
    ASSUME Shape, NEW c \in Callers, Start(c) \/ Resume(c) \/ Drive(c), HandsBack(c),
           ~AbortNote(c), ~AbortRead(c), ~AbortWrites(c), ~Finish(c), ~Release(c)
    PROVE  proc'[c].dead = {} /\ UNCHANGED returned
<1>1. CASE Start(c) \/ Resume(c)
  BY <1>1, StartEffects, ResumeStarts DEF Still
<1>2. CASE BeforeRun(c) \/ ApplyCompaction(c) \/ NavigateStart(c) \/ NavigateMove(c)
             \/ MaterialiseInput(c)
  BY <1>2, AcceptEffects DEF Still, Turns, Ends, Idle, At, HandsBack, Aborted
<1>3. CASE CheckpointWrites(c) \/ CheckpointSteer(c)
  BY <1>3, TodoEffects DEF Still, Turns, Lists, At, HandsBack, Aborted, CheckpointWrites,
     CheckpointSteer
<1>4. CASE LoopTop(c) \/ CheckpointRead(c) \/ Ask(c) \/ CutOff(c) \/ Defer(c)
             \/ FlushAssistant(c) \/ WriteResult(c) \/ Park(c)
  BY <1>4, LoopEffects DEF Still, Turns, Ends, Lists, At, HandsBack, Aborted
<1>5. CASE Answer(c) \/ RecordTool(c) \/ ExecuteTool(c) \/ StepEnd(c)
  BY <1>5, ResponseEffects DEF Turns, At, HandsBack, Aborted
<1>6. CASE RoundEnd(c)
  BY <1>6, EndEffects DEF Still, Ends, At, HandsBack, Aborted
<1>7. CASE Resumed(c) \/ Redeem(c) \/ EnsureAssistant(c) \/ Reconcile(c) \/ WriteReplayed(c)
             \/ Reconciled(c)
  BY <1>7, ResumeEffects DEF Still, At, Turns, Ends, Lists, HandsBack, Aborted, Idle
<1>8. QED
  BY <1>1, <1>2, <1>3, <1>4, <1>5, <1>6, <1>7 DEF Drive

LEMMA HandedCaller ==
    ASSUME OneCaller, NoneIsNoName, Shape, Shape', Life, Life', Items, Handed, NEW c \in Callers,
           Start(c) \/ Resume(c) \/ Drive(c)
    PROVE  Handed'
<1>1. \A i \in returned : i \in Nat
  BY DEF Shape, HistoryShape
<1>2. \A i \in proc[c].dead : i \in Nat
  BY DEF Shape, ProcShape, ProcSet
<1>3. \A i \in returned : Gone(i)'
  BY <1>1, GoneCaller DEF Handed
<1>4. \A d \in Callers : d = c
  BY DEF OneCaller
<1>5. HandsBack(c)
  BY DEF Handed
<1>6. CASE AbortNote(c)
  <2> DEFINE steer == lane.queues["steer"]
             followUp == lane.queues["followUp"]
             queued == steer \o followUp
  <2>1. /\ proc[c].pc = "abortNote" /\ Ready(c) /\ Still /\ proc'[c].pc = "abortRead"
        /\ AppendEntry(c, AutoId, "aborted", 0)
        /\ proc'[c].dead = { queued[k] : k \in Unconsumed(queued) }
    BY <1>6, EndEffects DEF At
  <2>3. \A id : Written(id)' <=> Written(id) \/ id = AutoId
    BY <2>1, EntryAdds DEF Still
  <2>4. \A i : Pending(i)' <=> Pending(i)
    BY CallerEnqueues, PendingKept
  <2>5. ASSUME NEW i \in proc'[c].dead
        PROVE  Dying(i)'
    <3>1. PICK k \in DOMAIN queued : queued[k] = i /\ ~InTree(ItemId(queued[k]))
      BY <2>1 DEF Unconsumed
    <3>2. i \in Nat /\ (InQueue("steer", i) \/ InQueue("followUp", i))
      BY <3>1, JoinedQueues DEF Queues
    <3>5. i <= used.items /\ ~Pending(i)
      BY <3>2 DEF Items, Queues
    <3>6. ~Written(ItemId(i))
      BY <2>1, <3>1, ReadyInTree
    <3>7. used' = used /\ lane' = lane
      BY <2>1 DEF Still
    <3>8. QED
      BY <2>3, <2>4, <3>2, <3>5, <3>6, <3>7, ItemIdIs DEF Dying, InQueue
  <2>6. HandsBack(c)'
    BY <2>1, <2>5 DEF HandsBack, Aborted
  <2>7. QED
    BY <1>3, <1>4, <2>1, <2>6 DEF Handed, Still
<1>7. CASE AbortRead(c) \/ AbortWrites(c) \/ Finish(c)
  <2>1. /\ proc[c].pc \in {"abortRead", "abortWrites", "finish"} /\ Still /\ Ready(c)
        /\ proc'[c].dead = proc[c].dead /\ proc'[c].pc \in Aborted
    BY <1>7, EndEffects, TodoEffects, ZenonT(40) DEF AbortWrites, At, Turns, Lists, Aborted
  <2>2. proc[c].pc # "abortRead" => proc'[c].outcome = proc[c].outcome
    BY <1>7, EndEffects, TodoEffects DEF AbortWrites, At, Turns, Lists
  <2>3. proc[c].pc = "abortRead" => proc'[c].outcome = "aborted"
    <3>1. AbortRead(c) => proc'[c].outcome = "aborted"
      BY EndEffects
    <3>2. Finish(c) => proc[c].pc # "abortRead"
      BY EndEffects DEF At
    <3>3. AbortWrites(c) => proc[c].pc # "abortRead"
      BY TodoEffects DEF AbortWrites, At
    <3>4. QED
      BY <1>7, <3>1, <3>2, <3>3
  <2>4. \A i \in proc[c].dead : Dying(i)'
    BY <1>2, <1>5, <1>7, <2>1, DyingCaller DEF HandsBack
  <2>5. proc'[c].pc = "release" =>
          ~Ready(c)' /\ \A k \in DOMAIN chain' : chain'[k].by = c => chain'[k].put = "record"
    <3>1. proc'[c].pc = "release" => \E r : AppendRecord(c, r)
      <4>1. AbortRead(c) => proc'[c].pc # "release"
        BY EndEffects
      <4>2. AbortWrites(c) => proc'[c].pc # "release"
        BY TodoEffects DEF AbortWrites, Turns, Lists
      <4>3. Finish(c) => \E r : AppendRecord(c, r)
        BY EndEffects
      <4>4. QED
        BY <1>7, <4>1, <4>2, <4>3
    <3>2. ASSUME NEW r, AppendRecord(c, r)
          PROVE  \A k \in DOMAIN chain' : chain'[k].by = c => chain'[k].put = "record"
      BY <3>2, RecordIssued, <2>1 DEF Shape, ChainShape, Ready
    <3>3. QED
      BY <3>1, <3>2, AppendedNotReady
  <2>6. HandsBack(c)'
    BY <1>5, <2>1, <2>2, <2>3, <2>4, <2>5 DEF HandsBack, Aborted
  <2>7. QED
    BY <1>3, <1>4, <2>1, <2>6 DEF Handed, Still
<1>8. CASE Release(c)
  <2>1. /\ proc[c].pc = "release" /\ Ready(c) /\ proc'[c] = Idle
        /\ returned' = returned \cup proc[c].dead
    BY <1>8, EndEffects DEF At, ReturnedBy
  <2>2. \A i \in proc[c].dead : Gone(i)'
    BY <1>2, <1>5, <2>1, GoneCaller DEF HandsBack
  <2>3. HandsBack(c)'
    BY <2>1 DEF HandsBack, Idle
  <2>4. QED
    BY <1>3, <1>4, <2>1, <2>2, <2>3 DEF Handed
<1>9. CASE ~AbortNote(c) /\ ~AbortRead(c) /\ ~AbortWrites(c) /\ ~Finish(c) /\ ~Release(c)
  BY <1>5, <1>9, HandsNothing, <1>3, <1>4 DEF HandsBack, Handed
<1>10. QED
  BY <1>6, <1>7, <1>8, <1>9

LEMMA HandedCommit ==
    ASSUME BoundsAssumption, OneCaller, NoneIsNoName, Shape, Life, Life', Items, Handed, Commit
    PROVE  Handed'
<1> DEFINE h == Head(chain)
<1>1. /\ UNCHANGED <<proc, returned>> /\ h = chain[1] /\ 1 \in DOMAIN chain /\ h.by \in Writers
      /\ h.put \in {"entry", "record"}
  BY CommitEffects
<1>2. \A i \in returned : Gone(i)'
  BY GoneCommit DEF Handed, Shape, HistoryShape
<1>3. ASSUME NEW c \in Callers
      PROVE  HandsBack(c)'
  <2> DEFINE ends == h.put = "record" /\ h.what.kind = "operation_finished"
  <2>1. HandsBack(c) /\ \A i \in proc[c].dead : i \in Nat
    BY DEF Handed, Shape, ProcShape, ProcSet
  <2>2. \A k \in DOMAIN chain' : k + 1 \in DOMAIN chain /\ chain'[k] = chain[k + 1]
    BY HeadGone
  <2>3. proc[c].dead # {} /\ proc[c].pc = "release" =>
          \A k \in DOMAIN chain' : chain'[k].by = c => chain'[k].put = "record"
    BY <2>1, <2>2 DEF HandsBack
  <2>4. Ready(c)' <=> Ready(c) \/ h.by = c
    BY HeadGone
  <2>5. ends => /\ h.by = c /\ proc[c].pc = "release"
                /\ h.what.outcome = proc[c].outcome
    BY <1>1 DEF Life, OwnAppends, Due, ApiKinds, DueRecord, OneCaller
  <2>6. ASSUME NEW i \in proc[c].dead
        PROVE  IF proc[c].pc = "release" /\ Ready(c)' THEN Gone(i)' ELSE Dying(i)'
    <3>1. CASE proc[c].pc = "release" /\ Ready(c)
      BY <2>1, <2>4, <3>1, GoneCommit DEF HandsBack
    <3>2. CASE ~(proc[c].pc = "release" /\ Ready(c)) /\ ends
      BY <2>1, <2>5, <3>2, DyingEnds, <2>4 DEF HandsBack, OneCaller
    <3>3. CASE ~(proc[c].pc = "release" /\ Ready(c)) /\ ~ends
      <4>1. Dying(i)'
        BY <2>1, <3>3, DyingCommit DEF HandsBack
      <4>2. ASSUME proc[c].pc = "release"
            PROVE  ~Ready(c)'
        BY <1>1, <2>1, <2>6, <4>2, <2>4, <3>3 DEF HandsBack, Life, OwnAppends, Due,
           DueRecord
      <4>3. QED
        BY <4>1, <4>2
    <3>4. QED
      BY <3>1, <3>2, <3>3
  <2>7. QED
    BY <1>1, <2>1, <2>3, <2>6 DEF HandsBack
<1>4. QED
  BY <1>1, <1>2, <1>3 DEF Handed

LEMMA HandedApi ==
    ASSUME BoundsAssumption, OneCaller, NoneIsNoName, Shape, Life, Life', Items, Handed,
           Abort \/ DeferWrite \/ \E queue \in Queues : Enqueue(queue)
    PROVE  Handed'
<1>1. UNCHANGED <<proc, returned>> /\ \A c \in Callers : Ready(c)' <=> Ready(c)
  BY ApiReady DEF Abort, DeferWrite, Enqueue
<1>2. \A i \in Nat : Gone(i) => Gone(i)'
  BY GoneStep DEF Next
<1>3. \A i \in Nat : Dying(i) => Dying(i)'
  <2>1. ASSUME NEW i \in Nat, Dying(i)
        PROVE  Dying(i)'
    <3>1. i <= used'.items
      BY <2>1, ApiQueued DEF Shape, HistoryShape, Dying
    <3>2. QED
      BY <2>1, <3>1, ApiQueued, ApiReady DEF Dying, InQueue
  <2>2. QED
    BY <2>1
<1>4. \A c \in Callers : \A k \in DOMAIN chain' : chain'[k].by = c =>
        k \in DOMAIN chain /\ chain'[k] = chain[k]
  <2>1. CASE UNCHANGED chain
    BY <2>1
  <2>2. ASSUME NEW r, AppendRecord("api", r)
        PROVE  \A c \in Callers : \A k \in DOMAIN chain' : chain'[k].by = c =>
                 k \in DOMAIN chain /\ chain'[k] = chain[k]
    BY <2>2, RecordIssued DEF Shape, ChainShape, BoundsAssumption
  <2>3. QED
    BY <2>1, <2>2 DEF Abort, DeferWrite, Enqueue
<1>5. (\A i \in returned : i \in Nat) /\ \A c \in Callers : \A i \in proc[c].dead : i \in Nat
  BY DEF Shape, HistoryShape, ProcShape, ProcSet
<1>6. ASSUME NEW c \in Callers
      PROVE  HandsBack(c)'
  BY <1>1, <1>2, <1>3, <1>4, <1>5 DEF Handed, HandsBack
<1>7. QED
  BY <1>1, <1>2, <1>5, <1>6 DEF Handed

LEMMA StepHanded ==
    ASSUME BoundsAssumption, OneCaller, NoneIsNoName, Shape, Shape', Life, Life', Items, Handed,
           [Next]_vars
    PROVE  Handed'
<1>1. CASE Crash
  BY <1>1, GoneStep DEF Crash, Handed, Shape, HistoryShape, HandsBack, Idle
<1>2. CASE UNCHANGED vars
  <2>1. \A i \in Nat : Gone(i) => Gone(i)'
    BY GoneStep
  <2>2. \A i : Dying(i)' <=> Dying(i)
    BY <1>2, NothingAdds DEF vars, live, disk, history, Dying, Pending, InQueue
  <2>3. UNCHANGED <<proc, returned, chain>> /\ \A c \in Callers : Ready(c)' <=> Ready(c)
    BY <1>2 DEF vars, live, history, Ready
  <2>4. (\A i \in returned : i \in Nat) /\ \A c \in Callers : \A i \in proc[c].dead : i \in Nat
    BY DEF Shape, HistoryShape, ProcShape, ProcSet
  <2>5. QED
    BY <2>1, <2>2, <2>3, <2>4 DEF Handed, HandsBack
<1>3. QED
  BY <1>1, <1>2, HandedCaller, HandedCommit, HandedApi DEF Next

(* What an aborted run hands back is out of the lane for good: no later    *)
(* run takes it from a queue or writes it again (finishAbortedOperation).  *)
THEOREM ReturnedNotConsumedCorrect ==
    OneCaller /\ NoneIsNoName /\ Spec => []ReturnedNotConsumed
<1> SUFFICES ASSUME OneCaller, NoneIsNoName
             PROVE  Spec => []ReturnedNotConsumed
  OBVIOUS
<1>1. Init => Items /\ Handed
  BY InitItems DEF Init, Handed, HandsBack, Idle
<1>2. BoundsAssumption /\ Shape /\ Shape' /\ Life /\ Life' /\ Items /\ Handed /\ [Next]_vars
        => Items' /\ Handed'
  BY StepItems, StepHanded
<1>3. Handed => ReturnedNotConsumed
  BY DEF Handed, Gone, Written, ReturnedNotConsumed
<1>4. Spec => []Life
  BY LifeCorrect
<1>5. QED
  BY <1>1, <1>2, <1>3, <1>4, ShapeCorrect, BoundsAssumption, PTL DEF Spec

-----------------------------------------------------------------------------

LEMMA InitBounded == BoundsAssumption /\ Init => Bounded /\ Resting
BY DEF Init, Bounded, Counts, InitLane, BoundsAssumption, Resting, Idle

(* A step of a caller moves no other. *)
LEMMA OthersStay ==
    ASSUME Shape, NEW c \in Callers, Start(c) \/ Resume(c) \/ Drive(c)
    PROVE  \A d \in Callers \ {c} : proc'[d] = proc[d]
<1>1. \A q : Update(c, q) => \A d \in Callers \ {c} : proc'[d] = proc[d]
  BY Updated
<1>2. \A label : Goto(c, label) => \A d \in Callers \ {c} : proc'[d] = proc[d]
  BY DEF Goto, Shape, ProcShape
<1>3. CASE Start(c)
  BY <1>3, <1>1 DEF Start, Prompt, Drain, StartRun, Compact, Navigate
<1>4. CASE Resume(c)
  BY <1>4, <1>1 DEF Resume
<1>5. CASE BeforeRun(c) \/ NavigateStart(c) \/ NavigateMove(c) \/ MaterialiseInput(c)
  BY <1>5, <1>1, <1>2 DEF BeforeRun, NavigateStart, NavigateMove, MaterialiseInput
<1>6. CASE ApplyCompaction(c)
  BY <1>6, <1>1 DEF ApplyCompaction
<1>7. CASE CheckpointWrites(c) \/ CheckpointSteer(c) \/ AbortWrites(c)
  BY <1>7, <1>1, <1>2 DEF CheckpointWrites, CheckpointSteer, AbortWrites, WriteTodo
<1>8. CASE LoopTop(c) \/ CheckpointRead(c) \/ Ask(c) \/ CutOff(c) \/ Defer(c) \/ Answer(c)
             \/ RecordTool(c) \/ ExecuteTool(c)
  BY <1>8, <1>1, <1>2 DEF LoopTop, CheckpointRead, Ask, CutOff, Defer, Answer, RecordTool,
     ExecuteTool
<1>9. CASE FlushAssistant(c) \/ WriteResult(c) \/ StepEnd(c) \/ RoundEnd(c) \/ Park(c)
             \/ AbortNote(c) \/ AbortRead(c) \/ Finish(c) \/ Release(c)
  BY <1>9, <1>1, <1>2 DEF FlushAssistant, WriteResult, StepEnd, RoundEnd, Park, AbortNote,
     AbortRead, Finish, Release
<1>10. CASE Resumed(c) \/ Redeem(c) \/ WriteReplayed(c) \/ Reconciled(c)
  BY <1>10, <1>1, <1>2 DEF Resumed, Redeem, WriteReplayed, Reconciled
<1>11. CASE EnsureAssistant(c) \/ Reconcile(c)
  BY <1>11, <1>1, <1>2 DEF EnsureAssistant, Reconcile
<1>12. QED
  BY <1>3, <1>4, <1>5, <1>6, <1>7, <1>8, <1>9, <1>10, <1>11 DEF Drive

LEMMA CallerRests ==
    ASSUME Shape, NEW c \in Callers, Start(c) \/ Resume(c) \/ Drive(c)
    PROVE  proc'[c].pc # "idle" \/ proc'[c] = Idle
<1>1. CASE Start(c) \/ Resume(c)
  BY <1>1, StartEffects, ResumeStarts
<1>2. CASE BeforeRun(c) \/ ApplyCompaction(c) \/ NavigateStart(c) \/ NavigateMove(c)
             \/ MaterialiseInput(c)
  BY <1>2, AcceptEffects DEF Turns, Ends
<1>3. CASE CheckpointWrites(c) \/ CheckpointSteer(c) \/ AbortWrites(c)
  BY <1>3, TodoEffects DEF CheckpointWrites, CheckpointSteer, AbortWrites, Turns, Lists
<1>4. CASE LoopTop(c) \/ CheckpointRead(c) \/ Ask(c) \/ CutOff(c) \/ Defer(c)
             \/ FlushAssistant(c) \/ WriteResult(c) \/ Park(c)
  BY <1>4, LoopEffects DEF Turns, Ends, Lists
<1>5. CASE Answer(c) \/ RecordTool(c) \/ ExecuteTool(c) \/ StepEnd(c)
  BY <1>5, ResponseEffects DEF Turns
<1>6. CASE RoundEnd(c) \/ AbortNote(c) \/ AbortRead(c) \/ Finish(c) \/ Release(c)
  BY <1>6, EndEffects DEF Turns, Ends
<1>7. CASE Resumed(c) \/ Redeem(c) \/ EnsureAssistant(c) \/ Reconcile(c) \/ WriteReplayed(c)
             \/ Reconciled(c)
  BY <1>7, ResumeEffects DEF Turns, Ends, Lists, At
<1>8. QED
  BY <1>1, <1>2, <1>3, <1>4, <1>5, <1>6, <1>7 DEF Drive

LEMMA StepResting ==
    ASSUME Shape, Resting, [Next]_vars
    PROVE  Resting'
<1>1. ASSUME NEW c \in Callers, Start(c) \/ Resume(c) \/ Drive(c)
      PROVE  Resting'
  BY <1>1, OthersStay, CallerRests DEF Resting, Idle
<1>2. CASE Crash
  BY <1>2 DEF Crash, Resting, Idle
<1>3. CASE Abort \/ DeferWrite \/ (\E queue \in Queues : Enqueue(queue)) \/ Commit \/ UNCHANGED vars
  BY <1>3 DEF Abort, DeferWrite, Enqueue, Commit, vars, live, Resting
<1>4. QED
  BY <1>1, <1>2, <1>3 DEF Next

LEMMA ReducedCounts ==
    ASSUME BoundsAssumption, NEW l \in LaneSet, NEW r \in RecordSet, Counts(l),
           r.kind = "task_attempt" => r.attempt <= MaxAttempts /\ r.maxAttempts = MaxAttempts
    PROVE  Counts(ApplyRecord(l, r))
<1> USE DEF LaneSet, Counts
<1>1. MaxAttempts \in Nat
  BY DEF BoundsAssumption
<1>2. CASE r.kind = "operation_started"
  BY <1>1, <1>2 DEF ApplyRecord, OperationStarted
<1>3. CASE r.kind = "operation_finished"
  BY <1>1, <1>3 DEF ApplyRecord, OperationFinished
<1>4. CASE r.kind = "abort_requested"
  BY <1>4 DEF ApplyRecord, AbortRequested
<1>5. CASE r.kind = "tool_started"
  BY <1>5 DEF ApplyRecord, ToolStarted
<1>6. CASE r.kind = "queue_enqueued"
  BY <1>6 DEF ApplyRecord, QueueEnqueued
<1>7. CASE r.kind = "task_attempt"
  BY <1>7, <1>1 DEF ApplyRecord, RecordSet, StartedSet, AbortSet, FinishedSet, ToolRecords,
     EnqueuedSet, AttemptSet, DeferredSet, TaskAttempt
<1>8. CASE r.kind = "write_deferred"
  BY <1>8 DEF ApplyRecord
<1>9. QED
  BY <1>2, <1>3, <1>4, <1>5, <1>6, <1>7, <1>8, RecordKinds

(* The append of a resume is one attempt more, while there is one left. *)
LEMMA CallerCounts ==
    ASSUME BoundsAssumption, Shape, Bounded, NEW c \in Callers, Start(c) \/ Resume(c) \/ Drive(c)
    PROVE  UNCHANGED chain \/ \E a : chain' = Append(chain, a) /\ CountedAppend(a)
<1> DEFINE counted == UNCHANGED chain \/ \E a : chain' = Append(chain, a) /\ CountedAppend(a)
<1>1. ASSUME NEW id, NEW what, NEW tok, AppendEntry(c, id, what, tok)
      PROVE  counted
  BY <1>1, EntryIssued DEF CountedAppend, IsAttempt
<1>2. ASSUME NEW r, AppendRecord(c, r),
             r.kind = "task_attempt" => r.attempt <= MaxAttempts /\ r.maxAttempts = MaxAttempts
      PROVE  counted
  BY <1>2, RecordIssued DEF CountedAppend, IsAttempt
<1>3. CASE Start(c)
  <2> DEFINE r == [kind |-> "operation_started", op |-> Len(ops) + 1, opKind |-> "compaction"]
  <2>1. UNCHANGED chain \/ AppendRecord(c, r)
    BY <1>3, StartEffects
  <2>2. r.kind # "task_attempt"
    OBVIOUS
  <2> HIDE DEF r
  <2>3. QED
    BY <1>2, <2>1, <2>2
<1>4. CASE Resume(c)
  <2> DEFINE r == [kind |-> "task_attempt", op |-> lane.op, attempt |-> lane.attempts + 1,
                   maxAttempts |-> MaxAttempts]
  <2>1. \/ UNCHANGED chain \/ \E id, what, tok : AppendEntry(c, id, what, tok)
        \/ ~Exhausted /\ AppendRecord(c, r)
    BY <1>4 DEF Resume
  <2>2. ~Exhausted => lane.attempts + 1 <= MaxAttempts
    BY DEF Exhausted, Bounded, Counts, BoundsAssumption, Shape, LaneShape, LaneSet
  <2>3. r.kind = "task_attempt" /\ r.attempt = lane.attempts + 1 /\ r.maxAttempts = MaxAttempts
    OBVIOUS
  <2> HIDE DEF r
  <2>4. QED
    BY <1>1, <1>2, <2>1, <2>2, <2>3
<1>5. CASE BeforeRun(c) \/ ApplyCompaction(c) \/ NavigateStart(c) \/ NavigateMove(c)
             \/ MaterialiseInput(c)
  BY <1>1, <1>2, <1>5, AcceptEffects DEF StartedRecord
<1>6. CASE CheckpointWrites(c) \/ CheckpointSteer(c) \/ AbortWrites(c)
  BY <1>1, <1>6, TodoEffects DEF CheckpointWrites, CheckpointSteer, AbortWrites
<1>7. CASE LoopTop(c) \/ CheckpointRead(c) \/ Ask(c) \/ CutOff(c) \/ Defer(c)
             \/ FlushAssistant(c) \/ WriteResult(c) \/ Park(c)
  BY <1>1, <1>7, LoopEffects
<1>8. CASE Answer(c) \/ ExecuteTool(c) \/ StepEnd(c)
  BY <1>8, ResponseEffects
<1>9. CASE RecordTool(c)
  <2> DEFINE r == [kind |-> "tool_started", tool |-> Tool(c)]
  <2>1. UNCHANGED chain \/ AppendRecord(c, r)
    BY <1>9, ResponseEffects
  <2>2. r.kind # "task_attempt"
    OBVIOUS
  <2> HIDE DEF r
  <2>3. QED
    BY <1>2, <2>1, <2>2
<1>10. CASE Finish(c)
  <2> DEFINE r == [kind |-> "operation_finished", op |-> proc[c].op, outcome |-> proc[c].outcome]
  <2>1. AppendRecord(c, r)
    BY <1>10, EndEffects
  <2>2. r.kind # "task_attempt"
    OBVIOUS
  <2> HIDE DEF r
  <2>3. QED
    BY <1>2, <2>1, <2>2
<1>11. CASE RoundEnd(c) \/ AbortNote(c) \/ AbortRead(c) \/ Release(c)
  BY <1>1, <1>11, EndEffects
<1>12. CASE Resumed(c) \/ Redeem(c) \/ EnsureAssistant(c) \/ Reconcile(c) \/ WriteReplayed(c)
             \/ Reconciled(c)
  BY <1>1, <1>12, ResumeEffects
<1>13. QED
  BY <1>3, <1>4, <1>5, <1>6, <1>7, <1>8, <1>9, <1>10, <1>11, <1>12 DEF Drive

LEMMA AppendCounts ==
    ASSUME Shape, Bounded,
           UNCHANGED chain \/ \E a : chain' = Append(chain, a) /\ CountedAppend(a)
    PROVE  \A k \in DOMAIN chain' : CountedAppend(chain'[k])
<1>1. chain \in Seq(ChainSet)
  BY DEF Shape, ChainShape
<1>2. ASSUME NEW a, chain' = Append(chain, a), CountedAppend(a)
      PROVE  \A k \in DOMAIN chain' : CountedAppend(chain'[k])
  BY <1>1, <1>2 DEF Bounded
<1>3. QED
  BY <1>2 DEF Bounded

LEMMA StepBounded ==
    ASSUME BoundsAssumption, Shape, Bounded, [Next]_vars
    PROVE  Bounded'
<1>1. ops \in Seq(OpSet) /\ lane \in LaneSet /\ durable \in LaneSet /\ chain \in Seq(ChainSet)
  BY DEF Shape, DiskShape, LaneShape, ChainShape
<1>2. CASE Commit
  <2> DEFINE h == Head(chain)
  <2>1. /\ UNCHANGED <<ops, responses>> /\ chain # << >> /\ chain' = Tail(chain)
        /\ h = chain[1] /\ 1 \in DOMAIN chain
    BY <1>2, CommitEffects DEF Commit
  <2>2. \A k \in DOMAIN chain' : k + 1 \in DOMAIN chain /\ chain'[k] = chain[k + 1]
    BY <1>1, <2>1
  <2>3. \A k \in DOMAIN chain' : CountedAppend(chain'[k])
    BY <2>2 DEF Bounded
  <2>4. CASE h.put = "entry" /\ CommitEntry(h.what)
    BY <2>1, <2>3, <2>4 DEF CommitEntry, Bounded
  <2>5. CASE h.put = "record" /\ h.what \in RecordSet /\ CommitRecord(h.what)
    <3>1. PICK r \in RecordSet : r = h.what
      BY <2>5
    <3>2. r.kind = "task_attempt" => r.attempt <= MaxAttempts /\ r.maxAttempts = MaxAttempts
      BY <2>1, <2>5, <3>1 DEF Bounded, CountedAppend, IsAttempt
    <3>3. Counts(lane') /\ Counts(durable')
      BY <1>1, <2>5, <3>1, <3>2, ReducedCounts DEF CommitRecord, Bounded
    <3>4. started' \subseteq 1..Len(ops)
      BY <1>2, <2>5, CommitEffects DEF CommitRecord, Bounded
    <3>5. QED
      BY <2>1, <2>3, <3>3, <3>4 DEF Bounded, Counts
  <2>6. QED
    BY <1>2, <2>4, <2>5, CommitEffects
<1>3. CASE Crash
  BY <1>1, <1>3 DEF Crash, FinishRestore, LaneSet, disk, Bounded, Counts
<1>4. CASE Abort \/ DeferWrite \/ \E queue \in Queues : Enqueue(queue)
  <2>1. UNCHANGED <<ops, responses, started, lane, durable>>
    BY <1>4 DEF Abort, DeferWrite, Enqueue, disk
  <2>2. UNCHANGED chain \/ \E a : chain' = Append(chain, a) /\ CountedAppend(a)
    <3>1. UNCHANGED chain \/ \E r : AppendRecord("api", r) /\ r.kind # "task_attempt"
      <4>1. Abort => UNCHANGED chain \/ \E r : AppendRecord("api", r) /\ r.kind = "abort_requested"
        BY DEF Abort
      <4>2. DeferWrite => \E r : AppendRecord("api", r) /\ r.kind = "write_deferred"
        BY DEF DeferWrite
      <4>3. ASSUME NEW queue \in Queues, Enqueue(queue)
            PROVE  \E r : AppendRecord("api", r) /\ r.kind = "queue_enqueued"
        BY <4>3 DEF Enqueue
      <4>4. QED
        BY <1>4, <4>1, <4>2, <4>3
    <3>2. ASSUME NEW r, AppendRecord("api", r), r.kind # "task_attempt"
          PROVE  \E a : chain' = Append(chain, a) /\ CountedAppend(a)
      BY <3>2, RecordIssued DEF CountedAppend, IsAttempt
    <3>3. QED
      BY <3>1, <3>2
  <2>3. QED
    BY <2>1, <2>2, AppendCounts DEF Bounded, Counts
<1>5. ASSUME NEW c \in Callers, Start(c) \/ Resume(c) \/ Drive(c)
      PROVE  Bounded'
  <2>1. \A k \in DOMAIN chain' : CountedAppend(chain'[k])
    BY <1>5, CallerCounts, AppendCounts
  <2>2. Counts(lane')
    <3>1. CASE RecordTool(c)
      BY <3>1, ResponseEffects, <1>1 DEF ToolStarted, LaneSet, Bounded, Counts
    <3>2. QED
      BY <1>5, <3>1, CallerLane DEF Bounded
  <2>3. durable' = durable /\ started' = started
    BY <1>5, CallerWrites
  <2>4. Len(ops') <= MaxOps /\ 1..Len(ops) \subseteq 1..Len(ops')
    <3>1. CASE Start(c)
      <4>1. Len(ops) < MaxOps /\ \E o : ops' = Append(ops, o)
        BY <3>1, StartEffects
      <4>2. QED
        BY <1>1, <4>1 DEF BoundsAssumption
    <3>2. CASE Resume(c) \/ Drive(c)
      <4>1. ops' = ops
        BY <3>2 DEF Resume, Drive, BeforeRun, ApplyCompaction, NavigateStart, NavigateMove,
           MaterialiseInput, LoopTop, CheckpointWrites, CheckpointRead, CheckpointSteer, Ask,
           CutOff, Defer, Answer, RecordTool, ExecuteTool, FlushAssistant, WriteResult, StepEnd,
           RoundEnd, Park, AbortNote, AbortRead, AbortWrites, Finish, Release, Resumed, Redeem,
           EnsureAssistant, Reconcile, WriteReplayed, Reconciled, WriteTodo, Quiet, Silent, disk
      <4>2. QED
        BY <4>1 DEF Bounded
    <3>3. QED
      BY <1>5, <3>1, <3>2
  <2>5. responses' <= MaxResponses
    <3>1. CASE Answer(c)
      <4>1. responses < MaxResponses /\ responses' = responses + 1
        BY <3>1, ResponseEffects
      <4>2. responses \in Nat /\ MaxResponses \in Nat
        BY DEF Shape, HistoryShape, BoundsAssumption
      <4>3. QED
        BY <4>1, <4>2
    <3>2. CASE ~Answer(c)
      <4>1. responses' = responses
        BY <1>5, <3>2 DEF Start, Prompt, Drain, StartRun, Compact, Navigate, Resume, Drive,
           BeforeRun, ApplyCompaction, NavigateStart, NavigateMove, MaterialiseInput, LoopTop,
           CheckpointWrites, CheckpointRead, CheckpointSteer, Ask, CutOff, Defer, RecordTool,
           ExecuteTool, FlushAssistant, WriteResult, StepEnd, RoundEnd, Park, AbortNote, AbortRead,
           AbortWrites, Finish, Release, Resumed, Redeem, EnsureAssistant, Reconcile,
           WriteReplayed, Reconciled, WriteTodo, Quiet, Silent, history
      <4>2. QED
        BY <4>1 DEF Bounded
    <3>3. QED
      BY <3>1, <3>2
  <2>6. QED
    BY <2>1, <2>2, <2>3, <2>4, <2>5 DEF Bounded, Counts
<1>6. CASE UNCHANGED vars
  BY <1>6 DEF vars, live, disk, history, Bounded, Counts
<1>7. QED
  BY <1>2, <1>3, <1>4, <1>5, <1>6 DEF Next

(* Every state is well formed; in particular the attempts of an operation, *)
(* counted on disk across restarts, never pass the recorded maximum.       *)
THEOREM TypeCorrect == Spec => []TypeOK
<1>1. BoundsAssumption /\ Init => Bounded /\ Resting
  BY InitBounded
<1>2. BoundsAssumption /\ Shape /\ Bounded /\ Resting /\ [Next]_vars => Bounded' /\ Resting'
  BY StepBounded, StepResting
<1>3. BoundsAssumption /\ Shape /\ Bounded /\ Resting => TypeOK
  <2> SUFFICES ASSUME BoundsAssumption, Shape, Bounded, Resting
               PROVE  TypeOK
    OBVIOUS
  <2>1. /\ lane.status \in Statuses /\ lane.op \in {None} \cup 1..Len(ops)
        /\ durable.op \in {None} \cup 1..Len(ops) /\ runtime \in Callers \cup {None}
        /\ lane.attempts \in Nat /\ durable.attempts \in Nat /\ Len(ops) \in Nat
    BY DEF Shape, DiskShape, LaneShape, ProcShape, LaneSet
  <2>2. \A c \in Callers : /\ proc[c].pc \in Labels /\ signal[c] \in BOOLEAN
                           /\ proc[c].op \in 0..Len(ops)
    <3>1. ASSUME NEW c \in Callers
          PROVE  /\ proc[c].pc \in Labels /\ signal[c] \in BOOLEAN
                 /\ proc[c].op = 0 \/ proc[c].op \in 1..Len(ops)
      BY DEF Shape, ProcShape, ProcSet, ProcOK, Resting
    <3>2. QED
      BY <2>1, <3>1
  <2>3. lane.attempts \in 0..MaxAttempts /\ durable.attempts \in 0..MaxAttempts
    BY <2>1 DEF Bounded, Counts, BoundsAssumption
  <2>4. QED
    BY <2>1, <2>2, <2>3 DEF TypeOK, Bounded, Statuses
<1>4. QED
  BY <1>1, <1>2, <1>3, ShapeCorrect, BoundsAssumption, PTL DEF Spec

-----------------------------------------------------------------------------
(* Calls and results in the transcript.                                    *)

(* The input id of an operation tells it apart.                            *)
LEMMA InputIdIs ==
    /\ \A op1, op2 : InputId(op1) = InputId(op2) => op1 = op2
    /\ \A op : InputId(op) \notin QueuedIds \cup DeferredIds \cup AssistantIds
    /\ \A op1, op2 : InputId(op1) # CompactionId(op2)
    /\ \A op : InputId(op) # AutoId
    /\ \A op : \A id \in AssistantIds : InputId(op) # ResultIdOf(id)
<1>1. \A op : InputId(op).op = op /\ InputId(op).k = "input"
  BY DEF InputId, Id
<1>2. \A op : CompactionId(op).k = "compaction"
  BY DEF CompactionId, Id
<1>3. AutoId.k = "auto"
  BY DEF AutoId, Id
<1>4. \A id \in AssistantIds : ResultIdOf(id).k = "result"
  BY DEF ResultIdOf, AssistantIds, IdsOf
<1>5. \A id \in QueuedIds \cup DeferredIds \cup AssistantIds : id.k # "input"
  BY DEF QueuedIds, DeferredIds, AssistantIds, IdsOf
<1>6. QED
  BY <1>1, <1>2, <1>3, <1>4, <1>5

(* What an operation is and what it starts from. *)
LEMMA StartsAs ==
    ASSUME Shape, NEW c \in Callers, Start(c)
    PROVE  \E kind \in OpKinds, input \in InputIds \cup {None} :
             /\ ops' = Append(ops, [kind |-> kind, input |-> input])
             /\ \/ proc'[c].pc # "beforeRun" /\ input = None
                \/ /\ proc'[c].pc = "beforeRun" /\ kind = "prompt"
                   /\ \/ input = InputId(Len(ops) + 1)
                      \/ input \in QueuedIds /\ ~InTree(input)
<1> DEFINE op == Len(ops) + 1
           b == [Idle EXCEPT !.pc = "beforeRun", !.op = op, !.att = 1, !.holds = TRUE]
           m == [Idle EXCEPT !.pc = "compact", !.op = op, !.holds = TRUE]
           n == [Idle EXCEPT !.pc = "navigate", !.op = op]
<1>1. InputId(op) \in InputIds
  BY IdsAreIds DEF Shape, DiskShape
<1>2. b.pc = "beforeRun" /\ m.pc = "compact" /\ n.pc = "navigate"
  BY DEF Idle
<1>3. \A q : Update(c, q) => proc'[c] = q
  BY Updated
<1> HIDE DEF op, b, m, n
<1>4. ASSUME NEW input, StartRun(c, input)
      PROVE  /\ proc'[c].pc = "beforeRun"
             /\ ops' = Append(ops, [kind |-> "prompt",
                                    input |-> IF input = None THEN InputId(op) ELSE input])
  BY <1>4, <1>2, <1>3 DEF StartRun, b, op
<1>5. CASE Prompt(c)
  BY <1>1, <1>4, <1>5 DEF Prompt, OpKinds, op
<1>6. CASE Drain(c)
  <2>1. PICK k \in Unconsumed(Waiting) : StartRun(c, ItemId(Waiting[k]))
    BY <1>6 DEF Drain
  <2>2. Waiting \in Seq(Nat)
    BY DEF Waiting, Shape, LaneShape, LaneSet, Queues
  <2>3. Waiting[k] \in Nat /\ ~InTree(ItemId(Waiting[k]))
    BY <2>2 DEF Unconsumed
  <2>4. ItemId(Waiting[k]) \in QueuedIds /\ QueuedIds \subseteq InputIds
    BY <2>3, IdsAreIds, KindsOfIds
  <2>5. \E input \in InputIds :
          /\ input = InputId(op) \/ (input \in QueuedIds /\ ~InTree(input))
          /\ ops' = Append(ops, [kind |-> "prompt", input |-> input])
    BY <1>1, <1>4, <2>1, <2>3, <2>4
  <2>6. QED
    BY <1>4, <2>1, <2>5 DEF OpKinds, op
<1>7. CASE Compact(c)
  BY <1>7, <1>2, <1>3 DEF Compact, m, op, OpKinds
<1>8. CASE Navigate(c)
  BY <1>8, <1>2, <1>3 DEF Navigate, n, op, OpKinds
<1>9. QED
  BY <1>5, <1>6, <1>7, <1>8 DEF Start

(* An entry has the id of an input only when it is the operation's input.  *)
LEMMA WritesInput ==
    ASSUME Shape, NEW c \in Callers, Start(c) \/ Resume(c) \/ Drive(c),
           NEW op \in Nat, Written(InputId(op))'
    PROVE  Written(InputId(op)) \/ \E j \in DOMAIN ops : ops[j].input = InputId(op)
<1> DEFINE p == proc[c]
           id == InputId(op)
           plain == \E x, what, tok : x # id /\ AppendEntry(c, x, what, tok)
           record == \E r : AppendRecord(c, r)
<1>1. ASSUME UNCHANGED entries, UNCHANGED chain \/ plain \/ record
      PROVE  Written(id)
  BY <1>1, EntryAdds, RecordAdds, NothingAdds
<1>2. CASE Start(c)
  BY <1>1, <1>2, StartEffects
<1>3. CASE Resume(c)
  BY <1>1, <1>3, ResumeStarts, InputIdIs DEF Still
<1>4. CASE BeforeRun(c) \/ ApplyCompaction(c) \/ NavigateStart(c) \/ NavigateMove(c)
  BY <1>4, AcceptEffects, InputIdIs, <1>1 DEF Still
<1>5. CASE MaterialiseInput(c)
  <2>1. /\ UNCHANGED entries /\ p.pc = "input"
        /\ \/ UNCHANGED chain
           \/ ops[p.op].input # None /\ AppendEntry(c, ops[p.op].input, "input", 0)
    BY <1>5, AcceptEffects DEF Still, At
  <2>2. p.op \in DOMAIN ops
    BY <2>1, OpsShape
  <2>3. CASE UNCHANGED chain
    BY <1>1, <2>1, <2>3
  <2>4. CASE AppendEntry(c, ops[p.op].input, "input", 0)
    BY <2>1, <2>2, <2>4, EntryAdds
  <2>5. QED
    BY <2>1, <2>3, <2>4
<1>6. CASE CheckpointWrites(c) \/ CheckpointSteer(c) \/ AbortWrites(c)
  <2>1. UNCHANGED entries /\ p.pc \in IdTodo
    BY <1>6, TodoEffects DEF Still, At, CheckpointWrites, CheckpointSteer, AbortWrites, IdTodo
  <2>2. \/ UNCHANGED chain
        \/ p.todo # << >> /\ \E what : AppendEntry(c, Head(p.todo), what, 0)
    BY <1>6, TodoEffects DEF CheckpointWrites, CheckpointSteer, AbortWrites
  <2>3. p.todo # << >> => Head(p.todo) \in QueuedIds \cup DeferredIds
    BY <2>1 DEF Shape, ProcShape, ProcOK, TodoIds
  <2>4. QED
    BY <1>1, <2>1, <2>2, <2>3, InputIdIs
<1>7. CASE LoopTop(c) \/ CheckpointRead(c) \/ Ask(c) \/ Defer(c) \/ Park(c)
  BY <1>1, <1>7, LoopEffects, InputIdIs DEF Still
<1>8. CASE WriteResult(c) \/ CutOff(c) \/ FlushAssistant(c)
  <2>1. /\ p.op \in Nat /\ p.att \in Nat /\ p.step \in Nat /\ p.step + 1 \in Nat
    BY DEF Shape, ProcShape, ProcSet
  <2>2. \A n \in Nat : AssistantId(p.op, p.att, n) # id /\ ResultIdOf(AssistantId(p.op, p.att, n)) # id
    BY <2>1, IdsAreIds, InputIdIs
  <2>3. UNCHANGED entries
    BY <1>8, LoopEffects DEF Still
  <2>4. UNCHANGED chain \/ plain
    BY <1>8, <2>1, <2>2, LoopEffects DEF Slot
  <2>5. QED
    BY <1>1, <2>3, <2>4
<1>9. CASE Answer(c) \/ RecordTool(c) \/ ExecuteTool(c) \/ StepEnd(c)
  BY <1>1, <1>9, ResponseEffects
<1>10. CASE RoundEnd(c) \/ AbortNote(c) \/ AbortRead(c) \/ Finish(c) \/ Release(c)
  BY <1>10, EndEffects, InputIdIs, <1>1 DEF Still
<1>11. CASE Resumed(c) \/ Redeem(c) \/ Reconciled(c)
  BY <1>1, <1>11, ResumeEffects, InputIdIs DEF Still
<1>12. CASE EnsureAssistant(c) \/ Reconcile(c) \/ WriteReplayed(c)
  <2>1. p.pc \in {"ensure", "reconcile", "replayed"}
    BY <1>12, ResumeEffects DEF At
  <2>2. p.todo \in Seq(ToolSet) /\ (p.pc = "replayed" => p.todo # << >>)
    BY <2>1 DEF Shape, ProcShape, ProcOK, ToolTodo
  <2>3. p.todo # << >> => 1 \in DOMAIN p.todo /\ Head(p.todo) = p.todo[1]
    BY <2>2
  <2>4. \A k \in DOMAIN p.todo : p.todo[k].id \in AssistantIds
    <3>1. \A k \in DOMAIN p.todo : p.todo[k] \in ToolSet
      BY <2>2
    <3>2. QED
      BY <3>1 DEF ToolSet
  <2>5. /\ UNCHANGED entries
        /\ \/ UNCHANGED chain
           \/ \E k \in DOMAIN p.todo : \E x, what, tok :
                x \in {p.todo[k].id, ResultIdOf(p.todo[k].id)} /\ AppendEntry(c, x, what, tok)
    <3>1. CASE EnsureAssistant(c)
      BY <3>1, ResumeEffects DEF Still
    <3>2. CASE Reconcile(c)
      BY <3>2, ResumeEffects DEF Unanswered
    <3>3. CASE WriteReplayed(c)
      BY <3>3, ResumeEffects, <2>2, <2>3 DEF At, Still
    <3>4. QED
      BY <1>12, <3>1, <3>2, <3>3
  <2>6. QED
    BY <1>1, <2>4, <2>5, InputIdIs
<1>13. QED
  BY <1>2, <1>3, <1>4, <1>5, <1>6, <1>7, <1>8, <1>9, <1>10, <1>11, <1>12 DEF Drive

(* Only a start adds an operation.                                         *)
LEMMA OpsStay ==
    ASSUME NEW c \in Callers, Resume(c) \/ Drive(c)
    PROVE  UNCHANGED ops
BY DEF Resume, Drive, BeforeRun, ApplyCompaction, NavigateStart, NavigateMove, MaterialiseInput,
       LoopTop, CheckpointWrites, CheckpointRead, CheckpointSteer, Ask, CutOff, Defer, Answer,
       RecordTool, ExecuteTool, FlushAssistant, WriteResult, StepEnd, RoundEnd, Park, AbortNote,
       AbortRead, AbortWrites, Finish, Release, Resumed, Redeem, EnsureAssistant, Reconcile,
       WriteReplayed, Reconciled, WriteTodo, Quiet, Silent, disk

LEMMA InitInputs == Init => Inputs
BY DEF Init, Inputs, Written, InTree

(* Only the call of an operation names its input.                          *)
LEMMA StepInputs ==
    ASSUME NoneIsNoId, BoundsAssumption, Shape, Life, Inputs, [Next]_vars
    PROVE  Inputs'
<1>1. ops \in Seq(OpSet)
  BY DEF Shape, DiskShape
<1>2. ASSUME UNCHANGED ops, \A op \in Nat : Written(InputId(op))' => Written(InputId(op))
      PROVE  Inputs'
  BY <1>2 DEF Inputs
<1>3. CASE Commit
  BY IdsAreIds, KindsOfIds, <1>2, <1>3, CommitAdds, CommitEffects
<1>4. CASE Crash
  BY <1>2, <1>4 DEF Crash, disk, Written, InTree
<1>5. CASE Abort \/ DeferWrite \/ \E queue \in Queues : Enqueue(queue)
  BY <1>5, <1>2, ApiReady DEF Abort, DeferWrite, Enqueue, disk
<1>6. CASE UNCHANGED vars
  BY <1>2, <1>6, NothingAdds DEF vars, live, disk
<1>7. ASSUME NEW c \in Callers, Start(c)
      PROVE  Inputs'
  <2>1. UNCHANGED entries
    BY <1>7, StartEffects
  <2>2. PICK input \in InputIds \cup {None}, kind \in OpKinds :
          /\ ops' = Append(ops, [kind |-> kind, input |-> input])
          /\ input = None \/ input = InputId(Len(ops) + 1) \/ input \in QueuedIds
    BY <1>7, StartsAs
  <2>3. /\ Len(ops') = Len(ops) + 1 /\ Len(ops) \in Nat
        /\ \A j \in DOMAIN ops' : \/ j \in DOMAIN ops /\ ops'[j] = ops[j]
                                  \/ ops'[j].input = input
    BY <1>1, <2>2
  <2>4. \A op \in Nat : InputId(op) = input => op = Len(ops) + 1
    BY <2>2, InputIdIs, IdsAreIds DEF NoneIsNoId
  <2>5. ASSUME NEW op \in Nat, Written(InputId(op))'
        PROVE  op <= Len(ops)
    BY <1>7, <2>5, WritesInput DEF Inputs
  <2>6. ASSUME NEW op \in Nat, NEW j \in DOMAIN ops', ops'[j].input = InputId(op)
        PROVE  op <= Len(ops')
    BY <2>3, <2>4, <2>6 DEF Inputs
  <2>7. QED
    BY <2>3, <2>5, <2>6 DEF Inputs
<1>8. ASSUME NEW c \in Callers, Resume(c) \/ Drive(c)
      PROVE  Inputs'
  BY <1>8, OpsStay, WritesInput DEF Inputs
<1>9. QED
  BY <1>3, <1>4, <1>5, <1>6, <1>7, <1>8 DEF Next

-----------------------------------------------------------------------------
(* A navigation runs no turn and starts no tool.                           *)

(* The steps that leave two of the labels. *)
LEMMA StepsFrom ==
    ASSUME NEW c \in Callers, Start(c) \/ Resume(c) \/ Drive(c)
    PROVE  /\ proc[c].pc = "input" => MaterialiseInput(c)
           /\ proc[c].pc = "resumed" => Resumed(c)
BY DEF Start, Prompt, Drain, StartRun, Compact, Navigate, Resume, Drive, BeforeRun,
       ApplyCompaction, NavigateStart, NavigateMove, MaterialiseInput, LoopTop, CheckpointWrites,
       CheckpointRead, CheckpointSteer, Ask, CutOff, Defer, Answer, RecordTool, ExecuteTool,
       FlushAssistant, WriteResult, StepEnd, RoundEnd, Park, AbortNote, AbortRead, AbortWrites,
       Finish, Release, Resumed, Redeem, EnsureAssistant, Reconcile, WriteReplayed, Reconciled,
       WriteTodo, At

(* Where a resume starts.                                                  *)
LEMMA ResumedAs ==
    ASSUME Shape, NEW c \in Callers, Resumed(c)
    PROVE  /\ proc'[c].pc = "move" => ops[proc[c].op].kind = "navigation"
           /\ proc'[c].pc # "move" => ops[proc[c].op].kind # "navigation"
           /\ proc'[c].pc = "redeem" => LeafWhat = "handle"
           /\ proc'[c].pc = "ensure" => LeafWhat # "handle"
<1> DEFINE here == IF ops[proc[c].op].kind = "navigation" THEN "move"
                   ELSE IF LeafWhat = "handle" THEN "redeem" ELSE "ensure"
<1>1. proc'[c].pc = here
  <2>1. Goto(c, here)
    BY DEF Resumed
  <2> HIDE DEF here
  <2>2. QED
    BY <2>1, Went DEF Turns
<1>2. QED
  BY <1>1

(* Only a start leads to the hook before a run. *)
LEMMA NoHook ==
    ASSUME Shape, NEW c \in Callers, Drive(c)
    PROVE  proc'[c].pc # "beforeRun"
<1>1. CASE BeforeRun(c) \/ ApplyCompaction(c) \/ NavigateStart(c) \/ NavigateMove(c)
             \/ MaterialiseInput(c)
  BY <1>1, AcceptEffects DEF Turns, Ends, Idle
<1>2. CASE CheckpointWrites(c) \/ CheckpointSteer(c) \/ AbortWrites(c)
  BY <1>2, TodoEffects DEF Turns, Lists, CheckpointWrites, CheckpointSteer, AbortWrites
<1>3. CASE LoopTop(c) \/ CheckpointRead(c) \/ Ask(c) \/ CutOff(c) \/ Defer(c)
             \/ FlushAssistant(c) \/ WriteResult(c) \/ Park(c)
  BY <1>3, LoopEffects DEF Turns, Lists, Ends
<1>4. CASE Answer(c) \/ RecordTool(c) \/ ExecuteTool(c) \/ StepEnd(c)
  BY <1>4, ResponseEffects DEF Turns
<1>5. CASE RoundEnd(c) \/ AbortNote(c) \/ AbortRead(c)
  BY <1>5, EndEffects DEF Ends
<1>6. CASE Finish(c) \/ Release(c)
  <2>1. proc'[c].pc = "release" \/ proc'[c] = Idle
    BY <1>6, EndEffects DEF Turns
  <2>2. QED
    BY <2>1 DEF Idle
<1>7. CASE Resumed(c) \/ Redeem(c) \/ EnsureAssistant(c) \/ Reconcile(c) \/ WriteReplayed(c)
             \/ Reconciled(c)
  BY <1>7, ResumeEffects DEF Turns, Ends, Lists, Idle, At
<1>8. QED
  BY <1>1, <1>2, <1>3, <1>4, <1>5, <1>6, <1>7 DEF Drive

(* How a running coroutine came to run. *)
LEMMA RunsOn ==
    ASSUME OneRound, Shape, Life, Fresh, NEW c \in Callers, Start(c) \/ Resume(c) \/ Drive(c),
           Running(proc'[c])
    PROVE  \/ Start(c) /\ proc'[c].pc = "beforeRun"
           \/ /\ ~Start(c) /\ proc'[c].op = proc[c].op
              /\ \/ Running(proc[c])
                 \/ Resumed(c) /\ proc'[c].pc = "ensure" /\ ops[proc[c].op].kind # "navigation"
<1>1. AttemptOK(proc[c], Ready(c))
  BY DEF Fresh, Attempts
<1>2. Advance(c)
  BY <1>1, Advances
<1>3. CASE Start(c)
  BY <1>3, StartEffects DEF Running, Looping, Repairing
<1>4. CASE Resume(c)
  BY <1>4, ResumeStarts DEF Running, Looping, Repairing
<1>5. CASE Drive(c) /\ ~Start(c)
  <2>1. proc'[c].pc \in Counted /\ proc'[c].pc # "resumed"
    BY DEF Running, Counted, ToolTodo, Looping, Repairing
  <2>2. proc'[c].pc # "beforeRun"
    BY <1>5, NoHook
  <2>3. Resumed(c) /\ proc'[c].pc \in ToolTodo => ops[proc[c].op].kind # "navigation"
    BY ResumedAs DEF ToolTodo
  <2>4. proc[c].pc \in ToolTodo /\ proc[c].pc # "resumed" => proc[c].pc \in Repairing
    BY DEF ToolTodo, Repairing
  <2>5. proc[c].pc = "resumed" => Resumed(c)
    BY <1>5, StepsFrom
  <2>6. Resumed(c) => proc'[c].op = proc[c].op /\ proc'[c].pc \in {"move", "redeem", "ensure"}
    BY ResumeEffects DEF Turns, Keeps
  <2>7. CASE Resumed(c)
    BY <1>5, <2>3, <2>6, <2>7 DEF Running, Looping, Repairing, ToolTodo
  <2>8. CASE ~Resumed(c)
    BY CountedAre, <1>2, <2>1, <2>2, <2>4, <2>5, <2>8, <1>5 DEF Running, Advance, Repairing,
       Within
  <2>9. QED
    BY <2>7, <2>8
<1>6. QED
  BY <1>3, <1>4, <1>5

LEMMA InitKinds == Init => Kinds
BY DEF Init, Idle, Kinds, Running, Looping, Repairing

(* A commit adds to the log only the tool its coroutine has at hand. *)
LEMMA CommitTool ==
    ASSUME Shape, Life, Commit
    PROVE  \/ UNCHANGED toolLog
           \/ \E c \in Callers :
                /\ proc[c].pc = "execute" /\ ~Ready(c) /\ Ready(c)'
                /\ toolLog' = toolLog \cup {ToolOf(proc[c])}
                /\ lane' = ToolStarted(lane, [tool |-> ToolOf(proc[c])]) /\ UNCHANGED entries
<1> DEFINE h == Head(chain)
           r == h.what
<1>1. h = chain[1] /\ 1 \in DOMAIN chain
  BY CommitEffects
<1>2. CASE h.put = "entry"
  BY <1>2, CommitEffects DEF CommitEntry
<1>3. CASE h.put = "record"
  <2>1. CommitRecord(r) /\ r \in RecordSet
    BY <1>3, CommitEffects
  <2>2. CASE r.kind # "tool_started"
    BY <2>1, <2>2 DEF CommitRecord
  <2>3. CASE r.kind = "tool_started"
    <3>1. PICK c \in Callers : h.by = c /\ Due(proc[c], h)
      BY <1>1, <2>3 DEF Life, OwnAppends, ApiKinds
    <3>2. proc[c].pc = "execute" /\ r.tool = ToolOf(proc[c])
      BY <1>3, <2>3, <3>1 DEF Due, DueRecord
    <3>3. Ready(c)' /\ ~Ready(c)
      BY <1>1, <3>1, HeadGone DEF Ready
    <3>4. ApplyRecord(lane, r) = ToolStarted(lane, r)
      BY <2>3 DEF ApplyRecord
    <3>5. ToolStarted(lane, r) = ToolStarted(lane, [tool |-> r.tool])
      BY DEF ToolStarted
    <3>6. QED
      BY <2>1, <2>3, <3>2, <3>3, <3>4, <3>5 DEF CommitRecord
  <2>4. QED
    BY <2>2, <2>3
<1>4. QED
  BY <1>2, <1>3, CommitEffects

LEMMA OpsOnlyGrow ==
    ASSUME Shape, [Next]_vars
    PROVE  DOMAIN ops = 1..Len(ops) /\ DOMAIN ops \subseteq DOMAIN ops'
<1>1. ops \in Seq(OpSet)
  BY DEF Shape, DiskShape
<1>2. ops' = ops \/ \E o : ops' = Append(ops, o)
  BY StartEffects, OpsStay DEF vars, disk, Abort, DeferWrite, Enqueue, Commit, Crash, Next
<1>3. QED
  BY <1>1, <1>2

LEMMA StepKinds ==
    ASSUME OneCaller, OneRound, Shape, Life, Fresh, Kinds, [Next]_vars
    PROVE  Kinds'
<1>1. /\ DOMAIN ops \subseteq DOMAIN ops' /\ \A op \in DOMAIN ops : ops'[op] = ops[op]
  BY OpsGrow, OpsOnlyGrow
<1>2. \A c \in Callers : Running(proc[c]) => proc[c].op \in DOMAIN ops
  <2>1. ASSUME NEW c \in Callers, Running(proc[c])
        PROVE  proc[c].op \in DOMAIN ops
    BY <2>1, OpsShape DEF Running, Looping, Repairing, Shape, DiskShape
  <2>2. QED
    BY <2>1
<1>3. ASSUME UNCHANGED toolLog, UNCHANGED proc \/ \A c \in Callers : proc'[c] = Idle
      PROVE  Kinds'
  BY <1>1, <1>2, <1>3 DEF Kinds, Running, Idle, Looping, Repairing
<1>4. CASE Commit
  <2>1. UNCHANGED proc
    BY <1>4, CommitEffects
  <2>2. CASE UNCHANGED toolLog
    BY <1>3, <2>1, <2>2
  <2>3. ASSUME NEW c \in Callers, proc[c].pc = "execute", toolLog' = toolLog \cup {ToolOf(proc[c])}
        PROVE  Kinds'
    BY <2>3, <1>1, <1>2, <2>1 DEF Running, Looping, ToolOf, AssistantId, Id, Kinds
  <2>4. QED
    BY <1>4, <2>2, <2>3, CommitTool
<1>5. CASE Crash
  BY <1>3, <1>5 DEF Crash, disk
<1>6. CASE Abort \/ DeferWrite \/ \E queue \in Queues : Enqueue(queue)
  BY <1>3, <1>6 DEF Abort, DeferWrite, Enqueue, disk
<1>7. CASE UNCHANGED vars
  BY <1>3, <1>7 DEF vars, live, disk
<1>8. ASSUME NEW c \in Callers, Start(c) \/ Resume(c) \/ Drive(c)
      PROVE  Kinds'
  <2>1. UNCHANGED toolLog
    BY <1>8, CallerWrites
  <2>2. ASSUME Running(proc'[c])
        PROVE  ops'[proc'[c].op].kind # "navigation"
    <3>1. CASE Start(c) /\ proc'[c].pc = "beforeRun"
      <4>1. PICK input \in InputIds \cup {None} :
              ops' = Append(ops, [kind |-> "prompt", input |-> input])
        BY <3>1, StartsAs
      <4>2. ops \in Seq(OpSet) /\ proc'[c].op = Len(ops) + 1
        BY <3>1, StartEffects DEF Shape, DiskShape
      <4>3. QED
        BY <4>1, <4>2
    <3>2. CASE proc'[c].op = proc[c].op /\ proc[c].op \in DOMAIN ops
                 /\ ops[proc[c].op].kind # "navigation"
      BY <1>1, <3>2
    <3>3. Resumed(c) => proc[c].op \in DOMAIN ops
      BY OpsShape, ResumeEffects DEF At, Shape, DiskShape
    <3>4. QED
      BY <1>2, <1>8, <2>2, <3>1, <3>2, <3>3, RunsOn DEF Kinds
  <2>3. QED
    BY <1>1, <2>1, <2>2 DEF Kinds, OneCaller
<1>9. QED
  BY <1>4, <1>5, <1>6, <1>7, <1>8 DEF Next

-----------------------------------------------------------------------------
(* The api appends records only. *)
LEMMA ApiPuts ==
    ASSUME Shape, Abort \/ DeferWrite \/ \E queue \in Queues : Enqueue(queue)
    PROVE  /\ \A i \in DOMAIN chain : i \in DOMAIN chain' /\ chain'[i] = chain[i]
           /\ \A i \in DOMAIN chain' :
                chain'[i].put = "entry" => i \in DOMAIN chain /\ chain'[i] = chain[i]
<1>1. UNCHANGED chain \/ \E a : chain' = Append(chain, a) /\ a.put = "record"
  BY RecordIssued DEF Abort, DeferWrite, Enqueue
<1>2. chain \in Seq(ChainSet)
  BY DEF Shape, ChainShape
<1>3. ASSUME NEW a, chain' = Append(chain, a), a.put = "record"
      PROVE  /\ \A i \in DOMAIN chain : i \in DOMAIN chain' /\ chain'[i] = chain[i]
             /\ \A i \in DOMAIN chain' :
                  chain'[i].put = "entry" => i \in DOMAIN chain /\ chain'[i] = chain[i]
  BY <1>2, <1>3
<1>4. QED
  BY <1>1, <1>3

LEMMA InitLeaves == Init => Leaves
BY DEF Init, Idle, Leaves, LeafOK, LeafWhat, Looping, Repairing

(* A caller that may move waits for no entry.                              *)
LEMMA NothingPut ==
    ASSUME OneCaller, Life, NEW c \in Callers, Ready(c)
    PROVE  \A i \in DOMAIN chain : chain[i].put # "entry"
BY DEF OneCaller, Life, OwnAppends, Ready

(* What an entry appended by a caller that waits for nothing changes. *)
LEMMA EntryPut ==
    ASSUME OneCaller, Shape, Life, NEW c \in Callers, Ready(c), UNCHANGED entries,
           NEW id, NEW what, NEW tok, AppendEntry(c, id, what, tok)
    PROVE  /\ \/ InTree(id) /\ UNCHANGED chain
              \/ ~InTree(id) /\ ~Ready(c)'
           /\ \A i \in DOMAIN chain' : chain'[i].put = "entry" =>
                ~InTree(id) /\ chain'[i].what = [id |-> id, what |-> what, tok |-> tok]
           /\ ~InTree(id) => \E i \in DOMAIN chain' :
                chain'[i].put = "entry" /\ chain'[i].what = [id |-> id, what |-> what, tok |-> tok]
<1> DEFINE a == [by |-> c, put |-> "entry", what |-> [id |-> id, what |-> what, tok |-> tok]]
<1>1. chain \in Seq(ChainSet)
  BY DEF Shape, ChainShape
<1>2. \A i \in DOMAIN chain : chain[i].put # "entry"
  BY NothingPut
<1>3. CASE InTree(id)
  BY <1>2, <1>3 DEF AppendEntry
<1>4. CASE ~InTree(id)
  <2>1. /\ chain' = Append(chain, a) /\ a.put = "entry" /\ a.by = c
        /\ a.what = [id |-> id, what |-> what, tok |-> tok]
    BY <1>4 DEF AppendEntry
  <2> HIDE DEF a
  <2>2. /\ DOMAIN chain' = DOMAIN chain \cup {Len(chain) + 1}
        /\ chain'[Len(chain) + 1] = a /\ \A i \in DOMAIN chain : chain'[i] = chain[i]
    BY <1>1, <2>1
  <2>3. QED
    BY <1>2, <1>4, <2>1, <2>2 DEF Ready
<1>5. QED
  BY <1>3, <1>4

(* A record appended by a caller that waits for nothing. *)
LEMMA RecordPut ==
    ASSUME OneCaller, Shape, Life, NEW c \in Callers, Ready(c), NEW r, AppendRecord(c, r)
    PROVE  ~Ready(c)' /\ \A i \in DOMAIN chain' : chain'[i].put # "entry"
BY NothingPut, RecordIssued, AppendedNotReady DEF Shape, ChainShape

(* Every caller's step finds its own appends done. *)
LEMMA CallerReady ==
    ASSUME OneRound, Shape, Life, Fresh, NEW c \in Callers, Start(c) \/ Resume(c) \/ Drive(c)
    PROVE  Ready(c) /\ Advance(c) /\ AttemptOK(proc[c], TRUE)
BY Advances DEF Fresh, Attempts, AttemptOK, Behind

(* Handles and notes of exhaustion are issued where they belong. *)
LEMMA TimelyPuts ==
    ASSUME OneCaller, Shape, Life, NEW c \in Callers, Ready(c), Start(c) \/ Resume(c) \/ Drive(c)
    PROVE  \A i \in DOMAIN chain' : chain'[i].put = "entry" =>
             /\ Timely(chain'[i].what.what, proc'[c])
             /\ chain'[i].what.what = "exhausted" => Resume(c)
<1> DEFINE Puts(what) == \E id, tok : AppendEntry(c, id, what, tok)
           Plainly == \/ UNCHANGED chain
                      \/ \E r : AppendRecord(c, r)
                      \/ \E what : what \notin {"handle", "exhausted"} /\ Puts(what)
           Handle == proc'[c].pc = "release" /\ Puts("handle")
           Note == Resume(c) /\ proc'[c].pc = "finish" /\ Puts("exhausted")
<1>1. ASSUME Start(c)
      PROVE  Plainly
  BY <1>1, StartEffects
<1>2. ASSUME Resume(c)
      PROVE  Plainly \/ Note
  BY <1>2, ResumeStarts
<1>3. ASSUME BeforeRun(c) \/ ApplyCompaction(c) \/ NavigateStart(c) \/ NavigateMove(c)
              \/ MaterialiseInput(c)
      PROVE  Plainly
  BY <1>3, AcceptEffects
<1>4. ASSUME CheckpointWrites(c) \/ CheckpointSteer(c) \/ AbortWrites(c)
      PROVE  Plainly
  BY <1>4, TodoEffects DEF CheckpointWrites, CheckpointSteer, AbortWrites
<1>5. ASSUME LoopTop(c) \/ CheckpointRead(c) \/ Ask(c) \/ CutOff(c) \/ Defer(c)
              \/ FlushAssistant(c) \/ WriteResult(c)
      PROVE  Plainly
  BY <1>5, LoopEffects
<1>6. ASSUME Park(c)
      PROVE  Handle
  BY <1>6, LoopEffects DEF Turns
<1>7. ASSUME Answer(c) \/ RecordTool(c) \/ ExecuteTool(c) \/ StepEnd(c)
      PROVE  Plainly
  BY <1>7, ResponseEffects
<1>8. ASSUME RoundEnd(c) \/ AbortNote(c) \/ AbortRead(c) \/ Finish(c) \/ Release(c)
      PROVE  Plainly
  BY <1>8, EndEffects
<1>9. ASSUME Resumed(c) \/ Redeem(c) \/ EnsureAssistant(c) \/ Reconcile(c) \/ WriteReplayed(c)
              \/ Reconciled(c)
      PROVE  Plainly
  BY <1>9, ResumeEffects
<1>10. UNCHANGED entries
  BY CallerWrites
<1>11. ASSUME NEW what, Puts(what)
       PROVE  \A i \in DOMAIN chain' : chain'[i].put = "entry" => chain'[i].what.what = what
  <2>1. PICK id, tok : AppendEntry(c, id, what, tok)
    BY <1>11
  <2>2. \A i \in DOMAIN chain' :
          chain'[i].put = "entry" => chain'[i].what = [id |-> id, what |-> what, tok |-> tok]
    BY <1>10, <2>1, EntryPut
  <2>3. QED
    BY <2>2
<1>12. CASE Plainly
  BY <1>11, <1>12, NothingPut, RecordPut DEF Timely
<1>13. CASE Handle
  BY <1>11, <1>13 DEF Timely
<1>14. CASE Note
  BY <1>11, <1>14 DEF Timely
<1> HIDE DEF Plainly, Handle, Note
<1>15. QED
  BY <1>1, <1>2, <1>3, <1>4, <1>5, <1>6, <1>7, <1>8, <1>9, <1>12, <1>13, <1>14 DEF Drive

(* A step of a caller keeps it in line with the leaf.                      *)
LEMMA LeafCaller ==
    ASSUME OneCaller, OneRound, NoneIsNoId, Shape, Life, Fresh, Inputs, Leaves,
           NEW c \in Callers, Start(c) \/ Resume(c) \/ Drive(c)
    PROVE  LeafOK(proc[c], Ready(c))'
<1> DEFINE p == proc[c]
           q == proc'[c]
<1>1. Ready(c) /\ Advance(c) /\ UNCHANGED entries /\ LeafOK(p, TRUE)
  BY CallerReady, CallerWrites DEF Leaves
<1>2. LeafWhat' = LeafWhat /\ \A id : InTree(id)' <=> InTree(id)
  BY <1>1 DEF LeafWhat, InTree
<1>3. CASE Start(c)
  <2>1. q.pc \in {"beforeRun", "navigate", "compact"} /\ q.op = Len(ops) + 1
    BY <1>3, StartEffects
  <2>2. PICK input \in InputIds \cup {None}, kind \in OpKinds :
          /\ ops' = Append(ops, [kind |-> kind, input |-> input])
          /\ q.pc = "beforeRun" => input = InputId(Len(ops) + 1) \/ (input \in QueuedIds /\ ~InTree(input))
    BY <1>3, StartsAs
  <2>3. ops \in Seq(OpSet) /\ Len(ops) + 1 \in Nat /\ ops'[Len(ops) + 1].input = input
    BY <2>2 DEF Shape, DiskShape
  <2>4. ~InTree(InputId(Len(ops) + 1))
    BY <2>3 DEF Inputs, Written
  <2>5. q.pc = "beforeRun" => input # None /\ ~InTree(input)
    BY <2>2, <2>3, <2>4, IdsAreIds, KindsOfIds DEF NoneIsNoId
  <2>6. QED
    BY <1>2, <2>1, <2>3, <2>5 DEF LeafOK, Looping, Repairing
<1>4. CASE Resume(c)
  BY <1>4, ResumeStarts DEF LeafOK, Looping, Repairing
<1>5. CASE Drive(c)
  <2>1. UNCHANGED ops
    BY <1>5, OpsStay
  <2>2. ASSUME q.pc \in Looping, Ready(c)' \/ q.pc = "execute"
        PROVE  LeafWhat # "handle"
    <3>1. p.pc \in Looping \/ (p.pc = "input" /\ q.pc = "top")
      BY <1>1, <2>2, CountedAre DEF Advance, Counted, Looping
    <3>2. CASE p.pc \in Looping
      BY <1>1, <3>2 DEF LeafOK
    <3>3. CASE p.pc = "input" /\ q.pc = "top"
      BY <1>5, <2>2, <3>3, StepsFrom, <1>1, EntryPut DEF MaterialiseInput, LeafOK
    <3>4. QED
      BY <3>1, <3>2, <3>3
  <2>3. ASSUME q.pc \in Repairing, q.outcome # "aborted"
        PROVE  LeafWhat # "handle"
    BY <1>1, <2>3, CountedAre, <1>5, StepsFrom, ResumedAs, ResumeEffects DEF Advance, Counted,
       Repairing, ToolTodo, Turns, LeafOK
  <2>4. ASSUME q.pc \in {"beforeRun", "input"}
        PROVE  LeafWhat # "handle" \/ (ops[q.op].input # None /\ ~InTree(ops[q.op].input))
    BY <1>1, <1>5, <2>4, NoHook, CountedAre DEF Advance, Counted, Within, Looping, ToolTodo,
       LeafOK, Repairing
  <2>5. QED
    BY <1>2, <2>1, <2>2, <2>3, <2>4 DEF LeafOK
<1>6. QED
  BY <1>3, <1>4, <1>5

(* So does a commit.                                                       *)
LEMMA LeafCommit ==
    ASSUME OneCaller, Shape, Life, Leaves, Commit
    PROVE  Leaves'
<1> DEFINE h == Head(chain)
           e == h.what
<1>1. /\ UNCHANGED <<proc, ops>> /\ h = chain[1] /\ 1 \in DOMAIN chain
      /\ \A i \in DOMAIN chain' : i + 1 \in DOMAIN chain /\ chain'[i] = chain[i + 1]
  BY CommitEffects, HeadGone
<1>2. \A i \in DOMAIN chain' :
        chain'[i].put = "entry" => \A c \in Callers : Timely(chain'[i].what.what, proc'[c])
  BY <1>1 DEF Leaves
<1>3. CASE h.put = "entry" /\ e \in PutSet /\ CommitEntry(e)
  <2>1. LeafWhat' = e.what /\ \A id : InTree(id) => InTree(id)'
    BY <1>3 DEF CommitEntry, PutSet, Shape, DiskShape, LeafWhat, Last, InTree
  <2>2. ASSUME NEW c \in Callers
        PROVE  LeafOK(proc[c], Ready(c))'
    BY <1>1, <1>3, <2>1 DEF Leaves, Timely, LeafOK, Looping, Repairing
  <2>3. QED
    BY <1>2, <2>2 DEF Leaves
<1>4. CASE h.put = "record" /\ UNCHANGED entries
  <2>1. LeafWhat' = LeafWhat /\ \A id : InTree(id)' <=> InTree(id)
    BY <1>4 DEF LeafWhat, InTree
  <2>2. ASSUME NEW c \in Callers
        PROVE  LeafOK(proc[c], Ready(c))'
    <3>1. Ready(c)' => Ready(c) \/ proc[c].pc \in Early \cup {"release", "resumed", "execute"}
      BY <1>1, <1>4, HeadGone DEF Life, OwnAppends, Due, DueRecord, Early
    <3>2. QED
      BY <1>1, <2>1, <3>1 DEF LeafOK, Leaves, Looping, Repairing, Early
  <2>3. QED
    BY <1>2, <2>2 DEF Leaves
<1>5. QED
  BY <1>3, <1>4, CommitEffects DEF CommitRecord

LEMMA StepLeaves ==
    ASSUME OneCaller, OneRound, NoneIsNoId, BoundsAssumption, Shape, Life, Fresh, Inputs, Leaves,
           [Next]_vars
    PROVE  Leaves'
<1>1. CASE Commit
  BY <1>1, LeafCommit
<1>2. CASE Crash
  BY <1>2 DEF Crash, Leaves, LeafOK, Idle, Looping, Repairing
<1>3. CASE Abort \/ DeferWrite \/ \E queue \in Queues : Enqueue(queue)
  <2>1. UNCHANGED <<proc, ops, entries>>
    BY <1>3 DEF Abort, DeferWrite, Enqueue, disk
  <2>2. \A c \in Callers : Ready(c)' <=> Ready(c)
    BY <1>3, ApiReady
  <2>3. LeafWhat' = LeafWhat /\ \A id : InTree(id)' <=> InTree(id)
    BY <2>1 DEF LeafWhat, InTree
  <2>4. \A i \in DOMAIN chain' : chain'[i].put = "entry" => i \in DOMAIN chain /\ chain'[i] = chain[i]
    BY <1>3, ApiPuts
  <2>5. QED
    BY <2>1, <2>2, <2>3, <2>4 DEF Leaves, LeafOK
<1>4. CASE UNCHANGED vars
  BY <1>4 DEF vars, live, disk, Leaves, LeafOK, LeafWhat, InTree, Ready
<1>5. ASSUME NEW c \in Callers, Start(c) \/ Resume(c) \/ Drive(c)
      PROVE  Leaves'
  BY <1>5, LeafCaller, CallerReady, TimelyPuts DEF Leaves, OneCaller
<1>6. QED
  BY <1>1, <1>2, <1>3, <1>4, <1>5 DEF Next

-----------------------------------------------------------------------------

LEMMA InitFlushed == Init => Flushed
BY DEF Init, Idle, Flushed

LEMMA StepFlushed ==
    ASSUME OneCaller, BoundsAssumption, Shape, Life, Flushed, [Next]_vars
    PROVE  Flushed'
<1>1. \A c \in Callers : ToolOf(proc[c]).id \in IdSet
  <2>1. SUFFICES ASSUME NEW c \in Callers
                 PROVE  ToolOf(proc[c]).id \in IdSet
    OBVIOUS
  <2>2. proc[c].op \in Nat /\ proc[c].att \in Nat /\ proc[c].step \in Nat
    BY DEF Shape, ProcShape, ProcSet
  <2>3. QED
    BY <2>2, IdsAreIds, KindsOfIds DEF ToolOf
<1>2. ASSUME UNCHANGED proc, \A id \in IdSet : Written(id) => Written(id)'
      PROVE  Flushed'
  BY <1>1, <1>2 DEF Flushed
<1>3. CASE Commit
  BY <1>2, <1>3, CommitAdds, CommitEffects
<1>4. CASE Crash
  BY <1>4 DEF Crash, Flushed, Idle
<1>5. CASE Abort \/ DeferWrite \/ \E queue \in Queues : Enqueue(queue)
  BY <1>2, <1>5, ApiReady DEF Abort, DeferWrite, Enqueue
<1>6. CASE UNCHANGED vars
  BY <1>2, <1>6, NothingAdds DEF vars, live, disk
<1>7. ASSUME NEW c \in Callers, Start(c) \/ Resume(c) \/ Drive(c), proc'[c].pc = "result"
      PROVE  FlushAssistant(c)
  BY <1>7, OtherSteps, ResponseEffects, ResumeEffects, LoopEffects DEF Responding, Handles,
     Turns, Lists, At
<1>8. ASSUME NEW c \in Callers, FlushAssistant(c)
      PROVE  Written(ToolOf(proc[c]).id)'
  <2>1. /\ UNCHANGED entries /\ \E what, tok : AppendEntry(c, Slot(c), what, tok)
        /\ Slot(c) = ToolOf(proc'[c]).id
    BY <1>8, LoopEffects DEF Still, Turns, Keeps, Slot, ToolOf
  <2>2. PICK id : id = Slot(c)
    OBVIOUS
  <2>3. Written(id)' /\ id = ToolOf(proc'[c]).id
    BY <2>1, <2>2, EntryAdds
  <2>4. QED
    BY <2>3 DEF Written, InTree
<1>9. ASSUME NEW c \in Callers, Start(c) \/ Resume(c) \/ Drive(c)
      PROVE  Flushed'
  BY <1>7, <1>8, <1>9 DEF Flushed, OneCaller
<1>10. QED
  BY <1>3, <1>4, <1>5, <1>6, <1>9 DEF Next

-----------------------------------------------------------------------------

LEMMA InitStrict == Init => Strict
BY DEF Init, Idle, Strict, Exchanges, Outstanding, Fitting, Settles, Awaits, Calm, ToolTodo,
       Unsettled

LEMMA LabelGroups ==
    /\ Calm \cap {"idle", "execute", "assistant", "result", "stepEnd", "finish"} = {}
    /\ Calm \cap ToolTodo = {}
    /\ ToolTodo \cap {"idle", "execute", "assistant", "result", "stepEnd", "finish"} = {}
BY DEF Calm, ToolTodo

(* At a label without obligations of its own no tool lacks its result. *)
LEMMA CalmSettles ==
    ASSUME Unsettled = {}, NEW q, NEW ready, q.pc \notin {"execute", "assistant"}
    PROVE  Settles(q, ready)
BY DEF Settles

(* The ids that no tool has. *)
LEMMA PlainFits ==
    ASSUME Shape, Unsettled = {}, NEW id, id.k \notin {"result", "assistant"}, NEW tok,
           NEW what, what \notin ResultWhats \cup {"call"}
    PROVE  Fits(id, what, tok)
BY DEF Shape, DiskShape, ToolSet, AssistantIds, IdsOf, Fits

LEMMA PlainIds ==
    /\ \A op : CompactionId(op).k = "compaction"
    /\ AutoId.k = "auto"
    /\ \A id \in InputIds \cup DeferredIds \cup QueuedIds : id.k \notin {"result", "assistant"}
BY DEF CompactionId, AutoId, Id, InputIds, DeferredIds, QueuedIds, IdsOf

(* A step of a run that is past the steps before it. *)
LEMMA NewSlot ==
    ASSUME Shape, Fresh, NEW c \in Callers, proc[c].pc = "model", NEW t \in toolLog
    PROVE  t.id # AssistantId(proc[c].op, proc[c].att, proc[c].step + 1)
<1>1. proc[c].op \in Nat /\ proc[c].att \in Nat /\ proc[c].step \in Nat
  BY DEF Shape, ProcShape, ProcSet
<1>2. OldFor(proc[c], Ready(c), t.id, {"toolStarted"})
  BY DEF Fresh, FreshTools, Old
<1>3. SUFFICES ASSUME t.id = AssistantId(proc[c].op, proc[c].att, proc[c].step + 1)
               PROVE  FALSE
  OBVIOUS
<1>4. t.id.op = proc[c].op /\ t.id.att = proc[c].att /\ t.id.n = proc[c].step + 1
  BY <1>3 DEF AssistantId, Id
<1>5. QED
  BY <1>1, <1>2, <1>4 DEF OldFor, Looping

LEMMA NothingComes ==
    ASSUME OneCaller, Life, NEW c \in Callers, Ready(c), NEW whats
    PROVE  ~Coming(whats)
BY NothingPut DEF Coming

(* A caller appends what the transcript may take. *)
LEMMA FitsCaller ==
    ASSUME OneCaller, OneRound, Shape, Life, Unique, Recalled, Fresh, Tools, Flushed, Strict,
           NEW c \in Callers, Start(c) \/ Resume(c) \/ Drive(c)
    PROVE  Fitting'
<1> DEFINE p == proc[c]
           Quietly == UNCHANGED chain \/ \E r : AppendRecord(c, r)
           Plainly == \E id, what, tok :
                        /\ id.k \notin {"result", "assistant"}
                        /\ what \notin ResultWhats \cup {"call"} /\ AppendEntry(c, id, what, tok)
           Puts == \E id, what, tok : (InTree(id) \/ Fits(id, what, tok)) /\ AppendEntry(c, id, what, tok)
<1>1. Ready(c) /\ UNCHANGED <<entries, toolLog>>
  BY CallerReady, CallerWrites
<1>2. Settles(p, TRUE) /\ Exchanges
  BY <1>1 DEF Strict
<1>3. p.pc \in Calm => Unsettled = {}
  BY <1>2 DEF Settles
<1>4. Unsettled = {} /\ Plainly => Puts
  BY PlainFits
<1>5. ASSUME Start(c)
      PROVE  Quietly
  BY <1>5, StartEffects
<1>6. ASSUME Resume(c)
      PROVE  Quietly \/ Puts
  BY ToolIds, OtherIds, PlainIds, <1>6, ResumeStarts DEF Fits, ResultWhats
<1>7. ASSUME BeforeRun(c) \/ ApplyCompaction(c) \/ NavigateStart(c) \/ NavigateMove(c)
               \/ MaterialiseInput(c)
      PROVE  Quietly \/ (p.pc \in Calm /\ Plainly)
  <2>1. CASE BeforeRun(c) \/ ApplyCompaction(c) \/ NavigateStart(c) \/ NavigateMove(c)
    BY <2>1, AcceptEffects, PlainIds DEF At, Calm, ResultWhats
  <2>2. CASE MaterialiseInput(c)
    BY <2>2, AcceptEffects, OpsShape, PlainIds DEF At, Calm, ResultWhats
  <2>3. QED
    BY <1>7, <2>1, <2>2
<1>8. ASSUME CheckpointWrites(c) \/ CheckpointSteer(c) \/ AbortWrites(c)
      PROVE  Quietly \/ (p.pc \in Calm /\ Plainly)
  <2>1. p.pc \in IdTodo /\ p.pc \in Calm
    BY <1>8, TodoEffects DEF At, CheckpointWrites, CheckpointSteer, AbortWrites, IdTodo, Calm
  <2>2. \/ UNCHANGED chain
        \/ p.todo # << >> /\ \E what \in {"deferred", "input"} : AppendEntry(c, Head(p.todo), what, 0)
    BY <1>8, TodoEffects DEF CheckpointWrites, CheckpointSteer, AbortWrites
  <2>3. p.todo # << >> => Head(p.todo) \in QueuedIds \cup DeferredIds
    BY <2>1 DEF Shape, ProcShape, ProcOK, TodoIds
  <2>4. QED
    BY <2>1, <2>2, <2>3, PlainIds DEF ResultWhats
<1>9. ASSUME LoopTop(c) \/ CheckpointRead(c) \/ Ask(c) \/ Defer(c) \/ Park(c)
      PROVE  Quietly \/ (p.pc \in Calm /\ Plainly)
  BY <1>9, LoopEffects, PlainIds DEF At, Calm, ResultWhats
<1>10. ASSUME CutOff(c)
       PROVE  Quietly \/ Puts
  BY <1>3, <1>10, LoopEffects, NewSlot DEF At, Calm, AssistantId, Id, Fits, ResultWhats
<1>11. ASSUME FlushAssistant(c)
       PROVE  Puts
  <2>1. p.pc = "assistant" /\ ToolPhase(p, Ready(c)) /\ Slot(c) = ToolOf(p).id
        /\ p.resp = ToolOf(p).resp
    BY <1>11, LoopEffects DEF At, Tools, ToolOf, Slot
  <2>2. CASE p.outcome = "tool"
    BY <2>1, <2>2, <1>2, <1>11, LoopEffects DEF ToolPhase, Exchanges, Unsettled, Fits
  <2>3. CASE p.outcome # "tool"
    <3>1. Unsettled = {} /\ NoToolOf(p) /\ Slot(c).k # "result"
      BY <1>2, <2>1, <2>3 DEF Settles, Slot, AssistantId, Id
    <3>2. Fits(Slot(c), "text", p.resp)
      BY <2>1, <3>1 DEF Fits, NoToolOf, ResultWhats
    <3>3. QED
      BY <1>11, <2>3, <3>2, LoopEffects
  <2>4. QED
    BY <2>2, <2>3
<1>12. ASSUME WriteResult(c)
       PROVE  Puts
  <2>1. p.pc = "result" /\ ToolPhase(p, Ready(c)) /\ Slot(c) = ToolOf(p).id
        /\ p.resp = ToolOf(p).resp
    BY <1>12, LoopEffects DEF At, Tools, ToolOf, Slot
  <2>2. ToolOf(p) \in toolLog
    BY <2>1 DEF ToolPhase
  <2>3. InTree(Slot(c))
    BY <1>1, <2>1, ReadyInTree DEF Flushed
  <2>4. InTree(ResultIdOf(Slot(c))) \/ Fits(ResultIdOf(Slot(c)), "result", p.resp)
    BY <2>1, <2>2, <2>3 DEF Fits, ResultWhats, Unsettled
  <2>5. QED
    BY <1>12, <2>4, LoopEffects
<1>13. ASSUME Answer(c) \/ RecordTool(c) \/ ExecuteTool(c) \/ StepEnd(c)
       PROVE  Quietly
  BY <1>13, ResponseEffects
<1>14. ASSUME RoundEnd(c) \/ AbortNote(c) \/ AbortRead(c) \/ Finish(c) \/ Release(c)
       PROVE  Quietly \/ (p.pc \in Calm /\ Plainly)
  BY <1>14, EndEffects, PlainIds DEF At, Calm, ResultWhats
<1>15. ASSUME Resumed(c) \/ Redeem(c) \/ Reconciled(c)
       PROVE  Quietly \/ (p.pc \in Calm /\ Plainly)
  BY <1>15, ResumeEffects, PlainIds DEF At, Calm, ResultWhats
<1>16. \A k \in DOMAIN p.todo : p.pc \in ToolTodo => p.todo[k] \in toolLog
  BY DEF Recalled
<1>17. ASSUME EnsureAssistant(c)
       PROVE  Quietly \/ Puts
  <2>1. p.pc \in ToolTodo
    BY <1>17, ResumeEffects DEF At, ToolTodo
  <2>2. ASSUME NEW k \in DOMAIN p.todo
        PROVE  InTree(p.todo[k].id) \/ Fits(p.todo[k].id, "call", p.todo[k].resp)
    BY <1>16, <2>1, <1>2 DEF Exchanges, Unsettled, Fits
  <2>3. QED
    BY <1>17, <2>2, ResumeEffects
<1>18. ASSUME Reconcile(c) \/ WriteReplayed(c)
       PROVE  Quietly \/ Puts
  <2>1. p.pc \in {"reconcile", "replayed"} /\ p.pc \in ToolTodo
    BY <1>18, ResumeEffects DEF At, ToolTodo
  <2>2. ASSUME NEW k \in DOMAIN p.todo, NEW what \in ResultWhats
        PROVE  \/ InTree(ResultIdOf(p.todo[k].id))
               \/ Fits(ResultIdOf(p.todo[k].id), what, p.todo[k].resp)
    BY <1>16, <2>1, <1>2 DEF Settles, Unsettled, Fits
  <2>3. CASE Reconcile(c)
    BY <2>3, ResumeEffects, <2>2 DEF Unanswered, ResultWhats
  <2>4. CASE WriteReplayed(c)
    BY <2>4, ResumeEffects, <2>2 DEF At, Shape, ProcShape, ProcOK, ToolTodo, ResultWhats
  <2>5. QED
    BY <1>18, <2>3, <2>4
<1>19. \A id, what, tok : Fits(id, what, tok)' <=> Fits(id, what, tok)
  BY <1>1 DEF Fits, Unsettled, InTree
<1>20. CASE Quietly
  BY <1>1, <1>20, NothingPut, RecordPut DEF Fitting
<1>21. CASE Puts
  <2>1. PICK id, what, tok : (InTree(id) \/ Fits(id, what, tok)) /\ AppendEntry(c, id, what, tok)
    BY <1>21
  <2>2. \A i \in DOMAIN chain' : chain'[i].put = "entry" =>
          ~InTree(id) /\ chain'[i].what = [id |-> id, what |-> what, tok |-> tok]
    BY <1>1, <2>1, EntryPut
  <2>3. \A i \in DOMAIN chain' : chain'[i].put = "entry" =>
          /\ chain'[i].what.id = id /\ chain'[i].what.what = what /\ chain'[i].what.tok = tok
          /\ Fits(id, what, tok)'
    BY <1>19, <2>1, <2>2
  <2>4. QED
    BY <2>3 DEF Fitting
<1> HIDE DEF Quietly, Plainly, Puts
<1>22. QED
  BY <1>3, <1>4, <1>5, <1>6, <1>7, <1>8, <1>9, <1>10, <1>11, <1>12, <1>13, <1>14, <1>15, <1>17,
     <1>18, <1>20, <1>21 DEF Drive

(* The calls of the tools to settle are in the tree before any of them is. *)
LEMMA EnsureEnds ==
    ASSUME Shape, NEW c \in Callers, EnsureAssistant(c)
    PROVE  /\ proc[c].pc = "ensure"
           /\ \/ UNCHANGED proc
              \/ Turns(c, "reconcile") /\ \A k \in DOMAIN proc[c].todo : InTree(proc[c].todo[k].id)
BY Went DEF EnsureAssistant, At

(* A replay passes over none that lacks its result. *)
LEMMA ReplaysFirst ==
    ASSUME Shape, NEW c \in Callers, Reconcile(c)
    PROVE  /\ proc[c].pc = "reconcile"
           /\ \/ UNCHANGED proc
              \/ /\ proc'[c].pc = "replayed"
                 /\ \A j \in Unanswered(c) :
                      \E k \in DOMAIN proc'[c].todo : proc'[c].todo[k] = proc[c].todo[j]
<1> DEFINE todo == proc[c].todo
<1>1. proc[c].pc = "reconcile" /\ todo \in Seq(ToolSet)
  BY DEF Reconcile, At, Shape, ProcShape, ProcOK, ToolTodo
<1>2. PICK k \in Unanswered(c) :
        /\ First(Unanswered(c), k)
        /\ \/ Update(c, [proc[c] EXCEPT !.pc = "replayed", !.todo = SubSeq(todo, k, Len(todo))])
           \/ UNCHANGED proc
  BY DEF Reconcile
<1>3. CASE UNCHANGED proc
  BY <1>1, <1>3
<1>4. CASE Update(c, [proc[c] EXCEPT !.pc = "replayed", !.todo = SubSeq(todo, k, Len(todo))])
  <2>1. proc'[c].pc = "replayed" /\ proc'[c].todo = SubSeq(todo, k, Len(todo))
    <3>1. /\ proc'[c] = [proc[c] EXCEPT !.pc = "replayed", !.todo = SubSeq(todo, k, Len(todo))]
          /\ proc[c] \in ProcSet
      BY <1>4, Updated DEF Shape, ProcShape
    <3>2. QED
      BY <3>1 DEF ProcSet
  <2>2. ASSUME NEW j \in Unanswered(c)
        PROVE  \E i \in DOMAIN proc'[c].todo : proc'[c].todo[i] = todo[j]
    <3>1. k \in 1..Len(todo) /\ j \in 1..Len(todo) /\ k <= j /\ Len(todo) \in Nat
      BY <1>1, <1>2, <2>2 DEF Unanswered, First
    <3>2. j - k + 1 \in DOMAIN proc'[c].todo /\ proc'[c].todo[j - k + 1] = todo[j]
      BY <1>1, <2>1, <3>1
    <3>3. QED
      BY <3>2
  <2>3. QED
    BY <1>1, <2>1, <2>2
<1>5. QED
  BY <1>2, <1>3, <1>4

(* Without an open operation every tool has its result. *)
LEMMA NoneOutstanding ==
    ASSUME NoneIsNoName, Shape, Outstanding, lane.op = None
    PROVE  Unsettled = {}
BY DEF NoneIsNoName, Outstanding, Unsettled, Shape, DiskShape, ToolSet, AssistantIds, IdsOf

(* Where a step leads, what the new label relies on holds. *)
LEMMA SettlesCaller ==
    ASSUME OneCaller, OneRound, NoneIsNoName, Shape, Life, Recalled, Fresh, Tools, Kinds, Strict,
           NEW c \in Callers, Start(c) \/ Resume(c) \/ Drive(c)
    PROVE  /\ Settles(proc'[c], Ready(c)')
           /\ proc'[c].pc \in {"finish", "stepEnd"} => Unsettled = {} \/ Resume(c) \/ WriteResult(c)
<1> DEFINE p == proc[c]
           q == proc'[c]
           Goal == /\ Settles(q, Ready(c)')
                   /\ q.pc \in {"finish", "stepEnd"} => Unsettled = {} \/ Resume(c) \/ WriteResult(c)
<1>1. Ready(c) /\ UNCHANGED <<entries, toolLog>> /\ ToolPhase(p, TRUE)
  BY CallerReady, CallerWrites DEF Tools
<1>2. Settles(p, TRUE) /\ Awaits(p) /\ Exchanges /\ Outstanding
  BY <1>1 DEF Strict
<1>3. ASSUME Unsettled = {}, q.pc \notin {"execute", "assistant"}
      PROVE  Goal
  BY <1>3, CalmSettles
<1>4. p.pc \in Calm \cup {"finish", "stepEnd"} => Unsettled = {}
  BY <1>1, <1>2, NothingComes DEF Settles, Awaits
<1>5. CASE Start(c)
  BY <1>5, StartEffects, <1>2, <1>3, NoneOutstanding DEF Life, OpenOps
<1>6. CASE Resume(c)
  BY <1>6, ResumeStarts, <1>2 DEF Outstanding, Settles, Calm, ToolTodo
<1>7. CASE BeforeRun(c) \/ ApplyCompaction(c) \/ NavigateStart(c) \/ NavigateMove(c)
             \/ MaterialiseInput(c)
  BY <1>7, AcceptEffects, <1>3, <1>4 DEF At, Turns, Ends, Calm, Idle
<1>8. CASE CheckpointWrites(c) \/ CheckpointSteer(c) \/ AbortWrites(c)
  BY <1>8, TodoEffects, <1>3, <1>4 DEF At, Turns, Lists, CheckpointWrites, CheckpointSteer,
     AbortWrites, IdTodo, Calm
<1>9. CASE LoopTop(c) \/ CheckpointRead(c) \/ Ask(c) \/ CutOff(c) \/ Defer(c) \/ Park(c)
  BY <1>9, LoopEffects, <1>3, <1>4 DEF At, Turns, Lists, Ends, Calm
<1>10. CASE RoundEnd(c) \/ AbortNote(c) \/ AbortRead(c) \/ Finish(c) \/ Release(c)
  <2>1. p.pc \in Calm \cup {"finish"}
        /\ q.pc \in {"top", "finish", "abortRead", "abortWrites", "release", "idle"}
    BY EndEffects, IdleIsOK, <1>10 DEF At, Ends, Calm, Turns
  <2>2. QED
    BY <1>3, <1>4, <2>1
<1>11. CASE Answer(c)
  BY <1>11, ResponseEffects, <1>4, NewSlot, <1>3 DEF At, Calm, NoToolOf, ToolOf, Settles,
     ToolTodo
<1>12. CASE RecordTool(c)
  <2>1. p.pc = "toolStarted" /\ q.pc = "execute" /\ ToolOf(q).id = Slot(c)
    BY <1>12, ResponseEffects DEF At, Turns, Keeps, ToolOf, Slot
  <2>2. NoToolOf(q) /\ Unsettled = {}
    BY <1>4, <2>1, NewIntent DEF NoToolOf, Calm
  <2>3. QED
    BY <2>1, <2>2 DEF Settles, Calm, ToolTodo
<1>13. CASE ExecuteTool(c)
  BY <1>13, ResponseEffects, <1>1, <1>2 DEF At, Turns, Keeps, ToolOf, ToolPhase, Settles, Calm,
     ToolTodo
<1>14. CASE FlushAssistant(c)
  BY <1>14, LoopEffects, <1>2, <1>3 DEF At, Turns, Keeps, ToolOf, Settles, Calm, ToolTodo
<1>15. CASE WriteResult(c)
  BY <1>15, LoopEffects DEF Turns, Settles, Calm, ToolTodo
<1>16. CASE StepEnd(c)
  BY <1>16, ResponseEffects, <1>3, <1>4 DEF At, Turns
<1>17. CASE Resumed(c)
  <2>1. p.pc = "resumed" /\ q.pc \in {"move", "redeem", "ensure"} /\ q.todo = p.todo
    BY <1>17, ResumeEffects DEF At, Turns
  <2>2. CASE q.pc = "move"
    BY <1>17, <2>1, <2>2, ResumedAs, <1>2, <1>3 DEF Life, Phases, Phase, Working, Early,
       Labels, Outstanding, Kinds, Unsettled
  <2>3. CASE q.pc = "redeem"
    BY <1>2, <1>17, <2>3, ResumedAs, <1>3 DEF Outstanding
  <2>4. CASE q.pc = "ensure"
    BY <1>2, <2>1, <2>4 DEF Settles, Calm, ToolTodo
  <2>5. QED
    BY <2>1, <2>2, <2>3, <2>4
<1>18. CASE Redeem(c)
  BY <1>18, ResumeEffects, <1>3, <1>4 DEF At, Ends, Idle, Calm
<1>19. CASE EnsureAssistant(c)
  <2>1. p.pc = "ensure"
    BY <1>19, EnsureEnds
  <2>2. \A t \in Unsettled : \E k \in DOMAIN p.todo : p.todo[k] = t
    BY <1>2, <2>1 DEF Settles, ToolTodo
  <2>3. CASE UNCHANGED proc
    BY <2>1, <2>2, <2>3 DEF Settles, Calm, ToolTodo
  <2>4. CASE Turns(c, "reconcile") /\ \A k \in DOMAIN p.todo : InTree(p.todo[k].id)
    BY <2>4, <2>2 DEF Turns, Settles, Calm, ToolTodo
  <2>5. QED
    BY <1>19, <2>3, <2>4, EnsureEnds
<1>20. \A t \in Unsettled : \A k \in DOMAIN p.todo : p.todo[k] = t => k \in Unanswered(c)
  BY DEF Unanswered, Unsettled
<1>21. CASE Reconcile(c)
  <2>1. p.pc = "reconcile"
    BY <1>21, ReplaysFirst
  <2>2. \A t \in Unsettled : InTree(t.id) /\ \E k \in Unanswered(c) : p.todo[k] = t
    BY <1>2, <1>20, <2>1 DEF Settles, ToolTodo
  <2>3. CASE UNCHANGED proc
    BY <1>2, <2>1, <2>3 DEF Settles, Calm, ToolTodo
  <2>4. CASE /\ q.pc = "replayed"
             /\ \A j \in Unanswered(c) : \E k \in DOMAIN q.todo : q.todo[k] = p.todo[j]
    BY <2>2, <2>4 DEF Settles, Calm, ToolTodo
  <2>5. QED
    BY <1>21, <2>3, <2>4, ReplaysFirst
<1>22. CASE WriteReplayed(c)
  BY <1>22, ResumeEffects, <1>2 DEF At, Turns, Settles, Calm, ToolTodo
<1>23. CASE Reconciled(c)
  BY <1>23, ResumeEffects, <1>2, <1>20, <1>3 DEF At, Turns, Settles, ToolTodo
<1> HIDE DEF Goal
<1>24. QED
  BY <1>5, <1>6, <1>7, <1>8, <1>9, <1>10, <1>11, <1>12, <1>13, <1>14, <1>15, <1>16, <1>17, <1>18,
     <1>19, <1>21, <1>22, <1>23 DEF Drive, Goal

(* The note of exhaustion and the last result are on their way. *)
LEMMA AwaitsCaller ==
    ASSUME OneCaller, OneRound, NoneIsNoName, Shape, Life, Unique, Recalled, Fresh, Tools, Kinds,
           Flushed, Strict, NEW c \in Callers, Start(c) \/ Resume(c) \/ Drive(c)
    PROVE  Awaits(proc[c])'
<1> DEFINE q == proc'[c]
           Empty == Unsettled = {}
<1>1. Ready(c) /\ UNCHANGED <<entries, toolLog>>
  BY CallerReady, CallerWrites
<1>2. Unsettled' = Unsettled
  BY <1>1 DEF Unsettled, InTree
<1>3. q.pc \in {"finish", "stepEnd"} => Unsettled = {} \/ Resume(c) \/ WriteResult(c)
  BY SettlesCaller
<1>4. ASSUME NEW id, NEW what, NEW tok, AppendEntry(c, id, what, tok), ~InTree(id)
      PROVE  \E i \in DOMAIN chain' : chain'[i].put = "entry" /\ chain'[i].what.what = what
  <2>1. PICK i \in DOMAIN chain' : /\ chain'[i].put = "entry"
                                   /\ chain'[i].what = [id |-> id, what |-> what, tok |-> tok]
    BY <1>1, <1>4, EntryPut
  <2>2. QED
    BY <2>1
<1>5. CASE Resume(c)
  <2>1. q.pc \in {"ensure", "finish", "resumed"}
        /\ (q.pc = "finish" => AppendEntry(c, AutoId, "exhausted", 0))
    BY <1>5, ResumeStarts
  <2>2. ~InTree(AutoId)
    BY DEF AutoId, Id, Shape, DiskShape, InTree, Unique
  <2>3. QED
    BY <1>4, <2>1, <2>2 DEF Awaits, Coming
<1>6. CASE WriteResult(c)
  <2>1. /\ proc[c].pc = "result" /\ q.pc = "stepEnd" /\ ResultIdOf(Slot(c)) = ResultIdOf(ToolOf(proc[c]).id)
        /\ AppendEntry(c, ResultIdOf(Slot(c)), "result", proc[c].resp)
    BY <1>6, LoopEffects DEF At, Turns, ToolOf, Slot
  <2>2. Unsettled \subseteq {ToolOf(proc[c])}
    BY <1>1, <2>1 DEF Strict, Settles
  <2>3. CASE InTree(ResultIdOf(Slot(c)))
    BY <2>1, <2>2, <2>3, <1>2 DEF Unsettled, Awaits
  <2>4. CASE ~InTree(ResultIdOf(Slot(c)))
    BY <1>4, <2>1, <2>4 DEF Awaits, Coming, ResultWhats
  <2>5. QED
    BY <2>3, <2>4
<1>7. QED
  BY <1>2, <1>3, <1>5, <1>6 DEF Awaits

(* A caller's step: nothing is on its way before it, and what it issues    *)
(* the transcript may take.                                                *)
LEMMA StrictCaller ==
    ASSUME OneCaller, OneRound, NoneIsNoName, Shape, Life, Unique, Recalled, Fresh, Tools, Kinds,
           Flushed, Strict, NEW c \in Callers, Start(c) \/ Resume(c) \/ Drive(c)
    PROVE  Strict'
<1>1. UNCHANGED <<entries, toolLog>>
  BY CallerWrites
<1>2. UNCHANGED lane
  <2>1. SUFFICES ASSUME RecordTool(c)
                 PROVE  UNCHANGED lane
    BY CallerLane
  <2>2. proc[c].pc = "toolStarted"
    BY <2>1, ResponseEffects DEF At
  <2>3. QED
    BY <2>1, <2>2, NewIntent, ResponseEffects
<1>3. Exchanges'
  BY <1>1 DEF Strict, Exchanges, EntryOK, PairedCall, Answers, LastMessage, NextMessage, IsMessage,
              InTree
<1>4. Outstanding'
  BY <1>1, <1>2 DEF Strict, Outstanding, Unsettled, InTree, LeafWhat
<1>5. Settles(proc[c], Ready(c))'
  BY SettlesCaller, <1>1 DEF Settles, Unsettled, InTree, NoToolOf
<1>6. Fitting' /\ Awaits(proc[c])'
  BY FitsCaller, AwaitsCaller
<1>7. QED
  BY <1>3, <1>4, <1>5, <1>6 DEF Strict, OneCaller

(* What the commit of an entry adds to the tree.                           *)
LEMMA EntryCommitted ==
    ASSUME Shape, NEW e \in PutSet, CommitEntry(e)
    PROVE  /\ Len(entries') = Len(entries) + 1 /\ Len(entries) \in Nat
           /\ DOMAIN entries = 1..Len(entries) /\ DOMAIN entries' = 1..(Len(entries) + 1)
           /\ \A i \in 1..Len(entries) : entries'[i] = entries[i]
           /\ entries'[Len(entries) + 1] = Committed(e)
           /\ Committed(e).what = e.what /\ Committed(e).tok = e.tok
           /\ e.id # AutoId => Committed(e).id = e.id
           /\ e.id = AutoId => Committed(e).id.k = "auto"
           /\ LeafWhat' = e.what
           /\ \A id : InTree(id)' <=> InTree(id) \/ id = Committed(e).id
<1> DEFINE n == Committed(e)
<1>1. entries' = Append(entries, n) /\ entries \in Seq(EntrySet)
  BY DEF CommitEntry, Committed, Shape, DiskShape
<1>2. /\ n.what = e.what /\ n.tok = e.tok
      /\ e.id # AutoId => n.id = e.id
      /\ e.id = AutoId => n.id.k = "auto"
  BY DEF Committed, PutSet, AutoId, Id
<1> HIDE DEF n
<1>3. /\ Len(entries') = Len(entries) + 1 /\ Len(entries) \in Nat
      /\ DOMAIN entries = 1..Len(entries) /\ DOMAIN entries' = 1..(Len(entries) + 1)
      /\ \A i \in 1..Len(entries) : entries'[i] = entries[i]
      /\ entries'[Len(entries) + 1] = n /\ entries'[Len(entries')] = n /\ entries' # << >>
  BY <1>1
<1>4. LeafWhat' = e.what
  BY <1>2, <1>3 DEF LeafWhat, Last
<1>5. \A id : InTree(id)' <=> InTree(id) \/ id = n.id
  BY <1>3 DEF InTree
<1>6. QED
  BY <1>2, <1>3, <1>4, <1>5 DEF n

LEMMA CommittedIs ==
    ASSUME Shape, Unique, Strict, NEW i \in DOMAIN chain, chain[i].put = "entry",
           NEW e \in PutSet, e = chain[i].what, CommitEntry(e), e.what # "exhausted"
    PROVE  \/ IsCall(Committed(e)) /\ ~InTree(Committed(e).id)
           \/ IsResult(Committed(e))
           \/ IsOther(Committed(e))
<1> DEFINE n == Committed(e)
<1>1. /\ n.what = e.what /\ n.tok = e.tok
      /\ e.id # AutoId => n.id = e.id
      /\ e.id = AutoId => n.id.k = "auto"
  BY EntryCommitted
<1> HIDE DEF n
<1>2. Fits(e.id, e.what, e.tok) /\ (e.id = AutoId \/ ~InTree(e.id))
  BY DEF Strict, Fitting, Unique
<1>3. /\ AutoId.k = "auto"
      /\ \A t \in toolLog : t.id.k = "assistant" /\ ResultIdOf(t.id).k = "result"
  BY PlainIds DEF Shape, DiskShape, ToolSet, AssistantIds, IdsOf, ResultIdOf
<1>4. CASE e.id = AutoId
  BY <1>3, <1>4, <1>2, <1>1 DEF Fits, Unsettled, IsOther, n
<1>5. CASE e.id # AutoId
  BY <1>1, <1>2, <1>5 DEF Fits, IsCall, IsResult, IsOther, n
<1>6. QED
  BY <1>4, <1>5

(* The tools that lack their result, once the entry is in the tree. *)
LEMMA UnsettledThen ==
    ASSUME Shape, UNCHANGED toolLog, Outstanding, NEW n,
           \A id : InTree(id)' <=> InTree(id) \/ id = n.id,
           IsCall(n) \/ IsResult(n) \/ IsOther(n)
    PROVE  Unsettled' \subseteq Unsettled /\ (IsResult(n) => Unsettled' = {})
BY DEF Unsettled, IsCall, IsResult, IsOther, Outstanding

(* The next entry keeps calls and results together. *)
LEMMA ExchangesThen ==
    ASSUME Shape, Strict, UNCHANGED toolLog, NEW e \in PutSet, CommitEntry(e),
           \/ IsCall(Committed(e)) /\ ~InTree(Committed(e).id)
           \/ IsResult(Committed(e))
           \/ IsOther(Committed(e))
    PROVE  Exchanges'
<1>0. PICK n, m : n = Committed(e) /\ m = Len(entries) + 1
  OBVIOUS
<1>1. /\ Len(entries') = m /\ Len(entries) \in Nat /\ m = Len(entries) + 1
      /\ DOMAIN entries = 1..Len(entries) /\ DOMAIN entries' = 1..m
      /\ \A i \in 1..Len(entries) : entries'[i] = entries[i]
      /\ entries'[m] = n
      /\ \A id : InTree(id)' <=> InTree(id) \/ id = n.id
  BY <1>0, EntryCommitted
<1>2. (IsCall(n) /\ ~InTree(n.id)) \/ IsResult(n) \/ IsOther(n)
  BY <1>0
<1>3. Exchanges /\ Outstanding
  BY DEF Strict
<1>4. /\ \A t \in toolLog : t.id.k = "assistant" /\ ResultIdOf(t.id).k = "result"
      /\ \A t, u \in toolLog : ResultIdOf(t.id) = ResultIdOf(u.id) => t.id = u.id
  BY DEF Shape, DiskShape, ToolSet, AssistantIds, IdsOf, ResultIdOf
<1>5. ASSUME NEW t \in toolLog, InTree(ResultIdOf(t.id))'
      PROVE  InTree(t.id)'
  BY <1>1, <1>3, <1>2, <1>4, <1>5 DEF Exchanges, IsCall, IsResult, IsOther, Unsettled
<1>6. ASSUME NEW i \in 1..Len(entries), entries[i].what = "call"
      PROVE  PairedCall(i)'
  <2>1. PICK u \in toolLog : entries[i].id = u.id
    BY <1>1, <1>3, <1>6 DEF Exchanges, EntryOK
  <2>2. entries[i].tok = u.resp /\ PairedCall(i)
    BY <1>1, <1>3, <1>6, <2>1 DEF Exchanges, EntryOK
  <2>3. \A k \in 1..Len(entries) : IsMessage(k)' <=> IsMessage(k)
    BY <1>1 DEF IsMessage
  <2>4. ASSUME NEW j \in (i + 1)..Len(entries), Answers(i, j)
        PROVE  PairedCall(i)'
    BY <1>1, <2>3, <2>4 DEF Answers, NextMessage, PairedCall
  <2>5. CASE LastMessage(i) /\ ~InTree(ResultIdOf(entries[i].id))
    <3>1. u \in Unsettled /\ InTree(u.id)
      BY <1>1, <2>1, <2>5 DEF Unsettled, InTree
    <3>2. \A t \in Unsettled : t = u
      BY <1>3, <3>1 DEF Outstanding
    <3>3. n.what \in ResultWhats /\ n.id = ResultIdOf(u.id) /\ n.tok = u.resp
      BY <1>2, <3>1, <3>2 DEF IsCall, IsResult, IsOther
    <3>4. IsMessage(m)' /\ \A k \in (i + 1)..(m - 1) : ~IsMessage(k)'
      BY <1>1, <2>3, <2>5, <3>3 DEF LastMessage, IsMessage, ResultWhats
    <3>5. m \in (i + 1)..Len(entries')
      BY <1>1
    <3>6. Answers(i, m)'
      BY <1>1, <2>1, <2>2, <3>3, <3>4 DEF Answers, NextMessage
    <3>7. QED
      BY <3>5, <3>6 DEF PairedCall
  <2>6. QED
    BY <2>2, <2>4, <2>5 DEF PairedCall
<1>7. ASSUME NEW i \in 1..Len(entries)
      PROVE  EntryOK(i)'
  BY <1>1, <1>3, <1>6 DEF Exchanges, EntryOK
<1>8. EntryOK(m)'
  <2>1. \A t \in toolLog : n.id = t.id => n.what = "call" /\ n.tok = t.resp
    BY <1>2, <1>3, <1>4 DEF IsCall, IsResult, IsOther, Unsettled, Exchanges
  <2>2. n.id.k = "result" => \E t \in toolLog : n.id = ResultIdOf(t.id)
    BY <1>2, <1>4 DEF IsCall, IsResult, IsOther, Unsettled
  <2>3. ASSUME n.what = "call"
        PROVE  PairedCall(m)' /\ \E t \in toolLog : n.id = t.id
    <3>1. IsCall(n)
      BY <1>2, <2>3 DEF IsResult, IsOther, ResultWhats
    <3>2. PICK t \in Unsettled : n.id = t.id
      BY <3>1 DEF IsCall
    <3>3. ~InTree(ResultIdOf(n.id))'
      BY <1>1, <1>4, <3>2 DEF Unsettled
    <3>4. LastMessage(m)'
      BY <1>1 DEF LastMessage
    <3>5. QED
      BY <1>1, <3>2, <3>3, <3>4 DEF PairedCall, Unsettled
  <2>4. QED
    BY <1>1, <2>1, <2>2, <2>3 DEF EntryOK
<1>9. \A i \in DOMAIN entries' : i \in 1..Len(entries) \/ i = m
  BY <1>1
<1>10. QED
  BY <1>3, <1>5, <1>7, <1>8, <1>9 DEF Exchanges

(* A commit of an entry, short of the note of exhaustion. *)
LEMMA StrictEntry ==
    ASSUME OneCaller, Shape, Life, Unique, Flushed, Strict, Commit,
           Head(chain).put = "entry", Head(chain).what.what # "exhausted"
    PROVE  Strict'
<1>1. PICK e \in PutSet : e = Head(chain).what /\ CommitEntry(e)
  BY CommitEffects
<1>2. PICK n : n = Committed(e)
  OBVIOUS
<1>3. /\ UNCHANGED <<proc, lane, toolLog>> /\ Head(chain) = chain[1] /\ 1 \in DOMAIN chain
  BY <1>1, CommitEffects DEF CommitEntry
<1>4. /\ \A id : InTree(id)' <=> InTree(id) \/ id = n.id
      /\ LeafWhat' = n.what /\ n.what = e.what
  BY <1>1, <1>2, EntryCommitted
<1>5. (IsCall(n) /\ ~InTree(n.id)) \/ IsResult(n) \/ IsOther(n)
  BY <1>1, <1>2, <1>3, CommittedIs
<1>6. Unsettled' \subseteq Unsettled /\ (IsResult(n) => Unsettled' = {})
  BY <1>3, <1>4, <1>5, UnsettledThen DEF Strict
<1>7. Exchanges'
  BY <1>1, <1>2, <1>3, <1>5, ExchangesThen
<1>8. Outstanding'
  BY <1>5, <1>3, <1>4, <1>6 DEF IsCall, IsResult, IsOther, ResultWhats, Strict, Outstanding
<1>9. \A i \in DOMAIN chain' : chain'[i].put # "entry"
  BY <1>3, HeadGone DEF Life, OwnAppends
<1>10. ASSUME NEW c \in Callers
       PROVE  Settles(proc[c], Ready(c))' /\ Awaits(proc[c])'
  <2>1. PICK p : p = proc[c] /\ p = proc'[c]
    BY <1>3
  <2>2. Settles(p, Ready(c)) /\ Awaits(p)
    BY <2>1 DEF Strict
  <2>3. Ready(c)' => Ready(c) \/ p.pc # "execute"
    BY <1>3, <2>1, HeadGone DEF Life, OwnAppends, Due
  <2>4. Settles(p, Ready(c))'
    <3>1. NoToolOf(p)' <=> NoToolOf(p)
      BY <1>3 DEF NoToolOf, ToolOf, AssistantId, Id
    <3>2. Unsettled \subseteq {ToolOf(p)} => Unsettled' \subseteq {ToolOf(p)}
      BY <1>6
    <3>3. \A t \in Unsettled : InTree(t.id) => InTree(t.id)'
      BY <1>4
    <3>4. p.pc = "execute" /\ ~Ready(c)' => ~Ready(c)
      BY <2>3, HeadGone
    <3>5. QED
      BY <1>6, <2>2, <3>1, <3>2, <3>3, <3>4 DEF Settles
  <2>5. Awaits(p)'
    <3>1. \A i \in DOMAIN chain : chain[i].put = "entry" => i = 1
      BY <1>9, HeadGone
    <3>2. ASSUME NEW whats, Coming(whats)
          PROVE  n.what \in whats
      BY <1>1, <1>3, <1>4, <3>1, <3>2 DEF Coming
    <3>3. Unsettled = {} \/ (p.pc # "finish" /\ (p.pc = "stepEnd" => n.what \in ResultWhats))
      BY <1>1, <1>4, <2>2, <3>2 DEF Awaits
    <3>4. n.what \in ResultWhats => Unsettled' = {}
      BY <1>5, <1>6 DEF IsCall, IsOther, ResultWhats
    <3>5. QED
      BY <1>6, <3>3, <3>4 DEF Awaits
  <2>6. QED
    BY <2>1, <2>4, <2>5 DEF Settles, Awaits
<1>11. QED
  BY <1>7, <1>8, <1>9, <1>10 DEF Strict, Fitting

(* A tool the log takes in is new to the transcript. *)
LEMMA NewTool ==
    ASSUME Shape, Fresh, Exchanges, NEW c \in Callers, proc[c].pc = "execute", NoToolOf(proc[c])
    PROVE  /\ ~InTree(ToolOf(proc[c]).id) /\ ~InTree(ResultIdOf(ToolOf(proc[c]).id))
<1> DEFINE p == proc[c]
<1>1. p.op \in Nat /\ p.att \in Nat /\ p.step \in Nat
  BY DEF Shape, ProcShape, ProcSet
<1>2. PICK id \in AssistantIds : id = ToolOf(p).id /\ id = AssistantId(p.op, p.att, p.step)
  BY <1>1, IdsAreIds DEF ToolOf
<1>3. id.op = p.op /\ id.att = p.att /\ id.n = p.step
  BY <1>2 DEF AssistantId, Id
<1>4. ~Written(id)
  <2>1. SUFFICES ASSUME Written(id)
                 PROVE  FALSE
    OBVIOUS
  <2>2. OldFor(p, Ready(c), id, Flushing)
    BY <2>1 DEF Fresh, FreshEntries, Old
  <2>3. QED
    BY <1>1, <1>3, <2>2 DEF OldFor, Looping, Flushing
<1>5. ~InTree(ResultIdOf(id))
  <2>1. SUFFICES ASSUME NEW i \in DOMAIN entries, entries[i].id = ResultIdOf(id)
                 PROVE  FALSE
    BY DEF InTree
  <2>2. ResultIdOf(id).k = "result"
    BY DEF ResultIdOf, AssistantIds, IdsOf
  <2>3. PICK t \in toolLog : ResultIdOf(id) = ResultIdOf(t.id)
    BY <2>1, <2>2 DEF Exchanges, EntryOK
  <2>4. t.id \in AssistantIds
    BY ToolIds
  <2>5. t.id = id
    BY <2>3, <2>4 DEF ResultIdOf, AssistantIds, IdsOf
  <2>6. QED
    BY <1>2, <2>5 DEF NoToolOf
<1>6. QED
  BY <1>2, <1>4, <1>5 DEF Written

(* The intent of a tool is on disk: the only one without a result. *)
LEMMA StrictTool ==
    ASSUME OneCaller, NoneIsNoName, Shape, Life, Fresh, Leaves, Strict, Commit,
           NEW c \in Callers, proc[c].pc = "execute", ~Ready(c), Ready(c)',
           toolLog' = toolLog \cup {ToolOf(proc[c])}, UNCHANGED entries,
           lane' = ToolStarted(lane, [tool |-> ToolOf(proc[c])])
    PROVE  Strict'
<1>1. PICK p, t : p = proc[c] /\ t = ToolOf(p)
  OBVIOUS
<1>2. UNCHANGED proc /\ \A id : InTree(id)' <=> InTree(id)
  BY CommitEffects DEF InTree
<1>3. Exchanges /\ Unsettled = {} /\ NoToolOf(p) /\ LeafWhat # "handle"
  BY <1>1 DEF Strict, Settles, Leaves, LeafOK, Looping
<1>4. ~InTree(t.id) /\ ~InTree(ResultIdOf(t.id)) /\ t.id.op = p.op
  BY <1>1, <1>3, NewTool DEF ToolOf, AssistantId, Id
<1>5. toolLog' = toolLog \cup {t} /\ \A u \in toolLog : u.id # t.id
  BY <1>1, <1>3 DEF NoToolOf
<1>6. Unsettled' = {t}
  BY <1>2, <1>3, <1>4, <1>5 DEF Unsettled
<1>7. Exchanges'
  <2>1. ASSUME NEW i \in DOMAIN entries'
        PROVE  EntryOK(i)'
    BY <1>3, <1>4, <2>1, <1>5 DEF Exchanges, InTree, PairedCall, Answers, LastMessage,
       NextMessage, IsMessage, EntryOK
  <2>2. QED
    BY <1>2, <1>3, <1>4, <1>5, <2>1 DEF Exchanges
<1>8. Outstanding'
  <2>1. lane.op = p.op /\ lane.op # None /\ lane \in LaneSet
    <3>1. lane.op = p.op
      BY <1>1 DEF Life, Phases, Phase, Working, Early, Labels
    <3>2. p.op \in Nat
      BY <1>1 DEF Shape, ProcShape, ProcSet
    <3>3. QED
      BY <3>1, <3>2 DEF NoneIsNoName, Shape, LaneShape
  <2>2. lane'.op = lane.op /\ lane'.dangling = Append(lane.dangling, t)
    BY <1>1, <2>1 DEF ToolStarted, LaneSet
  <2>3. lane.dangling \in Seq(ToolSet)
    BY <2>1 DEF LaneSet
  <2>4. Len(lane.dangling) + 1 \in DOMAIN lane'.dangling
        /\ lane'.dangling[Len(lane.dangling) + 1] = t
    BY <2>2, <2>3
  <2>5. LeafWhat' = LeafWhat
    BY DEF LeafWhat
  <2>6. QED
    BY <1>3, <1>4, <1>6, <2>1, <2>2, <2>4, <2>5 DEF Outstanding
<1>9. \A i \in DOMAIN chain' : chain'[i].put # "entry"
  BY HeadGone DEF Life, OwnAppends
<1>10. (Settles(p, Ready(c)) /\ Awaits(p))'
  BY <1>1, <1>6 DEF ToolOf, AssistantId, Id, Settles, Awaits, Calm, ToolTodo
<1>11. QED
  BY <1>1, <1>2, <1>7, <1>8, <1>9, <1>10 DEF Strict, Fitting, Settles, Awaits, OneCaller

(* The log and the transcript stay: what each tool and each append is to   *)
(* them stays as well.                                                     *)
LEMMA SameTranscript ==
    ASSUME UNCHANGED <<entries, toolLog>>
    PROVE  /\ Exchanges => Exchanges'
           /\ Unsettled' = Unsettled /\ LeafWhat' = LeafWhat
           /\ \A id, what, tok : Fits(id, what, tok)' <=> Fits(id, what, tok)
<1>1. \A id : InTree(id)' <=> InTree(id)
  BY DEF InTree
<1>2. Unsettled' = Unsettled
  BY <1>1 DEF Unsettled
<1>3. LeafWhat' = LeafWhat
  BY DEF LeafWhat
<1>4. \A i : /\ IsMessage(i)' <=> IsMessage(i)
             /\ LastMessage(i)' <=> LastMessage(i)
             /\ \A j : Answers(i, j)' <=> Answers(i, j)
  BY DEF IsMessage, LastMessage, Answers, NextMessage
<1>5. \A i : PairedCall(i)' <=> PairedCall(i)
  BY <1>1, <1>4 DEF PairedCall
<1>6. \A i : EntryOK(i)' <=> EntryOK(i)
  BY <1>5 DEF EntryOK
<1>7. Exchanges => Exchanges'
  BY <1>1, <1>6 DEF Exchanges
<1>8. \A id, what, tok : Fits(id, what, tok)' <=> Fits(id, what, tok)
  BY <1>1, <1>2 DEF Fits
<1>9. QED
  BY <1>2, <1>3, <1>7, <1>8

(* Settling is kept while its parts of the state are.                      *)
LEMMA SettlesSame ==
    ASSUME UNCHANGED <<entries, toolLog>>, NEW p, NEW c
    PROVE  Settles(p, Ready(c))' <=> Settles(p, Ready(c)')
BY SameTranscript DEF NoToolOf, ToolOf, AssistantId, Id, InTree, Settles

(* A record that names no new tool. *)
LEMMA StrictRecord ==
    ASSUME OneCaller, NoneIsNoName, Shape, Life, Strict, Commit,
           Head(chain).put = "record", UNCHANGED toolLog
    PROVE  Strict'
<1> DEFINE h == Head(chain)
           r == h.what
<1>1. /\ UNCHANGED <<proc, entries>> /\ h = chain[1] /\ 1 \in DOMAIN chain
      /\ lane' = ApplyRecord(lane, r) /\ r \in RecordSet
  BY CommitEffects DEF CommitRecord
<1>2. Unsettled' = Unsettled
  BY <1>1, SameTranscript
<1>3. Unsettled = {} \/ (lane'.op = lane.op /\ \A k \in DOMAIN lane.dangling :
                           k \in DOMAIN lane'.dangling /\ lane'.dangling[k] = lane.dangling[k])
  <2>1. lane \in LaneSet /\ lane.dangling \in Seq(ToolSet)
    BY DEF Shape, LaneShape, LaneSet
  <2>2. CASE r.kind = "operation_started"
    BY <1>1, <2>1, <2>2, ReducedFields, NoneOutstanding DEF Strict
  <2>3. CASE r.kind = "operation_finished"
    BY <1>1, <2>3 DEF Life, OwnAppends, ApiKinds, Due, DueRecord, Strict, Settles, Calm
  <2>4. CASE r.kind \notin {"operation_started", "operation_finished"}
    <3>1. lane'.op = lane.op
          /\ (lane'.dangling = lane.dangling \/ \E t : lane'.dangling = Append(lane.dangling, t))
      <4>1. CASE r.kind = "tool_started"
        <5>1. /\ lane'.op = lane.op
              /\ lane'.dangling = IF lane.op = None THEN lane.dangling
                                  ELSE Append(lane.dangling, r.tool)
          BY <1>1, <2>1, <4>1, ReducedFields
        <5>2. QED
          BY <5>1
      <4>2. CASE r.kind \in {"abort_requested", "queue_enqueued", "task_attempt", "write_deferred"}
        BY <1>1, <2>1, <4>2, ReducedFields, ZenonT(40)
      <4>3. QED
        BY <1>1, <2>4, <4>1, <4>2, RecordKinds
    <3>2. QED
      BY <2>1, <3>1
  <2>5. QED
    BY <2>2, <2>3, <2>4
<1>4. Outstanding'
  BY <1>1, <1>2, <1>3, SameTranscript DEF Strict, Outstanding
<1>5. Fitting'
  BY HeadGone, <1>1, SameTranscript DEF Strict, Fitting
<1>6. ASSUME NEW c \in Callers
      PROVE  Settles(proc[c], Ready(c))' /\ Awaits(proc[c])'
  <2>1. PICK p : p = proc[c] /\ p = proc'[c]
    BY <1>1
  <2>2. Settles(p, Ready(c)) /\ Awaits(p)
    BY <2>1 DEF Strict
  <2>3. Settles(p, Ready(c))'
    <3>1. Settles(p, Ready(c))' <=> Settles(p, Ready(c)')
      BY <1>1, SettlesSame
    <3>2. ~Ready(c)' => ~Ready(c)
      BY HeadGone
    <3>3. QED
      BY <2>2, <3>1, <3>2 DEF Settles
  <2>4. ASSUME NEW whats, Coming(whats)
        PROVE  Coming(whats)'
    BY <2>4, <1>1, HeadGone DEF Coming
  <2>5. Awaits(p)'
    BY <1>2, <2>2, <2>4 DEF Awaits
  <2>6. QED
    BY <2>1, <2>3, <2>5 DEF Settles, Awaits
<1>7. QED
  BY <1>1, <1>4, <1>5, <1>6, SameTranscript DEF Strict

(* A crash takes back what was on its way; the lane restored from disk     *)
(* remembers the same tools.                                               *)
LEMMA StrictCrash ==
    ASSUME Shape, LiveMatchesJournal, Strict, Crash
    PROVE  Strict'
<1>1. UNCHANGED <<entries, toolLog>> /\ chain' = << >> /\ \A c \in Callers : proc'[c] = Idle
  BY DEF Crash, disk
<1>2. lane' = FinishRestore(durable) /\ Agree(lane, durable)
  BY MatchesIs DEF Crash
<1>3. lane'.op = lane.op /\ lane'.dangling = lane.dangling
  BY <1>2 DEF FinishRestore, Agree, Shape, DiskShape, LaneSet
<1>4. Exchanges' /\ Outstanding'
  BY <1>1, <1>3, SameTranscript DEF Strict, Outstanding
<1>5. ASSUME NEW c \in Callers
      PROVE  Settles(proc[c], Ready(c))' /\ Awaits(proc[c])'
  BY <1>1, LabelGroups, IdleIsOK DEF Settles, Awaits
<1>6. QED
  BY <1>1, <1>4, <1>5 DEF Strict, Fitting

(* What the api appends, and a step that changes nothing, leave it alone.  *)
LEMMA StrictSame ==
    ASSUME UNCHANGED <<entries, toolLog, lane, proc>>, Strict,
           \A c \in Callers : Ready(c)' <=> Ready(c),
           \A i \in DOMAIN chain : i \in DOMAIN chain' /\ chain'[i] = chain[i],
           \A i \in DOMAIN chain' :
             chain'[i].put = "entry" => i \in DOMAIN chain /\ chain'[i] = chain[i]
    PROVE  Strict'
<1>1. Exchanges' /\ Outstanding'
  BY SameTranscript DEF Strict, Outstanding
<1>2. Fitting'
  BY SameTranscript DEF Strict, Fitting
<1>3. ASSUME NEW c \in Callers
      PROVE  Settles(proc[c], Ready(c))' /\ Awaits(proc[c])'
  <2>1. PICK p : p = proc[c] /\ p = proc'[c]
    OBVIOUS
  <2>2. Settles(p, Ready(c)) /\ Awaits(p)
    BY <2>1 DEF Strict
  <2>3. Settles(p, Ready(c))'
    BY <2>2, SettlesSame DEF Settles
  <2>4. \A whats : Coming(whats) => Coming(whats)'
    BY DEF Coming
  <2>5. Awaits(p)'
    BY <2>2, <2>4, SameTranscript DEF Awaits
  <2>6. QED
    BY <2>1, <2>3, <2>5 DEF Settles, Awaits
<1>4. QED
  BY <1>1, <1>2, <1>3 DEF Strict

(* Entries are only added, so a note of exhaustion stays.                  *)
LEMMA GaveUpStays ==
    ASSUME Shape, [Next]_vars, GaveUp
    PROVE  GaveUp'
<1>1. entries \in Seq(EntrySet)
  BY DEF Shape, DiskShape
<1>2. UNCHANGED entries \/ \E e : entries' = Append(entries, e)
  BY CallerWrites, CommitEffects DEF CommitEntry, CommitRecord, Abort, DeferWrite, Crash,
     Enqueue, vars, disk, Next
<1>3. QED
  BY <1>1, <1>2 DEF GaveUp

(* While no operation has used up its attempts, every call is paired.      *)
LEMMA StepStrict ==
    ASSUME OneCaller, OneRound, NoneIsNoName, BoundsAssumption, Shape, Life, Unique, Recalled, Fresh,
           Tools, LiveMatchesJournal, Kinds, Leaves, Flushed, GaveUp \/ Strict, [Next]_vars
    PROVE  GaveUp' \/ Strict'
<1>1. CASE GaveUp
  BY <1>1, GaveUpStays
<1>2. CASE Strict
  <2>1. ASSUME NEW c \in Callers, Start(c) \/ Resume(c) \/ Drive(c)
        PROVE  Strict'
    BY <1>2, <2>1, StrictCaller
  <2>2. CASE Commit
    <3>1. CASE Head(chain).put = "entry" /\ Head(chain).what.what # "exhausted"
      BY <1>2, <2>2, <3>1, StrictEntry
    <3>2. CASE Head(chain).put = "entry" /\ Head(chain).what.what = "exhausted"
      BY <2>2, <3>2, CommitEffects, EntryCommitted DEF GaveUp
    <3>3. CASE Head(chain).put = "record" /\ UNCHANGED toolLog
      BY <1>2, <2>2, <3>3, StrictRecord
    <3>4. CASE ~UNCHANGED toolLog
      BY <1>2, <2>2, <3>4, StrictTool, CommitTool
    <3>5. QED
      BY <2>2, <3>1, <3>2, <3>3, <3>4, CommitEffects
  <2>3. CASE Crash
    BY <1>2, <2>3, StrictCrash
  <2>4. CASE Abort \/ DeferWrite \/ \E queue \in Queues : Enqueue(queue)
    BY <2>4, <1>2, ApiPuts, ApiReady, StrictSame DEF Abort, DeferWrite, Enqueue, disk
  <2>5. CASE UNCHANGED vars
    BY <1>2, <2>5, StrictSame DEF vars, live, disk, Ready
  <2>6. QED
    BY <2>1, <2>2, <2>3, <2>4, <2>5 DEF Next
<1>3. QED
  BY <1>1, <1>2

(* What the run at its model call may rely on. *)
LEMMA StrictPairs ==
    ASSUME OneCaller, OneRound, Shape, Life, Fresh, Strict
    PROVE  TranscriptPaired
<1>1. SUFFICES ASSUME NEW c \in Callers, proc[c].pc = "model"
               PROVE  /\ \A i \in DOMAIN entries : entries[i].what = "call" =>
                           \E j \in (i + 1)..Len(entries) : Answers(i, j)
                      /\ \A t \in toolLog : InTree(t.id) /\ InTree(ResultIdOf(t.id))
  BY DEF TranscriptPaired, Answers
<1>2. Unsettled = {} /\ Exchanges
  BY <1>1 DEF Strict, Settles, Calm
<1>3. \A t \in toolLog : InTree(t.id) /\ InTree(ResultIdOf(t.id))
  BY <1>2 DEF Unsettled, Exchanges
<1>4. ASSUME NEW i \in DOMAIN entries, entries[i].what = "call"
      PROVE  \E j \in (i + 1)..Len(entries) : Answers(i, j)
  BY <1>2, <1>3, <1>4 DEF Exchanges, EntryOK, PairedCall
<1>5. QED
  BY <1>3, <1>4

-----------------------------------------------------------------------------

LEMMA InitWinding == Init => Winding
BY DEF Init, Winding, GaveUp, Coming

(* Attempts are exhausted when as many were counted as there may be. *)
LEMMA ExhaustedIs ==
    ASSUME BoundsAssumption, Shape, Bounded
    PROVE  Exhausted <=> lane.attempts = MaxAttempts
BY DEF BoundsAssumption, Shape, LaneShape, LaneSet, Bounded, Counts, Exhausted

(* A resume tells by the lane how it goes on.                              *)
LEMMA ResumeGuards ==
    ASSUME Shape, NEW c \in Callers, Resume(c)
    PROVE  /\ proc'[c].pc = "resumed" => ~Exhausted
           /\ proc'[c].pc = "finish" => Exhausted
<1> DEFINE p == [Idle EXCEPT !.op = lane.op, !.att = lane.attempts + 1, !.todo = lane.dangling]
<1>1. \/ Update(c, [p EXCEPT !.pc = "ensure", !.outcome = "aborted"])
      \/ Exhausted /\ Update(c, [p EXCEPT !.pc = "finish", !.outcome = "failed"])
      \/ ~Exhausted /\ Update(c, [p EXCEPT !.pc = "resumed"])
  BY DEF Resume
<1>2. /\ [p EXCEPT !.pc = "ensure", !.outcome = "aborted"].pc = "ensure"
      /\ [p EXCEPT !.pc = "finish", !.outcome = "failed"].pc = "finish"
      /\ [p EXCEPT !.pc = "resumed"].pc = "resumed"
  BY DEF Idle
<1> HIDE DEF p
<1>3. QED
  BY <1>1, <1>2, Updated

(* A closing coroutine stays one until its call returns. *)
LEMMA ClosingCaller ==
    ASSUME Shape, NEW c \in Callers, Drive(c), Closing(proc[c])
    PROVE  Closing(proc'[c]) /\ UNCHANGED lane
<1> DEFINE p == proc[c]
           q == proc'[c]
<1> USE DEF Closing, ClosingLabels
<1>1. ~RecordTool(c)
  BY ResponseEffects DEF At
<1>2. CASE BeforeRun(c) \/ ApplyCompaction(c) \/ NavigateStart(c) \/ NavigateMove(c)
             \/ MaterialiseInput(c)
  BY <1>2, AcceptEffects DEF At
<1>3. CASE CheckpointWrites(c) \/ CheckpointSteer(c)
  BY <1>3, TodoEffects DEF At, CheckpointWrites, CheckpointSteer
<1>4. ASSUME AbortWrites(c)
      PROVE  Closing(q)
  BY <1>4, TodoEffects DEF AbortWrites, Turns, Lists
<1>5. CASE LoopTop(c) \/ CheckpointRead(c) \/ Ask(c) \/ CutOff(c) \/ Defer(c)
             \/ FlushAssistant(c) \/ WriteResult(c) \/ Park(c)
  BY <1>5, LoopEffects DEF At
<1>6. CASE Answer(c) \/ ExecuteTool(c) \/ StepEnd(c)
  BY <1>6, ResponseEffects DEF At
<1>7. CASE RoundEnd(c)
  BY <1>7, EndEffects DEF At
<1>8. ASSUME AbortNote(c) \/ AbortRead(c)
      PROVE  Closing(q)
  BY <1>8, EndEffects
<1>9. ASSUME Finish(c)
      PROVE  Closing(q)
  BY <1>9, EndEffects DEF Turns
<1>10. CASE Release(c)
  BY <1>10, EndEffects, IdleIsOK
<1>11. CASE Resumed(c) \/ Redeem(c) \/ WriteReplayed(c)
  BY <1>11, ResumeEffects DEF At
<1>12. ASSUME EnsureAssistant(c)
       PROVE  Closing(q)
  BY <1>12, EnsureEnds DEF Turns
<1>13. CASE Reconcile(c)
  BY <1>13, ResumeEffects DEF At
<1>14. ASSUME Reconciled(c)
       PROVE  Closing(q)
  BY <1>14, ResumeEffects DEF At, Turns
<1>15. Closing(proc'[c])
  BY <1>1, <1>2, <1>3, <1>4, <1>5, <1>6, <1>7, <1>8, <1>9, <1>10, <1>11, <1>12, <1>13, <1>14 DEF Drive
<1>16. UNCHANGED lane
  BY <1>1, CallerLane
<1>17. QED
  BY <1>15, <1>16

(* Nothing but a start leaves the closing labels once an operation gave up. *)
LEMMA StepWinding ==
    ASSUME OneCaller, OneRound, BoundsAssumption, Shape, Life, Fresh, Bounded, LiveMatchesJournal,
           Leaves, Winding, [Next]_vars, [\A c \in Callers : Start(c) => ~GaveUp]_vars
    PROVE  Winding'
<1>1. ASSUME UNCHANGED <<entries, proc>>, Coming({"exhausted"})' => Coming({"exhausted"}),
             lane'.op = lane.op, lane'.attempts = lane.attempts
      PROVE  Winding'
  <2>1. GaveUp' <=> GaveUp
    BY <1>1 DEF GaveUp
  <2>2. Spent' <=> Spent
    BY <1>1 DEF Spent
  <2>3. (GaveUp \/ Coming({"exhausted"}))' => Spent'
    BY <1>1, <2>1, <2>2 DEF Winding
  <2>4. GaveUp' => \A c \in Callers : Closing(proc'[c])
    BY <1>1, <2>1 DEF Winding
  <2>5. QED
    BY <2>3, <2>4 DEF Winding, Closing
<1>2. CASE Commit
  <2> DEFINE h == Head(chain)
             r == h.what
  <2>1. /\ UNCHANGED proc /\ h = chain[1] /\ 1 \in DOMAIN chain
        /\ Coming({"exhausted"})' => Coming({"exhausted"})
    BY <1>2, CommitEffects, HeadGone DEF Coming
  <2>2. CASE h.put = "entry"
    <3>1. PICK e \in PutSet : e = h.what /\ CommitEntry(e)
      BY <1>2, <2>2, CommitEffects
    <3>2. UNCHANGED lane /\ (GaveUp' => GaveUp \/ e.what = "exhausted")
      <4>1. ASSUME NEW i \in DOMAIN entries', entries'[i].what = "exhausted"
            PROVE  GaveUp \/ e.what = "exhausted"
        BY <3>1, <4>1, EntryCommitted DEF GaveUp
      <4>2. QED
        BY <3>1, <4>1 DEF GaveUp, CommitEntry
    <3>3. e.what = "exhausted" => Coming({"exhausted"}) /\ \A c \in Callers : Closing(proc[c])
      BY <2>1, <2>2, <3>1 DEF Coming, Leaves, Timely, Closing, ClosingLabels
    <3>4. (GaveUp \/ Coming({"exhausted"}))' => Spent
      BY <2>1, <3>2, <3>3 DEF Winding
    <3>5. GaveUp' => \A c \in Callers : Closing(proc'[c])
      BY <2>1, <3>2, <3>3 DEF Winding
    <3>6. QED
      BY <3>2, <3>4, <3>5 DEF Winding, Spent, Closing
  <2>3. CASE h.put = "record"
    <3>1. /\ CommitRecord(r) /\ r \in RecordSet /\ UNCHANGED entries /\ lane' = ApplyRecord(lane, r)
      BY <1>2, <2>3, CommitEffects DEF CommitRecord
    <3>2. CASE r.kind \in ApiKinds
      <4>1. lane'.op = lane.op /\ lane'.attempts = lane.attempts
        BY <3>1, <3>2, ReducedFields, ZenonT(40) DEF ApiKinds, Shape, LaneShape
      <4>2. QED
        BY <1>1, <2>1, <3>1, <4>1
    <3>3. CASE r.kind \notin ApiKinds
      <4>1. PICK c \in Callers : h.by = c /\ Due(proc[c], h)
        BY <2>1, <2>3, <3>3 DEF Life, OwnAppends
      <4>2. ~Coming({"exhausted"})'
        BY <1>2, <4>1, HeadGone DEF Coming, Life, OwnAppends
      <4>3. GaveUp' <=> GaveUp
        BY <3>1 DEF GaveUp
      <4>4. ASSUME GaveUp
            PROVE  lane'.op = None
        <5>1. Closing(proc[c])
          BY <4>4 DEF Winding
        <5>2. r.kind = "operation_finished" /\ r.op = lane.op
          BY <2>3, <4>1, <5>1 DEF Due, DueRecord, Closing, ClosingLabels
        <5>3. QED
          BY <3>1, <5>2, ReducedFields DEF Shape, LaneShape
      <4>5. QED
        BY <2>1, <4>2, <4>3, <4>4 DEF Winding, Spent, Closing
    <3>4. QED
      BY <3>2, <3>3
  <2>4. QED
    BY <1>2, <2>2, <2>3, CommitEffects
<1>3. CASE Crash
  <2>1. /\ UNCHANGED entries /\ chain' = << >> /\ \A c \in Callers : proc'[c] = Idle
        /\ lane' = FinishRestore(durable) /\ Agree(lane, durable)
    BY <1>3, MatchesIs DEF Crash, disk
  <2>2. lane'.op = lane.op /\ lane'.attempts = lane.attempts
    BY <2>1 DEF FinishRestore, Agree, Shape, DiskShape, LaneSet
  <2>3. GaveUp' <=> GaveUp
    BY <2>1 DEF GaveUp
  <2>4. \A c \in Callers : Closing(proc'[c])
    BY <2>1, IdleIsOK DEF Closing, ClosingLabels
  <2>5. ~Coming({"exhausted"})'
    BY <2>1 DEF Coming
  <2>6. QED
    BY <2>2, <2>3, <2>4, <2>5 DEF Winding, Spent, Closing
<1>4. CASE Abort \/ DeferWrite \/ \E queue \in Queues : Enqueue(queue)
  BY <1>4, ApiPuts, <1>1 DEF Abort, DeferWrite, Enqueue, disk, Coming
<1>5. CASE UNCHANGED vars
  BY <1>1, <1>5 DEF vars, live, disk, Coming
<1>6. ASSUME NEW c \in Callers, Start(c) \/ Resume(c) \/ Drive(c), Start(c) => ~GaveUp
      PROVE  Winding'
  <2>1. Ready(c) /\ UNCHANGED entries
    BY <1>6, CallerReady, CallerWrites
  <2>2. GaveUp' <=> GaveUp
    BY <2>1 DEF GaveUp
  <2>3. Coming({"exhausted"})' => proc'[c].pc = "finish" /\ Resume(c)
    BY <1>6, <2>1, TimelyPuts DEF Coming, Timely
  <2>4. ASSUME Resume(c)
        PROVE  /\ UNCHANGED lane /\ (Closing(proc'[c]) \/ proc'[c].pc = "resumed")
               /\ proc'[c].pc = "finish" => Spent
               /\ proc'[c].pc = "resumed" => ~Spent
    BY <2>4, ResumeStarts, ResumeGuards, ExhaustedIs DEF Still, Closing, ClosingLabels, Spent
  <2>5. ASSUME GaveUp
        PROVE  Closing(proc'[c]) /\ UNCHANGED lane /\ Spent
    BY <1>6, <2>5, <2>4, ClosingCaller DEF Winding
  <2>6. (GaveUp \/ Coming({"exhausted"}))' => Spent'
    BY <2>2, <2>3, <2>4, <2>5 DEF Spent
  <2>7. GaveUp' => \A d \in Callers : Closing(proc'[d])
    BY <2>2, <2>5 DEF OneCaller
  <2>8. QED
    BY <2>6, <2>7 DEF Winding, Closing
<1>7. QED
  BY <1>2, <1>3, <1>4, <1>5, <1>6 DEF Next

LEMMA PairInvCorrect ==
    ASSUME OneCaller, OneRound, NoneIsNoName, NoneIsNoId
    PROVE  Spec => []PairInv
<1>1. BoundsAssumption /\ Init => Unique /\ PairInv
  BY InitUnique, InitInputs, InitKinds, InitLeaves, InitFlushed, InitStrict DEF PairInv
<1>2. /\ BoundsAssumption /\ Shape /\ Shape' /\ Life /\ ResumeInv /\ LiveMatchesJournal
      /\ Unique /\ PairInv /\ [Next]_vars
      => Unique' /\ PairInv'
  BY StepUnique, StepInputs, StepKinds, StepLeaves, StepFlushed, StepStrict DEF PairInv, ResumeInv
<1>3. Spec => []Life
  BY LifeCorrect
<1>4. Spec => []ResumeInv
  BY ResumeInvCorrect
<1>5. Spec => []LiveMatchesJournal
  BY LiveMatchesJournalCorrect
<1>6. QED
  BY <1>1, <1>2, <1>3, <1>4, <1>5, ShapeCorrect, BoundsAssumption, PTL DEF Spec

(* Whenever the model is asked, every call of the transcript has its result *)
(* and every result its call, across crashes, resumes and aborts, as long as *)
(* no operation was closed because its attempts were used up.               *)
THEOREM PairedUntilGivenUp ==
    OneCaller /\ OneRound /\ NoneIsNoName /\ NoneIsNoId /\ Spec => [](GaveUp \/ TranscriptPaired)
<1> SUFFICES ASSUME OneCaller, OneRound, NoneIsNoName, NoneIsNoId
             PROVE  Spec => [](GaveUp \/ TranscriptPaired)
  OBVIOUS
<1>1. Shape /\ Life /\ ResumeInv /\ PairInv => GaveUp \/ TranscriptPaired
  BY StrictPairs DEF ResumeInv, PairInv
<1>2. Spec => []Life
  BY LifeCorrect
<1>3. Spec => []ResumeInv
  BY ResumeInvCorrect
<1>4. Spec => []PairInv
  BY PairInvCorrect
<1>5. QED
  BY <1>1, <1>2, <1>3, <1>4, ShapeCorrect, PTL

(* It stays so in a lane that starts nothing after an operation gave up: the *)
(* operation itself asks the model no more.                                *)
THEOREM TranscriptPairedCorrect ==
    OneCaller /\ OneRound /\ NoneIsNoName /\ NoneIsNoId /\ Spec /\ NothingAfterGivingUp
        => []TranscriptPaired
<1> SUFFICES ASSUME OneCaller, OneRound, NoneIsNoName, NoneIsNoId
             PROVE  Spec /\ NothingAfterGivingUp => []TranscriptPaired
  OBVIOUS
<1>1. BoundsAssumption /\ Init => Bounded /\ Resting /\ Winding
  BY InitBounded, InitWinding
<1>2. /\ BoundsAssumption /\ Shape /\ Life /\ ResumeInv /\ LiveMatchesJournal /\ PairInv
      /\ Bounded /\ Resting /\ Winding /\ [Next]_vars /\ [\A c \in Callers : Start(c) => ~GaveUp]_vars
      => Bounded' /\ Resting' /\ Winding'
  <2> SUFFICES ASSUME BoundsAssumption, Shape, Life, ResumeInv, LiveMatchesJournal, PairInv, Bounded,
                      Resting, Winding, [Next]_vars, [\A c \in Callers : Start(c) => ~GaveUp]_vars
               PROVE  Bounded' /\ Resting' /\ Winding'
    OBVIOUS
  <2>1. Bounded' /\ Resting'
    BY StepBounded, StepResting
  <2>2. Fresh /\ Leaves
    BY DEF ResumeInv, PairInv
  <2>3. QED
    BY <2>1, <2>2, StepWinding
<1>3. Winding /\ (GaveUp \/ TranscriptPaired) => TranscriptPaired
  BY DEF Winding, Closing, ClosingLabels, TranscriptPaired
<1>4. Spec => []Life
  BY LifeCorrect
<1>5. Spec => []ResumeInv
  BY ResumeInvCorrect
<1>6. Spec => []LiveMatchesJournal
  BY LiveMatchesJournalCorrect
<1>7. Spec => []PairInv
  BY PairInvCorrect
<1>8. Spec => [](GaveUp \/ TranscriptPaired)
  BY PairedUntilGivenUp
<1>9. QED
  BY <1>1, <1>2, <1>3, <1>4, <1>5, <1>6, <1>7, <1>8, ShapeCorrect, BoundsAssumption, PTL
     DEF Spec, NothingAfterGivingUp

(* A call comes before its entries.                                        *)
LEMMA StepBegun ==
    ASSUME Shape, Shape', Life, Begun, [Next]_vars
    PROVE  Begun'
<1>1. Len(ops) > 0 => Len(ops') > 0
  BY OpsOnlyGrow DEF Shape, DiskShape
<1>2. CASE UNCHANGED entries
  BY <1>1, <1>2 DEF Begun
<1>3. CASE Commit
  <2>1. CASE Head(chain).put = "record"
    BY <1>2, <1>3, <2>1, CommitEffects DEF CommitRecord
  <2>2. CASE Head(chain).put = "entry"
    <3>1. PICK c \in Callers : Due(proc[c], chain[1])
      BY <1>3, <2>2, CommitEffects DEF Life, OwnAppends
    <3>2. proc[c].pc # "idle"
      BY <1>3, <2>2, <3>1, CommitEffects DEF Due, Early
    <3>3. ops \in Seq(OpSet) /\ proc[c].op \in 1..Len(ops)
      BY <3>2, OpsShape DEF Shape, DiskShape
    <3>4. Len(ops) > 0
      BY <3>3
    <3>5. QED
      BY <1>1, <3>4 DEF Begun
  <2>3. QED
    BY <1>3, <2>1, <2>2, CommitEffects
<1>4. QED
  BY <1>2, <1>3, CallerWrites DEF Next, Abort, DeferWrite, Enqueue, Crash, vars, disk

(* In particular when the lane takes one operation. *)
COROLLARY OneOperationPaired ==
    OneCaller /\ OneRound /\ MaxOps = 1 /\ NoneIsNoName /\ NoneIsNoId /\ Spec => []TranscriptPaired
<1> SUFFICES ASSUME OneCaller, OneRound, MaxOps = 1, NoneIsNoName, NoneIsNoId
             PROVE  Spec => []TranscriptPaired
  OBVIOUS
<1>1. Init => Begun
  BY DEF Init, Begun
<1>2. Shape /\ Shape' /\ Life /\ Begun /\ [Next]_vars => Begun'
  BY StepBegun
<1>3. Shape /\ Begun /\ [Next]_vars => [\A c \in Callers : Start(c) => ~GaveUp]_vars
  <2> SUFFICES ASSUME Shape, Begun, NEW c \in Callers, Start(c), GaveUp
               PROVE  FALSE
    OBVIOUS
  <2>1. entries # << >>
    BY DEF GaveUp
  <2>2. Len(ops) \in Nat /\ Len(ops) > 0
    BY <2>1 DEF Begun, Shape, DiskShape
  <2>3. Len(ops) < MaxOps
    BY DEF Start, Prompt, Drain, StartRun, Compact, Navigate, MayStart, MayStartIfNoRuntime
  <2>4. QED
    BY <2>2, <2>3
<1>4. Spec => []Life
  BY LifeCorrect
<1>5. Spec => NothingAfterGivingUp
  BY <1>1, <1>2, <1>3, <1>4, ShapeCorrect, PTL DEF Spec, NothingAfterGivingUp
<1>6. QED
  BY <1>5, TranscriptPairedCorrect
=============================================================================
