-------------------------- MODULE AgentHarnessInv --------------------------
(***************************************************************************)
(* The inductive invariants of AgentHarness, part by part, and the words   *)
(* they are said in.  AgentHarness_proofs proves them.                     *)
(***************************************************************************)
EXTENDS AgentHarness

(* None is a name of its own: neither an operation nor a number. *)
NoneIsNoName == None \notin Nat

-----------------------------------------------------------------------------
(* The shape of the state.                                                 *)
IdKinds == {"input", "compaction", "queued", "deferred", "assistant", "result"}
Whats == {"input", "deferred", "moved", "compaction", "call", "text", "partial", "result",
          "interrupted", "continue", "handle", "ready", "aborted", "exhausted"}
Statuses == {"idle", "running", "suspended", "aborting"}
OpKinds == {"prompt", "compaction", "navigation"}
Progress == Outcomes \cup {"none", "text", "tool"}

(* The pre-allocated ids, and those an append makes up. *)
IdsOf(kinds) == [k : kinds, op : Nat, att : Nat, n : Nat]
IdSet        == IdsOf(IdKinds)
AssistantIds == IdsOf({"assistant"})
DeferredIds  == IdsOf({"deferred"})
QueuedIds    == IdsOf({"queued"})
InputIds     == IdsOf({"input", "queued"})
AutoIds      == [k : {"auto"}, op : {0}, att : {0}, n : Nat]

ToolSet == [id : AssistantIds, resp : Nat, replay : {"never", "safe"}]
EntrySet == [id : IdSet \cup AutoIds, what : Whats, tok : Nat]
PutSet == [id : IdSet \cup {AutoId}, what : Whats, tok : Nat]
OpSet == [kind : OpKinds, input : InputIds \cup {None}]
LaneSet ==
    [status : Statuses, op : Nat \cup {None}, kind : OpKinds \cup {None},
     abortRequested : BOOLEAN, attempts : Nat, maxAttempts : Nat,
     dangling : Seq(ToolSet), queues : [Queues -> Seq(Nat)]]

StartedSet  == [kind : {"operation_started"}, op : Nat, opKind : OpKinds]
AbortSet    == [kind : {"abort_requested"}, op : Nat]
FinishedSet == [kind : {"operation_finished"}, op : Nat, outcome : Outcomes]
ToolRecords == [kind : {"tool_started"}, tool : ToolSet]
EnqueuedSet == [kind : {"queue_enqueued"}, queue : Queues, item : Nat]
AttemptSet  == [kind : {"task_attempt"}, op : Nat, attempt : Nat, maxAttempts : Nat]
DeferredSet == [kind : {"write_deferred"}, entry : DeferredIds]
RecordSet ==
    StartedSet \cup AbortSet \cup FinishedSet \cup ToolRecords \cup EnqueuedSet \cup AttemptSet
        \cup DeferredSet

Writers == Callers \cup {"api"}
EntryAppends  == [by : Writers, put : {"entry"}, what : PutSet]
RecordAppends == [by : Writers, put : {"record"}, what : RecordSet]
ChainSet == EntryAppends \cup RecordAppends

IdTodo == {"writes", "steer", "abortWrites"}
TodoIds(label) == IF label = "steer" THEN QueuedIds ELSE DeferredIds
ToolTodo == {"resumed", "ensure", "reconcile", "replayed"}
ProcSet ==
    [pc : Labels, op : Nat, att : Nat, step : Nat, round : Nat, resp : Nat,
     replay : {"never", "safe"}, outcome : Progress, todo : Seq(IdSet) \cup Seq(ToolSet),
     dead : SUBSET Nat, holds : BOOLEAN]

(* A coroutine's fields; what it has to do are ids or tools by its label. *)
ProcOK(p) ==
    /\ p \in ProcSet
    /\ p.pc \in IdTodo => p.todo \in Seq(TodoIds(p.pc))
    /\ p.pc \in ToolTodo => p.todo \in Seq(ToolSet)
    /\ p.pc = "replayed" => p.todo # << >>
    /\ p.pc # "idle" => p.op \in 1..Len(ops)
    /\ p.pc \in {"finish", "abortWrites"} => p.outcome \in Outcomes

DiskShape ==
    /\ entries \in Seq(EntrySet) /\ durable \in LaneSet
    /\ ops \in Seq(OpSet)
    /\ toolLog \subseteq ToolSet /\ writeLog \in Seq(DeferredIds)
    /\ durable.op \in {None} \cup 1..Len(ops)

LaneShape == lane \in LaneSet /\ lane.op \in {None} \cup 1..Len(ops)

ChainShape ==
    /\ chain \in Seq(ChainSet)
    /\ \A i \in DOMAIN chain :
         chain[i].put = "record" /\ chain[i].what.kind = "operation_started"
             => chain[i].what.op \in 1..Len(ops)

ProcShape ==
    /\ proc \in [Callers -> ProcSet] /\ \A c \in Callers : ProcOK(proc[c])
    /\ runtime \in Callers \cup {None} /\ signal \in [Callers -> BOOLEAN]

HistoryShape ==
    /\ responses \in Nat /\ executed \in [1..MaxResponses -> Nat] /\ sealed \subseteq Nat
    /\ started \subseteq Nat /\ finished \in Seq(Nat \X Outcomes)
    /\ enqueued \subseteq Queues \X Nat /\ returned \subseteq Nat /\ acked \subseteq Nat
    /\ used \in [items : Nat, aborts : Nat, crashes : Nat]

Shape == DiskShape /\ LaneShape /\ ChainShape /\ ProcShape /\ HistoryShape

-----------------------------------------------------------------------------

Plain == Labels \ (IdTodo \cup ToolTodo \cup {"idle", "finish"})

-----------------------------------------------------------------------------
(* What a step of a caller does, field by field.                           *)

(* Everything but the chain, the coroutines, the runtime and the signals.  *)
Still == UNCHANGED <<lane, entries, durable, ops, toolLog, writeLog, responses, executed, sealed,
                     started, finished, enqueued, returned, acked, used>>
(* The coroutine stays at the same point of the same operation's run.      *)
Keeps(c) ==
    /\ proc'[c].op = proc[c].op /\ proc'[c].att = proc[c].att /\ proc'[c].step = proc[c].step
    /\ proc'[c].round = proc[c].round /\ proc'[c].resp = proc[c].resp
    /\ proc'[c].replay = proc[c].replay
Turns(c, label) ==
    /\ Keeps(c) /\ proc'[c].pc = label /\ proc'[c].outcome = proc[c].outcome
    /\ proc'[c].todo = proc[c].todo /\ proc'[c].dead = proc[c].dead
Ends(c, outcomes) ==
    /\ Keeps(c) /\ proc'[c].pc = "finish" /\ proc'[c].outcome \in outcomes
    /\ proc'[c].dead = proc[c].dead
Lists(c, label, todo) ==
    /\ Keeps(c) /\ proc'[c].pc = label /\ proc'[c].outcome = proc[c].outcome
    /\ proc'[c].todo = todo /\ proc'[c].dead = proc[c].dead

-----------------------------------------------------------------------------
(* The life of an operation, when one caller at a time drives the lane.    *)

OneCaller == \A c, d \in Callers : c = d

Early   == {"idle", "beforeRun", "navigate", "compact", "move", "input"}
Working == Labels \ (Early \cup {"release"})

ToolOf(p) == [id |-> AssistantId(p.op, p.att, p.step), resp |-> p.resp, replay |-> p.replay]

(* The append that a coroutine at p may be waiting for. *)
DueRecord(p, r) ==
    \/ /\ r.kind = "operation_started" /\ p.pc \in {"compact", "move", "input"}
       /\ r.op = p.op /\ lane.op = None /\ p.op \notin started
    \/ /\ r.kind = "operation_finished" /\ p.pc = "release"
       /\ r.op = p.op /\ lane.op = p.op /\ r.outcome = p.outcome
    \/ /\ r.kind = "task_attempt" /\ p.pc = "resumed" /\ r.op = p.op /\ r.attempt = p.att
    \/ r.kind = "tool_started" /\ p.pc = "execute" /\ r.tool = ToolOf(p)
Due(p, a) ==
    \/ a.put = "entry" /\ p.pc \notin Early \cup {"resumed", "execute"}
    \/ a.put = "record" /\ DueRecord(p, a.what)

ApiKinds == {"abort_requested", "queue_enqueued", "write_deferred"}

(* A caller waits for at most one append, the one its label calls for.     *)
OwnAppends ==
    /\ \A i, j \in DOMAIN chain :
         chain[i].by \in Callers /\ chain[j].by \in Callers => i = j
    /\ \A i \in DOMAIN chain :
         IF chain[i].by \in Callers THEN Due(proc[chain[i].by], chain[i])
         ELSE chain[i].put = "record" /\ chain[i].what.kind \in ApiKinds

(* Where the open operation of the lane stands against a coroutine at p.   *)
Phase(p, ready) ==
    /\ p.pc = "idle" => ready
    /\ p.pc \in {"beforeRun", "navigate"} => ready /\ lane.op = None /\ p.op \notin started
    /\ p.pc \in {"compact", "move", "input"} /\ ready => lane.op = p.op
    /\ p.pc \in Working => lane.op = p.op
Phases == \A c \in Callers : Phase(proc[c], Ready(c))

(* The lane, the journal and the history agree on the open operation.      *)
OpenOps ==
    /\ durable.op = lane.op /\ durable.queues = lane.queues /\ durable.attempts = lane.attempts
    /\ lane.status = "idle" <=> lane.op = None
    /\ durable.status = "idle" <=> durable.op = None
    /\ lane.op = None => lane.attempts = 0
    /\ lane.op # None => lane.op \in started /\ lane.op \notin FinishedOps
    /\ \A op \in started : op \in FinishedOps \/ lane.op = op
    /\ FinishedOps \subseteq started
    /\ started \subseteq 1..Len(ops) /\ Len(ops) <= MaxOps
    /\ \A i, j \in DOMAIN finished : finished[i][1] = finished[j][1] => i = j

Life == OwnAppends /\ Phases /\ OpenOps

(* The step leaves the open operation as it is. *)
KeepsOpen ==
    /\ lane'.op = lane.op /\ lane'.status = lane.status /\ lane'.attempts = lane.attempts
    /\ lane'.queues = lane.queues /\ UNCHANGED <<durable, started, finished>>
    /\ Len(ops) \in Nat /\ Len(ops') \in Nat /\ Len(ops) <= Len(ops') /\ Len(ops') <= MaxOps
(* The caller waits for nothing, or for the append its new label calls for. *)
IssuesDue(c) ==
    \/ UNCHANGED chain /\ Phase(proc'[c], TRUE)
    \/ /\ \E a : chain' = Append(chain, a) /\ a.by = c /\ Due(proc'[c], a)
       /\ Phase(proc'[c], FALSE)

-----------------------------------------------------------------------------
(* Entries are written once.                                               *)

(* An append is a record, or an entry that is not in the tree. *)
Issued(a) == a.put = "record" \/ (a.put = "entry" /\ ~InTree(a.what.id))
Issuing(by) == UNCHANGED chain \/ \E a : chain' = Append(chain, a) /\ a.by = by /\ Issued(a)

(* The ids made up by an append count the entries; a pending entry has     *)
(* none yet, or one that is not in the tree.                               *)
Unique ==
    /\ EntriesUnique
    /\ \A i \in DOMAIN entries : entries[i].id.k = "auto" => entries[i].id.n = i
    /\ \A i \in DOMAIN chain :
         chain[i].put = "entry" => chain[i].what.id = AutoId \/ ~InTree(chain[i].what.id)

-----------------------------------------------------------------------------
(* Ids and attempts, when a run has a single round.                        *)

OneRound == MaxRounds = 1

Looping == {"top", "writes", "readSteer", "steer", "ask", "model", "toolStarted", "execute",
            "assistant", "result", "stepEnd", "roundEnd"}
Counted == Looping \cup ToolTodo \cup {"input", "beforeRun"}

(* A resumed run that has not entered the loop yet. *)
Behind(p, ready) ==
    \/ p.pc = "input"
    \/ p.pc \in ToolTodo /\ p.outcome # "aborted" /\ (p.pc = "resumed" => ready)

(* A run writes as the attempt after the last one counted.                 *)
AttemptOK(p, ready) ==
    /\ p.pc \in Looping \cup {"beforeRun", "input"} => p.att = lane.attempts + 1
    /\ p.pc = "resumed" /\ ~ready => p.att = lane.attempts + 1
    /\ p.pc \in ToolTodo /\ Behind(p, ready) => p.att = lane.attempts
    /\ p.round = 0
Attempts == \A c \in Callers : AttemptOK(proc[c], Ready(c))

(* An id in use belongs to a step this run is past, or to an earlier       *)
(* attempt; at the labels of before, this step's own id is still free.     *)
OldFor(p, ready, id, before) ==
    /\ p.pc \in Looping /\ id.op = p.op /\ id.att = p.att
         => id.n <= p.step /\ (p.pc \in before => id.n < p.step)
    /\ Behind(p, ready) /\ id.op = p.op => id.att <= lane.attempts
Old(id, before) ==
    /\ id.op \in started
    /\ id.op = lane.op => id.att <= lane.attempts + 1
    /\ \A c \in Callers : OldFor(proc[c], Ready(c), id, before)

(* How a step moves a coroutine between the labels that count.             *)
Within(c) ==
    /\ proc'[c].op = proc[c].op /\ proc'[c].att = proc[c].att /\ proc'[c].round = proc[c].round
Advance(c) ==
    LET p == proc[c]
        q == proc'[c]
    IN  \/ q.round = 0 /\ q.pc \notin Counted
        \/ q.round = 0 /\ q.pc = "beforeRun" /\ q.att = 1 /\ lane.op = None
        \/ Within(c) /\ p.pc = "beforeRun" /\ q.pc = "input"
        \/ Within(c) /\ p.pc = "input" /\ q.pc = "top"
        \/ /\ Within(c) /\ p.pc \in Looping /\ q.pc \in Looping
           /\ \/ q.step = p.step + 1
              \/ /\ q.step = p.step /\ q.pc # "toolStarted"
                 /\ q.pc \in {"execute", "assistant"} => p.pc \in {"toolStarted", "execute"}
        \/ Within(c) /\ p.pc \in ToolTodo /\ q.pc \in ToolTodo \ {"resumed"} /\ q.outcome = p.outcome
        \/ q.round = 0 /\ q.pc = "resumed" /\ ~Ready(c)' /\ q.att = lane.attempts + 1
        \/ q.round = 0 /\ q.pc \in ToolTodo \ {"resumed"} /\ q.outcome = "aborted"
        \/ /\ q.op = p.op /\ q.att = p.att + 1 /\ q.round = p.round
           /\ p.pc = "reconcile" /\ p.outcome # "aborted" /\ q.pc = "input"

(* The step counts nothing: it leaves the open operation, its attempts and *)
(* the disk as they are.                                                   *)
KeepsCount ==
    lane'.op = lane.op /\ lane'.attempts = lane.attempts /\ UNCHANGED <<started, toolLog, entries>>

-----------------------------------------------------------------------------
(* The tools a lane remembers as dangling, and those a resume has to       *)
(* settle, have their intent on disk.                                      *)
Recalled ==
    /\ \A k \in DOMAIN lane.dangling : lane.dangling[k] \in toolLog
    /\ \A k \in DOMAIN durable.dangling : durable.dangling[k] \in toolLog
    /\ \A c \in Callers :
         proc[c].pc \in ToolTodo => \A k \in DOMAIN proc[c].todo : proc[c].todo[k] \in toolLog

-----------------------------------------------------------------------------
(* An entry id is written when its append is issued. *)
Written(id) ==
    InTree(id) \/ \E i \in DOMAIN chain : chain[i].put = "entry" /\ chain[i].what.id = id

(* The entry of a response is written by the step that flushes it, or by a *)
(* resume from the intent of its tool.                                     *)
Flushes(c, id) ==
    \/ /\ proc[c].pc = "model" /\ id = AssistantId(proc[c].op, proc[c].att, proc[c].step + 1)
       /\ proc'[c].pc \in {"abortNote", "finish"}
    \/ /\ proc[c].pc = "assistant" /\ id = Slot(c) /\ Keeps(c)
       /\ proc'[c].pc \in {"result", "abortNote", "stepEnd"}
    \/ proc[c].pc = "ensure" /\ \E k \in DOMAIN proc[c].todo : id = proc[c].todo[k].id

-----------------------------------------------------------------------------
(* No step meets an id already in use.                                     *)
Flushing == {"toolStarted", "execute", "assistant"}

FreshTools   == \A t \in toolLog : Old(t.id, {"toolStarted"})
FreshEntries == \A id \in AssistantIds : Written(id) => Old(id, Flushing)
Fresh == Attempts /\ FreshTools /\ FreshEntries

-----------------------------------------------------------------------------
(* The live lane and the journal reduce to the same.                       *)

Agree(l, d) ==
    /\ l.op = d.op /\ l.kind = d.kind /\ l.abortRequested = d.abortRequested
    /\ l.attempts = d.attempts /\ l.maxAttempts = d.maxAttempts
    /\ l.dangling = d.dangling /\ l.queues = d.queues

-----------------------------------------------------------------------------
(* Responses, intents and executions.                                      *)

Responding == {"toolStarted", "execute", "assistant", "result", "stepEnd"}

(* The steps that handle a response or a dangling tool. *)
Handles(c) ==
    Answer(c) \/ RecordTool(c) \/ ExecuteTool(c) \/ FlushAssistant(c) \/ WriteResult(c)
      \/ StepEnd(c) \/ Reconcile(c) \/ WriteReplayed(c)

(* A coroutine at p handles the last response; its intent is on disk       *)
(* before its tool runs, and its tool has not run before.                  *)
ToolPhase(p, ready) ==
    /\ p.pc \in Responding => p.resp = responses /\ responses > 0
    /\ p.pc \in {"toolStarted", "execute"} => executed[p.resp] = 0
    /\ p.pc \in {"toolStarted", "execute", "result"} => p.outcome = "tool"
    /\ p.pc = "toolStarted" \/ (p.pc = "execute" /\ ~ready) => \A t \in toolLog : t.resp # p.resp
    /\ (p.pc = "execute" /\ ready) \/ (p.pc \in {"assistant", "result"} /\ p.outcome = "tool")
         => ToolOf(p) \in toolLog

(* A tool call belongs to one response, and nothing ran for a later one.   *)
Calls ==
    /\ responses <= MaxResponses
    /\ \A t \in toolLog : t.resp \in 1..responses
    /\ \A t, u \in toolLog : t.resp = u.resp => t = u
    /\ \A r \in DOMAIN executed : r > responses => executed[r] = 0

Tools == Calls /\ \A c \in Callers : ToolPhase(proc[c], Ready(c))

-----------------------------------------------------------------------------
(* What runs, how often, and what remains of it.                           *)

(* A tool that ran once more than there were crashes has its result, or    *)
(* the coroutine that ran it is about to write it.                         *)
Answered(t) ==
    \/ Written(ResultIdOf(t.id))
    \/ \E c \in Callers :
         \/ proc[c].pc \in {"assistant", "result"} /\ proc[c].outcome = "tool" /\ ToolOf(proc[c]) = t
         \/ proc[c].pc = "replayed" /\ Head(proc[c].todo) = t
Once ==
    \A r \in DOMAIN executed :
        executed[r] > used.crashes =>
            /\ executed[r] = 1 + used.crashes
            /\ \A t \in toolLog : t.resp = r => Answered(t)

-----------------------------------------------------------------------------
(* The message of a response is in the tree, or on its way there. *)
Message(r) ==
    \/ \E i \in DOMAIN entries : entries[i].what \in {"text", "call"} /\ entries[i].tok = r
    \/ \E i \in DOMAIN chain : /\ chain[i].put = "entry"
                               /\ chain[i].what.what \in {"text", "call"} /\ chain[i].what.tok = r
Recorded ==
    /\ ResponsesRecorded
    /\ \A c \in Callers : proc[c].pc \in {"result", "stepEnd"} => Message(proc[c].resp)

-----------------------------------------------------------------------------
(* What resuming relies on.                                                *)

(* What a resume relies on: the tools it settles are on disk, and the ids  *)
(* and responses of the run it starts are new.                             *)
ResumeInv == Recalled /\ Fresh /\ Tools

-----------------------------------------------------------------------------
(* Queued items: what an abort hands back is out of the lane for good.     *)

IsEnqueue(a, i) == a.put = "record" /\ a.what.kind = "queue_enqueued" /\ a.what.item = i
Pending(i) == \E k \in DOMAIN chain : IsEnqueue(chain[k], i)
InQueue(q, i) == \E k \in DOMAIN lane.queues[q] : lane.queues[q][k] = i

(* An item is enqueued once, in one queue. *)
Items ==
    /\ \A k, m \in DOMAIN chain : \A i : IsEnqueue(chain[k], i) /\ IsEnqueue(chain[m], i) => k = m
    /\ \A i : Pending(i) => i <= used.items
    /\ \A q \in Queues : \A i : InQueue(q, i) => i <= used.items /\ ~Pending(i)
    /\ \A q, s \in Queues : \A i : InQueue(q, i) /\ InQueue(s, i) => q = s

-----------------------------------------------------------------------------
(* The operation op takes item i as its input. *)
Feeds(op, i) == ops[op].input # None /\ ops[op].input = ItemId(i)

(* The coroutine c is about to write item i. *)
Aims(c, i) ==
    \/ proc[c].pc \in Early \ {"idle"} /\ Feeds(proc[c].op, i)
    \/ proc[c].pc = "steer" /\ \E k \in DOMAIN proc[c].todo : proc[c].todo[k] = ItemId(i)

(* Item i was accepted, is not in the tree, and nothing will put it there. *)
Gone(i) ==
    /\ i <= used.items /\ ~Written(ItemId(i)) /\ ~Pending(i)
    /\ \A q \in Queues : ~InQueue(q, i)
    /\ lane.op # None => ~Feeds(lane.op, i)
    /\ \A c \in Callers : ~Aims(c, i)

(* Item i is queued and dies with the operation that is being aborted.     *)
Dying(i) ==
    /\ i <= used.items /\ ~Written(ItemId(i)) /\ ~Pending(i)
    /\ InQueue("steer", i) \/ InQueue("followUp", i)

Aborted == {"abortRead", "abortWrites", "finish", "release"}

(* What c hands back dies with the operation, or is gone once it finished. *)
HandsBack(c) ==
    /\ proc[c].dead # {} =>
         /\ proc[c].pc \in Aborted
         /\ proc[c].pc # "abortRead" => proc[c].outcome = "aborted"
         /\ proc[c].pc = "release" =>
              \A k \in DOMAIN chain : chain[k].by = c => chain[k].put = "record"
    /\ \A i \in proc[c].dead :
         IF proc[c].pc = "release" /\ Ready(c) THEN Gone(i) ELSE Dying(i)
Handed == (\A i \in returned : Gone(i)) /\ \A c \in Callers : HandsBack(c)

-----------------------------------------------------------------------------
(* The attempts of an operation are counted and run out.                   *)
Counts(l) ==
    /\ l.maxAttempts \in {0, MaxAttempts} /\ l.attempts <= MaxAttempts
    /\ l.maxAttempts = 0 => l.attempts = 0
IsAttempt(a) == a.put = "record" /\ a.what.kind = "task_attempt"
CountedAppend(a) ==
    IsAttempt(a) => a.what.attempt <= MaxAttempts /\ a.what.maxAttempts = MaxAttempts
Bounded ==
    /\ Len(ops) <= MaxOps /\ responses <= MaxResponses /\ started \subseteq 1..Len(ops)
    /\ Counts(lane) /\ Counts(durable)
    /\ \A k \in DOMAIN chain : CountedAppend(chain[k])
(* A caller at rest holds no operation. *)
Resting == \A c \in Callers : proc[c].pc = "idle" => proc[c].op = 0

-----------------------------------------------------------------------------
(* Calls and results in the transcript.                                    *)

(* None is not an input id either. *)
NoneIsNoId == None \notin InputIds

(* The last attempt of an operation was used up and the operation closed,  *)
(* possibly with a call unanswered.                                        *)
GaveUp == \E i \in DOMAIN entries : entries[i].what = "exhausted"
NothingAfterGivingUp == [][\A c \in Callers : Start(c) => ~GaveUp]_vars

(* Input ids are not used before their operation exists. *)
Inputs ==
    \A op \in Nat :
        Written(InputId(op)) \/ (\E j \in DOMAIN ops : ops[j].input = InputId(op)) => op <= Len(ops)

-----------------------------------------------------------------------------
(* A navigation runs no turn and starts no tool.                           *)

Repairing == {"ensure", "reconcile", "replayed"}
(* A run on its way, from the hook before it or from a resume. *)
Running(p) ==
    p.pc \in Looping \cup {"beforeRun", "input"} \/ (p.pc \in Repairing /\ p.outcome # "aborted")
Kinds ==
    /\ \A t \in toolLog : t.id.op \in DOMAIN ops /\ ops[t.id.op].kind # "navigation"
    /\ \A c \in Callers : Running(proc[c]) => ops[proc[c].op].kind # "navigation"

-----------------------------------------------------------------------------
(* The handle of a deferred answer is the last entry only while the run    *)
(* that parked, or one that redeems it, is at work.                        *)
LeafOK(p, ready) ==
    /\ p.pc \in Looping /\ (ready \/ p.pc = "execute") => LeafWhat # "handle"
    /\ p.pc \in Repairing /\ p.outcome # "aborted" /\ ready => LeafWhat # "handle"
    /\ p.pc \in {"beforeRun", "input"} =>
         \/ LeafWhat # "handle"
         \/ ops[p.op].input # None /\ ~InTree(ops[p.op].input)
(* An append that some label only makes. *)
Timely(what, p) ==
    /\ what = "handle" => p.pc = "release"
    /\ what = "exhausted" => p.pc = "finish"
Leaves ==
    /\ \A i \in DOMAIN chain :
         chain[i].put = "entry" => \A c \in Callers : Timely(chain[i].what.what, proc[c])
    /\ \A c \in Callers : LeafOK(proc[c], Ready(c))

-----------------------------------------------------------------------------
(* The call of a tool is flushed before its result is written. *)
Flushed == \A c \in Callers : proc[c].pc = "result" => Written(ToolOf(proc[c]).id)

-----------------------------------------------------------------------------
(* Every call of the transcript has its result, but for the last one.      *)
ResultWhats == {"result", "interrupted"}
(* The tools on disk whose result is not. *)
Unsettled == {t \in toolLog : ~InTree(ResultIdOf(t.id))}

Answers(i, j) ==
    /\ NextMessage(i, j) /\ entries[j].id = ResultIdOf(entries[i].id)
    /\ entries[j].tok = entries[i].tok
LastMessage(i) == \A k \in (i + 1)..Len(entries) : ~IsMessage(k)
PairedCall(i) ==
    \/ \E j \in (i + 1)..Len(entries) : Answers(i, j)
    \/ LastMessage(i) /\ ~InTree(ResultIdOf(entries[i].id))

(* An entry under the id of a tool is its call; calls and results are      *)
(* those of tools on disk.                                                 *)
EntryOK(i) ==
    /\ \A t \in toolLog : entries[i].id = t.id => entries[i].what = "call" /\ entries[i].tok = t.resp
    /\ entries[i].what = "call" => PairedCall(i) /\ \E t \in toolLog : entries[i].id = t.id
    /\ entries[i].id.k = "result" => \E t \in toolLog : entries[i].id = ResultIdOf(t.id)
Exchanges ==
    /\ \A t, u \in toolLog : t.id = u.id => t = u
    /\ \A t \in toolLog : InTree(ResultIdOf(t.id)) => InTree(t.id)
    /\ \A i \in DOMAIN entries : EntryOK(i)
(* At most one tool lacks its result; it belongs to the open operation,    *)
(* which remembers it as dangling.                                         *)
Outstanding ==
    /\ \A t, u \in Unsettled : t = u
    /\ \A t \in Unsettled :
         t.id.op = lane.op /\ \E k \in DOMAIN lane.dangling : lane.dangling[k] = t
    /\ LeafWhat = "handle" => Unsettled = {}

(* An append on its way that the transcript may take: the call of a tool   *)
(* that lacks its result, that result, or a message when no tool lacks one *)
(* - but for the note that the attempts are exhausted.                     *)
Fits(id, what, tok) ==
    \/ what = "call" /\ \E t \in Unsettled : id = t.id /\ tok = t.resp
    \/ /\ what \in ResultWhats
       /\ \E t \in Unsettled : InTree(t.id) /\ id = ResultIdOf(t.id) /\ tok = t.resp
    \/ /\ what \notin ResultWhats \cup {"call"}
       /\ id.k # "result" /\ \A t \in toolLog : id # t.id
       /\ Unsettled = {} \/ what = "exhausted"
Fitting ==
    \A i \in DOMAIN chain : chain[i].put = "entry" =>
        Fits(chain[i].what.id, chain[i].what.what, chain[i].what.tok)

(* The labels at which no tool lacks its result. *)
Calm == {"beforeRun", "compact", "navigate", "move", "input", "top", "writes", "readSteer", "steer",
         "ask", "model", "toolStarted", "roundEnd", "park", "abortNote", "abortRead", "abortWrites",
         "release", "redeem"}
NoToolOf(p) == \A t \in toolLog : t.id # ToolOf(p).id
(* What a coroutine at p may rely on: only the tool it runs, or those it   *)
(* was resumed to settle, lack their results.                              *)
Settles(p, ready) ==
    /\ p.pc \in Calm => Unsettled = {}
    /\ p.pc = "execute" /\ ~ready => Unsettled = {} /\ NoToolOf(p)
    /\ p.pc \in {"execute", "assistant", "result"} => Unsettled \subseteq {ToolOf(p)}
    /\ p.pc = "assistant" /\ p.outcome # "tool" => Unsettled = {} /\ NoToolOf(p)
    /\ p.pc \in ToolTodo => \A t \in Unsettled : \E k \in DOMAIN p.todo : p.todo[k] = t
    /\ p.pc \in {"reconcile", "replayed"} => \A t \in Unsettled : InTree(t.id)
Coming(whats) == \E i \in DOMAIN chain : chain[i].put = "entry" /\ chain[i].what.what \in whats
Awaits(p) ==
    /\ p.pc = "finish" => Unsettled = {} \/ Coming({"exhausted"})
    /\ p.pc = "stepEnd" => Unsettled = {} \/ Coming(ResultWhats)
Strict ==
    /\ Exchanges /\ Outstanding /\ Fitting
    /\ \A c \in Callers : Settles(proc[c], Ready(c)) /\ Awaits(proc[c])

(* The entries after the commit of e. *)
Committed(e) == IF e.id = AutoId THEN [e EXCEPT !.id.n = Len(entries) + 1] ELSE e

(* What a committed entry is to the transcript. *)
IsCall(n) == n.what = "call" /\ \E t \in Unsettled : n.id = t.id /\ n.tok = t.resp
IsResult(n) ==
    /\ n.what \in ResultWhats
    /\ \E t \in Unsettled : InTree(t.id) /\ n.id = ResultIdOf(t.id) /\ n.tok = t.resp
IsOther(n) ==
    /\ n.what \notin ResultWhats \cup {"call"} /\ n.id.k # "result"
    /\ (\A t \in toolLog : n.id # t.id) /\ Unsettled = {}

-----------------------------------------------------------------------------
(* Once the attempts are used up, the lane only closes its operation.      *)
ClosingLabels == {"idle", "finish", "release", "abortNote", "abortRead", "abortWrites"}
Closing(p) == p.pc \in ClosingLabels \/ (p.pc \in {"ensure", "reconcile"} /\ p.outcome = "aborted")
Spent == lane.op # None => lane.attempts = MaxAttempts
Winding ==
    /\ GaveUp \/ Coming({"exhausted"}) => Spent
    /\ GaveUp => \A c \in Callers : Closing(proc[c])

(* What a lane of one caller, whose runs have a single round, keeps of its *)
(* transcript.                                                             *)
PairInv == Inputs /\ Kinds /\ Leaves /\ Flushed /\ (GaveUp \/ Strict)

(* No entry is in the tree before an operation was called. *)
Begun == entries # << >> => Len(ops) > 0
=============================================================================
