---------------------------- MODULE SessionJournal ----------------------------
(***************************************************************************)
(* The JSONL session journal (harness/storage/jsonl.ts): calls are queued  *)
(* on a serial write chain, each link writes one line to the file and then *)
(* advances the memory; opening replays the file and cuts a torn tail.     *)
(*                                                                         *)
(* A line is one element of the file. A write is two steps, a fragment and *)
(* the rest, so that a crash, a failure or another reader can fall between.*)
(* A fragment followed by more bytes is one unparseable line.  The file at *)
(* the path may be replaced by rename: a handle then writes to nothing.    *)
(* Payloads, timestamps and facts are left out; a crash is the death of    *)
(* the process, not of the machine.                                        *)
(***************************************************************************)
EXTENDS Integers, Sequences, SequencesExt, FiniteSets

CONSTANTS
    Ids,         \* pre-allocated ids of entries and records
    Lanes, Main, \* lane names; the main lane exists from the start
    None,
    Hazards,     \* what may happen besides single calls and crashes
    MaxLines, MaxPending, MaxCrashes, MaxFailures, MaxReplaced \* bounds

ASSUME JournalAssumption ==
    /\ Main \in Lanes /\ None \notin Ids \cup Lanes
    /\ Hazards \subseteq {"sameId", "deleteRace", "secondProcess", "partialWrite"}
    /\ MaxLines \in Nat \ {0} /\ {MaxPending, MaxCrashes, MaxFailures, MaxReplaced} \subseteq Nat

VARIABLES
    file,      \* the lines of wire.jsonl after the header
    inode,     \* which file the path names
    mem,       \* the LoadedState of the process, or None
    chain,     \* calls waiting in the write chain, the first one in progress
    writer,    \* the link in progress: [pc, line, fd, merged]
    confirmed, \* history: lines whose call was answered, or that were replayed
    refused,   \* an open has found the journal corrupted
    snapshot,  \* what a second process has read and means to keep, or None
    spent      \* [crashes, failures] of the bounds

vars == <<file, inode, mem, chain, writer, confirmed, refused, snapshot, spent>>

-----------------------------------------------------------------------------
(* Replay *)

Torn    == [kind |-> "torn"]
Garbage == [kind |-> "garbage"]

EmptyState ==
    [ok |-> TRUE, nextSeq |-> 1, parents |-> {}, records |-> {},
     lanes |-> [l \in Lanes |-> IF l = Main THEN "live" ELSE "absent"],
     leaf |-> [l \in Lanes |-> None]]

(* The effect of a line on the state, live and replayed. *)
ApplyLine(s, line) ==
    LET t == [s EXCEPT !.nextSeq = @ + 1]
    IN CASE line.kind = "entry"  -> [t EXCEPT !.parents = @ \cup {<<line.id, line.parent>>},
                                              !.leaf[line.lane] = line.id]
         [] line.kind = "record" -> [t EXCEPT !.records = @ \cup {line.id}]
         [] line.kind = "create" -> [t EXCEPT !.lanes[line.lane] = "live", !.leaf[line.lane] = line.id]
         [] line.kind = "delete" -> [t EXCEPT !.lanes[line.lane] = "deleted"]
         [] line.kind = "move"   -> [t EXCEPT !.leaf[line.lane] = line.id]
         [] line.kind = "fact"   -> t

(* replayLine: an unparseable line, or an entry on a lane that does not    *)
(* exist, makes the journal corrupted; a move of such a lane is ignored.   *)
ReplayLine(s, line) ==
    IF \/ ~s.ok \/ line.kind \in {"torn", "garbage"}
       \/ (line.kind = "entry" /\ s.lanes[line.lane] # "live")
    THEN [s EXCEPT !.ok = FALSE]
    ELSE IF line.kind = "move" /\ s.lanes[line.lane] # "live"
         THEN [s EXCEPT !.nextSeq = @ + 1]
         ELSE ApplyLine(s, line)

TornTail(f) == f # <<>> /\ Last(f).kind \in {"torn", "garbage"}

(* Mutant: the last line is not examined. *)
KeepTail(f) == f
(* Mutant: the last line is dropped even when it is whole. *)
DropLast(f) == IF f = <<>> THEN f ELSE Front(f)
(* parseJournal keeps everything before an unterminated or unparseable     *)
(* last line.                                                              *)
Whole(f) == IF TornTail(f) THEN Front(f) ELSE f

(* Mutant: the tail is dropped from memory only. *)
NotCut(f) == f
(* open replaces a file that has a torn tail by its whole lines. *)
Truncated(f) == Whole(f)

(* The state after the lines of w, read one after another. *)
Replayed(w) ==
    LET state[i \in 0..Len(w)] == IF i = 0 THEN EmptyState ELSE ReplayLine(state[i - 1], w[i])
    IN  state[Len(w)]
Replay(f) == Replayed(Whole(f))

-----------------------------------------------------------------------------
(* Calls *)

IdleWriter == [pc |-> "idle", line |-> None, fd |-> 0, merged |-> FALSE]

Init ==
    /\ file = <<>> /\ inode = 0 /\ mem = EmptyState
    /\ chain = <<>> /\ writer = IdleWriter /\ confirmed = <<>>
    /\ refused = FALSE /\ snapshot = None
    /\ spent = [crashes |-> 0, failures |-> 0]

Up == mem # None
Pending(kind) == { i \in DOMAIN chain : chain[i].kind = kind }

Enqueue(call) ==
    /\ Up /\ Len(chain) < MaxPending /\ mem.nextSeq + Len(chain) <= MaxLines
    /\ chain' = Append(chain, call)
    /\ UNCHANGED <<file, inode, mem, writer, confirmed, refused, snapshot, spent>>

(* Mutant: an id that is in the tree is appended again. *)
Anything(id) == TRUE
IsNewEntry(id) == \A p \in mem.parents : p[1] # id

(* appendEntry: the lane and the id are checked when the call is made; an  *)
(* id that exists is returned as it is.                                    *)
AppendEntry(id, l) ==
    /\ Up /\ mem.lanes[l] = "live" /\ IsNewEntry(id)
    /\ "sameId" \notin Hazards => \A i \in Pending("entry") : chain[i].id # id
    /\ "deleteRace" \notin Hazards => Pending("delete") = {}
    /\ Enqueue([kind |-> "entry", id |-> id, lane |-> l])

(* appendRecord: no lane is required. *)
AppendRecord(id) ==
    /\ Up /\ id \notin mem.records
    /\ "sameId" \notin Hazards => \A i \in Pending("record") : chain[i].id # id
    /\ Enqueue([kind |-> "record", id |-> id])

Stored == { p[1] : p \in mem.parents }

(* A new lane starts empty or at an entry. *)
CreateLane(l) ==
    /\ Up /\ mem.lanes[l] # "live"
    /\ \E id \in {None} \cup Stored : Enqueue([kind |-> "create", lane |-> l, id |-> id])

MoveLane(l) ==
    /\ Up /\ mem.lanes[l] = "live"
    /\ "deleteRace" \notin Hazards => Pending("delete") = {}
    /\ \E id \in Stored : Enqueue([kind |-> "move", lane |-> l, id |-> id])

DeleteLane(l) ==
    /\ l # Main
    /\ Up /\ mem.lanes[l] = "live"
    /\ "deleteRace" \notin Hazards => Pending("entry") \cup Pending("move") = {}
    /\ Enqueue([kind |-> "delete", lane |-> l])

AppendFact == Up /\ Enqueue([kind |-> "fact"])

-----------------------------------------------------------------------------
(* The write chain *)

(* The link starts: the line gets its seq, an entry the lane's leaf as its *)
(* parent, and the file is opened for appending.                           *)
LineOf(call) ==
    IF call.kind = "entry"
    THEN [kind |-> "entry", id |-> call.id, lane |-> call.lane,
          parent |-> mem.leaf[call.lane], seq |-> mem.nextSeq]
    ELSE [f \in DOMAIN call \cup {"seq"} |-> IF f = "seq" THEN mem.nextSeq ELSE call[f]]

StartWrite ==
    /\ Up /\ chain # <<>> /\ writer.pc = "idle"
    /\ writer' = [pc |-> "opened", line |-> LineOf(Head(chain)), fd |-> inode, merged |-> FALSE]
    /\ UNCHANGED <<file, inode, mem, chain, confirmed, refused, snapshot, spent>>

EndsTorn == file # <<>> /\ Last(file) = Torn

(* The first bytes are in the file. *)

WriteSome ==
    /\ writer.pc = "opened"
    /\ writer' = [writer EXCEPT !.pc = "writing", !.merged = EndsTorn]
    /\ file' = IF writer.fd # inode \/ EndsTorn THEN file ELSE Append(file, Torn)
    /\ UNCHANGED <<inode, mem, chain, confirmed, refused, snapshot, spent>>

WriteRest ==
    /\ writer.pc = "writing"
    /\ writer' = [writer EXCEPT !.pc = "written"]
    /\ file' = IF writer.fd # inode THEN file
               ELSE Append(Front(file), IF writer.merged THEN Garbage ELSE writer.line)
    /\ UNCHANGED <<inode, mem, chain, confirmed, refused, snapshot, spent>>

(* The append resolves: the memory advances and the call is answered.      *)
Resolve ==
    /\ writer.pc = "written"
    /\ mem' = ApplyLine(mem, writer.line)
    /\ confirmed' = Append(confirmed, writer.line)
    /\ chain' = Tail(chain) /\ writer' = IdleWriter
    /\ UNCHANGED <<file, inode, refused, snapshot, spent>>

(* Mutant: the memory advances although nothing was written. *)
FailedAnyway(line) == ApplyLine(mem, line)
AfterFailure(line) == mem

(* The write fails and the call is rejected; part of the line may be in    *)
(* the file.                                                               *)
FailWrite ==
    /\ spent.failures < MaxFailures
    /\ \/ writer.pc = "opened"
       \/ writer.pc = "writing" /\ "partialWrite" \in Hazards
    /\ mem' = AfterFailure(writer.line)
    /\ chain' = Tail(chain) /\ writer' = IdleWriter
    /\ spent' = [spent EXCEPT !.failures = @ + 1]
    /\ UNCHANGED <<file, inode, confirmed, refused, snapshot>>

-----------------------------------------------------------------------------
(* Crash and open *)

Crash ==
    /\ Up /\ spent.crashes < MaxCrashes
    /\ spent' = [spent EXCEPT !.crashes = @ + 1]
    /\ mem' = None /\ chain' = <<>> /\ writer' = IdleWriter
    /\ UNCHANGED <<file, inode, confirmed, refused, snapshot>>

(* close waits for the chain. *)
Close ==
    /\ Up /\ chain = <<>> /\ mem' = None
    /\ UNCHANGED <<file, inode, chain, writer, confirmed, refused, snapshot, spent>>

(* open: replay, and replace a file that has a torn tail by its prefix.    *)
(* Only "secondProcess" lets it overlap with another process that opens.   *)
Open ==
    /\ ~Up /\ ~refused
    /\ "secondProcess" \notin Hazards => snapshot = None
    /\ LET s == Replay(file)
       IN IF s.ok
          THEN /\ mem' = s /\ file' = Truncated(file) /\ confirmed' = Whole(file)
               /\ inode' = IF file' = file THEN inode ELSE inode + 1
               /\ UNCHANGED refused
          ELSE refused' = TRUE /\ UNCHANGED <<mem, file, confirmed, inode>>
    /\ UNCHANGED <<chain, writer, snapshot, spent>>

(* A second process opens the same journal: it reads the file, then cuts   *)
(* the tail it found torn; its lock attempt comes after. It finds the      *)
(* first process dead, or, with "secondProcess", alive and writing.        *)
OtherReads ==
    /\ "secondProcess" \in Hazards \/ ~Up
    /\ snapshot = None /\ inode < MaxReplaced
    /\ TornTail(file) /\ snapshot' = Whole(file)
    /\ UNCHANGED <<file, inode, mem, chain, writer, confirmed, refused, spent>>

OtherTruncates ==
    /\ snapshot # None
    /\ file' = snapshot /\ inode' = inode + 1 /\ snapshot' = None
    /\ UNCHANGED <<mem, chain, writer, confirmed, refused, spent>>

Write == StartWrite \/ WriteSome \/ WriteRest \/ Resolve

Next ==
    \/ \E id \in Ids : AppendRecord(id)
    \/ \E id \in Ids, l \in Lanes : AppendEntry(id, l)
    \/ \E l \in Lanes : CreateLane(l) \/ MoveLane(l) \/ DeleteLane(l)
    \/ AppendFact
    \/ Write \/ FailWrite \/ Crash \/ Close \/ Open \/ OtherReads \/ OtherTruncates

Spec == Init /\ [][Next]_vars

-----------------------------------------------------------------------------
(* Properties *)

LineKinds == {"entry", "record", "create", "move", "delete", "fact"}

(* Type invariant; a complete line is parseable unless a write failed half *)
(* way, and carries its position.                                          *)
TypeOK ==
    /\ Len(file) <= MaxLines + 1 /\ Len(chain) <= MaxPending
    /\ writer.pc \in {"idle", "opened", "writing", "written"}
    /\ \A i \in DOMAIN file :
         \/ file[i].kind \in LineKinds /\ file[i].seq = i
         \/ file[i].kind = "torn" /\ i = Len(file)
         \/ file[i].kind = "garbage" /\ "partialWrite" \in Hazards

(* No confirmed line is lost: whatever crashes and failures happen, the    *)
(* file begins with all the lines whose append was answered, in order.     *)
NoConfirmedLost == IsPrefix(confirmed, file)

(* The state a process works on is what a replay of the file would give,   *)
(* sequence numbers included: an append that failed left no trace.         *)
ReplayMatchesLive == Up /\ writer.pc = "idle" => Replay(file) = mem

(* The program never writes a journal that it refuses to open. *)
Reopenable == ~refused /\ Replay(file).ok

Entries == { i \in DOMAIN file : file[i].kind = "entry" }

(* An entry is written once, whatever fails or crashes and is tried again: *)
(* the append is idempotent in the pre-allocated id.                       *)
EntryWrittenOnce == \A i, j \in Entries : file[i].id = file[j].id => i = j

(* An entry's parent, and the entry a lane is moved to or starts from, was *)
(* written before: the tree has no cycle and no dangling reference.        *)
Reference(line) == IF line.kind = "entry" THEN line.parent
                   ELSE IF line.kind \in {"create", "move"} THEN line.id ELSE None
ParentBeforeChild ==
    \A i \in DOMAIN file :
        Reference(file[i]) # None => \E j \in Entries : j < i /\ file[j].id = Reference(file[i])

(* The journal implements an append-only log: what was confirmed once is   *)
(* there after every crash, and a crash adds at most the line in flight.   *)
Log == INSTANCE AppendLog WITH log <- confirmed
ConfirmedIsALog == Log!Spec
=============================================================================
