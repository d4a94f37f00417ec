-------------------------- MODULE RecordPersistence --------------------------
(* The journal of an agent (wire.jsonl) with the service that fills it:      *)
(* agent/wire/wireService.ts applies a record to the state and hands it to   *)
(* agent/records/persistence.ts, which writes what has gathered in batches,  *)
(* one after another.  The first failure is final; a process may die at any  *)
(* point, and the next one restores its state from the file.                 *)
EXTENDS Naturals, SequencesExt

CONSTANTS
  Flushers,    \* callers of flush
  MaxRecords,  \* bound: records dispatched
  MaxCrashes,  \* bound: crashes
  MaxFailures, \* bound: failed writes
  Hazards      \* "old": the file was written by an older version;
               \* "fragment": a write cut short may end inside a line;
               \* "rewriteCut": a rewrite may be cut short

ASSUME RecordBounds == {MaxRecords, MaxCrashes, MaxFailures} \subseteq Nat

VARIABLES
  file,      \* the lines of wire.jsonl
  pending,   \* pendingRecords
  clear,     \* shouldClear
  drain,     \* drainBatch, with flushPromise: "idle" is undefined
  failed,    \* error
  phase,     \* restorePhase; "resuming" is "new" in a process that resumes
  sealed,    \* metadataInitialized
  mem,       \* the records the models have been reduced from
  flusher,   \* the calls of flush
  next,      \* the number of the next record
  flushed,   \* history: the records a flush that returned has vouched for
  used       \* [crashes, failures] consumed of the bounds

journal == <<file, pending, clear, drain>>
service == <<failed, phase, sealed, mem>>
vars == <<journal, service, flusher, next, flushed, used>>

\* A line: record n (0 is the metadata record) in the form of this version or
\* an older one.  A fragment is "torn", or whole but for its end of line;
\* "corrupt" is a fragment with another line behind it.
Line(n, form) == [n |-> n, form |-> form]
Metadata == Line(0, "now")
Fragments == {"torn", "unended"}

Places == {"idle", "open", "write", "settling"}
NoBatch == [pc |-> "idle", clear |-> FALSE, rest |-> <<>>]

TypeOK ==
  /\ \A i \in DOMAIN file : file[i].form \in {"now", "old", "corrupt"} \cup Fragments
  /\ \A i \in DOMAIN pending : pending[i].form = "now"
  /\ drain.pc \in Places
  /\ phase \in {"new", "resuming", "restoring", "ready", "failed"}
  /\ \A f \in Flushers : flusher[f] \in {"idle", "waiting", "returned", "threw"}
  /\ {clear, drain.clear, failed, sealed} \subseteq BOOLEAN

OldFile == <<Line(0, "old"), Line(1, "old")>>

Init ==
  /\ \/ file = <<>> /\ phase = "new" /\ next = 1 /\ flushed = <<>>
     \/ /\ "old" \in Hazards
        /\ file = OldFile /\ phase = "resuming" /\ next = 2 /\ flushed = <<1>>
  /\ pending = <<>> /\ clear = FALSE /\ drain = NoBatch
  /\ failed = FALSE /\ sealed = FALSE /\ mem = <<>>
  /\ flusher = [f \in Flushers |-> "idle"]
  /\ used = [crashes |-> 0, failures |-> 0]

-----------------------------------------------------------------------------
(* The file.                                                               *)

EndsInFragment == file # <<>> /\ Last(file).form \in Fragments

\* What is written after a fragment becomes part of its line.
Written(line) == IF EndsInFragment THEN Front(file) \o <<Line(0, "corrupt")>>
                                   ELSE Append(file, line)

\* read: a last line that cannot be parsed is skipped.
Lines == IF file # <<>> /\ Last(file).form = "torn" THEN Front(file) ELSE file
Readable == \A i \in DOMAIN Lines : Lines[i].form # "corrupt"

\* What restore replays: the records after the metadata record, which is the
\* first of the lines wherever it is written.
Numbers(lines) ==
  LET skip == IF lines # <<>> /\ lines[1].n = 0 THEN 1 ELSE 0
  IN  [i \in 1 .. Len(lines) - skip |-> lines[i + skip].n]

Recorded == Numbers(Lines)

-----------------------------------------------------------------------------
(* append, rewrite and the drain of the queue.                             *)

\* ensureFlush: an idle drain takes the queue at once.
Schedule(queue, clearing) ==
  IF drain.pc = "idle"
  THEN /\ drain' = [pc |-> "open", clear |-> clearing, rest |-> queue]
       /\ pending' = <<>>
       /\ clear' = FALSE
  ELSE pending' = queue /\ clear' = clearing /\ UNCHANGED drain

\* The metadata record that precedes the first one is appended by itself.
ScheduleEach(lines) ==
  IF drain.pc = "idle"
  THEN /\ drain' = [pc |-> "open", clear |-> clear,
                    rest |-> Append(pending, Head(lines))]
       /\ pending' = Tail(lines)
       /\ clear' = FALSE
  ELSE pending' = pending \o lines /\ UNCHANGED <<clear, drain>>

\* Plausible bug: records are accepted after a failure.
RefusesNothing == FALSE

\* throwIfError
Refuses == failed

\* dispatch: the record is applied, then appended, which throws after a
\* failure.
Dispatch ==
  /\ phase \in {"new", "ready", "failed"}
  /\ next <= MaxRecords
  /\ next' = next + 1
  /\ mem' = Append(mem, next)
  /\ sealed' = (sealed \/ ~Refuses)
  /\ IF Refuses THEN UNCHANGED <<pending, clear, drain>>
     ELSE ScheduleEach(IF sealed THEN <<Line(next, "now")>>
                                 ELSE <<Metadata, Line(next, "now")>>)
  /\ UNCHANGED <<file, failed, phase, flusher, flushed, used>>

\* mkdir and open, which truncates the file of a rewrite.
Open ==
  /\ drain.pc = "open"
  /\ file' = IF drain.clear THEN <<>> ELSE file
  /\ drain' = [drain EXCEPT !.pc = "write"]
  /\ UNCHANGED <<pending, clear, service, flusher, next, flushed, used>>

\* One line of the batch reaches the file.
WriteLine ==
  /\ drain.pc = "write"
  /\ drain.rest # <<>>
  /\ file' = Written(Head(drain.rest))
  /\ drain' = [drain EXCEPT !.rest = Tail(@)]
  /\ UNCHANGED <<pending, clear, service, flusher, next, flushed, used>>

\* The batch is synced; the loop of drainPendingRecords looks for another.
BatchEnds ==
  /\ drain.pc = "write"
  /\ drain.rest = <<>>
  /\ IF clear \/ pending # <<>>
     THEN /\ drain' = [pc |-> "open", clear |-> clear, rest |-> pending]
          /\ pending' = <<>> /\ clear' = FALSE
     ELSE drain' = [NoBatch EXCEPT !.pc = "settling"] /\ UNCHANGED <<pending, clear>>
  /\ UNCHANGED <<file, service, flusher, next, flushed, used>>

\* Plausible bug: what was appended meanwhile is left for the next append.
SettlesOnly ==
  /\ drain.pc = "settling"
  /\ drain' = NoBatch
  /\ UNCHANGED <<file, pending, clear, service, flusher, next, flushed, used>>

\* The finally of ensureFlush: what was appended since is scheduled.
Settles ==
  /\ drain.pc = "settling"
  /\ IF ~failed /\ (clear \/ pending # <<>>)
     THEN /\ drain' = [pc |-> "open", clear |-> clear, rest |-> pending]
          /\ pending' = <<>> /\ clear' = FALSE
     ELSE drain' = NoBatch /\ UNCHANGED <<pending, clear>>
  /\ UNCHANGED <<file, service, flusher, next, flushed, used>>

\* A write is cut short: it may leave part of the line it was at.
CutShort ==
  /\ drain.clear => "rewriteCut" \in Hazards
  /\ \/ UNCHANGED file
     \/ /\ "fragment" \in Hazards
        /\ drain.pc = "write" /\ drain.rest # <<>>
        /\ IF EndsInFragment
           THEN file' = [file EXCEPT ![Len(file)].form = "torn"]
           ELSE \E form \in Fragments :
                  file' = Append(file, [Head(drain.rest) EXCEPT !.form = form])

\* mkdir, open, writeFile or sync fails: the batch is gone.
Fails ==
  /\ drain.pc \in {"open", "write"}
  /\ used.failures < MaxFailures
  /\ used' = [used EXCEPT !.failures = @ + 1]
  /\ CutShort
  /\ failed' = TRUE
  /\ drain' = [NoBatch EXCEPT !.pc = "settling"]
  /\ UNCHANGED <<pending, clear, phase, sealed, mem, flusher, next, flushed>>

-----------------------------------------------------------------------------
(* flush.                                                                  *)

\* Plausible bug: flush looks at the queue and not at the batch under way.
DrainedQueue == ~clear /\ pending = <<>>

Drained == drain.pc = "idle" /\ ~clear /\ pending = <<>>

Flush(f) ==
  /\ flusher[f] = "idle"
  /\ phase \in {"new", "ready", "failed"}
  /\ flusher' = [flusher EXCEPT ![f] = IF failed THEN "threw" ELSE "waiting"]
  /\ UNCHANGED <<journal, service, next, flushed, used>>

FlushEnds(f) ==
  /\ flusher[f] = "waiting"
  /\ \/ /\ failed
        /\ flusher' = [flusher EXCEPT ![f] = "threw"]
        /\ UNCHANGED flushed
     \/ /\ ~failed /\ Drained
        /\ flusher' = [flusher EXCEPT ![f] = "returned"]
        /\ flushed' = IF phase = "failed" THEN flushed ELSE mem
  /\ UNCHANGED <<journal, service, next, used>>

-----------------------------------------------------------------------------
(* Death and restore.                                                      *)

Crash ==
  /\ used.crashes < MaxCrashes
  /\ used' = [used EXCEPT !.crashes = @ + 1]
  /\ CutShort
  /\ pending' = <<>> /\ clear' = FALSE /\ drain' = NoBatch
  /\ failed' = FALSE /\ sealed' = FALSE /\ mem' = <<>>
  /\ phase' = "resuming"
  /\ flusher' = [f \in Flushers |-> "idle"]
  /\ UNCHANGED <<next, flushed>>

\* The file is rewritten unless it begins with this version's metadata.
Stale == Lines = <<>> \/ Lines[1] \notin {Metadata, Line(0, "unended")}

\* The records read, brought to this version, below one metadata record.
Renewed == <<Metadata>> \o [i \in DOMAIN Recorded |-> Line(Recorded[i], "now")]

\* restore, up to the flush of the rewrite.
RestoreReads ==
  /\ phase = "resuming"
  /\ IF ~Readable
     THEN phase' = "failed" /\ UNCHANGED <<mem, sealed, pending, clear, drain>>
     ELSE /\ mem' = Recorded
          /\ IF Stale
             THEN phase' = "restoring" /\ Schedule(Renewed, TRUE) /\ UNCHANGED sealed
             ELSE /\ phase' = "ready" /\ sealed' = TRUE
                  /\ UNCHANGED <<pending, clear, drain>>
  /\ UNCHANGED <<file, failed, flusher, next, flushed, used>>

RestoreEnds ==
  /\ phase = "restoring"
  /\ \/ failed /\ phase' = "failed" /\ UNCHANGED sealed
     \/ ~failed /\ Drained /\ phase' = "ready" /\ sealed' = TRUE
  /\ UNCHANGED <<journal, failed, mem, flusher, next, flushed, used>>

Drain == Open \/ WriteLine \/ BatchEnds \/ Settles
Restore == RestoreReads \/ RestoreEnds

Next ==
  \/ Dispatch \/ Drain \/ Fails \/ Crash \/ Restore
  \/ \E f \in Flushers : Flush(f) \/ FlushEnds(f)

Spec == Init /\ [][Next]_vars

\* File system calls return, and the event loop resumes who waits for them.
FairSpec == Spec /\ WF_vars(Drain) /\ WF_vars(Restore)
                 /\ \A f \in Flushers : WF_vars(FlushEnds(f))

-----------------------------------------------------------------------------
(* Properties.                                                             *)

Rewriting == drain.clear /\ drain.pc = "write"

\* What a flush that returned has vouched for stays in the file, at its head
\* and in order, through appends that come while a batch is written, failures,
\* crashes and the rewrite by a newer version.
FlushedSurvives == ~Rewriting => IsPrefix(flushed, Recorded)

\* The state and the journal never part: without a failure every record that
\* was applied is in the file, in the batch or in the queue, in this order; after
\* one, the file holds a prefix of them, so that no restart replays a record
\* without those before it.
JournalFollowsState ==
  phase \in {"new", "ready"} =>
    IF failed THEN IsPrefix(Recorded, mem)
              ELSE mem = Recorded \o Numbers(drain.rest) \o Numbers(pending)

\* A record appended at any moment, the one between the last look at the queue
\* and the end of its drain included, is written without further calls.
QueueDrains == pending # <<>> ~> pending = <<>> \/ failed

\* A journal can be read again by whoever wrote it: an interrupted write is
\* tolerated (parseRecordLine).
Resumable == phase # "failed"
=============================================================================
