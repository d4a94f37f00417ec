------------------------ MODULE SessionJournal_proofs ------------------------
(***************************************************************************)
(* What the session journal keeps through crashes and failed writes, for   *)
(* any number of ids, lanes, lines, calls and crashes.                     *)
(***************************************************************************)
EXTENDS SessionJournal, SequenceTheorems, WellFoundedInduction, TLAPS

(* A write that fails leaves no byte, and openings of the file by other    *)
(* processes neither overlap with a running one nor with its opening.      *)
(* The theorems on the file alone need no more: duplicates may be queued   *)
(* and lanes deleted.                                                      *)
WritesAreWhole == Hazards \cap {"partialWrite", "secondProcess"} = {}

(* A sequence, whatever its elements are. *)
IsSequence(s) == s \in Seq({ s[i] : i \in DOMAIN s })

LEMMA IsSequenceIfInSeq ==
    ASSUME NEW S, NEW T \in Seq(S)
    PROVE  IsSequence(T)
<1> DEFINE R == { T[i] : i \in DOMAIN T }
<1>1. T \in [1..Len(T) -> S] /\ Len(T) \in Nat /\ DOMAIN T = 1..Len(T)
  BY LenProperties
<1>2. (\A i \in 1..Len(T) : T[i] \in R) /\ T = [i \in 1..Len(T) |-> T[i]]
  BY <1>1
<1>3. T \in [1..Len(T) -> R]
  <2> HIDE DEF R
  <2> QED BY <1>2
<1>4. T \in Seq(R)
  BY <1>1, <1>3, SeqDef
<1>5. QED
  BY <1>4 DEF IsSequence

LEMMA AppendFacts ==
    ASSUME NEW s, NEW x, IsSequence(s)
    PROVE  /\ IsSequence(Append(s, x))
           /\ Len(s) \in Nat /\ DOMAIN s = 1..Len(s)
           /\ Len(Append(s, x)) = Len(s) + 1
           /\ Append(s, x)[Len(s) + 1] = x
           /\ \A i \in 1..Len(s) : Append(s, x)[i] = s[i]
           /\ SubSeq(Append(s, x), 1, Len(s)) = s
           /\ Append(s, x) # <<>>
<1> DEFINE S == { s[i] : i \in DOMAIN s } \cup {x}
           T == Append(s, x)
<1>1. s \in Seq(S)
  BY SeqMonotonic DEF IsSequence
<1>2. /\ T \in Seq(S) /\ Len(s) \in Nat /\ DOMAIN s = 1..Len(s)
      /\ Len(T) = Len(s) + 1 /\ DOMAIN T = 1..Len(T)
      /\ T[Len(s) + 1] = x /\ \A i \in 1..Len(s) : T[i] = s[i]
      /\ x \in S
  BY <1>1
<1>3. IsSequence(T)
  BY <1>2, IsSequenceIfInSeq
<1>4. SubSeq(T, 1, Len(s)) = s
  <2> DEFINE U == SubSeq(T, 1, Len(s))
  <2>1. \A i \in 1..Len(s) : T[i] \in S
    BY <1>2
  <2>2. U \in Seq(S) /\ Len(U) = Len(s) /\ \A i \in 1..Len(s) : U[i] = T[i]
    BY <1>2
  <2>3. QED
    BY <1>1, <1>2, <2>2, SeqEqual
<1>5. T # <<>>
  BY <1>2
<1>6. QED
  BY <1>2, <1>3, <1>4, <1>5 DEF IsSequence

-----------------------------------------------------------------------------
(* The invariant of the file and its writer. What a line means plays no    *)
(* part in it.                                                             *)
IsLine(x) == "kind" \in DOMAIN x /\ x.kind \in LineKinds

LEMMA LastAppended ==
    ASSUME NEW s, NEW x, IsSequence(s)
    PROVE  Last(Append(s, x)) = x
BY AppendFacts DEF Last

LEMMA AppendedLine ==
    ASSUME NEW s, NEW x, IsSequence(s), \A i \in DOMAIN s : IsLine(s[i]), IsLine(x)
    PROVE  \A i \in DOMAIN Append(s, x) : IsLine(Append(s, x)[i])
<1> DEFINE T == Append(s, x)
<1>1. /\ IsSequence(T) /\ Len(s) \in Nat /\ DOMAIN s = 1..Len(s) /\ Len(T) = Len(s) + 1
      /\ T[Len(s) + 1] = x /\ \A i \in 1..Len(s) : T[i] = s[i]
  BY AppendFacts
<1>2. DOMAIN T = 1..(Len(s) + 1)
  BY <1>1, LenProperties DEF IsSequence
<1>3. ASSUME NEW i \in DOMAIN T PROVE IsLine(T[i])
  <2>1. CASE i = Len(s) + 1
    BY <1>1, <2>1
  <2>2. CASE i # Len(s) + 1
    <3>1. i \in 1..Len(s)
      BY <1>1, <1>2, <2>2
    <3>2. QED
      BY <1>1, <3>1
  <2>3. QED
    BY <2>1, <2>2
<1>4. QED
  BY <1>3

LEMMA TailFacts ==
    ASSUME NEW s, IsSequence(s), s # <<>>, \A i \in DOMAIN s : IsLine(s[i])
    PROVE  IsSequence(Tail(s)) /\ \A i \in DOMAIN Tail(s) : IsLine(Tail(s)[i])
<1> DEFINE S == { s[i] : i \in DOMAIN s }
           T == Tail(s)
<1>1. T \in Seq(S)
  BY HeadTailProperties DEF IsSequence
<1>2. \A i \in DOMAIN T : T[i] \in S
  BY <1>1
<1>3. IsSequence(T)
  BY <1>1, IsSequenceIfInSeq
<1>4. \A x \in S : IsLine(x)
  OBVIOUS
<1>5. QED
  BY <1>2, <1>3, <1>4

AllSequences == IsSequence(file) /\ IsSequence(confirmed) /\ IsSequence(chain)

OnlyLines ==
    /\ \A i \in DOMAIN confirmed : IsLine(confirmed[i])
    /\ \A i \in DOMAIN chain : IsLine(chain[i])
    /\ writer.pc # "idle" => IsLine(writer.line)

(* The writer serves the head of the chain of a running process, and       *)
(* nobody replaces the file under it.                                      *)
WriterOwnsFile ==
    /\ writer = [pc |-> writer.pc, line |-> writer.line, fd |-> writer.fd, merged |-> writer.merged]
    /\ writer.pc \in {"idle", "opened", "writing", "written"}
    /\ writer.pc # "idle" => Up /\ chain # <<>> /\ writer.fd = inode

(* The file is the confirmed lines, and behind them the line in flight: as *)
(* far as the writer has come, or as far as it came before a crash.        *)
FileShape ==
    \/ /\ file = confirmed
       /\ writer.pc \in {"idle", "opened"}
    \/ /\ file = Append(confirmed, Torn)
       /\ writer.pc = "writing" /\ writer.merged = FALSE
    \/ /\ file = Append(confirmed, writer.line)
       /\ writer.pc = "written"
    \/ /\ file = Append(confirmed, Last(file))
       /\ Last(file) = Torn \/ IsLine(Last(file))
       /\ writer.pc = "idle" /\ ~Up

JournalInv == AllSequences /\ OnlyLines /\ WriterOwnsFile /\ FileShape

(* Another process repairs a torn tail only while no process runs, and the *)
(* file is still as it read it.                                            *)
RepairIsCurrent == snapshot # None => ~Up /\ TornTail(file) /\ snapshot = Whole(file)

LEMMA InitJournalInv == WritesAreWhole /\ Init => JournalInv
<1> SUFFICES ASSUME WritesAreWhole, Init PROVE JournalInv
  OBVIOUS
<1>1. IsSequence(<<>>)
  BY DEF IsSequence
<1>2. AllSequences
  BY <1>1 DEF Init, AllSequences
<1>3. OnlyLines
  BY DEF Init, OnlyLines, IdleWriter
<1>4. WriterOwnsFile
  BY DEF Init, WriterOwnsFile, IdleWriter
<1>5. FileShape
  BY DEF Init, FileShape, IdleWriter
<1>6. QED
  BY <1>2, <1>3, <1>4, <1>5 DEF JournalInv

(* A call waits with a kind that a line may have. *)
LEMMA EnqueuePreserves ==
    ASSUME JournalInv, NEW call, IsLine(call), Enqueue(call)
    PROVE  JournalInv'
<1> USE DEF JournalInv
<1>1. chain' = Append(chain, call) /\ UNCHANGED <<file, inode, mem, writer, confirmed, snapshot>>
  BY DEF Enqueue
<1>2. /\ IsSequence(chain') /\ chain' # <<>>
      /\ \A i \in DOMAIN chain' : IsLine(chain'[i])
  BY <1>1, AppendFacts, AppendedLine DEF AllSequences, OnlyLines
<1>3. AllSequences'
  BY <1>1, <1>2 DEF AllSequences
<1>4. OnlyLines'
  BY <1>1, <1>2 DEF OnlyLines
<1>5. WriterOwnsFile'
  BY <1>1, <1>2 DEF WriterOwnsFile, Up
<1>6. FileShape'
  BY <1>1 DEF FileShape, Up
<1>7. QED
  BY <1>3, <1>4, <1>5, <1>6

LEMMA TornIsNoLine == ~IsLine(Torn)
BY DEF IsLine, Torn, LineKinds

LEMMA LineIsWhole == \A x : IsLine(x) => x # Torn /\ x.kind \notin {"torn", "garbage"}
BY DEF IsLine, Torn, LineKinds

(* The confirmed lines end with a line. *)
LEMMA ConfirmedHasNoTornTail ==
    ASSUME AllSequences, OnlyLines
    PROVE  ~TornTail(confirmed) /\ (confirmed # <<>> => Last(confirmed) # Torn)
<1> SUFFICES ASSUME confirmed # <<>>
             PROVE  Last(confirmed).kind \notin {"torn", "garbage"} /\ Last(confirmed) # Torn
  BY DEF TornTail
<1>1. Len(confirmed) \in DOMAIN confirmed
  BY DEF AllSequences, IsSequence
<1>2. IsLine(Last(confirmed))
  BY <1>1 DEF OnlyLines, Last
<1>3. QED
  BY <1>2, LineIsWhole

(* What an open keeps: the confirmed lines, and the line in flight if all  *)
(* of it was written.                                                      *)
LEMMA WholeKeepsConfirmed ==
    ASSUME JournalInv, ~Up
    PROVE  \/ Whole(file) = confirmed
           \/ /\ Whole(file) = file /\ file = Append(confirmed, Last(file))
              /\ IsLine(Last(file))
<1> USE DEF JournalInv
<1>1. writer.pc = "idle"
  BY DEF WriterOwnsFile
<1>2. CASE file = confirmed
  BY <1>2, ConfirmedHasNoTornTail DEF Whole
<1>3. CASE file = Append(confirmed, Last(file)) /\ Last(file) = Torn
  <2>1. /\ file # <<>> /\ Len(confirmed) \in Nat /\ Len(file) = Len(confirmed) + 1
        /\ SubSeq(file, 1, Len(confirmed)) = confirmed
    BY <1>3, AppendFacts DEF AllSequences
  <2>2. Front(file) = confirmed
    BY <2>1 DEF Front
  <2>3. TornTail(file)
    BY <1>3, <2>1 DEF TornTail, Torn
  <2>4. QED
    BY <2>2, <2>3 DEF Whole
<1>4. CASE file = Append(confirmed, Last(file)) /\ IsLine(Last(file))
  <2>1. ~TornTail(file)
    BY <1>4, LineIsWhole DEF TornTail
  <2>2. QED
    BY <1>4, <2>1 DEF Whole
<1>5. QED
  BY <1>1, <1>2, <1>3, <1>4 DEF FileShape

-----------------------------------------------------------------------------
LEMMA StartWritePreserves ==
    ASSUME JournalInv, StartWrite
    PROVE  JournalInv'
<1> USE DEF JournalInv
<1>1. /\ Up /\ chain # <<>> /\ writer.pc = "idle"
      /\ writer' = [pc |-> "opened", line |-> LineOf(Head(chain)), fd |-> inode, merged |-> FALSE]
      /\ UNCHANGED <<file, inode, mem, chain, confirmed, snapshot>>
  BY DEF StartWrite
<1>2. IsLine(Head(chain))
  <2>1. 1 \in DOMAIN chain /\ Head(chain) = chain[1]
    BY <1>1 DEF AllSequences, IsSequence
  <2>2. QED
    BY <2>1 DEF OnlyLines
<1>3. IsLine(LineOf(Head(chain)))
  BY <1>2 DEF LineOf, IsLine, LineKinds
<1>4. AllSequences' /\ OnlyLines'
  BY <1>1, <1>3 DEF AllSequences, OnlyLines
<1>5. WriterOwnsFile'
  BY <1>1 DEF WriterOwnsFile, Up
<1>6. FileShape'
  BY <1>1 DEF FileShape
<1>7. QED
  BY <1>4, <1>5, <1>6

LEMMA WriteSomePreserves ==
    ASSUME JournalInv, WriteSome
    PROVE  JournalInv'
<1> USE DEF JournalInv
<1>1. /\ writer.pc = "opened" /\ writer.fd = inode /\ file = confirmed
      /\ UNCHANGED <<inode, mem, chain, confirmed, snapshot>>
  BY DEF WriteSome, WriterOwnsFile, FileShape
<1>2. EndsTorn = FALSE
  BY <1>1, ConfirmedHasNoTornTail DEF EndsTorn
<1>3. file' = Append(confirmed, Torn)
  BY <1>1, <1>2 DEF WriteSome
<1>4. writer' = [pc |-> "writing", line |-> writer.line, fd |-> writer.fd, merged |-> FALSE]
  <2>1. writer' = [writer EXCEPT !.pc = "writing", !.merged = FALSE]
    BY <1>2 DEF WriteSome
  <2>2. QED
    BY <2>1 DEF WriterOwnsFile
<1>5. IsSequence(file')
  BY <1>3, AppendFacts DEF AllSequences
<1>6. AllSequences' /\ OnlyLines'
  BY <1>1, <1>4, <1>5 DEF AllSequences, OnlyLines
<1>7. WriterOwnsFile'
  BY <1>1, <1>4 DEF WriterOwnsFile, Up
<1>8. FileShape'
  BY <1>1, <1>3, <1>4 DEF FileShape
<1>9. QED
  BY <1>6, <1>7, <1>8

LEMMA WriteRestPreserves ==
    ASSUME JournalInv, WriteRest
    PROVE  JournalInv'
<1> USE DEF JournalInv
<1>1. /\ writer.pc = "writing" /\ writer.fd = inode /\ writer.merged = FALSE
      /\ file = Append(confirmed, Torn)
      /\ UNCHANGED <<inode, mem, chain, confirmed, snapshot>>
  BY DEF WriteRest, WriterOwnsFile, FileShape
<1>2. Front(file) = confirmed
  <2>1. /\ Len(confirmed) \in Nat /\ Len(file) = Len(confirmed) + 1
        /\ SubSeq(file, 1, Len(confirmed)) = confirmed
    BY <1>1, AppendFacts DEF AllSequences
  <2>2. QED
    BY <2>1 DEF Front
<1>3. file' = Append(confirmed, writer.line)
  BY <1>1, <1>2 DEF WriteRest
<1>4. writer' = [pc |-> "written", line |-> writer.line, fd |-> writer.fd, merged |-> writer.merged]
  BY DEF WriteRest, WriterOwnsFile
<1>5. IsSequence(file')
  BY <1>3, AppendFacts DEF AllSequences
<1>6. AllSequences' /\ OnlyLines'
  BY <1>1, <1>4, <1>5 DEF AllSequences, OnlyLines
<1>7. WriterOwnsFile'
  BY <1>1, <1>4 DEF WriterOwnsFile, Up
<1>8. FileShape'
  BY <1>1, <1>3, <1>4 DEF FileShape
<1>9. QED
  BY <1>6, <1>7, <1>8

(* The line is confirmed at the moment the call is answered. *)
LEMMA ResolvePreserves ==
    ASSUME JournalInv, Resolve
    PROVE  JournalInv'
<1> USE DEF JournalInv
<1>1. /\ writer.pc = "written" /\ chain # <<>> /\ file = Append(confirmed, writer.line)
      /\ IsLine(writer.line)
      /\ confirmed' = Append(confirmed, writer.line) /\ chain' = Tail(chain)
      /\ writer' = IdleWriter /\ UNCHANGED <<file, inode, snapshot>>
  BY DEF Resolve, WriterOwnsFile, FileShape, OnlyLines
<1>2. AllSequences' /\ \A i \in DOMAIN chain' : IsLine(chain'[i])
  BY <1>1, TailFacts, AppendFacts DEF AllSequences, OnlyLines
<1>3. \A i \in DOMAIN confirmed' : IsLine(confirmed'[i])
  BY <1>1, AppendedLine DEF AllSequences, OnlyLines
<1>4. OnlyLines'
  BY <1>1, <1>2, <1>3 DEF OnlyLines, IdleWriter
<1>5. WriterOwnsFile'
  BY <1>1 DEF WriterOwnsFile, IdleWriter
<1>6. FileShape'
  BY <1>1 DEF FileShape, IdleWriter
<1>7. QED
  BY <1>2, <1>4, <1>5, <1>6

LEMMA FailWritePreserves ==
    ASSUME JournalInv, WritesAreWhole, FailWrite
    PROVE  JournalInv'
<1> USE DEF JournalInv
<1>1. /\ writer.pc = "opened" /\ chain # <<>> /\ file = confirmed
      /\ chain' = Tail(chain) /\ writer' = IdleWriter
      /\ UNCHANGED <<file, inode, confirmed, snapshot>>
  BY DEF FailWrite, WritesAreWhole, WriterOwnsFile, FileShape
<1>2. AllSequences' /\ \A i \in DOMAIN chain' : IsLine(chain'[i])
  BY <1>1, TailFacts DEF AllSequences, OnlyLines
<1>3. OnlyLines'
  BY <1>1, <1>2 DEF OnlyLines, IdleWriter
<1>4. WriterOwnsFile' /\ FileShape'
  BY <1>1 DEF WriterOwnsFile, FileShape, IdleWriter
<1>5. QED
  BY <1>2, <1>3, <1>4

(* A crash leaves what was written of the line in flight. *)
LEMMA CrashPreserves ==
    ASSUME JournalInv, Crash
    PROVE  JournalInv'
<1> USE DEF JournalInv
<1>1. /\ mem' = None /\ chain' = <<>> /\ writer' = IdleWriter
      /\ UNCHANGED <<file, inode, confirmed, snapshot>>
  BY DEF Crash
<1>2. IsSequence(<<>>)
  BY DEF IsSequence
<1>3. AllSequences' /\ OnlyLines' /\ WriterOwnsFile'
  BY <1>1, <1>2 DEF AllSequences, OnlyLines, WriterOwnsFile, IdleWriter
<1>4. \/ file = confirmed
      \/ /\ file = Append(confirmed, Last(file))
         /\ Last(file) = Torn \/ IsLine(Last(file))
  <2>1. CASE file = Append(confirmed, Torn)
    BY <2>1, LastAppended DEF AllSequences
  <2>2. CASE file = Append(confirmed, writer.line) /\ writer.pc = "written"
    BY <2>2, LastAppended DEF AllSequences, OnlyLines
  <2>3. QED
    BY <2>1, <2>2 DEF FileShape
<1>5. FileShape'
  BY <1>1, <1>4 DEF FileShape, IdleWriter, Up
<1>6. QED
  BY <1>3, <1>5

LEMMA OpenPreserves ==
    ASSUME JournalInv, Open
    PROVE  JournalInv'
<1> USE DEF JournalInv
<1>1. ~Up /\ writer.pc = "idle" /\ UNCHANGED <<chain, writer, snapshot>>
  BY DEF Open, WriterOwnsFile
<1>2. CASE UNCHANGED <<mem, file, confirmed, inode>>
  BY <1>1, <1>2 DEF AllSequences, OnlyLines, WriterOwnsFile, FileShape, Up
<1>3. CASE file' = Whole(file) /\ confirmed' = Whole(file)
  <2>1. IsSequence(Whole(file)) /\ \A i \in DOMAIN Whole(file) : IsLine(Whole(file)[i])
    <3>1. CASE Whole(file) = confirmed
      BY <3>1 DEF AllSequences, OnlyLines
    <3>2. CASE Whole(file) = Append(confirmed, Last(file)) /\ IsLine(Last(file))
      BY <3>2, AppendFacts, AppendedLine DEF AllSequences, OnlyLines
    <3>3. QED
      BY <1>1, <3>1, <3>2, WholeKeepsConfirmed
  <2>2. AllSequences' /\ OnlyLines'
    BY <1>1, <1>3, <2>1 DEF AllSequences, OnlyLines
  <2>3. WriterOwnsFile' /\ FileShape'
    BY <1>1, <1>3 DEF WriterOwnsFile, FileShape
  <2>4. QED
    BY <2>2, <2>3
<1>4. QED
  BY <1>2, <1>3 DEF Open, Truncated

(* Only the tail that was torn is cut, and no confirmed line is in it.     *)
LEMMA OtherTruncatesPreserves ==
    ASSUME JournalInv, RepairIsCurrent, OtherTruncates
    PROVE  JournalInv'
<1>1. /\ ~Up /\ TornTail(file) /\ file' = Whole(file)
      /\ UNCHANGED <<mem, chain, writer, confirmed>>
  BY DEF OtherTruncates, RepairIsCurrent
<1>2. writer.pc = "idle"
  BY <1>1 DEF JournalInv, WriterOwnsFile
<1>3. file' = confirmed
  BY <1>1, WholeKeepsConfirmed, LineIsWhole DEF TornTail
<1>4. AllSequences' /\ OnlyLines'
  BY <1>1, <1>3 DEF JournalInv, AllSequences, OnlyLines
<1>5. WriterOwnsFile' /\ FileShape'
  BY <1>1, <1>2, <1>3 DEF JournalInv, WriterOwnsFile, FileShape
<1>6. QED
  BY <1>4, <1>5 DEF JournalInv

LEMMA JournalInvStep ==
    ASSUME WritesAreWhole, JournalInv, RepairIsCurrent, [Next]_vars
    PROVE  JournalInv'
<1>1. CASE (\E id \in Ids : AppendRecord(id)) \/ AppendFact
    \/ (\E id \in Ids, l \in Lanes : AppendEntry(id, l))
    \/ (\E l \in Lanes : CreateLane(l) \/ MoveLane(l) \/ DeleteLane(l))
  <2>1. \E call : IsLine(call) /\ Enqueue(call)
    BY <1>1 DEF AppendRecord, AppendFact, AppendEntry, CreateLane, MoveLane, DeleteLane,
                IsLine, LineKinds
  <2>2. QED
    BY <2>1, EnqueuePreserves
<1>2. CASE Write
  BY <1>2, StartWritePreserves, WriteSomePreserves, WriteRestPreserves, ResolvePreserves DEF Write
<1>3. CASE FailWrite
  BY <1>3, FailWritePreserves
<1>4. CASE Crash
  BY <1>4, CrashPreserves
<1>5. CASE Close
  BY <1>5 DEF Close, JournalInv, AllSequences, OnlyLines, WriterOwnsFile, FileShape, Up
<1>6. CASE Open
  BY <1>6, OpenPreserves
<1>7. CASE OtherReads
  BY <1>7 DEF OtherReads, JournalInv, AllSequences, OnlyLines, WriterOwnsFile, FileShape, Up
<1>8. CASE OtherTruncates
  BY <1>8, OtherTruncatesPreserves
<1>9. CASE UNCHANGED vars
  BY <1>9 DEF vars, JournalInv, AllSequences, OnlyLines, WriterOwnsFile, FileShape, Up
<1>10. QED
  BY <1>1, <1>2, <1>3, <1>4, <1>5, <1>6, <1>7, <1>8, <1>9 DEF Next

(* A process that runs excludes a repair: its calls need the memory, and   *)
(* an open waits for the repair to be over.                                *)
LEMMA RepairStep ==
    ASSUME WritesAreWhole, JournalInv, RepairIsCurrent, [Next]_vars
    PROVE  RepairIsCurrent'
<1>1. CASE OtherReads
  BY <1>1 DEF OtherReads, RepairIsCurrent, WritesAreWhole, Up, TornTail, Whole
<1>2. CASE OtherTruncates
  BY <1>2 DEF OtherTruncates, RepairIsCurrent
<1>3. CASE Open
  BY <1>3 DEF Open, RepairIsCurrent, WritesAreWhole
<1>4. CASE UNCHANGED vars
  BY <1>4 DEF vars, RepairIsCurrent, Up, TornTail, Whole
<1>5. CASE ~OtherReads /\ ~OtherTruncates /\ ~Open /\ ~UNCHANGED vars
  <2>1. Up /\ UNCHANGED snapshot
    BY <1>5 DEF Next, Write, AppendRecord, AppendFact, AppendEntry, CreateLane, MoveLane,
                DeleteLane, Enqueue, StartWrite, WriteSome, WriteRest, Resolve, FailWrite,
                Crash, Close, JournalInv, WriterOwnsFile
  <2>2. QED
    BY <2>1 DEF RepairIsCurrent
<1>6. QED
  BY <1>1, <1>2, <1>3, <1>4, <1>5

LEMMA JournalInvHolds == WritesAreWhole /\ Spec => []JournalInv
<1> SUFFICES ASSUME WritesAreWhole PROVE Spec => []JournalInv
  OBVIOUS
<1>1. Init => JournalInv /\ RepairIsCurrent
  BY InitJournalInv DEF Init, RepairIsCurrent
<1>2. JournalInv /\ RepairIsCurrent /\ [Next]_vars => (JournalInv /\ RepairIsCurrent)'
  BY JournalInvStep, RepairStep
<1>3. QED
  BY <1>1, <1>2, PTL DEF Spec

-----------------------------------------------------------------------------
(* If writes fail whole and nobody else touches the file, the file always  *)
(* begins with every line whose append was answered (appendLine, open).    *)
THEOREM NoConfirmedLostCorrect == WritesAreWhole /\ Spec => []NoConfirmedLost
<1>1. JournalInv => NoConfirmedLost
  <2> SUFFICES ASSUME JournalInv PROVE IsPrefix(confirmed, file)
    BY DEF NoConfirmedLost
  <2>1. CASE file = confirmed
    BY <2>1 DEF IsPrefix, JournalInv, AllSequences, IsSequence
  <2>2. ASSUME NEW x, file = Append(confirmed, x)
        PROVE  IsPrefix(confirmed, file)
    <3>1. /\ Len(confirmed) \in Nat /\ Len(file) = Len(confirmed) + 1
          /\ SubSeq(file, 1, Len(confirmed)) = confirmed
      BY <2>2, AppendFacts DEF JournalInv, AllSequences
    <3>2. SubSeq(confirmed, 1, Len(confirmed)) = confirmed
      BY SubSeqFull DEF JournalInv, AllSequences, IsSequence
    <3>3. QED
      BY <3>1, <3>2 DEF IsPrefix
  <2>3. QED
    BY <2>1, <2>2 DEF JournalInv, FileShape
<1>2. QED
  BY <1>1, JournalInvHolds, PTL

(* Under the same condition the journal implements the append-only log:    *)
(* calls that are answered add their line, and so does an open that finds  *)
(* a whole line whose call was not answered before the crash.              *)
THEOREM ConfirmedIsALogCorrect == WritesAreWhole /\ Spec => ConfirmedIsALog
<1> SUFFICES ASSUME WritesAreWhole PROVE Spec => ConfirmedIsALog
  OBVIOUS
<1>1. Init => Log!Init
  BY DEF Init, Log!Init
<1>2. ASSUME JournalInv, [Next]_vars
      PROVE  [Log!Grow]_confirmed
  <2> USE <1>2 DEF JournalInv
  <2>1. ASSUME NEW x, confirmed' = Append(confirmed, x)
        PROVE  Log!Grow
    BY <2>1, AppendFacts DEF Log!Grow, AllSequences
  <2>2. CASE Resolve
    BY <2>1, <2>2 DEF Resolve
  <2>3. CASE Open
    BY <2>1, <2>3, WholeKeepsConfirmed DEF Open
  <2>4. CASE ~Resolve /\ ~Open
    BY <2>4 DEF Next, vars, Write, AppendRecord, AppendFact, AppendEntry, CreateLane, MoveLane,
                DeleteLane, Enqueue, StartWrite, WriteSome, WriteRest, FailWrite, Crash, Close,
                OtherReads, OtherTruncates
  <2>5. QED
    BY <2>2, <2>3, <2>4
<1>3. QED
  BY <1>1, <1>2, JournalInvHolds, PTL DEF Spec, ConfirmedIsALog, Log!Spec

-----------------------------------------------------------------------------
(* Replay. The library's induction principles take a predicate as their    *)
(* parameter; these take a set, so that a step can cite them.              *)
LEMMA LeastNatural ==
    ASSUME NEW T, T \subseteq Nat, T # {}
    PROVE  \E m \in T : \A k \in T : m <= k
<1> DEFINE R == {ss \in Nat \X Nat : ss[1] < ss[2]}
<1>1. IsWellFoundedOn(R, Nat)
  BY NatLessThanWellFounded DEF OpToRel
<1>2. PICK m \in T : \A k \in T : <<k, m>> \notin R
  <2> HIDE DEF R
  <2> QED BY <1>1, WFMin
<1>3. ASSUME NEW k \in T PROVE m <= k
  <2>1. <<k, m>> \in Nat \X Nat /\ <<k, m>> \notin R
    BY <1>2
  <2>2. ~(k < m)
    BY <2>1
  <2>3. QED
    BY <2>2
<1>4. QED
  BY <1>2, <1>3

LEMMA SetInduction ==
    ASSUME NEW T, 0 \in T, \A n \in Nat : n \in T => n + 1 \in T
    PROVE  Nat \subseteq T
<1> SUFFICES ASSUME Nat \ T # {} PROVE FALSE
  OBVIOUS
<1>1. PICK m \in Nat \ T : \A k \in Nat \ T : m <= k
  BY LeastNatural
<1>2. m # 0 /\ m - 1 \in Nat
  BY <1>1
<1>3. m - 1 \in T
  BY <1>1, <1>2
<1>4. QED
  BY <1>2, <1>3

(* S lists the states a replay of the first n lines of w goes through. *)
States(S, w, n) ==
    S = [i \in 0..n |-> IF i = 0 THEN EmptyState ELSE ReplayLine(S[i - 1], w[i])]

LEMMA StatesExist ==
    ASSUME NEW w, NEW n \in Nat
    PROVE  \E S : States(S, w, n)
<1> DEFINE T == { k \in Nat : \E S : States(S, w, k) }
<1>1. 0 \in T
  <2> DEFINE S == [i \in 0..0 |-> EmptyState]
  <2>1. S = [i \in 0..0 |-> IF i = 0 THEN EmptyState ELSE ReplayLine(S[i - 1], w[i])]
    BY \A i \in 0..0 : i = 0
  <2>2. States(S, w, 0)
    BY <2>1 DEF States
  <2>3. QED
    BY <2>2
<1>2. ASSUME NEW k \in Nat, k \in T PROVE k + 1 \in T
  <2>1. PICK S : States(S, w, k)
    BY <1>2
  <2> DEFINE U == [i \in 0..(k + 1) |-> IF i = k + 1 THEN ReplayLine(S[k], w[k + 1]) ELSE S[i]]
  <2>2. \A i \in 0..k : U[i] = S[i]
    OBVIOUS
  <2>3. ASSUME NEW i \in 0..(k + 1)
        PROVE  U[i] = IF i = 0 THEN EmptyState ELSE ReplayLine(U[i - 1], w[i])
    <3>1. CASE i = k + 1
      BY <2>2, <3>1
    <3>2. CASE i \in 0..k
      <4>1. S[i] = IF i = 0 THEN EmptyState ELSE ReplayLine(S[i - 1], w[i])
        BY <2>1, <3>2 DEF States
      <4>2. i # 0 => i - 1 \in 0..k
        BY <3>2
      <4>3. QED
        BY <2>2, <3>2, <4>1, <4>2
    <3>3. QED
      BY <3>1, <3>2
  <2>4. U = [i \in 0..(k + 1) |-> U[i]]
    OBVIOUS
  <2>5. States(U, w, k + 1)
    <3> HIDE DEF U
    <3> QED BY <2>3, <2>4 DEF States
  <2>6. QED
    BY <2>5
<1>3. Nat \subseteq T
  <2> HIDE DEF T
  <2> QED BY <1>1, <1>2, SetInduction
<1>4. QED
  BY <1>3

(* A replay depends on the lines it has read and on nothing else. *)
LEMMA StatesAgree ==
    ASSUME NEW v, NEW w, NEW n \in Nat, \A i \in 1..n : v[i] = w[i],
           NEW S, States(S, v, n + 1), NEW U, States(U, w, n)
    PROVE  S[n] = U[n]
<1> DEFINE T == { j \in Nat : j <= n => S[j] = U[j] }
<1>1. 0 \in T
  BY DEF States
<1>2. ASSUME NEW j \in Nat, j \in T PROVE j + 1 \in T
  <2> SUFFICES ASSUME j + 1 <= n PROVE S[j + 1] = U[j + 1]
    OBVIOUS
  <2>1. S[j] = U[j] /\ v[j + 1] = w[j + 1]
    BY <1>2
  <2>2. S[j + 1] = ReplayLine(S[j], v[j + 1]) /\ U[j + 1] = ReplayLine(U[j], w[j + 1])
    <3>1. j + 1 \in 0..(n + 1) /\ j + 1 \in 0..n /\ j + 1 # 0 /\ (j + 1) - 1 = j
      OBVIOUS
    <3>2. QED
      BY <3>1 DEF States
  <2>3. QED
    BY <2>1, <2>2
<1>3. Nat \subseteq T
  <2> HIDE DEF T
  <2> QED BY <1>1, <1>2, SetInduction
<1>4. QED
  BY <1>3

LEMMA ReplayedIsLastState ==
    ASSUME NEW w, IsSequence(w)
    PROVE  \E S : States(S, w, Len(w)) /\ Replayed(w) = S[Len(w)]
<1>1. Len(w) \in Nat
  BY DEF IsSequence
<1> DEFINE C == CHOOSE S : States(S, w, Len(w))
<1>2. States(C, w, Len(w))
  BY <1>1, StatesExist
<1>3. Replayed(w) = C[Len(w)]
  BY DEF Replayed, States
<1>4. QED
  BY <1>2, <1>3

(* A replay of one line more takes one step more. *)
LEMMA ReplayedEmpty == IsSequence(<<>>) /\ Replayed(<<>>) = EmptyState
<1>1. IsSequence(<<>>)
  BY DEF IsSequence
<1>2. PICK S : States(S, <<>>, Len(<<>>)) /\ Replayed(<<>>) = S[Len(<<>>)]
  BY <1>1, ReplayedIsLastState
<1>3. QED
  BY <1>1, <1>2 DEF States

LEMMA ReplayedAppend ==
    ASSUME NEW w, NEW x, IsSequence(w)
    PROVE  Replayed(Append(w, x)) = ReplayLine(Replayed(w), x)
<1> DEFINE v == Append(w, x)
           n == Len(w)
<1>1. /\ IsSequence(v) /\ n \in Nat /\ Len(v) = n + 1 /\ v[n + 1] = x
      /\ \A i \in 1..n : v[i] = w[i]
  BY AppendFacts
<1> HIDE DEF v, n
<1>2. PICK S : States(S, w, n) /\ Replayed(w) = S[n]
  BY ReplayedIsLastState DEF n
<1>3. PICK U : States(U, v, n + 1) /\ Replayed(v) = U[n + 1]
  BY <1>1, ReplayedIsLastState
<1>4. U[n] = S[n]
  BY <1>1, <1>2, <1>3, StatesAgree, SMTT(40)
<1>5. U[n + 1] = ReplayLine(U[n], v[n + 1])
  <2>1. n + 1 \in 0..(n + 1) /\ n + 1 # 0 /\ (n + 1) - 1 = n
    BY <1>1
  <2>2. QED
    BY <1>3, <2>1 DEF States
<1>6. QED
  BY <1>1, <1>2, <1>3, <1>4, <1>5 DEF v

-----------------------------------------------------------------------------
(* What the memory holds, what is queued, and what a replay gives.         *)
DeletesAlone  == "deleteRace" \notin Hazards
IdsQueuedOnce == "sameId" \notin Hazards

StateSet ==
    [ok : BOOLEAN, nextSeq : Nat, parents : SUBSET (Ids \X (Ids \cup {None})),
     records : SUBSET Ids, lanes : [Lanes -> {"absent", "live", "deleted"}],
     leaf : [Lanes -> Ids \cup {None}]]

NoneIsNoState == None \notin StateSet

Calls ==
    [kind : {"entry"}, id : Ids, lane : Lanes] \cup [kind : {"record"}, id : Ids]
        \cup [kind : {"create"}, lane : Lanes, id : Ids \cup {None}]
        \cup [kind : {"move"}, lane : Lanes, id : Ids]
        \cup [kind : {"delete"}, lane : Lanes] \cup [kind : {"fact"}]

(* An entry or a move needs its lane; a deletion is queued with neither.   *)
NeedsLane(call) == call.kind \in {"entry", "move"}
Fits(s, call)   == NeedsLane(call) => s.lanes[call.lane] = "live"
Apart(c, d)     == c.kind = "delete" => ~NeedsLane(d)

Rebuilt == ~refused /\ Replayed(Whole(file)) \in StateSet /\ Replayed(Whole(file)).ok

Live == Up => mem = Replayed(confirmed) /\ mem \in StateSet /\ mem.ok

Queued ==
    /\ ~Up => chain = <<>>
    /\ \A i \in DOMAIN chain : chain[i] \in Calls /\ Fits(mem, chain[i])
    /\ \A i, j \in DOMAIN chain : Apart(chain[i], chain[j])
    /\ writer.pc # "idle" => writer.line = LineOf(Head(chain))

LiveInv == Rebuilt /\ Live /\ Queued

LEMMA InitialState == EmptyState \in StateSet /\ EmptyState.ok
BY JournalAssumption DEF EmptyState, StateSet

LEMMA InitLiveInv == Init => LiveInv
<1> SUFFICES ASSUME Init PROVE LiveInv
  OBVIOUS
<1>1. Whole(file) = <<>>
  BY DEF Init, Whole, TornTail
<1>2. Rebuilt /\ Live
  BY <1>1, InitialState, ReplayedEmpty DEF Init, Rebuilt, Live
<1>3. Queued
  BY DEF Init, Queued, IdleWriter
<1>4. QED
  BY <1>2, <1>3 DEF LiveInv

(* The line of a call has the fields of the call. *)
LEMMA LineFacts ==
    ASSUME NEW call \in Calls
    PROVE  LET line == LineOf(call)
           IN  /\ line.kind = call.kind /\ line.seq = mem.nextSeq
               /\ call.kind \in {"entry", "create", "move", "delete"} => line.lane = call.lane
               /\ call.kind \in {"entry", "record", "create", "move"} => line.id = call.id
               /\ call.kind = "entry" => line.parent = mem.leaf[call.lane]
BY DEF LineOf, Calls

(* If the call fits, a replay of its line does what the append did.        *)
LEMMA ApplyFacts ==
    ASSUME NEW call \in Calls, mem \in StateSet, mem.ok, Fits(mem, call)
    PROVE  LET t == ApplyLine(mem, LineOf(call))
           IN  /\ t = ReplayLine(mem, LineOf(call)) /\ t \in StateSet /\ t.ok
               /\ call.kind # "delete" => \A l \in Lanes : mem.lanes[l] = "live" => t.lanes[l] = "live"
               /\ t.parents = mem.parents \cup IF call.kind = "entry"
                                               THEN {<<call.id, mem.leaf[call.lane]>>} ELSE {}
               /\ \A l \in Lanes :
                    \/ t.leaf[l] = mem.leaf[l]
                    \/ call.kind \in {"entry", "create", "move"} /\ t.leaf[l] = call.id
<1> DEFINE line == LineOf(call)
           t == ApplyLine(mem, line)
<1>1. /\ line.kind = call.kind
      /\ call.kind \in {"entry", "create", "move", "delete"} => line.lane = call.lane
      /\ call.kind \in {"entry", "record", "create", "move"} => line.id = call.id
      /\ call.kind = "entry" => line.parent = mem.leaf[call.lane]
  BY LineFacts
<1>2. /\ call.kind \in {"entry", "record", "create", "move", "delete", "fact"}
      /\ call.kind \in {"entry", "create", "move", "delete"} => call.lane \in Lanes
      /\ call.kind \in {"entry", "record", "move"} => call.id \in Ids
      /\ call.kind = "create" => call.id \in Ids \cup {None}
  BY DEF Calls
<1> HIDE DEF line
<1>3. t = ReplayLine(mem, line)
  BY <1>1, <1>2 DEF ReplayLine, Fits, NeedsLane
<1>4. t \in StateSet /\ t.ok
  <2> DEFINE s == [mem EXCEPT !.nextSeq = @ + 1]
  <2>1. /\ s \in StateSet /\ s.ok
        /\ s.parents = mem.parents /\ s.lanes = mem.lanes /\ s.leaf = mem.leaf
    BY DEF StateSet
  <2> HIDE DEF s
  <2>2. CASE call.kind = "entry"
    <3>1. t = [s EXCEPT !.parents = @ \cup {<<line.id, line.parent>>}, !.leaf[line.lane] = line.id]
      BY <1>1, <2>2 DEF ApplyLine, s
    <3>2. line.id \in Ids /\ line.lane \in Lanes /\ line.parent \in Ids \cup {None}
      BY <1>1, <1>2, <2>2 DEF StateSet
    <3>3. s.parents \cup {<<line.id, line.parent>>} \in SUBSET (Ids \X (Ids \cup {None}))
      BY <2>1, <3>2 DEF StateSet
    <3>4. [s.leaf EXCEPT ![line.lane] = line.id] \in [Lanes -> Ids \cup {None}]
      BY <2>1, <3>2 DEF StateSet
    <3>5. QED
      BY <2>1, <3>1, <3>3, <3>4 DEF StateSet
  <2>3. CASE call.kind = "record"
    <3>1. t = [s EXCEPT !.records = @ \cup {line.id}] /\ line.id \in Ids
      BY <1>1, <1>2, <2>3 DEF ApplyLine, s
    <3>2. QED
      BY <2>1, <3>1 DEF StateSet
  <2>4. CASE call.kind = "create"
    <3>1. /\ t = [s EXCEPT !.lanes[line.lane] = "live", !.leaf[line.lane] = line.id]
          /\ line.lane \in Lanes /\ line.id \in Ids \cup {None}
      BY <1>1, <1>2, <2>4 DEF ApplyLine, s
    <3>2. /\ [s.lanes EXCEPT ![line.lane] = "live"] \in [Lanes -> {"absent", "live", "deleted"}]
          /\ [s.leaf EXCEPT ![line.lane] = line.id] \in [Lanes -> Ids \cup {None}]
      BY <2>1, <3>1 DEF StateSet
    <3>3. QED
      BY <2>1, <3>1, <3>2 DEF StateSet
  <2>5. CASE call.kind = "delete"
    <3>1. t = [s EXCEPT !.lanes[line.lane] = "deleted"] /\ line.lane \in Lanes
      BY <1>1, <1>2, <2>5 DEF ApplyLine, s
    <3>2. QED
      BY <2>1, <3>1 DEF StateSet
  <2>6. CASE call.kind = "move"
    <3>1. t = [s EXCEPT !.leaf[line.lane] = line.id] /\ line.lane \in Lanes /\ line.id \in Ids
      BY <1>1, <1>2, <2>6 DEF ApplyLine, s
    <3>2. QED
      BY <2>1, <3>1 DEF StateSet
  <2>7. CASE call.kind = "fact"
    <3>1. t = s
      BY <1>1, <2>7 DEF ApplyLine, s
    <3>2. QED
      BY <2>1, <3>1
  <2>8. QED
    BY <1>2, <2>2, <2>3, <2>4, <2>5, <2>6, <2>7
<1>5. call.kind # "delete" => \A l \in Lanes : mem.lanes[l] = "live" => t.lanes[l] = "live"
  BY <1>1, <1>2 DEF ApplyLine, StateSet
<1>6. t.parents = mem.parents \cup IF call.kind = "entry"
                                   THEN {<<call.id, mem.leaf[call.lane]>>} ELSE {}
  BY <1>1, <1>2 DEF ApplyLine, StateSet
<1>7. \A l \in Lanes : \/ t.leaf[l] = mem.leaf[l]
                       \/ call.kind \in {"entry", "create", "move"} /\ t.leaf[l] = call.id
  BY <1>1, <1>2 DEF ApplyLine, StateSet
<1>8. QED
  BY <1>3, <1>4, <1>5, <1>6, <1>7 DEF line

-----------------------------------------------------------------------------
(* A fragment behind the lines is cut, a line behind them is kept. *)
LEMMA WholeAppended ==
    ASSUME NEW s, IsSequence(s)
    PROVE  /\ Whole(Append(s, Torn)) = s
           /\ \A x : IsLine(x) => Whole(Append(s, x)) = Append(s, x) /\ Last(Append(s, x)) = x
<1>1. Whole(Append(s, Torn)) = s
  <2> DEFINE f == Append(s, Torn)
  <2>1. /\ f # <<>> /\ Last(f) = Torn /\ Len(s) \in Nat
        /\ Len(f) = Len(s) + 1 /\ SubSeq(f, 1, Len(s)) = s
    BY AppendFacts, LastAppended
  <2> HIDE DEF f
  <2>2. Front(f) = s /\ TornTail(f)
    BY <2>1 DEF Front, TornTail, Torn
  <2>3. QED
    BY <2>2 DEF Whole, f
<1>2. ASSUME NEW x, IsLine(x)
      PROVE  Whole(Append(s, x)) = Append(s, x) /\ Last(Append(s, x)) = x
  <2>1. Last(Append(s, x)) = x
    BY LastAppended
  <2>2. QED
    BY <1>2, <2>1, LineIsWhole DEF Whole, TornTail
<1>3. QED
  BY <1>1, <1>2

(* The whole lines of the file: those confirmed and, when it is there, the *)
(* one in flight.                                                          *)
LEMMA WholeFile ==
    ASSUME JournalInv
    PROVE  /\ IsSequence(Whole(file))
           /\ \/ /\ Whole(file) = confirmed /\ writer.pc # "written"
                 /\ file = confirmed \/ file = Append(confirmed, Torn)
              \/ /\ Whole(file) = file /\ file = Append(confirmed, Last(file))
                 /\ IsLine(Last(file)) /\ writer.pc \in {"idle", "written"}
                 /\ Up => writer.pc = "written" /\ Last(file) = writer.line
<1> USE DEF JournalInv
<1>1. IsSequence(confirmed) /\ IsSequence(file)
  BY DEF AllSequences
<1>2. CASE file = confirmed /\ writer.pc \in {"idle", "opened"}
  BY <1>1, <1>2, ConfirmedHasNoTornTail DEF Whole
<1>3. CASE file = Append(confirmed, Torn) /\ writer.pc = "writing"
  BY <1>1, <1>3, WholeAppended
<1>4. CASE file = Append(confirmed, writer.line) /\ writer.pc = "written"
  BY <1>1, <1>4, WholeAppended DEF OnlyLines
<1>5. CASE file = Append(confirmed, Last(file)) /\ Last(file) = Torn /\ writer.pc = "idle"
  BY <1>1, <1>5, WholeAppended
<1>6. CASE /\ file = Append(confirmed, Last(file)) /\ IsLine(Last(file))
           /\ writer.pc = "idle" /\ ~Up
  <2> DEFINE x == Last(file)
  <2>1. IsLine(x) /\ file = Append(confirmed, x) /\ writer.pc = "idle" /\ ~Up
    BY <1>6
  <2>2. IsSequence(confirmed) /\ IsSequence(file)
    BY <1>1
  <2> HIDE DEF x
  <2>3. Whole(file) = file
    BY <2>1, <2>2, WholeAppended
  <2>4. QED
    BY <2>1, <2>2, <2>3 DEF x
<1>7. QED
  BY <1>2, <1>3, <1>4, <1>5, <1>6 DEF FileShape

(* Whole lines change only when the line in flight becomes one.            *)
LEMMA WholeStep ==
    ASSUME WritesAreWhole, JournalInv, JournalInv', RepairIsCurrent, [Next]_vars
    PROVE  \/ Whole(file') = Whole(file)
           \/ /\ WriteRest /\ Whole(file) = confirmed
              /\ Whole(file') = Append(confirmed, writer.line)
<1>1. CASE WriteSome
  <2>1. UNCHANGED confirmed /\ writer.pc = "opened" /\ writer'.pc \notin {"idle", "written"}
    BY <1>1 DEF WriteSome, JournalInv, WriterOwnsFile
  <2>2. Whole(file) = confirmed
    BY <2>1, WholeFile
  <2>3. file' = Append(confirmed, Torn)
    BY <1>1, <2>1 DEF WriteSome, JournalInv, FileShape
  <2>4. QED
    BY <2>2, <2>3, WholeAppended DEF JournalInv, AllSequences
<1>2. CASE WriteRest
  <2>1. UNCHANGED confirmed /\ writer.pc = "writing" /\ writer'.pc = "written"
    BY <1>2 DEF WriteRest, JournalInv, WriterOwnsFile
  <2>2. Whole(file) = confirmed
    BY <2>1, WholeFile
  <2>3. file' = Append(confirmed, writer'.line)
    BY <2>1 DEF JournalInv, FileShape
  <2>4. writer'.line = writer.line /\ IsLine(writer.line)
    BY <1>2, <2>1 DEF WriteRest, JournalInv, WriterOwnsFile, OnlyLines
  <2>5. QED
    BY <1>2, <2>2, <2>3, <2>4, WholeAppended DEF JournalInv, AllSequences
<1>3. CASE Open
  <2>1. file' = file \/ file' = Whole(file)
    BY <1>3 DEF Open, Truncated
  <2>2. Whole(Whole(file)) = Whole(file)
    BY WholeFile, ConfirmedHasNoTornTail DEF Whole, JournalInv
  <2>3. QED
    BY <2>1, <2>2
<1>4. CASE OtherTruncates
  <2>1. file' = Whole(file)
    BY <1>4 DEF OtherTruncates, RepairIsCurrent
  <2>2. Whole(Whole(file)) = Whole(file)
    BY WholeFile, ConfirmedHasNoTornTail DEF Whole, JournalInv
  <2>3. QED
    BY <2>1, <2>2
<1>5. CASE ~WriteSome /\ ~WriteRest /\ ~Open /\ ~OtherTruncates
  <2>1. UNCHANGED file
    BY <1>5 DEF Next, vars, Write, AppendRecord, AppendFact, AppendEntry, CreateLane, MoveLane,
                DeleteLane, Enqueue, StartWrite, Resolve, FailWrite, Crash, Close, OtherReads
  <2>2. QED
    BY <2>1
<1>6. QED
  BY <1>1, <1>2, <1>3, <1>4, <1>5

-----------------------------------------------------------------------------
(* The call that is being written. *)
LEMMA TailElements ==
    ASSUME NEW s, IsSequence(s), s # <<>>
    PROVE  /\ 1 \in DOMAIN s /\ Head(s) = s[1]
           /\ \A i \in DOMAIN Tail(s) :
                i \in Nat \ {0} /\ i + 1 \in DOMAIN s /\ Tail(s)[i] = s[i + 1]
BY HeadTailProperties DEF IsSequence

LEMMA AppendElements ==
    ASSUME NEW s, NEW x, IsSequence(s)
    PROVE  /\ DOMAIN s = 1..Len(s) /\ Len(s) \in Nat
           /\ DOMAIN Append(s, x) = 1..(Len(s) + 1)
           /\ Append(s, x)[Len(s) + 1] = x /\ \A i \in DOMAIN s : Append(s, x)[i] = s[i]
BY AppendFacts, LenProperties DEF IsSequence

LEMMA WriterFits ==
    ASSUME JournalInv, LiveInv, writer.pc # "idle"
    PROVE  /\ Up /\ chain # <<>> /\ 1 \in DOMAIN chain /\ Head(chain) = chain[1]
           /\ chain[1] \in Calls /\ writer.line = LineOf(chain[1])
           /\ mem = Replayed(confirmed) /\ mem \in StateSet /\ mem.ok /\ Fits(mem, chain[1])
<1>1. Up /\ chain # <<>> /\ IsSequence(chain)
  BY DEF JournalInv, WriterOwnsFile, AllSequences
<1>2. 1 \in DOMAIN chain /\ Head(chain) = chain[1]
  BY <1>1, TailElements
<1>3. QED
  BY <1>1, <1>2 DEF LiveInv, Live, Queued

LEMMA EnqueueFits ==
    ASSUME JournalInv, LiveInv, NEW call \in Calls, Enqueue(call), Fits(mem, call),
           \A i \in DOMAIN chain : Apart(chain[i], call) /\ Apart(call, chain[i])
    PROVE  Queued'
<1>1. /\ Up /\ IsSequence(chain) /\ chain' = Append(chain, call)
      /\ UNCHANGED <<file, mem, writer, confirmed, refused>>
  BY DEF Enqueue, JournalInv, AllSequences
<1>2. \A i \in DOMAIN chain' : chain'[i] = call \/ (i \in DOMAIN chain /\ chain'[i] = chain[i])
  BY <1>1, AppendElements
<1>3. Apart(call, call)
  BY DEF Apart, NeedsLane
<1>4. \A i \in DOMAIN chain' : chain'[i] \in Calls /\ Fits(mem', chain'[i])
  BY <1>1, <1>2 DEF LiveInv, Queued
<1>5. \A i, j \in DOMAIN chain' : Apart(chain'[i], chain'[j])
  BY <1>2, <1>3 DEF LiveInv, Queued
<1>6. writer.pc # "idle" => chain # <<>> /\ Head(chain') = Head(chain)
  <2> SUFFICES ASSUME writer.pc # "idle" PROVE chain # <<>> /\ Head(chain') = Head(chain)
    OBVIOUS
  <2>1. chain # <<>> /\ 1 \in DOMAIN chain /\ Head(chain) = chain[1]
    BY WriterFits
  <2>2. chain' # <<>> /\ IsSequence(chain') /\ chain'[1] = chain[1]
    BY <1>1, <2>1, AppendFacts, AppendElements
  <2>3. QED
    BY <2>1, <2>2, TailElements
<1>7. writer'.pc # "idle" => writer'.line = LineOf(Head(chain))'
  BY <1>1, <1>6 DEF LiveInv, Queued, LineOf
<1>8. QED
  BY <1>1, <1>4, <1>5, <1>7 DEF Queued, Up

(* What a call that returns leaves in the queue. *)
LEMMA DequeueFits ==
    ASSUME JournalInv, LiveInv, chain # <<>>, chain' = Tail(chain), writer' = IdleWriter,
           Up, \A i \in DOMAIN chain' : Fits(mem, chain'[i]) => Fits(mem', chain'[i])
    PROVE  (~Up' => chain' = <<>>) => Queued'
<1>1. \A i \in DOMAIN chain' : i + 1 \in DOMAIN chain /\ chain'[i] = chain[i + 1]
  BY TailElements DEF JournalInv, AllSequences
<1>2. \A i \in DOMAIN chain' : chain'[i] \in Calls /\ Fits(mem', chain'[i])
  BY <1>1 DEF LiveInv, Queued
<1>3. \A i, j \in DOMAIN chain' : Apart(chain'[i], chain'[j])
  BY <1>1 DEF LiveInv, Queued
<1>4. QED
  BY <1>2, <1>3 DEF Queued, IdleWriter

LEMMA CallsFit ==
    ASSUME DeletesAlone, JournalInv, LiveInv,
           \/ \E id \in Ids : AppendRecord(id)
           \/ AppendFact
           \/ \E id \in Ids, l \in Lanes : AppendEntry(id, l)
           \/ \E l \in Lanes : CreateLane(l) \/ MoveLane(l) \/ DeleteLane(l)
    PROVE  Queued'
<1> DEFINE Allowed(call) ==
        /\ call \in Calls /\ Enqueue(call) /\ Fits(mem, call)
        /\ \A i \in DOMAIN chain : Apart(chain[i], call) /\ Apart(call, chain[i])
<1>1. Up /\ mem \in StateSet
  BY DEF AppendRecord, AppendFact, AppendEntry, CreateLane, MoveLane, DeleteLane, LiveInv, Live
<1>2. Stored \subseteq Ids
  BY <1>1 DEF Stored, StateSet
<1>3. ASSUME NEW id \in Ids, AppendRecord(id)
      PROVE  Allowed([kind |-> "record", id |-> id])
  BY <1>3 DEF AppendRecord, Calls, Fits, Apart, NeedsLane
<1>4. ASSUME AppendFact
      PROVE  Allowed([kind |-> "fact"])
  BY <1>4 DEF AppendFact, Calls, Fits, Apart, NeedsLane
<1>5. ASSUME NEW id \in Ids, NEW l \in Lanes, AppendEntry(id, l)
      PROVE  Allowed([kind |-> "entry", id |-> id, lane |-> l])
  <2>1. \A i \in DOMAIN chain : chain[i].kind # "delete"
    BY <1>5 DEF AppendEntry, DeletesAlone, Pending
  <2>2. QED
    BY <1>5, <2>1 DEF AppendEntry, Calls, Fits, Apart, NeedsLane
<1>6. ASSUME NEW l \in Lanes, CreateLane(l)
      PROVE  \E call : Allowed(call)
  <2>1. PICK id \in {None} \cup Stored : Enqueue([kind |-> "create", lane |-> l, id |-> id])
    BY <1>6 DEF CreateLane
  <2>2. Allowed([kind |-> "create", lane |-> l, id |-> id])
    BY <1>2, <2>1 DEF Calls, Fits, Apart, NeedsLane
  <2>3. QED
    BY <2>2
<1>7. ASSUME NEW l \in Lanes, MoveLane(l)
      PROVE  \E call : Allowed(call)
  <2>1. PICK id \in Stored : Enqueue([kind |-> "move", lane |-> l, id |-> id])
    BY <1>7 DEF MoveLane
  <2>2. \A i \in DOMAIN chain : chain[i].kind # "delete"
    BY <1>7 DEF MoveLane, DeletesAlone, Pending
  <2>3. Allowed([kind |-> "move", lane |-> l, id |-> id])
    BY <1>2, <1>7, <2>1, <2>2 DEF MoveLane, Calls, Fits, Apart, NeedsLane
  <2>4. QED
    BY <2>3
<1>8. ASSUME NEW l \in Lanes, DeleteLane(l)
      PROVE  Allowed([kind |-> "delete", lane |-> l])
  <2>1. \A i \in DOMAIN chain : ~NeedsLane(chain[i])
    BY <1>8 DEF DeleteLane, DeletesAlone, Pending, NeedsLane
  <2>2. QED
    BY <1>8, <2>1 DEF DeleteLane, Calls, Fits, Apart, NeedsLane
<1>9. \E call : Allowed(call)
  <2> HIDE DEF Allowed
  <2> QED BY <1>3, <1>4, <1>5, <1>6, <1>7, <1>8
<1>10. QED
  BY <1>9, EnqueueFits

LEMMA ResolveFits ==
    ASSUME NoneIsNoState, JournalInv, LiveInv, Resolve
    PROVE  Live' /\ Queued'
<1>1. /\ writer.pc = "written" /\ mem' = ApplyLine(mem, writer.line)
      /\ confirmed' = Append(confirmed, writer.line) /\ chain' = Tail(chain)
      /\ writer' = IdleWriter
  BY DEF Resolve
<1>2. /\ Up /\ chain # <<>> /\ 1 \in DOMAIN chain /\ chain[1] \in Calls
      /\ writer.line = LineOf(chain[1])
      /\ mem = Replayed(confirmed) /\ mem \in StateSet /\ mem.ok /\ Fits(mem, chain[1])
      /\ IsSequence(confirmed) /\ IsSequence(chain)
  BY <1>1, WriterFits DEF JournalInv, AllSequences
<1>3. /\ mem' = ReplayLine(mem, writer.line) /\ mem' \in StateSet /\ mem'.ok
      /\ chain[1].kind # "delete" => \A l \in Lanes : mem.lanes[l] = "live" => mem'.lanes[l] = "live"
  BY <1>1, <1>2, ApplyFacts
<1>4. mem' = Replayed(confirmed')
  BY <1>1, <1>2, <1>3, ReplayedAppend
<1>5. ASSUME NEW i \in DOMAIN chain', Fits(mem, chain'[i])
      PROVE  Fits(mem', chain'[i])
  <2>1. i + 1 \in DOMAIN chain /\ chain'[i] = chain[i + 1]
    BY <1>1, <1>2, TailElements
  <2>2. chain'[i] \in Calls /\ Apart(chain[1], chain'[i])
    BY <1>2, <2>1 DEF LiveInv, Queued
  <2>3. NeedsLane(chain'[i]) => chain'[i].lane \in Lanes
    BY <2>2 DEF NeedsLane, Calls
  <2>4. QED
    BY <1>3, <1>5, <2>2, <2>3 DEF Fits, Apart
<1>6. Up'
  BY <1>3 DEF Up, NoneIsNoState
<1>7. QED
  BY <1>1, <1>2, <1>3, <1>4, <1>5, <1>6, DequeueFits DEF Live

LEMMA RebuiltStep ==
    ASSUME WritesAreWhole, JournalInv, JournalInv', RepairIsCurrent, LiveInv, [Next]_vars
    PROVE  Rebuilt'
<1>1. Replayed(Whole(file')) \in StateSet /\ Replayed(Whole(file')).ok
  <2>1. CASE Whole(file') = Whole(file)
    BY <2>1 DEF LiveInv, Rebuilt
  <2>2. CASE WriteRest /\ Whole(file) = confirmed /\ Whole(file') = Append(confirmed, writer.line)
    <3>1. writer.pc # "idle" /\ IsSequence(confirmed)
      BY <2>2 DEF WriteRest, JournalInv, AllSequences
    <3>2. /\ chain[1] \in Calls /\ writer.line = LineOf(chain[1])
          /\ mem = Replayed(confirmed) /\ mem \in StateSet /\ mem.ok /\ Fits(mem, chain[1])
      BY <3>1, WriterFits
    <3>3. LET t == ReplayLine(mem, writer.line) IN t \in StateSet /\ t.ok
      BY <3>2, ApplyFacts
    <3>4. Replayed(Whole(file')) = ReplayLine(mem, writer.line)
      BY <2>2, <3>1, <3>2, ReplayedAppend
    <3>5. QED
      BY <3>3, <3>4
  <2>3. QED
    BY <2>1, <2>2, WholeStep
<1>2. ~refused'
  <2>1. CASE Open
    BY <2>1 DEF Open, LiveInv, Rebuilt, Replay
  <2>2. CASE ~Open
    BY <2>2 DEF Next, vars, Write, AppendRecord, AppendFact, AppendEntry, CreateLane, MoveLane,
                DeleteLane, Enqueue, StartWrite, WriteSome, WriteRest, Resolve, FailWrite, Crash,
                Close, OtherReads, OtherTruncates, LiveInv, Rebuilt
  <2>3. QED
    BY <2>1, <2>2
<1>3. QED
  BY <1>1, <1>2 DEF Rebuilt

LEMMA LiveStep ==
    ASSUME NoneIsNoState, WritesAreWhole, DeletesAlone, JournalInv, LiveInv, [Next]_vars
    PROVE  Live' /\ Queued'
<1>1. CASE \/ \E id \in Ids : AppendRecord(id)
           \/ AppendFact
           \/ \E id \in Ids, l \in Lanes : AppendEntry(id, l)
           \/ \E l \in Lanes : CreateLane(l) \/ MoveLane(l) \/ DeleteLane(l)
  <2>1. UNCHANGED <<mem, confirmed>>
    BY <1>1 DEF AppendRecord, AppendFact, AppendEntry, CreateLane, MoveLane, DeleteLane, Enqueue
  <2>2. QED
    BY <1>1, <2>1, CallsFit DEF LiveInv, Live, Up
<1>2. CASE StartWrite
  <2>1. UNCHANGED <<mem, chain, confirmed>> /\ Up /\ writer'.line = LineOf(Head(chain))
    BY <1>2 DEF StartWrite
  <2>2. QED
    BY <2>1 DEF LiveInv, Live, Queued, Up, LineOf
<1>3. CASE WriteSome \/ WriteRest
  <2>1. UNCHANGED <<mem, chain, confirmed>> /\ writer'.line = writer.line /\ writer.pc # "idle"
    BY <1>3 DEF WriteSome, WriteRest, JournalInv, WriterOwnsFile
  <2>2. QED
    BY <2>1 DEF LiveInv, Live, Queued, Up, LineOf
<1>4. CASE Resolve
  BY <1>4, ResolveFits
<1>5. CASE FailWrite
  <2>1. UNCHANGED <<mem, confirmed>> /\ chain' = Tail(chain) /\ writer' = IdleWriter
        /\ writer.pc # "idle"
    BY <1>5 DEF FailWrite, AfterFailure
  <2>2. Up /\ chain # <<>>
    BY <2>1 DEF JournalInv, WriterOwnsFile
  <2>3. Up'
    BY <2>1, <2>2 DEF Up
  <2>4. QED
    BY <2>1, <2>2, <2>3, DequeueFits DEF LiveInv, Live
<1>6. CASE Crash \/ Close
  BY <1>6 DEF Crash, Close, IdleWriter, Live, Queued, Up, JournalInv, WriterOwnsFile
<1>7. CASE Open
  <2>1. ~Up /\ chain = <<>> /\ UNCHANGED <<chain, writer>> /\ writer.pc = "idle"
    BY <1>7 DEF Open, LiveInv, Queued, JournalInv, WriterOwnsFile
  <2>2. Queued'
    BY <2>1 DEF Queued
  <2>3. \/ UNCHANGED <<mem, confirmed>>
        \/ mem' = Replayed(Whole(file)) /\ confirmed' = Whole(file)
    BY <1>7 DEF Open, Replay
  <2>4. Live'
    BY <2>1, <2>3 DEF LiveInv, Rebuilt, Live, Up
  <2>5. QED
    BY <2>2, <2>4
<1>8. CASE OtherReads \/ OtherTruncates \/ UNCHANGED vars
  <2>1. UNCHANGED <<mem, chain, writer, confirmed>>
    BY <1>8 DEF OtherReads, OtherTruncates, vars
  <2>2. QED
    BY <2>1 DEF LiveInv, Live, Queued, Up, LineOf
<1>9. QED
  BY <1>1, <1>2, <1>3, <1>4, <1>5, <1>6, <1>7, <1>8 DEF Next, Write

LEMMA LiveInvHolds ==
    NoneIsNoState /\ WritesAreWhole /\ DeletesAlone /\ Spec => [](JournalInv /\ LiveInv)
<1> SUFFICES ASSUME NoneIsNoState, WritesAreWhole, DeletesAlone
             PROVE  Spec => [](JournalInv /\ LiveInv)
  OBVIOUS
<1> DEFINE Inv == JournalInv /\ RepairIsCurrent /\ LiveInv
<1>1. Init => Inv
  BY InitJournalInv, InitLiveInv DEF Init, RepairIsCurrent
<1>2. Inv /\ [Next]_vars => Inv'
  <2> SUFFICES ASSUME Inv, [Next]_vars PROVE Inv'
    OBVIOUS
  <2>1. JournalInv' /\ RepairIsCurrent'
    BY JournalInvStep, RepairStep
  <2>2. LiveInv'
    BY <2>1, RebuiltStep, LiveStep DEF LiveInv
  <2>3. QED
    BY <2>1, <2>2
<1>3. QED
  BY <1>1, <1>2, PTL DEF Spec

(* Memory is what a replay of the file gives, whatever writes failed.      *)
THEOREM ReplayMatchesLiveCorrect ==
    NoneIsNoState /\ WritesAreWhole /\ DeletesAlone /\ Spec => []ReplayMatchesLive
<1>1. JournalInv /\ LiveInv => ReplayMatchesLive
  <2> SUFFICES ASSUME JournalInv, LiveInv, Up, writer.pc = "idle"
               PROVE  Replayed(Whole(file)) = mem
    BY DEF ReplayMatchesLive, Replay
  <2>1. Whole(file) = confirmed
    BY WholeFile
  <2>2. QED
    BY <2>1 DEF LiveInv, Live
<1>2. QED
  BY <1>1, LiveInvHolds, PTL

(* The journal never writes what it refuses to open.                       *)
THEOREM ReopenableCorrect ==
    NoneIsNoState /\ WritesAreWhole /\ DeletesAlone /\ Spec => []Reopenable
<1>1. LiveInv => Reopenable
  BY DEF LiveInv, Rebuilt, Reopenable, Replay
<1>2. QED
  BY <1>1, LiveInvHolds, PTL

-----------------------------------------------------------------------------
(* The tree of entries: what the memory knows of it is what is written.    *)
IdsIn(s)    == { p[1] : p \in s.parents }
IsEntry(x)  == x.kind = "entry"
Known(s, x) == x = None \/ x \in IdsIn(s)

(* Every entry that a replay has seen is in the state, and no other.       *)
Traced(w) ==
    /\ \A i \in DOMAIN w : IsEntry(w[i]) => w[i].id \in IdsIn(Replayed(w))
    /\ \A id \in IdsIn(Replayed(w)) : \E i \in DOMAIN w : IsEntry(w[i]) /\ w[i].id = id

Once(w) == \A i, j \in DOMAIN w : IsEntry(w[i]) /\ IsEntry(w[j]) /\ w[i].id = w[j].id => i = j

(* References point backwards. *)
Rooted(w) ==
    \A i \in DOMAIN w :
        Reference(w[i]) # None =>
            \E j \in DOMAIN w : j < i /\ IsEntry(w[j]) /\ w[j].id = Reference(w[i])

(* Lanes stand at entries, and the queue names entries that are there.     *)
LeavesKnown(s) == \A l \in Lanes : Known(s, s.leaf[l])

ChainKnown ==
    Up => /\ LeavesKnown(mem)
          /\ \A i \in DOMAIN chain :
               chain[i].kind \in {"create", "move"} => Known(mem, chain[i].id)

(* A queued entry is new, in the tree and in the queue. *)
ChainNew ==
    Up => /\ \A i \in DOMAIN chain : IsEntry(chain[i]) => chain[i].id \notin IdsIn(mem)
          /\ Once(chain)

TreeInv ==
    /\ Traced(Whole(file)) /\ Rooted(Whole(file)) /\ LeavesKnown(Replayed(Whole(file)))
    /\ ChainKnown
NewInv  == Once(Whole(file)) /\ ChainNew

(* What the line in flight adds to the entries and leaves of the state. *)
LEMMA WrittenLine ==
    ASSUME JournalInv, LiveInv, writer.pc # "idle"
    PROVE  LET line == writer.line
               t    == ReplayLine(mem, line)
           IN  /\ t = ApplyLine(mem, line) /\ line.kind = chain[1].kind
               /\ IsEntry(line) =>
                    line.id = chain[1].id /\ line.parent = mem.leaf[chain[1].lane]
                        /\ chain[1].lane \in Lanes /\ IdsIn(t) = IdsIn(mem) \cup {line.id}
               /\ line.kind \in {"create", "move"} => line.id = chain[1].id
               /\ ~IsEntry(line) => IdsIn(t) = IdsIn(mem)
               /\ \A l \in Lanes :
                    \/ t.leaf[l] = mem.leaf[l]
                    \/ line.kind \in {"entry", "create", "move"} /\ t.leaf[l] = line.id
<1> DEFINE line == writer.line
           call == chain[1]
           t    == ReplayLine(mem, line)
<1>1. call \in Calls /\ line = LineOf(call) /\ mem \in StateSet /\ mem.ok /\ Fits(mem, call)
  BY WriterFits
<1>2. /\ line.kind = call.kind
      /\ call.kind \in {"entry", "create", "move"} => line.id = call.id
      /\ call.kind = "entry" => line.parent = mem.leaf[call.lane] /\ call.lane \in Lanes
  BY <1>1, LineFacts DEF Calls
<1>3. /\ t = ApplyLine(mem, line)
      /\ t.parents = mem.parents \cup IF call.kind = "entry"
                                      THEN {<<call.id, mem.leaf[call.lane]>>} ELSE {}
      /\ \A l \in Lanes : \/ t.leaf[l] = mem.leaf[l]
                          \/ call.kind \in {"entry", "create", "move"} /\ t.leaf[l] = call.id
  BY <1>1, ApplyFacts
<1> HIDE DEF line, call, t
<1>4. IsEntry(line) => IdsIn(t) = IdsIn(mem) \cup {line.id}
  <2> SUFFICES ASSUME IsEntry(line) PROVE IdsIn(t) = IdsIn(mem) \cup {line.id}
    OBVIOUS
  <2>1. t.parents = mem.parents \cup {<<line.id, line.parent>>}
    BY <1>2, <1>3 DEF IsEntry
  <2>2. <<line.id, line.parent>>[1] = line.id
    OBVIOUS
  <2>3. ASSUME NEW x \in IdsIn(t) PROVE x \in IdsIn(mem) \cup {line.id}
    BY <2>1, <2>2 DEF IdsIn
  <2>4. ASSUME NEW x \in IdsIn(mem) PROVE x \in IdsIn(t)
    BY <2>1 DEF IdsIn
  <2>5. line.id \in IdsIn(t)
    BY <2>1, <2>2 DEF IdsIn
  <2>6. QED
    BY <2>3, <2>4, <2>5
<1>5. ~IsEntry(line) => IdsIn(t) = IdsIn(mem)
  <2> SUFFICES ASSUME ~IsEntry(line) PROVE t.parents = mem.parents
    BY DEF IdsIn
  <2>1. QED
    BY <1>2, <1>3 DEF IsEntry
<1>6. QED
  BY <1>2, <1>3, <1>4, <1>5 DEF line, call, t, IsEntry

LEMMA InitTree == Init => TreeInv /\ NewInv
<1> SUFFICES ASSUME Init PROVE TreeInv /\ NewInv
  OBVIOUS
<1>1. Whole(file) = <<>> /\ chain = <<>> /\ mem = EmptyState
  BY DEF Init, Whole, TornTail
<1>2. IdsIn(EmptyState) = {} /\ \A l \in Lanes : EmptyState.leaf[l] = None
  BY DEF IdsIn, EmptyState
<1>3. Traced(<<>>) /\ Rooted(<<>>) /\ Once(<<>>)
  BY <1>2, ReplayedEmpty DEF Traced, Rooted, Once
<1>4. QED
  BY <1>1, <1>2, <1>3, ReplayedEmpty DEF TreeInv, NewInv, ChainKnown, ChainNew, Known, LeavesKnown,
                                         Once

(* The line in flight joins the tree. *)
LEMMA TreeGrows ==
    ASSUME JournalInv, LiveInv, TreeInv, writer.pc # "idle",
           Whole(file) = confirmed, Whole(file') = Append(confirmed, writer.line)
    PROVE  /\ Traced(Whole(file')) /\ Rooted(Whole(file')) /\ LeavesKnown(Replayed(Whole(file')))
           /\ Once(confirmed) /\ ChainNew => Once(Whole(file'))
<1> DEFINE w    == confirmed
           line == writer.line
           v    == Append(w, line)
           n    == Len(w)
<1>1. /\ IsSequence(w) /\ DOMAIN w = 1..n /\ n \in Nat /\ DOMAIN v = 1..(n + 1)
      /\ v[n + 1] = line /\ \A i \in DOMAIN w : v[i] = w[i]
  BY AppendElements DEF JournalInv, AllSequences
<1>2. /\ mem = Replayed(w) /\ Up /\ 1 \in DOMAIN chain
      /\ Replayed(v) = ReplayLine(mem, line)
  BY <1>1, WriterFits, ReplayedAppend
<1>3. /\ line.kind = chain[1].kind
      /\ IsEntry(line) => /\ line.id = chain[1].id /\ line.parent = mem.leaf[chain[1].lane]
                          /\ chain[1].lane \in Lanes /\ IdsIn(Replayed(v)) = IdsIn(mem) \cup {line.id}
      /\ line.kind \in {"create", "move"} => line.id = chain[1].id
      /\ ~IsEntry(line) => IdsIn(Replayed(v)) = IdsIn(mem)
  BY <1>2, WrittenLine
<1>4. Traced(w) /\ Rooted(w)
  BY DEF TreeInv
<1> HIDE DEF w, line, v, n
<1>5. ASSUME NEW i \in DOMAIN v PROVE (i \in DOMAIN w /\ v[i] = w[i]) \/ (i = n + 1 /\ v[i] = line)
  BY <1>1
<1>6. n + 1 \in DOMAIN v /\ \A i \in DOMAIN w : i \in DOMAIN v /\ v[i] = w[i] /\ i < n + 1
  BY <1>1
<1>7. Traced(v)
  <2>1. ASSUME NEW i \in DOMAIN v, IsEntry(v[i]) PROVE v[i].id \in IdsIn(Replayed(v))
    BY <1>2, <1>3, <1>4, <1>5, <2>1 DEF Traced
  <2>2. ASSUME NEW id \in IdsIn(Replayed(v))
        PROVE  \E i \in DOMAIN v : IsEntry(v[i]) /\ v[i].id = id
    <3>1. CASE id \in IdsIn(mem)
      BY <1>2, <1>4, <1>6, <3>1 DEF Traced
    <3>2. CASE IsEntry(line) /\ id = line.id
      BY <1>1, <1>6, <3>2
    <3>3. QED
      BY <1>3, <2>2, <3>1, <3>2
  <2>3. QED
    BY <2>1, <2>2 DEF Traced
<1>8. Rooted(v)
  <2> SUFFICES ASSUME NEW i \in DOMAIN v, Reference(v[i]) # None
               PROVE  \E j \in DOMAIN v : j < i /\ IsEntry(v[j]) /\ v[j].id = Reference(v[i])
    BY DEF Rooted
  <2>1. CASE i \in DOMAIN w /\ v[i] = w[i]
    BY <1>4, <1>6, <2>1 DEF Rooted
  <2>2. CASE i = n + 1 /\ v[i] = line
    <3>1. Reference(line) # None
      BY <2>2
    <3>2. Reference(line) \in IdsIn(mem)
      <4>1. CASE IsEntry(line)
        BY <1>2, <1>3, <3>1, <4>1 DEF Reference, IsEntry, TreeInv, ChainKnown, LeavesKnown, Known
      <4>2. CASE ~IsEntry(line)
        BY <1>2, <1>3, <3>1, <4>2 DEF Reference, IsEntry, TreeInv, ChainKnown, Known
      <4>3. QED
        BY <4>1, <4>2
    <3>3. PICK j \in DOMAIN w : IsEntry(w[j]) /\ w[j].id = Reference(line)
      BY <1>2, <1>4, <3>2 DEF Traced
    <3>4. QED
      BY <1>6, <2>2, <3>3
  <2>3. QED
    BY <1>5, <2>1, <2>2
<1>9. ASSUME Once(w), ChainNew PROVE Once(v)
  <2> SUFFICES ASSUME NEW i \in DOMAIN v, NEW j \in DOMAIN v, IsEntry(v[i]), IsEntry(v[j]),
                      v[i].id = v[j].id
               PROVE  i = j
    BY DEF Once
  <2>1. ASSUME NEW k \in DOMAIN w, IsEntry(w[k]), IsEntry(line) PROVE w[k].id # line.id
    <3>1. line.id \notin IdsIn(mem)
      BY <1>2, <1>3, <1>9, <2>1 DEF ChainNew, IsEntry
    <3>2. QED
      BY <1>2, <1>4, <2>1, <3>1 DEF Traced
  <2>2. QED
    BY <1>5, <1>9, <2>1 DEF Once
<1>10. LeavesKnown(Replayed(v))
  <2>1. \A l \in Lanes :
          \/ Replayed(v).leaf[l] = mem.leaf[l]
          \/ line.kind \in {"entry", "create", "move"} /\ Replayed(v).leaf[l] = line.id
    BY <1>2, WrittenLine DEF line
  <2>2. IdsIn(mem) \subseteq IdsIn(Replayed(v)) /\ (IsEntry(line) => line.id \in IdsIn(Replayed(v)))
    BY <1>3
  <2>3. line.kind \in {"create", "move"} => Known(mem, line.id)
    BY <1>2, <1>3 DEF TreeInv, ChainKnown
  <2>4. QED
    BY <1>2, <2>1, <2>2, <2>3 DEF TreeInv, ChainKnown, LeavesKnown, Known, IsEntry
<1>11. QED
  BY <1>7, <1>8, <1>9, <1>10 DEF w, line, v

(* The queue after a step. *)
LEMMA CallsMade ==
    /\ \A id, l : AppendEntry(id, l) => \E call : Enqueue(call) /\ call.kind = "entry"
    /\ \A id : AppendRecord(id) => \E call : Enqueue(call) /\ call.kind = "record"
    /\ \A l : CreateLane(l) => \E call : Enqueue(call) /\ call.kind = "create"
    /\ \A l : MoveLane(l) => \E call : Enqueue(call) /\ call.kind = "move"
    /\ \A l : DeleteLane(l) => \E call : Enqueue(call) /\ call.kind = "delete"
    /\ AppendFact => \E call : Enqueue(call) /\ call.kind = "fact"
<1>1. ASSUME NEW id, NEW l, AppendEntry(id, l)
      PROVE  \E call : Enqueue(call) /\ call.kind = "entry"
  BY <1>1 DEF AppendEntry
<1>2. ASSUME NEW id, AppendRecord(id)
      PROVE  \E call : Enqueue(call) /\ call.kind = "record"
  BY <1>2 DEF AppendRecord
<1>3. ASSUME NEW l, CreateLane(l)
      PROVE  \E call : Enqueue(call) /\ call.kind = "create"
  BY <1>3 DEF CreateLane
<1>4. ASSUME NEW l, MoveLane(l)
      PROVE  \E call : Enqueue(call) /\ call.kind = "move"
  BY <1>4 DEF MoveLane
<1>5. ASSUME NEW l, DeleteLane(l)
      PROVE  \E call : Enqueue(call) /\ call.kind = "delete"
  BY <1>5 DEF DeleteLane
<1>6. ASSUME AppendFact
      PROVE  \E call : Enqueue(call) /\ call.kind = "fact"
  BY <1>6 DEF AppendFact
<1>7. QED
  BY <1>1, <1>2, <1>3, <1>4, <1>5, <1>6

LEMMA ChainKnownStep ==
    ASSUME NoneIsNoState, WritesAreWhole, JournalInv, LiveInv, LiveInv', TreeInv, [Next]_vars
    PROVE  ChainKnown'
<1> SUFFICES ASSUME Up' PROVE ChainKnown'
  BY DEF ChainKnown
<1>1. IsSequence(chain)
  BY DEF JournalInv, AllSequences
<1>2. ASSUME Up, UNCHANGED mem, NEW call, chain' = Append(chain, call),
             call.kind \in {"create", "move"} => Known(mem, call.id)
      PROVE  ChainKnown'
  <2>1. \A i \in DOMAIN chain' : chain'[i] = call \/ (i \in DOMAIN chain /\ chain'[i] = chain[i])
    BY <1>1, <1>2, AppendElements
  <2>2. QED
    BY <1>2, <2>1 DEF TreeInv, ChainKnown, LeavesKnown, Known
<1>3. ASSUME Up, UNCHANGED <<mem, chain>> PROVE ChainKnown'
  BY <1>3 DEF TreeInv, ChainKnown, LeavesKnown, Known
<1>4. CASE \/ \E id \in Ids : AppendRecord(id)
           \/ AppendFact
           \/ \E id \in Ids, l \in Lanes : AppendEntry(id, l)
           \/ \E l \in Lanes : CreateLane(l) \/ MoveLane(l) \/ DeleteLane(l)
  <2>1. PICK call : Enqueue(call) /\ (call.kind \in {"create", "move"} => Known(mem, call.id))
    <3> DEFINE Harmless == \E call : /\ Enqueue(call)
                                     /\ call.kind \in {"create", "move"} => Known(mem, call.id)
    <3>1. ASSUME NEW l \in Lanes, CreateLane(l) PROVE Harmless
      <4>1. PICK id \in {None} \cup Stored : Enqueue([kind |-> "create", lane |-> l, id |-> id])
        BY <3>1 DEF CreateLane
      <4>2. Known(mem, id)
        BY <4>1 DEF Known, Stored, IdsIn
      <4>3. QED
        BY <4>1, <4>2
    <3>2. ASSUME NEW l \in Lanes, MoveLane(l) PROVE Harmless
      <4>1. PICK id \in Stored : Enqueue([kind |-> "move", lane |-> l, id |-> id])
        BY <3>2 DEF MoveLane
      <4>2. Known(mem, id)
        BY <4>1 DEF Known, Stored, IdsIn
      <4>3. QED
        BY <4>1, <4>2
    <3>3. ASSUME NEW call, Enqueue(call), call.kind \notin {"create", "move"} PROVE Harmless
      BY <3>3
    <3>4. CASE \/ \E id \in Ids : AppendRecord(id)
               \/ AppendFact
               \/ \E id \in Ids, l \in Lanes : AppendEntry(id, l)
               \/ \E l \in Lanes : DeleteLane(l)
      <4>1. \E call : Enqueue(call) /\ call.kind \notin {"create", "move"}
        BY <3>4, CallsMade
      <4>2. QED
        BY <3>3, <4>1
    <3>5. QED
      BY <1>4, <3>1, <3>2, <3>4
  <2>2. QED
    BY <1>2, <2>1 DEF Enqueue
<1>5. CASE StartWrite \/ WriteSome \/ WriteRest \/ OtherReads \/ OtherTruncates \/ UNCHANGED vars
  BY <1>3, <1>5 DEF StartWrite, WriteSome, WriteRest, OtherReads, OtherTruncates, vars, Up
<1>6. CASE FailWrite
  <2>1. UNCHANGED mem /\ chain' = Tail(chain) /\ writer.pc # "idle"
    BY <1>6 DEF FailWrite, AfterFailure
  <2>2. Up /\ chain # <<>>
    BY <2>1, WriterFits
  <2>3. \A i \in DOMAIN chain' : i + 1 \in DOMAIN chain /\ chain'[i] = chain[i + 1]
    BY <1>1, <2>1, <2>2, TailElements
  <2>4. QED
    BY <2>1, <2>2, <2>3 DEF TreeInv, ChainKnown, LeavesKnown, Known
<1>7. CASE Resolve
  <2>1. mem' = ApplyLine(mem, writer.line) /\ chain' = Tail(chain) /\ writer.pc # "idle"
    BY <1>7 DEF Resolve
  <2>2. Up /\ chain # <<>> /\ 1 \in DOMAIN chain
    BY <2>1, WriterFits
  <2>3. \A i \in DOMAIN chain' : i + 1 \in DOMAIN chain /\ chain'[i] = chain[i + 1]
    BY <1>1, <2>1, <2>2, TailElements
  <2>4. /\ IdsIn(mem) \subseteq IdsIn(mem')
        /\ IsEntry(writer.line) => writer.line.id \in IdsIn(mem')
        /\ writer.line.kind \in {"create", "move"} => Known(mem, writer.line.id)
        /\ \A l \in Lanes :
             \/ mem'.leaf[l] = mem.leaf[l]
             \/ writer.line.kind \in {"entry", "create", "move"} /\ mem'.leaf[l] = writer.line.id
    BY <2>1, <2>2, WrittenLine DEF TreeInv, ChainKnown
  <2>5. QED
    BY <2>2, <2>3, <2>4 DEF TreeInv, ChainKnown, LeavesKnown, Known, IsEntry
<1>8. CASE Crash \/ Close
  BY <1>8 DEF Crash, Close, Up
<1>9. CASE Open
  <2>1. chain' = <<>> /\ (UNCHANGED mem \/ mem' = Replayed(Whole(file))) /\ ~Up
    BY <1>9 DEF Open, Replay, LiveInv, Queued
  <2>2. mem' = Replayed(Whole(file))
    BY <2>1 DEF Up
  <2>3. QED
    BY <2>1, <2>2 DEF TreeInv, ChainKnown
<1>10. QED
  BY <1>4, <1>5, <1>6, <1>7, <1>8, <1>9 DEF Next, Write

LEMMA ChainNewStep ==
    ASSUME NoneIsNoState, WritesAreWhole, IdsQueuedOnce, JournalInv, LiveInv, LiveInv',
           ChainNew, [Next]_vars
    PROVE  ChainNew'
<1> SUFFICES ASSUME Up' PROVE ChainNew'
  BY DEF ChainNew
<1>1. IsSequence(chain)
  BY DEF JournalInv, AllSequences
<1>2. ASSUME Up, UNCHANGED mem, NEW call, chain' = Append(chain, call),
             IsEntry(call) => /\ call.id \notin IdsIn(mem)
                              /\ \A i \in DOMAIN chain : IsEntry(chain[i]) => chain[i].id # call.id
      PROVE  ChainNew'
  <2>1. \A i \in DOMAIN chain' : \/ i = Len(chain) + 1 /\ chain'[i] = call
                                 \/ i \in DOMAIN chain /\ chain'[i] = chain[i]
    BY <1>1, <1>2, AppendElements
  <2>2. QED
    BY <1>2, <2>1 DEF ChainNew, Once
<1>3. ASSUME Up, UNCHANGED <<mem, chain>> PROVE ChainNew'
  BY <1>3 DEF ChainNew, Once
<1>4. CASE \/ \E id \in Ids : AppendRecord(id)
           \/ AppendFact
           \/ \E l \in Lanes : CreateLane(l) \/ MoveLane(l) \/ DeleteLane(l)
  <2>1. PICK call : Enqueue(call) /\ ~IsEntry(call)
    BY <1>4, CallsMade DEF IsEntry
  <2>2. QED
    BY <1>2, <2>1 DEF Enqueue
<1>5. ASSUME NEW id \in Ids, NEW l \in Lanes, AppendEntry(id, l)
      PROVE  ChainNew'
  <2> DEFINE call == [kind |-> "entry", id |-> id, lane |-> l]
  <2>1. Enqueue(call) /\ call.id = id
    BY <1>5 DEF AppendEntry
  <2>2. id \notin IdsIn(mem)
    BY <1>5 DEF AppendEntry, IsNewEntry, IdsIn
  <2>3. \A i \in DOMAIN chain : IsEntry(chain[i]) => chain[i].id # id
    BY <1>5 DEF AppendEntry, IdsQueuedOnce, Pending, IsEntry
  <2> HIDE DEF call
  <2>4. QED
    BY <1>2, <2>1, <2>2, <2>3 DEF Enqueue
<1>6. CASE StartWrite \/ WriteSome \/ WriteRest \/ OtherReads \/ OtherTruncates \/ UNCHANGED vars
  BY <1>3, <1>6 DEF StartWrite, WriteSome, WriteRest, OtherReads, OtherTruncates, vars, Up
<1>7. ASSUME writer.pc # "idle", chain' = Tail(chain),
             \/ UNCHANGED mem
             \/ IdsIn(mem') \subseteq IdsIn(mem) \cup IF IsEntry(chain[1]) THEN {chain[1].id} ELSE {}
      PROVE  ChainNew'
  <2>1. Up /\ chain # <<>> /\ 1 \in DOMAIN chain
    BY <1>7, WriterFits
  <2>2. \A i \in DOMAIN chain' :
          i \in Nat \ {0} /\ i + 1 \in DOMAIN chain /\ chain'[i] = chain[i + 1]
    BY <1>1, <1>7, <2>1, TailElements
  <2>3. Once(chain')
    BY <2>1, <2>2 DEF ChainNew, Once
  <2>4. ASSUME NEW i \in DOMAIN chain', IsEntry(chain'[i])
        PROVE  chain'[i].id \notin IdsIn(mem')
    <3>1. /\ i + 1 # 1 /\ i + 1 \in DOMAIN chain /\ chain'[i] = chain[i + 1]
          /\ chain[i + 1].id \notin IdsIn(mem)
      BY <2>1, <2>2, <2>4 DEF ChainNew
    <3>2. IsEntry(chain[1]) => chain[1].id # chain[i + 1].id
      BY <2>1, <2>4, <3>1 DEF ChainNew, Once
    <3>3. QED
      BY <1>7, <3>1, <3>2
  <2>5. QED
    BY <2>3, <2>4 DEF ChainNew
<1>8. CASE FailWrite
  BY <1>7, <1>8 DEF FailWrite, AfterFailure
<1>9. CASE Resolve
  <2>1. writer.pc # "idle" /\ chain' = Tail(chain) /\ mem' = ApplyLine(mem, writer.line)
    BY <1>9 DEF Resolve
  <2>2. IdsIn(mem') \subseteq IdsIn(mem) \cup IF IsEntry(chain[1]) THEN {chain[1].id} ELSE {}
    BY <2>1, WrittenLine DEF IsEntry
  <2>3. QED
    BY <1>7, <2>1, <2>2
<1>10. CASE Crash \/ Close
  BY <1>10 DEF Crash, Close, Up
<1>11. CASE Open
  <2>1. chain' = <<>>
    BY <1>11 DEF Open, LiveInv, Queued
  <2>2. QED
    BY <2>1 DEF ChainNew, Once
<1>12. QED
  BY <1>4, <1>5, <1>6, <1>8, <1>9, <1>10, <1>11 DEF Next, Write

LEMMA TreeStep ==
    ASSUME NoneIsNoState, WritesAreWhole, JournalInv, JournalInv', RepairIsCurrent,
           LiveInv, LiveInv', TreeInv, [Next]_vars
    PROVE  /\ TreeInv'
           /\ IdsQueuedOnce /\ NewInv => NewInv'
<1>1. ChainKnown'
  BY ChainKnownStep
<1>2. IdsQueuedOnce /\ NewInv => ChainNew'
  BY ChainNewStep DEF NewInv
<1>3. /\ Traced(Whole(file')) /\ Rooted(Whole(file')) /\ LeavesKnown(Replayed(Whole(file')))
      /\ NewInv => Once(Whole(file'))
  <2>1. CASE Whole(file') = Whole(file)
    BY <2>1 DEF TreeInv, NewInv
  <2>2. CASE WriteRest /\ Whole(file) = confirmed /\ Whole(file') = Append(confirmed, writer.line)
    <3>1. writer.pc # "idle"
      BY <2>2 DEF WriteRest
    <3>2. NewInv => Once(confirmed) /\ ChainNew
      BY <2>2 DEF NewInv
    <3>3. QED
      BY <2>2, <3>1, <3>2, TreeGrows
  <2>3. QED
    BY <2>1, <2>2, WholeStep
<1>4. QED
  BY <1>1, <1>2, <1>3 DEF TreeInv, NewInv

LEMMA TreeInvHolds ==
    NoneIsNoState /\ WritesAreWhole /\ DeletesAlone /\ Spec =>
        /\ [](JournalInv /\ TreeInv)
        /\ IdsQueuedOnce => [](JournalInv /\ NewInv)
<1> SUFFICES ASSUME NoneIsNoState, WritesAreWhole, DeletesAlone
             PROVE  Spec => /\ [](JournalInv /\ TreeInv)
                            /\ IdsQueuedOnce => [](JournalInv /\ NewInv)
  OBVIOUS
<1> DEFINE Inv == JournalInv /\ RepairIsCurrent /\ LiveInv /\ TreeInv /\ (IdsQueuedOnce => NewInv)
<1>1. Init => Inv
  BY InitJournalInv, InitLiveInv, InitTree DEF Init, RepairIsCurrent
<1>2. Inv /\ [Next]_vars => Inv'
  <2> SUFFICES ASSUME Inv, [Next]_vars PROVE Inv'
    OBVIOUS
  <2>1. JournalInv' /\ RepairIsCurrent'
    BY JournalInvStep, RepairStep
  <2>2. LiveInv'
    BY <2>1, RebuiltStep, LiveStep DEF LiveInv
  <2>3. TreeInv' /\ (IdsQueuedOnce => NewInv')
    BY <2>1, <2>2, TreeStep
  <2>4. QED
    BY <2>1, <2>2, <2>3
<1>3. Spec => []Inv
  BY <1>1, <1>2, PTL DEF Spec
<1>4. Inv => JournalInv /\ TreeInv /\ (IdsQueuedOnce => NewInv)
  OBVIOUS
<1> HIDE DEF Inv
<1>5. CASE IdsQueuedOnce
  <2>1. Inv => JournalInv /\ TreeInv /\ NewInv
    BY <1>4, <1>5
  <2>2. QED
    BY <1>3, <2>1, PTL
<1>6. CASE ~IdsQueuedOnce
  <2>1. Spec => [](JournalInv /\ TreeInv)
    BY <1>3, <1>4, PTL
  <2>2. QED
    BY <1>6, <2>1
<1>7. QED
  BY <1>5, <1>6

(* The entries of the file are those of its whole lines. *)
LEMMA EntriesAreWhole ==
    ASSUME JournalInv
    PROVE  \A i \in DOMAIN file :
             \/ i \in DOMAIN Whole(file) /\ Whole(file)[i] = file[i]
             \/ file[i] = Torn
<1>1. CASE Whole(file) = file
  BY <1>1
<1>2. CASE file = Append(confirmed, Torn) /\ Whole(file) = confirmed
  <2>1. IsSequence(confirmed)
    BY DEF JournalInv, AllSequences
  <2>2. QED
    BY <1>2, <2>1, AppendElements
<1>3. QED
  BY <1>1, <1>2, WholeFile

(* An append with an id that exists is not written again, whatever failed  *)
(* or crashed before it was tried anew.                                    *)
THEOREM EntryWrittenOnceCorrect ==
    NoneIsNoState /\ WritesAreWhole /\ DeletesAlone /\ IdsQueuedOnce /\ Spec => []EntryWrittenOnce
<1> SUFFICES ASSUME NoneIsNoState, WritesAreWhole, DeletesAlone, IdsQueuedOnce
             PROVE  Spec => []EntryWrittenOnce
  OBVIOUS
<1>1. JournalInv /\ NewInv => EntryWrittenOnce
  <2> SUFFICES ASSUME JournalInv, NewInv, NEW i \in DOMAIN file, NEW j \in DOMAIN file,
                      file[i].kind = "entry", file[j].kind = "entry", file[i].id = file[j].id
               PROVE  i = j
    BY DEF EntryWrittenOnce, Entries
  <2>1. file[i] # Torn /\ file[j] # Torn
    BY DEF Torn
  <2>2. QED
    BY <2>1, EntriesAreWhole DEF NewInv, Once, IsEntry
<1>2. Spec => [](JournalInv /\ NewInv)
  BY TreeInvHolds
<1>3. QED
  BY <1>1, <1>2, PTL

(* The tree has no cycle and no dangling reference, and what a lane or an  *)
(* entry refers to survives every crash that it survives.                  *)
THEOREM ParentBeforeChildCorrect ==
    NoneIsNoState /\ WritesAreWhole /\ DeletesAlone /\ Spec => []ParentBeforeChild
<1> SUFFICES ASSUME NoneIsNoState, WritesAreWhole, DeletesAlone
             PROVE  Spec => []ParentBeforeChild
  OBVIOUS
<1>1. JournalInv /\ TreeInv => ParentBeforeChild
  <2> SUFFICES ASSUME JournalInv, TreeInv, NEW i \in DOMAIN file, Reference(file[i]) # None
               PROVE  \E j \in Entries : j < i /\ file[j].id = Reference(file[i])
    BY DEF ParentBeforeChild
  <2>1. file[i] # Torn
    BY DEF Reference, Torn
  <2>2. i \in DOMAIN Whole(file) /\ Whole(file)[i] = file[i]
    BY <2>1, EntriesAreWhole
  <2>3. PICK j \in DOMAIN Whole(file) :
          j < i /\ IsEntry(Whole(file)[j]) /\ Whole(file)[j].id = Reference(file[i])
    BY <2>2 DEF TreeInv, Rooted
  <2>4. j \in DOMAIN file /\ file[j] = Whole(file)[j]
    BY <2>3, WholeFile, AppendElements DEF JournalInv, AllSequences
  <2>5. QED
    BY <2>3, <2>4 DEF Entries, IsEntry
<1>2. Spec => [](JournalInv /\ TreeInv)
  BY TreeInvHolds
<1>3. QED
  BY <1>1, <1>2, PTL
=============================================================================
