-------------------------- MODULE SessionLock_proofs --------------------------
(* The lock keeps running processes apart, for any number of handles and   *)
(* lock files, while calls of different processes do not overlap.          *)
EXTENDS SessionLock, TLAPS

(* Each handle belongs to a process of its own, no call begins while one   *)
(* of another process is under way, and none is stalled past the limit.    *)
Apart ==
    /\ Hazards = {}
    /\ \A g, h \in Handles : Pid[g] = Pid[h] => g = h
    /\ \A i \in Nat, p \in {None} \cup {Pid[h] : h \in Handles}, f \in BOOLEAN :
         None # [ino |-> i, pid |-> p, fresh |-> f]

Processes == {Pid[h] : h \in Handles}
Files == [ino : Nat, pid : {None} \cup Processes, fresh : BOOLEAN]
Labels == {"off", "held", "rejected", "failed", "released"} \cup Acquiring \cup Refreshing

Shapes ==
    /\ lock \in {None} \cup Files
    /\ files \in Nat
    /\ pc \in [Handles -> Labels] /\ fd \in [Handles -> Nat]

(* At most one running process is in the middle of a call. *)
OneCall ==
    \A g, h \in Handles :
        /\ pc[g] \in Acquiring \cup Refreshing /\ Alive(Pid[g])
        /\ pc[h] \in Acquiring \cup Refreshing /\ Alive(Pid[h])
        => g = h

Names(h) == lock # None /\ lock.pid = Pid[h]

(* What a running process knows of the file at each point of its calls. *)
Knows(h) ==
    Alive(Pid[h]) =>
        /\ pc[h] \in {"held", "beatOpen", "releaseUnlink"} => Names(h)
        /\ pc[h] \in {"write", "beatWrite"} => /\ lock # None /\ lock.pid = None
                                               /\ lock.ino = fd[h]
        /\ pc[h] = "unlink" =>
             \A g \in Handles : pc[g] = "held" => ~Alive(Pid[g])

(* A name in the file is that of a holder, or of a dead process; only the  *)
(* latter grows old.                                                       *)
Named ==
    lock # None /\ lock.pid # None =>
        \/ ~Alive(lock.pid)
        \/ /\ lock.fresh
           /\ \E g \in Handles : /\ Pid[g] = lock.pid
                                 /\ pc[g] \in {"held", "beatOpen", "releaseUnlink"}

LockInv == Shapes /\ OneCall /\ (\A h \in Handles : Knows(h)) /\ Named

LEMMA InitLockInv == Init => LockInv
BY DEF Init, LockInv, Shapes, OneCall, Knows, Named, Labels, Acquiring, Refreshing

-----------------------------------------------------------------------------
(* A step of one handle, while no other running process is in a call.      *)

Busy == Acquiring \cup Refreshing

Alone(h) == \A g \in Handles : g # h /\ pc[g] \in Busy => Pid[g] \in dead

LEMMA BusyIsAlone ==
    ASSUME LockInv, NEW h \in Handles, Runs(h), pc[h] \in Busy
    PROVE  Alone(h)
BY DEF LockInv, OneCall, Alone, Busy, Runs, Alive

LEMMA CallerIsAlone ==
    ASSUME Apart, NEW h \in Handles, MayAcquire(h) \/ MayRefresh(h)
    PROVE  Alone(h)
BY DEF Apart, MayAcquire, MayRefresh, Alone, Busy, Alive

LEMMA GotoEffect ==
    ASSUME LockInv, NEW h \in Handles, NEW label \in Labels, Goto(h, label)
    PROVE  /\ pc' \in [Handles -> Labels] /\ pc'[h] = label
           /\ \A g \in Handles : g # h => pc'[g] = pc[g]
BY DEF LockInv, Shapes, Goto

(* What the others know stays true if the holders among them keep the file. *)
LEMMA StepKeeps ==
    ASSUME LockInv, NEW h \in Handles, Alone(h), Pid[h] \notin dead, UNCHANGED dead,
           \A g \in Handles : g # h => pc'[g] = pc[g],
           \A g \in Handles : g # h /\ pc[g] = "held" /\ Pid[g] \notin dead
                                => lock' # None /\ lock'.pid = Pid[g],
           Shapes', Knows(h)', Named'
    PROVE  LockInv'
<1>1. OneCall'
  BY DEF OneCall, Alone, Busy, Alive
<1>2. ASSUME NEW g \in Handles PROVE Knows(g)'
  <2>1. CASE g = h
    BY <2>1
  <2>2. CASE g # h /\ Pid[g] \in dead
    BY <2>2 DEF Knows, Alive
  <2>3. CASE g # h /\ Pid[g] \notin dead
    <3>1. pc'[g] \notin Busy
      BY <2>3 DEF Alone
    <3>2. pc'[g] = "held" => lock' # None /\ lock'.pid = Pid[g]
      BY <2>3
    <3>3. QED
      BY <3>1, <3>2 DEF Knows, Names, Busy, Acquiring, Refreshing
  <2>4. QED
    BY <2>1, <2>2, <2>3
<1>3. QED
  BY <1>1, <1>2 DEF LockInv

(* The step leaves the file alone, and the handle moves between points at  *)
(* which it is no holder.                                                  *)
LEMMA QuietStep ==
    ASSUME LockInv, NEW h \in Handles, Alone(h), Pid[h] \notin dead,
           NEW label \in Labels, Goto(h, label), UNCHANGED <<lock, files, fd, dead>>,
           pc[h] \notin {"held", "beatOpen", "releaseUnlink"}, Knows(h)'
    PROVE  LockInv'
<1>1. /\ pc' \in [Handles -> Labels] /\ pc'[h] = label
      /\ \A g \in Handles : g # h => pc'[g] = pc[g]
  BY GotoEffect
<1>2. Shapes'
  BY <1>1 DEF LockInv, Shapes
<1>3. Named'
  BY <1>1 DEF LockInv, Named, Alive
<1>4. \A g \in Handles : g # h /\ pc[g] = "held" /\ Pid[g] \notin dead
                           => lock' # None /\ lock'.pid = Pid[g]
  BY DEF LockInv, Knows, Names, Alive
<1>5. QED
  BY <1>1, <1>2, <1>3, <1>4, StepKeeps

(* No running process holds the session while the file is as these say.    *)
NoHolder == \A g \in Handles : pc[g] = "held" => Pid[g] \in dead

LEMMA FreeMeansNoHolder ==
    ASSUME LockInv, lock = None \/ lock.pid = None
    PROVE  NoHolder
<1>1. \A g \in Handles : Pid[g] # None
  BY LockAssumption
<1>2. QED
  BY <1>1 DEF NoHolder, LockInv, Knows, Names, Alive

LEMMA AcquirePreserves ==
    ASSUME Apart, LockInv, NEW h \in Handles, Acquire(h)
    PROVE  LockInv'
<1>1. Alone(h)
  BY CallerIsAlone DEF Acquire
<1>2. /\ pc[h] = "off" /\ Pid[h] \notin dead /\ Goto(h, "try") /\ "try" \in Labels
      /\ UNCHANGED <<lock, files, fd, dead>>
  BY DEF Acquire, Runs, Alive, Labels, Acquiring
<1>3. Knows(h)'
  BY <1>2, GotoEffect DEF Knows
<1>4. QED
  BY <1>1, <1>2, <1>3, QuietStep

LEMMA TryCreatePreserves ==
    ASSUME Apart, LockInv, NEW h \in Handles, TryCreate(h)
    PROVE  LockInv'
<1>1. pc[h] = "try" /\ Runs(h) /\ Pid[h] \notin dead /\ UNCHANGED dead
  BY DEF TryCreate, Runs, Alive
<1>2. Alone(h)
  BY <1>1, BusyIsAlone DEF Busy, Acquiring
<1>3. CASE lock = None /\ NewFile(h) /\ Goto(h, "write")
  <2>1. /\ pc' \in [Handles -> Labels] /\ pc'[h] = "write"
        /\ \A g \in Handles : g # h => pc'[g] = pc[g]
    BY <1>3, GotoEffect DEF Labels, Acquiring
  <2>2. /\ files' \in Nat /\ fd' \in [Handles -> Nat] /\ fd'[h] = files'
        /\ lock' = [ino |-> files', pid |-> None, fresh |-> TRUE]
    BY <1>3 DEF NewFile, LockInv, Shapes
  <2>3. lock' \in Files /\ lock' # None /\ lock'.ino = fd'[h] /\ lock'.pid = None
    BY <2>2 DEF Files, Apart
  <2>4. Shapes'
    BY <2>1, <2>2, <2>3 DEF Shapes
  <2>5. Knows(h)' /\ Named'
    BY <2>1, <2>3 DEF Knows, Named
  <2>6. NoHolder
    BY <1>3, FreeMeansNoHolder
  <2>7. QED
    BY <1>1, <1>2, <2>1, <2>4, <2>5, <2>6, StepKeeps DEF NoHolder
<1>4. CASE Goto(h, "read") /\ UNCHANGED <<lock, files, fd>>
  <2>1. "read" \in Labels
    BY DEF Labels, Acquiring
  <2>2. Knows(h)'
    BY <1>4, <2>1, GotoEffect DEF Knows
  <2>3. QED
    BY <1>1, <1>2, <1>4, <2>1, <2>2, QuietStep
<1>5. QED
  BY <1>3, <1>4, Zenon DEF TryCreate

LEMMA WriteEffect ==
    ASSUME Apart, LockInv, NEW h \in Handles, Pid[h] \notin dead, WriteContent(h), Goto(h, "held"),
           pc[h] \in {"write", "beatWrite"}, UNCHANGED <<files, fd, dead>>, Alone(h)
    PROVE  LockInv'
<1>1. lock # None /\ lock.pid = None /\ lock.ino = fd[h]
  BY DEF LockInv, Knows, Alive
<1>2. lock' = [lock EXCEPT !.pid = Pid[h], !.fresh = TRUE]
  BY <1>1 DEF WriteContent
<1>3. lock \in Files /\ Pid[h] \in Processes
  BY <1>1 DEF LockInv, Shapes, Processes
<1>4. lock' \in Files /\ lock'.pid = Pid[h] /\ lock'.fresh
  BY <1>2, <1>3 DEF Files
<1>5. /\ pc' \in [Handles -> Labels] /\ pc'[h] = "held"
      /\ \A g \in Handles : g # h => pc'[g] = pc[g]
  BY GotoEffect DEF Labels
<1>6. lock' # None
  <2>1. PICK i \in Nat, q \in {None} \cup Processes, f \in BOOLEAN :
          lock' = [ino |-> i, pid |-> q, fresh |-> f]
    BY <1>4 DEF Files
  <2>2. QED
    BY <2>1 DEF Apart, Processes
<1>7. Shapes'
  BY <1>4, <1>5 DEF LockInv, Shapes
<1>8. Knows(h)'
  BY <1>4, <1>5, <1>6 DEF Knows, Names
<1>9. Named'
  BY <1>4, <1>5 DEF Named
<1>10. NoHolder
  BY <1>1, FreeMeansNoHolder
<1>11. QED
  BY <1>5, <1>7, <1>8, <1>9, <1>10, StepKeeps DEF NoHolder

LEMMA WriteLockPreserves ==
    ASSUME Apart, LockInv, NEW h \in Handles, WriteLock(h)
    PROVE  LockInv'
<1>1. /\ pc[h] = "write" /\ Runs(h) /\ Pid[h] \notin dead
      /\ WriteContent(h) /\ Goto(h, "held") /\ UNCHANGED <<files, fd, dead>>
  BY DEF WriteLock, Runs, Alive
<1>2. Alone(h)
  BY <1>1, BusyIsAlone DEF Busy, Acquiring
<1>3. QED
  BY <1>1, <1>2, WriteEffect

LEMMA BeatWritePreserves ==
    ASSUME Apart, LockInv, NEW h \in Handles, BeatWrite(h)
    PROVE  LockInv'
<1>1. /\ pc[h] = "beatWrite" /\ Runs(h) /\ Pid[h] \notin dead
      /\ WriteContent(h) /\ Goto(h, "held") /\ UNCHANGED <<files, fd, dead>>
  BY DEF BeatWrite, Runs, Alive
<1>2. Alone(h)
  BY <1>1, BusyIsAlone DEF Busy, Refreshing
<1>3. QED
  BY <1>1, <1>2, WriteEffect

(* Whoever decides to replace the file replaces no running holder's.       *)
LEMMA ReplaceableMeansNoHolder ==
    ASSUME Apart, LockInv, NEW h \in Handles, pc[h] = "read", Pid[h] \notin dead,
           Unreadable \/ CanTakeOver(h)
    PROVE  NoHolder
<1>1. CASE lock = None \/ lock.pid = None
  BY <1>1, FreeMeansNoHolder
<1>2. CASE lock # None /\ lock.pid # None
  <2> SUFFICES ASSUME NEW g \in Handles, pc[g] = "held", Pid[g] \notin dead
               PROVE  FALSE
    BY DEF NoHolder
  <2>1. lock.pid = Pid[g]
    BY DEF LockInv, Knows, Names, Alive
  <2>2. lock.fresh
    BY <1>2, <2>1 DEF LockInv, Named, Alive
  <2>3. lock.pid = Pid[h]
    BY <1>2, <2>1, <2>2 DEF Unreadable, CanTakeOver, Alive
  <2>4. QED
    BY <2>1, <2>3 DEF Apart
<1>3. QED
  BY <1>1, <1>2

LEMMA ReadLockPreserves ==
    ASSUME Apart, LockInv, NEW h \in Handles, ReadLock(h)
    PROVE  LockInv'
<1>1. pc[h] = "read" /\ Runs(h) /\ Pid[h] \notin dead /\ UNCHANGED <<lock, files, fd, dead>>
  BY DEF ReadLock, Runs, Alive
<1>2. Alone(h)
  BY <1>1, BusyIsAlone DEF Busy, Acquiring
<1>3. ASSUME NEW label \in {"rejected", "failed"}, Goto(h, label) PROVE LockInv'
  <2>1. label \in Labels
    BY DEF Labels
  <2>2. Knows(h)'
    BY <1>3, <2>1, GotoEffect DEF Knows
  <2>3. QED
    BY <1>1, <1>2, <1>3, <2>1, <2>2, QuietStep
<1>4. CASE (Unreadable \/ CanTakeOver(h)) /\ Goto(h, "unlink")
  <2>1. NoHolder
    BY <1>1, <1>4, ReplaceableMeansNoHolder
  <2>2. "unlink" \in Labels
    BY DEF Labels, Acquiring
  <2>3. /\ pc'[h] = "unlink" /\ \A g \in Handles : g # h => pc'[g] = pc[g]
    BY <1>4, <2>2, GotoEffect
  <2>4. Knows(h)'
    BY <1>1, <2>1, <2>3 DEF Knows, NoHolder, Alive
  <2>5. QED
    BY <1>1, <1>2, <1>4, <2>2, <2>4, QuietStep
<1>5. QED
  <2>1. \/ Goto(h, "rejected") \/ Goto(h, "failed")
        \/ (Unreadable \/ CanTakeOver(h)) /\ Goto(h, "unlink")
    BY Zenon DEF ReadLock
  <2>2. QED
    BY <1>3, <1>4, <2>1

LEMMA UnlinkStalePreserves ==
    ASSUME Apart, LockInv, NEW h \in Handles, UnlinkStale(h)
    PROVE  LockInv'
<1>1. /\ pc[h] = "unlink" /\ Runs(h) /\ Pid[h] \notin dead /\ lock' \in {None, lock}
      /\ Goto(h, "try") /\ UNCHANGED <<files, fd, dead>>
  BY DEF UnlinkStale, Runs, Alive
<1>2. Alone(h)
  BY <1>1, BusyIsAlone DEF Busy, Acquiring
<1>3. NoHolder
  BY <1>1 DEF LockInv, Knows, NoHolder, Alive
<1>4. /\ pc' \in [Handles -> Labels] /\ pc'[h] = "try"
      /\ \A g \in Handles : g # h => pc'[g] = pc[g]
  BY <1>1, GotoEffect DEF Labels, Acquiring
<1>5. Shapes'
  BY <1>1, <1>4 DEF LockInv, Shapes
<1>6. Knows(h)'
  BY <1>4 DEF Knows
<1>7. Named'
  BY <1>1, <1>4 DEF LockInv, Named, Alive
<1>8. QED
  BY <1>1, <1>2, <1>3, <1>4, <1>5, <1>6, <1>7, StepKeeps DEF NoHolder

LEMMA BeatReadPreserves ==
    ASSUME Apart, LockInv, NEW h \in Handles, BeatRead(h)
    PROVE  LockInv'
<1>1. /\ pc[h] = "held" /\ MayRefresh(h) /\ Pid[h] \notin dead /\ Names(h)
      /\ Goto(h, "beatOpen") /\ UNCHANGED <<lock, files, fd, dead>>
  BY DEF BeatRead, Runs, Alive, Names
<1>2. Alone(h)
  BY <1>1, CallerIsAlone
<1>3. /\ pc' \in [Handles -> Labels] /\ pc'[h] = "beatOpen"
      /\ \A g \in Handles : g # h => pc'[g] = pc[g]
  BY <1>1, GotoEffect DEF Labels, Refreshing
<1>4. Shapes'
  BY <1>1, <1>3 DEF LockInv, Shapes
<1>5. Knows(h)' /\ Named'
  BY <1>1, <1>3 DEF LockInv, Knows, Named, Names, Alive
<1>6. QED
  BY <1>1, <1>2, <1>3, <1>4, <1>5, StepKeeps DEF LockInv, Knows, Names, Alive

LEMMA BeatOpenPreserves ==
    ASSUME Apart, LockInv, NEW h \in Handles, BeatOpen(h)
    PROVE  LockInv'
<1>1. /\ pc[h] = "beatOpen" /\ Runs(h) /\ Pid[h] \notin dead
      /\ Goto(h, "beatWrite") /\ UNCHANGED dead
  BY DEF BeatOpen, Runs, Alive
<1>2. Alone(h)
  BY <1>1, BusyIsAlone DEF Busy, Refreshing
<1>3. Names(h)
  BY <1>1 DEF LockInv, Knows, Alive
<1>4. /\ lock' = [lock EXCEPT !.pid = None]
      /\ fd' = [fd EXCEPT ![h] = lock.ino] /\ UNCHANGED files
  BY <1>3, Zenon DEF BeatOpen, Names
<1>5. lock \in Files
  BY <1>3 DEF LockInv, Shapes, Names
<1>6. /\ lock' \in Files /\ lock'.pid = None /\ lock'.ino = lock.ino
      /\ fd' \in [Handles -> Nat] /\ fd'[h] = lock.ino
  BY <1>4, <1>5 DEF LockInv, Shapes, Files
<1>7. lock' # None
  <2>1. PICK i \in Nat, q \in {None} \cup Processes, f \in BOOLEAN :
          lock' = [ino |-> i, pid |-> q, fresh |-> f]
    BY <1>6 DEF Files
  <2>2. QED
    BY <2>1 DEF Apart, Processes
<1>8. /\ pc' \in [Handles -> Labels] /\ pc'[h] = "beatWrite"
      /\ \A g \in Handles : g # h => pc'[g] = pc[g]
  BY <1>1, GotoEffect DEF Labels, Refreshing
<1>9. Shapes'
  BY <1>4, <1>6, <1>8 DEF LockInv, Shapes
<1>10. Knows(h)' /\ Named'
  BY <1>6, <1>7, <1>8 DEF Knows, Named
<1>11. \A g \in Handles : g # h => ~(pc[g] = "held" /\ Pid[g] \notin dead)
  BY <1>3 DEF LockInv, Knows, Names, Apart, Alive
<1>12. QED
  BY <1>1, <1>2, <1>8, <1>9, <1>10, <1>11, StepKeeps

LEMMA ReleasePreserves ==
    ASSUME Apart, LockInv, NEW h \in Handles, Release(h)
    PROVE  LockInv'
<1>1. /\ pc[h] = "held" /\ MayRefresh(h) /\ Pid[h] \notin dead
      /\ UNCHANGED <<lock, files, fd, dead>>
  BY DEF Release, Runs, Alive
<1>2. Alone(h)
  BY <1>1, CallerIsAlone
<1>3. Names(h)
  BY <1>1 DEF LockInv, Knows, Alive
<1>4. Goto(h, "releaseUnlink")
  BY <1>3, Zenon DEF Release, Names
<1>5. /\ pc' \in [Handles -> Labels] /\ pc'[h] = "releaseUnlink"
      /\ \A g \in Handles : g # h => pc'[g] = pc[g]
  BY <1>4, GotoEffect DEF Labels, Refreshing
<1>6. Shapes'
  BY <1>1, <1>5 DEF LockInv, Shapes
<1>7. Knows(h)' /\ Named'
  BY <1>1, <1>3, <1>5 DEF LockInv, Knows, Named, Names, Alive
<1>8. QED
  BY <1>1, <1>2, <1>5, <1>6, <1>7, StepKeeps DEF LockInv, Knows, Names, Alive

LEMMA ReleaseUnlinkPreserves ==
    ASSUME Apart, LockInv, NEW h \in Handles, ReleaseUnlink(h)
    PROVE  LockInv'
<1>1. /\ pc[h] = "releaseUnlink" /\ Runs(h) /\ Pid[h] \notin dead
      /\ lock' = None /\ Goto(h, "released") /\ UNCHANGED <<files, fd, dead>>
  BY DEF ReleaseUnlink, Runs, Alive
<1>2. Alone(h)
  BY <1>1, BusyIsAlone DEF Busy, Refreshing
<1>3. \A g \in Handles : g # h => ~(pc[g] = "held" /\ Pid[g] \notin dead)
  BY <1>1 DEF LockInv, Knows, Names, Apart, Alive
<1>4. /\ pc' \in [Handles -> Labels] /\ pc'[h] = "released"
      /\ \A g \in Handles : g # h => pc'[g] = pc[g]
  BY <1>1, GotoEffect DEF Labels
<1>5. Shapes'
  BY <1>1, <1>4 DEF LockInv, Shapes
<1>6. Knows(h)' /\ Named'
  BY <1>1, <1>4 DEF Knows, Named
<1>7. QED
  BY <1>1, <1>2, <1>3, <1>4, <1>5, <1>6, StepKeeps

-----------------------------------------------------------------------------
(* Processes and time.                                                     *)

LEMMA CrashPreserves ==
    ASSUME LockInv, NEW p, Crash(p)
    PROVE  LockInv'
<1>1. dead' = dead \cup {p} /\ UNCHANGED <<lock, files, pc, fd>>
  BY DEF Crash
<1>2. Shapes' /\ OneCall' /\ Named'
  BY <1>1 DEF LockInv, Shapes, OneCall, Named, Alive
<1>3. \A h \in Handles : Knows(h)'
  BY <1>1 DEF LockInv, Knows, Names, Alive
<1>4. QED
  BY <1>2, <1>3 DEF LockInv

LEMMA ExpirePreserves ==
    ASSUME Apart, LockInv, Expire
    PROVE  LockInv'
<1>1. /\ lock # None /\ lock.pid # None /\ lock.pid \in dead
      /\ lock' = [lock EXCEPT !.fresh = FALSE] /\ UNCHANGED <<files, pc, fd, dead>>
  BY DEF Expire, Apart, Alive
<1>2. lock \in Files
  BY <1>1 DEF LockInv, Shapes
<1>3. /\ lock' \in Files /\ lock'.pid = lock.pid /\ lock'.ino = lock.ino
  BY <1>1, <1>2 DEF Files
<1>4. Shapes' /\ OneCall' /\ Named'
  BY <1>1, <1>3 DEF LockInv, Shapes, OneCall, Named, Alive
<1>5. \A h \in Handles : ~Names(h) \/ Pid[h] \in dead
  BY <1>1 DEF Names
<1>6. ASSUME NEW h \in Handles PROVE Knows(h)'
  BY <1>1, <1>5 DEF LockInv, Knows, Alive
<1>7. QED
  BY <1>4, <1>6 DEF LockInv

LEMMA LockInvStep == Apart /\ LockInv /\ [Next]_vars => LockInv'
<1> SUFFICES ASSUME Apart, LockInv, [Next]_vars PROVE LockInv'
  OBVIOUS
<1>1. ASSUME NEW h \in Handles, Acquire(h) \/ AcquireStep(h) PROVE LockInv'
  BY <1>1, AcquirePreserves, TryCreatePreserves, WriteLockPreserves, ReadLockPreserves,
     UnlinkStalePreserves DEF AcquireStep
<1>2. ASSUME NEW h \in Handles, BeatRead(h) \/ BeatOpen(h) \/ BeatWrite(h) PROVE LockInv'
  BY <1>2, BeatReadPreserves, BeatOpenPreserves, BeatWritePreserves
<1>3. ASSUME NEW h \in Handles, Release(h) \/ ReleaseUnlink(h) PROVE LockInv'
  BY <1>3, ReleasePreserves, ReleaseUnlinkPreserves
<1>4. ASSUME NEW h \in Handles, Crash(Pid[h]) PROVE LockInv'
  BY <1>4, CrashPreserves
<1>5. ASSUME UNCHANGED <<lock, files, pc, fd, dead>> PROVE LockInv'
  BY <1>5 DEF LockInv, Shapes, OneCall, Knows, Names, Named, Alive
<1>6. CASE Wake \/ (\E h \in Handles : Stall(Pid[h])) \/ UNCHANGED vars
  BY <1>5, <1>6 DEF Wake, Stall, vars
<1>7. CASE Expire
  BY <1>7, ExpirePreserves
<1>8. QED
  BY <1>1, <1>2, <1>3, <1>4, <1>6, <1>7, Zenon DEF Next

LEMMA LockInvHolds == Apart /\ Spec => []LockInv
<1>1. Apart => []Apart
  <2>1. Apart => Apart'
    BY DEF Apart
  <2>2. QED
    BY <2>1, PTL
<1>2. Init => LockInv
  BY InitLockInv
<1>3. Apart /\ LockInv /\ [Next]_vars => LockInv'
  BY LockInvStep
<1>4. QED
  BY <1>1, <1>2, <1>3, PTL DEF Spec

-----------------------------------------------------------------------------
(* The theorems.                                                           *)

(* Two running processes never both hold the session, and the file names   *)
(* the one that does, through takeovers from dead processes and rewritten  *)
(* heartbeats (lock.ts acquireSessionLock, heartbeatOf).                   *)
THEOREM MutualExclusionCorrect == Apart /\ Spec => []MutualExclusion
<1>1. Apart /\ LockInv => MutualExclusion
  <2> SUFFICES ASSUME Apart, LockInv PROVE MutualExclusion
    OBVIOUS
  <2>1. HolderHasFile
    BY DEF LockInv, Knows, Names, HolderHasFile
  <2>2. ASSUME NEW g \in Handles, NEW h \in Handles,
               Holding(g), Holding(h), Alive(Pid[g]), Alive(Pid[h])
        PROVE  Pid[g] = Pid[h]
    <3>1. CASE pc[g] = "beatWrite" /\ pc[h] = "beatWrite"
      BY <2>2, <3>1 DEF LockInv, OneCall, Refreshing
    <3>2. CASE pc[g] # "beatWrite" /\ pc[h] # "beatWrite"
      BY <2>2, <3>2 DEF LockInv, Knows, Names, Holding
    <3>3. CASE pc[g] = "beatWrite" /\ pc[h] # "beatWrite"
      BY <2>2, <3>3, LockAssumption DEF LockInv, Knows, Names, Holding
    <3>4. CASE pc[g] # "beatWrite" /\ pc[h] = "beatWrite"
      BY <2>2, <3>4, LockAssumption DEF LockInv, Knows, Names, Holding
    <3>5. QED
      BY <3>1, <3>2, <3>3, <3>4
  <2>3. QED
    BY <2>1, <2>2 DEF MutualExclusion
<1>2. QED
  <2>1. Apart => []Apart
    <3>1. Apart => Apart'
      BY DEF Apart
    <3>2. QED
      BY <3>1, PTL
  <2>2. QED
    BY <1>1, <2>1, LockInvHolds, PTL

(* A call is refused only because of a process that runs and holds the     *)
(* session: no crash, at whatever point of a call, locks anyone out.       *)
THEOREM RefusedByHolderCorrect == Apart /\ Spec => RefusedByHolder
<1>1. ASSUME Apart, LockInv, [Next]_vars, NEW h \in Handles,
             pc[h] = "read", pc'[h] = "rejected"
      PROVE  \E g \in Handles : Holding(g) /\ Alive(Pid[g]) /\ Pid[g] # Pid[h]
  <2>1. ASSUME NEW k \in Handles, NEW label, Goto(k, label), k # h \/ label # "rejected"
        PROVE  FALSE
    BY <1>1, <2>1 DEF Goto, LockInv, Shapes
  <2>2. ReadLock(h)
    <3>1. ASSUME NEW k \in Handles, Acquire(k) \/ TryCreate(k) \/ WriteLock(k) \/ UnlinkStale(k)
          PROVE  FALSE
      BY <2>1, <3>1, Zenon DEF Acquire, TryCreate, WriteLock, UnlinkStale
    <3>2. ASSUME NEW k \in Handles, BeatRead(k) \/ BeatOpen(k) \/ BeatWrite(k) \/ ReleaseUnlink(k)
          PROVE  FALSE
      BY <2>1, <3>2, Zenon DEF BeatRead, BeatOpen, BeatWrite, ReleaseUnlink
    <3>3. ASSUME NEW k \in Handles, Release(k) PROVE FALSE
      <4>1. k # h
        BY <1>1, <3>3 DEF Release
      <4>2. QED
        BY <2>1, <3>3, <4>1, Zenon DEF Release
    <3>4. ASSUME NEW k \in Handles, k # h, ReadLock(k) PROVE FALSE
      BY <2>1, <3>4, Zenon DEF ReadLock
    <3>5. ASSUME UNCHANGED pc PROVE FALSE
      BY <1>1, <3>5
    <3>6. ~(Wake \/ Expire \/ UNCHANGED vars \/ \E k \in Handles : Crash(Pid[k]) \/ Stall(Pid[k]))
      BY <3>5 DEF Wake, Expire, vars, Crash, Stall
    <3>7. QED
      BY <1>1, <3>1, <3>2, <3>3, <3>4, <3>6, Zenon DEF Next, AcquireStep
  <2>3. ~Unreadable /\ ~CanTakeOver(h)
    <3>1. CASE Goto(h, IF tries[h] >= MaxTries THEN "failed" ELSE "unlink")
      BY <2>1, <3>1
    <3>2. QED
      BY <2>2, <3>1, Zenon DEF ReadLock
  <2>4. lock # None /\ lock.pid # None /\ lock.pid # Pid[h] /\ lock.pid \notin dead
    BY <2>3 DEF Unreadable, CanTakeOver, Alive
  <2>5. PICK g \in Handles : /\ Pid[g] = lock.pid
                             /\ pc[g] \in {"held", "beatOpen", "releaseUnlink"}
    BY <1>1, <2>4 DEF LockInv, Named, Alive
  <2>6. pc[g] # "releaseUnlink"
    <3>1. Runs(h) /\ pc[h] \in Busy
      BY <2>2 DEF ReadLock, Busy, Acquiring
    <3>2. Alone(h)
      BY <1>1, <3>1, BusyIsAlone
    <3>3. QED
      BY <2>4, <2>5, <3>2 DEF Alone, Busy, Refreshing
  <2>7. QED
    BY <2>4, <2>5, <2>6 DEF Holding, Alive
<1>2. Apart /\ LockInv /\ [Next]_vars =>
        [\A h \in Handles : pc[h] = "read" /\ pc'[h] = "rejected" =>
           \E g \in Handles : Holding(g) /\ Alive(Pid[g]) /\ Pid[g] # Pid[h]]_vars
  BY <1>1
<1>3. Apart => []Apart
  <2>1. Apart => Apart'
    BY DEF Apart
  <2>2. QED
    BY <2>1, PTL
<1>4. QED
  BY <1>2, <1>3, LockInvHolds, PTL DEF Spec, RefusedByHolder

=============================================================================
