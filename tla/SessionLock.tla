----------------------------- MODULE SessionLock -----------------------------
(***************************************************************************)
(* The session lock file (harness/lock.ts): one process writes a session.  *)
(* A handle is one call of acquireSessionLock; handles of the same process *)
(* share a pid.  Every file system call is a step of its own.              *)
(*                                                                         *)
(* Time is reduced to whether the recorded heartbeat is fresh: the timer   *)
(* of a running holder beats three times within the stale limit, so a      *)
(* heartbeat grows old only if its process is stalled.                     *)
(***************************************************************************)
EXTENDS Integers, FiniteSets

CONSTANTS
    Handles,
    Pid,       \* [Handles -> process]
    None,
    Hazards,   \* calls of different handles that may overlap; long stalls
    MaxFiles   \* bound: heartbeats stop when so many lock files were created

ASSUME LockAssumption ==
    /\ DOMAIN Pid = Handles /\ \A h \in Handles : Pid[h] # None
    /\ Hazards \subseteq {"acquire", "heartbeat", "stall"}
    /\ MaxFiles \in Nat

VARIABLES
    lock,   \* the file at the path: None or [ino, pid, fresh]; no pid: empty
    files,  \* lock files created so far
    pc, fd, tries, \* per handle
    dead,   \* processes that have crashed
    stalled \* a process whose timers do not run, or None

vars == <<lock, files, pc, fd, tries, dead, stalled>>

Init ==
    /\ lock = None /\ files = 0
    /\ pc = [h \in Handles |-> "off"] /\ fd = [h \in Handles |-> 0]
    /\ tries = [h \in Handles |-> 0]
    /\ dead = {} /\ stalled = None

Alive(pid) == pid \notin dead
Acquiring == {"try", "write", "read", "unlink"}
Refreshing == {"beatOpen", "beatWrite", "releaseUnlink"}
Holding(h) == pc[h] \in {"held", "beatOpen", "beatWrite"}

Runs(h) == Alive(Pid[h]) /\ stalled # Pid[h]

(* Environment: which calls may be under way when another one begins. *)
MayAcquire(h) ==
    \A g \in Handles \ {h} :
        /\ pc[g] \in Acquiring /\ Alive(Pid[g]) => "acquire" \in Hazards
        /\ pc[g] \in Refreshing /\ Alive(Pid[g]) => "heartbeat" \in Hazards
MayRefresh(h) ==
    \A g \in Handles \ {h} :
        pc[g] \in Acquiring \cup Refreshing /\ Alive(Pid[g]) => "heartbeat" \in Hazards

Goto(h, label) == pc' = [pc EXCEPT ![h] = label]
NewFile(h) ==
    /\ files' = files + 1
    /\ fd' = [fd EXCEPT ![h] = files + 1]
    /\ lock' = [ino |-> files + 1, pid |-> None, fresh |-> TRUE]

(* Writing the content reaches the path unless the file was unlinked. *)
WriteContent(h) ==
    lock' = IF lock # None /\ lock.ino = fd[h]
            THEN [lock EXCEPT !.pid = Pid[h], !.fresh = TRUE] ELSE lock

-----------------------------------------------------------------------------
(* acquireSessionLock *)

Acquire(h) ==
    /\ pc[h] = "off" /\ Runs(h) /\ MayAcquire(h)
    /\ Goto(h, "try")
    /\ UNCHANGED <<lock, files, fd, tries, dead, stalled>>

(* open 'wx': create the file, or learn that it exists. *)
TryCreate(h) ==
    /\ pc[h] = "try" /\ Runs(h)
    /\ \/ lock = None /\ NewFile(h) /\ Goto(h, "write")
       \/ lock # None /\ Goto(h, "read") /\ UNCHANGED <<lock, files, fd>>
    /\ UNCHANGED <<tries, dead, stalled>>

WriteLock(h) ==
    /\ pc[h] = "write" /\ Runs(h)
    /\ WriteContent(h) /\ Goto(h, "held")
    /\ UNCHANGED <<files, fd, tries, dead, stalled>>

(* Mutant: the holder's process is not looked up. *)
OnlyStale(h) == lock.pid = Pid[h] \/ ~lock.fresh
(* Mutant: any recorded holder may be replaced. *)
AnyHolder(h) == TRUE
CanTakeOver(h) == lock.pid = Pid[h] \/ ~lock.fresh \/ ~Alive(lock.pid)

(* A file that is gone or holds no content counts as free. *)
Unreadable == lock = None \/ lock.pid = None

MaxTries == 3

ReadLock(h) ==
    /\ pc[h] = "read" /\ Runs(h)
    /\ Goto(h, IF ~Unreadable /\ ~CanTakeOver(h) THEN "rejected"
               ELSE IF tries[h] >= MaxTries THEN "failed" ELSE "unlink")
    /\ UNCHANGED <<lock, files, fd, tries, dead, stalled>>

(* Mutant: the retries are not counted. *)
RetryForEver(h) ==
    /\ pc[h] = "unlink" /\ Runs(h)
    /\ lock' \in {None, lock} /\ Goto(h, "try")
    /\ UNCHANGED <<files, fd, tries, dead, stalled>>

(* The file is removed, whoever's it is by now; a failure is ignored. *)
UnlinkStale(h) ==
    /\ pc[h] = "unlink" /\ Runs(h)
    /\ lock' \in {None, lock}
    /\ tries' = [tries EXCEPT ![h] = @ + 1] /\ Goto(h, "try")
    /\ UNCHANGED <<files, fd, dead, stalled>>

-----------------------------------------------------------------------------
(* heartbeatOf: read the file; if it is ours, truncate and rewrite it.     *)

BeatRead(h) ==
    /\ pc[h] = "held" /\ Runs(h) /\ MayRefresh(h) /\ files < MaxFiles
    /\ lock # None /\ lock.pid = Pid[h]
    /\ Goto(h, "beatOpen")
    /\ UNCHANGED <<lock, files, fd, tries, dead, stalled>>

(* open 'w' empties the file, whoever's it is by now, or creates one. *)
BeatOpen(h) ==
    /\ pc[h] = "beatOpen" /\ Runs(h)
    /\ \/ lock = None /\ NewFile(h)
       \/ lock # None /\ lock' = [lock EXCEPT !.pid = None]
          /\ fd' = [fd EXCEPT ![h] = lock.ino] /\ UNCHANGED files
    /\ Goto(h, "beatWrite")
    /\ UNCHANGED <<tries, dead, stalled>>

BeatWrite(h) ==
    /\ pc[h] = "beatWrite" /\ Runs(h)
    /\ WriteContent(h) /\ Goto(h, "held")
    /\ UNCHANGED <<files, fd, tries, dead, stalled>>

(* release: the timer stops, and the file is removed if it is ours. *)
Release(h) ==
    /\ pc[h] = "held" /\ Runs(h) /\ MayRefresh(h)
    /\ Goto(h, IF lock # None /\ lock.pid = Pid[h] THEN "releaseUnlink" ELSE "released")
    /\ UNCHANGED <<lock, files, fd, tries, dead, stalled>>

ReleaseUnlink(h) ==
    /\ pc[h] = "releaseUnlink" /\ Runs(h)
    /\ lock' = None /\ Goto(h, "released")
    /\ UNCHANGED <<files, fd, tries, dead, stalled>>

-----------------------------------------------------------------------------
(* Processes and time *)

Crash(pid) ==
    /\ Alive(pid) /\ dead' = dead \cup {pid}
    /\ stalled' = IF stalled = pid THEN None ELSE stalled
    /\ UNCHANGED <<lock, files, pc, fd, tries>>

(* A process stops running for a while, then goes on. *)
Stall(pid) ==
    /\ stalled = None /\ Alive(pid)
    /\ stalled' = pid
    /\ UNCHANGED <<lock, files, pc, fd, tries, dead>>

Wake ==
    /\ stalled # None /\ stalled' = None
    /\ UNCHANGED <<lock, files, pc, fd, tries, dead>>

(* The heartbeat of a crashed holder, or of one that is stalled for longer *)
(* than the stale limit, grows old.                                        *)
Expire ==
    /\ lock # None /\ lock.pid # None /\ lock.fresh
    /\ ~Alive(lock.pid) \/ (stalled = lock.pid /\ "stall" \in Hazards)
    /\ lock' = [lock EXCEPT !.fresh = FALSE]
    /\ UNCHANGED <<files, pc, fd, tries, dead, stalled>>

AcquireStep(h) == TryCreate(h) \/ WriteLock(h) \/ ReadLock(h) \/ UnlinkStale(h)

Next ==
    \/ \E h \in Handles : \/ Acquire(h) \/ AcquireStep(h)
                          \/ BeatRead(h) \/ BeatOpen(h) \/ BeatWrite(h)
                          \/ Release(h) \/ ReleaseUnlink(h)
    \/ \E h \in Handles : Crash(Pid[h]) \/ Stall(Pid[h])
    \/ Wake \/ Expire

Spec == Init /\ [][Next]_vars
(* File system calls return. *)
FairSpec == Spec /\ \A h \in Handles : WF_vars(AcquireStep(h))

-----------------------------------------------------------------------------
(* Properties *)

(* Type invariant. *)
TypeOK ==
    /\ lock = None \/ lock.ino \in 1..files
    /\ files <= MaxFiles + Cardinality(Handles)
    /\ \A h \in Handles : tries[h] <= MaxTries /\ fd[h] <= files

(* What is locked stays visibly locked: the file exists and names the      *)
(* process of a running holder, outside its own heartbeats.                *)
HolderHasFile ==
    \A h \in Handles :
        pc[h] = "held" /\ Alive(Pid[h]) => lock # None /\ lock.pid = Pid[h]

(* Two running processes never both hold the session, also while one of    *)
(* them rewrites its heartbeat; and whoever holds it is named by the file. *)
MutualExclusion ==
    /\ \A g, h \in Handles :
         Holding(g) /\ Holding(h) /\ Alive(Pid[g]) /\ Alive(Pid[h]) => Pid[g] = Pid[h]
    /\ HolderHasFile

(* A call is refused only on account of a process that runs and holds the  *)
(* session: what a crash leaves behind locks nobody out.                   *)
RefusedByHolder ==
    [][\A h \in Handles : pc[h] = "read" /\ pc'[h] = "rejected" =>
          \E g \in Handles : Holding(g) /\ Alive(Pid[g]) /\ Pid[g] # Pid[h]]_vars

(* Every attempt to acquire ends: held, rejected, or failed after three    *)
(* retries, however the other processes interfere.                         *)
AcquireEnds ==
    \A h \in Handles :
        pc[h] = "try" ~> pc[h] \in {"held", "rejected", "failed"} \/ ~Runs(h)
=============================================================================
