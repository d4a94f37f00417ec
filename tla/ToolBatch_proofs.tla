--------------------------- MODULE ToolBatch_proofs ---------------------------
(***************************************************************************)
(* Proofs about ToolBatch, for any number of calls, any declarations and   *)
(* any case folding.                                                       *)
(***************************************************************************)
EXTENDS ToolBatch, TLAPS

(* ToolAccesses.conflict does not depend on the order of its arguments. *)
LEMMA ConflictSymmetric ==
    ASSUME NEW L, NEW R, Conflict(L, R)
    PROVE  Conflict(R, L)
<1>1. PICK l \in L, r \in R : ResourceAccessesConflict(l, r)
  BY DEF Conflict
<1>2. ResourceAccessesConflict(r, l)
  BY <1>1, Zenon DEF ResourceAccessesConflict, OperationsConflict, FileAccessesOverlap
<1>3. QED
  BY <1>2 DEF Conflict

(* A resolved task declares nothing and conflicts with nothing. *)
LEMMA NoAccessNoConflict ==
    ASSUME NEW A, NEW B, Conflict(A, B)
    PROVE  A # {} /\ B # {}
BY DEF Conflict

-----------------------------------------------------------------------------
(* Both forms of "at or below", as a comparison of lengths and segments. *)
LEMMA SamePathSegments ==
    ASSUME NEW Names, NEW f \in Seq(Names), NEW p \in Seq(Names), NEW n \in 0..Len(f),
           SameFile(SubSeq(f, 1, n), p)
    PROVE  Len(p) = n /\ \A i \in 1..n : Fold[f[i]] = Fold[p[i]]
<1> DEFINE g == SubSeq(f, 1, n)
<1>1. g \in Seq(Names) /\ Len(g) = n /\ DOMAIN g = 1..n /\ \A i \in 1..n : g[i] = f[i]
  OBVIOUS
<1>2. QED
  BY <1>1 DEF SameFile

LEMMA SegmentsSamePath ==
    ASSUME NEW Names, NEW f \in Seq(Names), NEW p \in Seq(Names), NEW n \in 0..Len(f),
           Len(p) = n, \A i \in 1..n : Fold[f[i]] = Fold[p[i]]
    PROVE  SameFile(SubSeq(f, 1, n), p)
<1> DEFINE g == SubSeq(f, 1, n)
<1>1. g \in Seq(Names) /\ Len(g) = n /\ DOMAIN g = 1..n /\ \A i \in 1..n : g[i] = f[i]
  OBVIOUS
<1>2. QED
  BY <1>1 DEF SameFile

(* Paths that are equal after normalizing name the same file. *)
LEMMA NormalizedIsSame ==
    ASSUME NEW Names, NEW f \in Seq(Names), NEW g \in Seq(Names)
    PROVE  /\ NormalizePath(f) = NormalizePath(g) <=> SameFile(f, g)
           /\ SameFile(f, g) <=> SameFile(g, f)
           /\ SameFile(f, f)
<1> DEFINE nf == NormalizePath(f)
           ng == NormalizePath(g)
<1>1. /\ DOMAIN f = 1..Len(f) /\ DOMAIN g = 1..Len(g) /\ Len(f) \in Nat /\ Len(g) \in Nat
  OBVIOUS
<1>2. /\ nf = [i \in 1..Len(f) |-> Fold[f[i]]] /\ ng = [i \in 1..Len(g) |-> Fold[g[i]]]
  BY <1>1 DEF NormalizePath
<1>3. ASSUME nf = ng
      PROVE  SameFile(f, g)
  <2>1. 1..Len(f) = 1..Len(g)
    BY <1>2, <1>3
  <2>2. \A i \in 1..Len(f) : nf[i] = Fold[f[i]] /\ ng[i] = Fold[g[i]]
    BY <1>2, <2>1
  <2>3. Len(f) = Len(g)
    <3> DEFINE m == Len(f)
               n == Len(g)
    <3>1. m \in Nat /\ n \in Nat /\ 1..m = 1..n
      BY <1>1, <2>1
    <3> HIDE DEF m, n
    <3>2. m \in 1..m \/ m = 0
      BY <3>1
    <3>3. n \in 1..n \/ n = 0
      BY <3>1
    <3>4. m = n
      BY <3>1, <3>2, <3>3
    <3>5. QED
      BY <3>4 DEF m, n
  <2> HIDE DEF nf, ng
  <2>4. QED
    BY <1>1, <1>3, <2>2, <2>3 DEF SameFile
<1>4. ASSUME SameFile(f, g)
      PROVE  nf = ng
  BY <1>1, <1>2, <1>4 DEF SameFile
<1>5. QED
  BY <1>1, <1>3, <1>4 DEF SameFile

(* The prefix test of the code is the ancestor relation. *)
LEMMA StrictPrefixIsAncestor ==
    ASSUME NEW Names, NEW p \in Seq(Names), NEW f \in Seq(Names)
    PROVE  IsStrictPrefix(NormalizePath(p), NormalizePath(f))
             <=> \E n \in 0..(Len(f) - 1) : SameFile(SubSeq(f, 1, n), p)
<1> DEFINE np == NormalizePath(p)
           nf == NormalizePath(f)
<1>1. /\ np \in Seq({ Fold[x] : x \in Names }) /\ Len(np) = Len(p)
      /\ \A i \in 1..Len(p) : np[i] = Fold[p[i]]
  BY DEF NormalizePath
<1>2. /\ nf \in Seq({ Fold[x] : x \in Names }) /\ Len(nf) = Len(f)
      /\ \A i \in 1..Len(f) : nf[i] = Fold[f[i]]
  BY DEF NormalizePath
<1> HIDE DEF np, nf
<1>3. ASSUME IsStrictPrefix(np, nf)
      PROVE  \E n \in 0..(Len(f) - 1) : SameFile(SubSeq(f, 1, n), p)
  <2>1. Len(p) <= Len(f) /\ SubSeq(np, 1, Len(p)) = SubSeq(nf, 1, Len(p)) /\ np # nf
    BY <1>1, <1>2, <1>3 DEF IsStrictPrefix, IsPrefix
  <2>2. \A i \in 1..Len(p) : np[i] = nf[i]
    <3>1. ASSUME NEW i \in 1..Len(p)
          PROVE  np[i] = nf[i]
      <4>1. SubSeq(np, 1, Len(p))[i] = np[i] /\ SubSeq(nf, 1, Len(p))[i] = nf[i]
        BY <1>1, <1>2, <2>1
      <4>2. QED
        BY <2>1, <4>1
    <3>2. QED
      BY <3>1
  <2>3. Len(p) # Len(f)
    <3>1. CASE Len(p) = Len(f)
      <4>1. np = nf
        BY <1>1, <1>2, <2>2, <3>1
      <4>2. QED
        BY <2>1, <4>1
    <3>2. QED
      BY <3>1
  <2>4. \A i \in 1..Len(p) : Fold[f[i]] = Fold[p[i]]
    BY <1>1, <1>2, <2>1, <2>2
  <2>5. Len(p) \in 0..(Len(f) - 1)
    BY <2>1, <2>3
  <2>6. SameFile(SubSeq(f, 1, Len(p)), p)
    BY <2>4, <2>5, SegmentsSamePath
  <2>7. QED
    BY <2>5, <2>6
<1>4. ASSUME NEW n \in 0..(Len(f) - 1), SameFile(SubSeq(f, 1, n), p)
      PROVE  IsStrictPrefix(np, nf)
  <2>1. Len(p) = n /\ \A i \in 1..n : Fold[f[i]] = Fold[p[i]]
    BY <1>4, SamePathSegments
  <2>2. \A i \in 1..Len(p) : np[i] = nf[i]
    BY <1>1, <1>2, <2>1
  <2>3. SubSeq(np, 1, Len(np)) = SubSeq(nf, 1, Len(np))
    BY <1>1, <1>2, <2>1, <2>2
  <2>4. np # nf
    BY <1>1, <1>2, <2>1
  <2>5. QED
    BY <1>1, <1>2, <2>1, <2>3, <2>4 DEF IsStrictPrefix, IsPrefix
<1>5. QED
  BY <1>3, <1>4 DEF np, nf

LEMMA WholeSubSeq ==
    ASSUME NEW Names, NEW f \in Seq(Names)
    PROVE  SubSeq(f, 1, Len(f)) = f
OBVIOUS

(* Two ancestors of one file are nested. *)
LEMMA AncestorsNested ==
    ASSUME NEW Names, NEW f \in Seq(Names), NEW p \in Seq(Names), NEW q \in Seq(Names),
           NEW n \in 0..Len(f), NEW m \in 0..Len(f), n <= m,
           SameFile(SubSeq(f, 1, n), p), SameFile(SubSeq(f, 1, m), q)
    PROVE  SameFile(p, q) \/ \E k \in 0..(Len(q) - 1) : SameFile(SubSeq(q, 1, k), p)
<1>1. /\ Len(p) = n /\ \A i \in 1..n : Fold[f[i]] = Fold[p[i]]
      /\ Len(q) = m /\ \A i \in 1..m : Fold[f[i]] = Fold[q[i]]
  BY SamePathSegments
<1>2. \A i \in 1..n : Fold[q[i]] = Fold[p[i]]
  BY <1>1
<1>3. n \in 0..Len(q)
  BY <1>1
<1>4. SameFile(SubSeq(q, 1, n), p)
  BY <1>1, <1>2, <1>3, SegmentsSamePath
<1>5. CASE n = m
  BY <1>1, <1>4, <1>5, WholeSubSeq DEF SameFile
<1>6. CASE n < m
  BY <1>1, <1>4, <1>6
<1>7. QED
  BY <1>5, <1>6

(* fileAccessesOverlap is exact, for any name space and any case folding:  *)
(* two accesses overlap if and only if some file is touched by both.       *)
THEOREM OverlapExact ==
    ASSUME NEW l, NEW r, l.path \in Files \cup {NoPath}, r.path \in Files \cup {NoPath}
    PROVE  FileAccessesOverlap(l, r) <=> \E f \in Files : Touches(l, f) /\ Touches(r, f)
<1> DEFINE Names == DOMAIN Fold
<1>0. Files \subseteq Seq(Names) /\ Files # {} /\ NoPath \notin Files
  BY FilesAssumption
<1>1. CASE l.path = NoPath \/ r.path = NoPath
  <2>1. FileAccessesOverlap(l, r)
    BY <1>1 DEF FileAccessesOverlap
  <2>2. PICK f \in Files : f = l.path \/ f = r.path \/ (l.path = NoPath /\ r.path = NoPath)
    BY <1>0, <1>1
  <2>3. SameFile(f, f)
    BY <1>0, NormalizedIsSame
  <2>4. Touches(l, f) /\ Touches(r, f)
    BY <1>0, <1>1, <2>2, <2>3 DEF Touches
  <2>5. QED
    BY <2>1, <2>4
<1>2. CASE l.path \in Files /\ r.path \in Files
  <2> USE <1>0, <1>2
  <2> DEFINE Above(p, q) == \E n \in 0..(Len(q) - 1) : SameFile(SubSeq(q, 1, n), p)
             lp == l.path
             rp == r.path
  <2>1. lp # NoPath /\ rp # NoPath
    OBVIOUS
  <2>0. l.path \in Seq(Names) /\ r.path \in Seq(Names)
    OBVIOUS
  <2>2. FileAccessesOverlap(l, r)
          <=> SameFile(lp, rp) \/ (l.recursive /\ Above(lp, rp)) \/ (r.recursive /\ Above(rp, lp))
    <3>1. IsStrictPrefix(NormalizePath(lp), NormalizePath(rp)) <=> Above(lp, rp)
      BY <2>0, StrictPrefixIsAncestor
    <3>2. IsStrictPrefix(NormalizePath(rp), NormalizePath(lp)) <=> Above(rp, lp)
      BY <2>0, StrictPrefixIsAncestor
    <3>3. NormalizePath(lp) = NormalizePath(rp) <=> SameFile(lp, rp)
      BY <2>0, NormalizedIsSame
    <3> HIDE DEF Above
    <3>4. QED
      BY <2>1, <3>1, <3>2, <3>3, Zenon DEF FileAccessesOverlap
  <2>3. \A a, f : a.path # NoPath =>
          (Touches(a, f) <=> SameFile(f, a.path) \/ (a.recursive /\ Above(a.path, f)))
    BY Zenon DEF Touches
  <2>4. ASSUME FileAccessesOverlap(l, r)
        PROVE  \E f \in Files : Touches(l, f) /\ Touches(r, f)
    <3>1. SameFile(lp, lp) /\ SameFile(rp, rp) /\ (SameFile(lp, rp) => SameFile(rp, lp))
      BY <2>0, NormalizedIsSame
    <3> HIDE DEF Above
    <3>2. CASE SameFile(lp, rp)
      BY <2>1, <2>3, <3>1, <3>2, Zenon
    <3>3. CASE l.recursive /\ Above(lp, rp)
      BY <2>1, <2>3, <3>1, <3>3, Zenon
    <3>4. CASE r.recursive /\ Above(rp, lp)
      BY <2>1, <2>3, <3>1, <3>4, Zenon
    <3>5. QED
      BY <2>2, <2>4, <3>2, <3>3, <3>4, Zenon
  <2>5. ASSUME NEW f \in Files, Touches(l, f), Touches(r, f)
        PROVE  FileAccessesOverlap(l, r)
    <3>0. f \in Seq(Names) /\ Len(f) \in Nat
      OBVIOUS
    <3>1. PICK n \in 0..Len(f) : SameFile(SubSeq(f, 1, n), lp) /\ (n < Len(f) => l.recursive)
      <4>1. SameFile(SubSeq(f, 1, Len(f)), lp) \/ (l.recursive /\ Above(lp, f))
        BY <2>1, <2>3, <2>5, <3>0, WholeSubSeq
      <4>2. CASE SameFile(SubSeq(f, 1, Len(f)), lp)
        BY <4>2
      <4>3. CASE l.recursive /\ Above(lp, f)
        BY <4>3
      <4>4. QED
        BY <4>1, <4>2, <4>3
    <3>2. PICK m \in 0..Len(f) : SameFile(SubSeq(f, 1, m), rp) /\ (m < Len(f) => r.recursive)
      <4>1. SameFile(SubSeq(f, 1, Len(f)), rp) \/ (r.recursive /\ Above(rp, f))
        BY <2>1, <2>3, <2>5, <3>0, WholeSubSeq
      <4>2. CASE SameFile(SubSeq(f, 1, Len(f)), rp)
        BY <4>2
      <4>3. CASE r.recursive /\ Above(rp, f)
        BY <4>3
      <4>4. QED
        BY <4>1, <4>2, <4>3
    <3>3. n = m => SameFile(lp, rp)
      <4>1. /\ Len(lp) = n /\ \A i \in 1..n : Fold[f[i]] = Fold[lp[i]]
            /\ Len(rp) = m /\ \A i \in 1..m : Fold[f[i]] = Fold[rp[i]]
        BY <2>0, <3>0, <3>1, <3>2, SamePathSegments
      <4>2. DOMAIN lp = 1..Len(lp)
        BY <2>0
      <4> HIDE DEF lp, rp
      <4>3. QED
        BY <4>1, <4>2 DEF SameFile
    <3>4. n < m => SameFile(lp, rp) \/ Above(lp, rp)
      BY <2>0, <3>0, <3>1, <3>2, AncestorsNested
    <3>5. m < n => SameFile(rp, lp) \/ Above(rp, lp)
      BY <2>0, <3>0, <3>1, <3>2, AncestorsNested
    <3>6. SameFile(rp, lp) => SameFile(lp, rp)
      BY <2>0, NormalizedIsSame
    <3>7. n < m \/ m < n \/ n = m
      OBVIOUS
    <3>8. n < m => l.recursive
      BY <3>1
    <3>9. m < n => r.recursive
      BY <3>2
    <3> HIDE DEF Above
    <3>10. QED
      BY <2>2, <3>3, <3>4, <3>5, <3>6, <3>7, <3>8, <3>9, Zenon
  <2>6. QED
    BY <2>4, <2>5
<1>3. QED
  BY <1>1, <1>2

(* Conflict is exact: two calls are serialised if and only if one writes a *)
(* file the other touches, or one of them is not a file access.            *)
THEOREM ConflictIsInterferenceCorrect == Spec => []ConflictIsInterference
<1>1. ASSUME NEW a \in Accesses, NEW b \in Accesses
      PROVE  Conflict({a}, {b}) <=> Interferes(a, b)
  <2>1. Conflict({a}, {b}) <=> ResourceAccessesConflict(a, b)
    BY DEF Conflict
  <2>2. \A x \in Accesses : /\ x.kind = "all" <=> x = AllAccess
                            /\ x # AllAccess => x.path \in Files \cup {NoPath}
    BY DEF Accesses, AllAccess, FileAccess
  <2>3. OperationsConflict(a.operation, b.operation)
          <=> {a.operation, b.operation} \cap {"write", "readwrite"} # {}
    BY DEF OperationsConflict, Writes
  <2>4. a # AllAccess /\ b # AllAccess =>
          (FileAccessesOverlap(a, b) <=> \E f \in Files : Touches(a, f) /\ Touches(b, f))
    BY <2>2, OverlapExact
  <2>5. QED
    BY <2>1, <2>2, <2>3, <2>4, Zenon DEF ResourceAccessesConflict, Interferes
<1>2. ConflictIsInterference
  BY <1>1 DEF ConflictIsInterference
<1>3. QED
  BY <1>2, PTL

-----------------------------------------------------------------------------
LEMMA InitTypeCorrect == Init => TypeOK
<1> SUFFICES ASSUME Init PROVE TypeOK
  OBVIOUS
<1>1. outcome \in [Calls -> Outcomes \cup {"none"}]
  BY DEF Init
<1>2. access \in [Calls -> AccessChoices \cup {{}}]
  BY DEF Init
<1>3. pendingResults \in Seq(Calls) /\ announced \in Seq(Calls) /\ results \in Seq(Calls)
  BY DEF Init
<1>4. next \in 1..(NumCalls + 1) /\ next \in Calls /\ pc = "prepare"
  BY NumCallsAssumption DEF Init, Calls
<1>5. QED
  BY <1>1, <1>2, <1>3, <1>4 DEF Init, TypeOK

(* The variables keep their types: in particular the batch never prepares  *)
(* a call beyond the last one.                                             *)
THEOREM TypeCorrect == Spec => []TypeOK
<1>1. Init => TypeOK
  BY InitTypeCorrect
<1>2. ASSUME TypeOK, [Next]_vars
      PROVE  TypeOK'
  <2> USE <1>2, NumCallsAssumption DEF TypeOK, Calls
  <2>1. ASSUME NEW c \in Calls, NEW kind \in Outcomes, NEW acc \in AccessChoices \cup {{}},
               Announce(c, kind, acc)
        PROVE  TypeOK'
    BY <2>1 DEF Announce
  <2>2. ASSUME NEW c \in Calls, SkipDuplicate(c)
        PROVE  TypeOK'
    BY <2>2 DEF SkipDuplicate, AfterCall, Outcomes
  <2>3. ASSUME NEW c \in Calls, Schedule(c)
        PROVE  TypeOK'
    <3>1. access' \in [Calls -> AccessChoices \cup {{}}]
      BY <2>3 DEF Schedule
    <3>2. outcome' \in [Calls -> Outcomes \cup {"none"}]
      BY <2>3 DEF Schedule, Outcomes
    <3>3. queued' \subseteq Calls /\ active' \subseteq Calls /\ executing' \subseteq Calls
      BY <2>3 DEF Schedule, Executable
    <3>4. /\ pc' \in {"drain", "prepare"} /\ next' \in 1..(NumCalls + 1) /\ stopped' \in BOOLEAN
          /\ pc' = "prepare" => next' \in Calls
          /\ pendingResults' \in Seq(Calls)
          /\ UNCHANGED <<aborted, settled, announced, results>>
      BY <2>3 DEF Schedule, AfterCall
    <3>5. QED
      BY <3>1, <3>2, <3>3, <3>4
  <2>4. ASSUME NEW c \in Calls, EmitResult(c)
        PROVE  TypeOK'
    BY <2>4 DEF EmitResult
  <2>5. ASSUME NEW c \in Calls, NEW E \in SUBSET Calls, SettleTask(c, E)
        PROVE  TypeOK'
    BY <2>5 DEF SettleTask, StillQueued, Executable, batchVars
  <2>6. CASE \E c \in Calls : Settle(c) \/ GraceTimeout(c)
    BY <2>5, <2>6 DEF Settle, GraceTimeout
  <2>7. CASE \E c \in Calls : LateReturn(c)
    BY <2>7 DEF LateReturn, batchVars
  <2>8. CASE DispatchFails \/ Return \/ Throw
    BY <2>8 DEF DispatchFails, Return, Throw
  <2>9. CASE Abort
    BY <2>9 DEF Abort, batchVars
  <2>10. CASE UNCHANGED vars
    BY <2>10 DEF vars
  <2>11. QED
    BY <2>1, <2>2, <2>3, <2>4, <2>6, <2>7, <2>8, <2>9, <2>10 DEF Next
<1>3. QED
  BY <1>1, <1>2, PTL DEF Spec

-----------------------------------------------------------------------------
(* The inductive invariant behind serial execution.                        *)
Placed == queued \cup active \cup settled

(* A task is in one place, and only calls already prepared have one. *)
Placement ==
    /\ \A c \in Placed : c < next
    /\ queued \cap active = {} /\ queued \cap settled = {} /\ active \cap settled = {}
    /\ \A c \in Calls : c < next => c \in Placed \/ access[c] = {}

(* A call declares nothing before it is announced. *)
Fresh ==
    \A c \in Calls : c > next \/ (c = next /\ pc = "prepare") => access[c] = {}

(* A task leaves the queue only after every conflicting earlier call. *)
StartOrder ==
    \A c, d \in Calls :
        c < d /\ Conflict(access[c], access[d]) /\ d \in active \cup settled => c \in settled

(* Only a grace timeout separates execution from activity. *)
Execution ==
    /\ executing \subseteq active \cup settled
    /\ ~aborted => executing \subseteq active

SerialInv == TypeOK /\ Placement /\ Fresh /\ StartOrder /\ Execution /\ ConflictingCallsSerial

LEMMA SerialInvInit == Init => SerialInv
<1> SUFFICES ASSUME Init PROVE SerialInv
  OBVIOUS
<1>1. TypeOK
  BY InitTypeCorrect
<1>2. Placement /\ Fresh
  BY NumCallsAssumption DEF Init, Placement, Placed, Fresh, Calls
<1>3. StartOrder /\ Execution /\ ConflictingCallsSerial
  BY DEF Init, StartOrder, Execution, ConflictingCallsSerial
<1>4. QED
  BY <1>1, <1>2, <1>3 DEF SerialInv

(* The queue scan: a task it starts conflicts neither with an active task  *)
(* nor with an earlier task of the queue.                                  *)
LEMMA SettlePreserves ==
    ASSUME SerialInv, NEW c \in active, NEW E,
           E \subseteq executing, executing \ {c} \subseteq E,
           c \in E => aborted,
           SettleTask(c, E)
    PROVE  (Placement /\ Fresh /\ StartOrder /\ Execution /\ ConflictingCallsSerial)'
<1> DEFINE keep == StillQueued(access, queued, active \ {c})
           started == queued \ keep
<1> USE DEF SerialInv, TypeOK
<1>1. /\ settled' = settled \cup {c} /\ queued' = keep
      /\ active' = (active \ {c}) \cup started
      /\ executing' = E \cup Executable(started)
      /\ UNCHANGED <<next, outcome, access, aborted>>
  BY DEF SettleTask, batchVars
<1>2. keep \subseteq queued
  BY DEF StillQueued
<1>3. ASSUME NEW d \in started, NEW b \in Calls, b < d, Conflict(access[b], access[d])
      PROVE  b \in settled'
  <2>1. Conflict(access[d], access[b])
    BY <1>3, ConflictSymmetric
  <2>2. b \notin active \ {c} /\ b \notin queued
    BY <1>3, <2>1 DEF StillQueued, IsBlocked, ConflictsWithAny
  <2>3. access[b] # {}
    BY <1>3, NoAccessNoConflict
  <2>4. d \in Calls /\ d < next /\ next \in Int
    BY DEF Placement, Placed
  <2>5. b < next
    BY <1>3, <2>4 DEF Calls
  <2>6. QED
    BY <1>1, <2>2, <2>3, <2>5 DEF Placement, Placed
<1>4. Placement'
  BY <1>1, <1>2 DEF Placement, Placed
<1>5. StartOrder'
  <2>1. ASSUME NEW b \in Calls, NEW d \in Calls, b < d, Conflict(access[b], access[d]),
               d \in active' \cup settled'
        PROVE  b \in settled'
    BY <1>1, <1>3, <2>1 DEF StartOrder
  <2>2. QED
    BY <1>1, <2>1 DEF StartOrder
<1>6. Execution'
  BY <1>1, <1>2 DEF Execution, Executable
<1>7. ConflictingCallsSerial'
  <2>1. ASSUME NEW b \in Calls, NEW d \in Calls, b < d, Conflict(access[b], access[d]),
               d \in executing'
        PROVE  b \in settled' \ executing'
    <3>1. d \in active' \cup settled'
      BY <1>6, <2>1 DEF Execution
    <3>2. b \in settled'
      BY <1>1, <1>5, <2>1, <3>1 DEF StartOrder
    <3>3. b \notin started
      BY <1>1, <3>2 DEF Placement
    <3>4. b \notin E
      <4>1. CASE d \in executing
        BY <2>1, <4>1 DEF ConflictingCallsSerial
      <4>2. CASE d \notin executing
        <5>1. ~aborted
          BY <1>1, <2>1, <4>2 DEF Executable
        <5>2. QED
          BY <1>1, <3>2, <5>1 DEF Execution, Placement
      <4>3. QED
        BY <4>1, <4>2
    <3>5. QED
      BY <1>1, <3>2, <3>3, <3>4 DEF Executable
  <2>2. QED
    BY <1>1, <2>1 DEF ConflictingCallsSerial
<1>8. Fresh'
  BY DEF SettleTask, batchVars, Fresh
<1>9. QED
  BY <1>4, <1>5, <1>6, <1>7, <1>8

(* Handing a task to the scheduler: it starts only if nothing scheduled    *)
(* before it conflicts with it.                                            *)
LEMMA SchedulePreserves ==
    ASSUME SerialInv, NEW c \in Calls, Schedule(c)
    PROVE  (Placement /\ Fresh /\ StartOrder /\ Execution /\ ConflictingCallsSerial)'
<1> USE NumCallsAssumption DEF SerialInv, TypeOK, Calls
<1>1. /\ c = next /\ next' = c + 1
      /\ \A b \in Calls : b # c => access'[b] = access[b]
      /\ UNCHANGED <<aborted, settled>>
  BY DEF Schedule
<1>2. c \notin Placed
  BY <1>1 DEF Placement
<1>3. \/ queued' = queued \cup {c} /\ active' = active /\ executing' = executing
      \/ /\ queued' = queued /\ active' = active \cup {c}
         /\ executing' = executing \cup Executable({c})
         /\ ~IsBlocked(access', c, active, queued)
  BY DEF Schedule
<1>4. Placement'
  <2>1. Placed' = Placed \cup {c}
    BY <1>1, <1>3 DEF Placed
  <2>2. queued' \cap active' = {} /\ queued' \cap settled' = {} /\ active' \cap settled' = {}
    <3>1. c \notin queued /\ c \notin active /\ c \notin settled /\ settled' = settled
      BY <1>1, <1>2 DEF Placed
    <3>2. queued \cap active = {} /\ queued \cap settled = {} /\ active \cap settled = {}
      BY DEF Placement
    <3>3. CASE queued' = queued \cup {c} /\ active' = active
      BY <3>1, <3>2, <3>3, Zenon
    <3>4. CASE queued' = queued /\ active' = active \cup {c}
      BY <3>1, <3>2, <3>4, Zenon
    <3>5. QED
      BY <1>3, <3>3, <3>4, Zenon
  <2>3. ASSUME NEW b \in Calls, b < next'
        PROVE  b \in Placed' \/ access'[b] = {}
    <3>1. CASE b = c
      BY <2>1, <3>1
    <3>2. CASE b # c
      <4>1. b < next /\ access'[b] = access[b]
        BY <1>1, <2>3, <3>2
      <4>2. b \in Placed \/ access[b] = {}
        BY <4>1 DEF Placement
      <4>3. QED
        BY <2>1, <4>1, <4>2
    <3>3. QED
      BY <3>1, <3>2
  <2>4. \A b \in Placed' : b < next'
    <3>1. next \in Int /\ next' = next + 1 /\ Placed' = Placed \cup {next}
      BY <1>1, <2>1
    <3>2. \A b \in Placed : b < next /\ b \in Int
      BY DEF Placement, Placed
    <3>3. QED
      BY <3>1, <3>2
  <2>5. QED
    BY <2>2, <2>3, <2>4 DEF Placement
<1>5. ASSUME NEW b \in Calls, NEW d \in Calls, b < d, Conflict(access'[b], access'[d]),
             d \in active' \cup settled'
      PROVE  b \in settled'
  <2>1. CASE d # c
    <3>1. d \in active \cup settled /\ d < next /\ b # c
      BY <1>1, <1>3, <1>5, <2>1 DEF Placement, Placed
    <3>2. QED
      BY <1>1, <1>5, <2>1, <3>1 DEF StartOrder
  <2>2. CASE d = c
    <3>1. ~IsBlocked(access', c, active, queued)
      BY <1>1, <1>2, <1>3, <1>5, <2>2 DEF Placed
    <3>2. Conflict(access'[c], access'[b])
      BY <1>5, <2>2, ConflictSymmetric
    <3>3. b \notin active /\ b \notin queued
      BY <3>1, <3>2 DEF IsBlocked, ConflictsWithAny
    <3>4. access'[b] # {} /\ b # c
      BY <1>5, <2>2, NoAccessNoConflict
    <3>5. QED
      BY <1>1, <1>5, <2>2, <3>3, <3>4 DEF Placement, Placed
  <2>3. QED
    BY <2>1, <2>2
<1>6. StartOrder'
  BY <1>5 DEF StartOrder
<1>7. Execution'
  BY <1>1, <1>3 DEF Execution, Executable
<1>8. ASSUME NEW b \in Calls, NEW d \in Calls, b < d, Conflict(access'[b], access'[d]),
             d \in executing'
      PROVE  b \in settled' \ executing'
  <2>1. d \in active' \cup settled'
    BY <1>7, <1>8 DEF Execution
  <2>2. b \in settled /\ b # c
    BY <1>1, <1>2, <1>5, <1>8, <2>1 DEF Placed
  <2>3. CASE d # c
    <3>1. d \in executing
      BY <1>3, <1>8, <2>3 DEF Executable
    <3>2. access'[b] = access[b] /\ access'[d] = access[d]
      BY <1>1, <2>2, <2>3
    <3>3. b \in settled \ executing
      BY <1>8, <3>1, <3>2 DEF ConflictingCallsSerial
    <3>4. QED
      BY <1>1, <1>3, <2>2, <3>3 DEF Executable
  <2>4. CASE d = c
    <3>1. ~aborted
      BY <1>2, <1>3, <1>8, <2>4 DEF Executable, Execution, Placed
    <3>2. b \notin executing
      BY <2>2, <3>1 DEF Execution, Placement
    <3>3. QED
      BY <1>1, <1>3, <2>2, <3>2 DEF Executable
  <2>5. QED
    BY <2>3, <2>4
<1>9. ConflictingCallsSerial'
  BY <1>8 DEF ConflictingCallsSerial
<1>10. Fresh'
  <2>1. ASSUME NEW b \in Calls, b > next' \/ b = next'
        PROVE  access'[b] = {}
    <3>1. b > next /\ b # c
      BY <1>1, <2>1
    <3>2. access[b] = {}
      BY <3>1 DEF Fresh
    <3>3. QED
      BY <1>1, <3>1, <3>2
  <2>2. QED
    BY <2>1 DEF Fresh
<1>11. QED
  BY <1>4, <1>6, <1>7, <1>9, <1>10

(* A call whose accesses change has not been scheduled: no conflict of a   *)
(* scheduled call is affected.                                             *)
LEMMA PreparePreserves ==
    ASSUME SerialInv, NEW c \in Calls,
           (\E kind \in Outcomes, acc \in AccessChoices \cup {{}} : Announce(c, kind, acc))
             \/ SkipDuplicate(c)
    PROVE  (Placement /\ Fresh /\ StartOrder /\ Execution /\ ConflictingCallsSerial)'
<1> USE NumCallsAssumption DEF SerialInv, TypeOK, Calls
<1>1. /\ c = next
      /\ \A b \in Calls : b # c => access'[b] = access[b]
      /\ UNCHANGED <<aborted, queued, active, settled, executing>>
  BY DEF Announce, SkipDuplicate
<1>2. Placement'
  <2>1. CASE SkipDuplicate(c)
    <3>1. next' = next + 1 /\ access' = access
      BY <2>1 DEF SkipDuplicate
    <3>2. access[c] = {}
      BY <1>1, <2>1 DEF SkipDuplicate, Fresh
    <3>3. QED
      BY <1>1, <3>1, <3>2, SMTT(30) DEF Placement, Placed
  <2>2. CASE ~SkipDuplicate(c)
    BY <1>1, <2>2 DEF Placement, Placed, Announce
  <2>3. QED
    BY <2>1, <2>2
<1>3. \A d \in active \cup settled : d < c
  BY <1>1 DEF Placement, Placed
<1>4. StartOrder'
  <2>1. ASSUME NEW b \in Calls, NEW d \in Calls, b < d, Conflict(access'[b], access'[d]),
               d \in active \cup settled
        PROVE  b \in settled
    <3>1. b # c /\ d # c
      BY <1>3, <2>1
    <3>2. QED
      BY <1>1, <2>1, <3>1 DEF StartOrder
  <2>2. QED
    BY <1>1, <2>1 DEF StartOrder
<1>5. Execution'
  BY <1>1 DEF Execution
<1>6. ConflictingCallsSerial'
  <2>1. ASSUME NEW b \in Calls, NEW d \in Calls, b < d, Conflict(access'[b], access'[d]),
               d \in executing
        PROVE  b \in settled \ executing
    <3>1. b # c /\ d # c
      BY <1>3, <2>1 DEF Execution
    <3>2. QED
      BY <1>1, <2>1, <3>1 DEF ConflictingCallsSerial
  <2>2. QED
    BY <1>1, <2>1 DEF ConflictingCallsSerial
<1>7. Fresh'
  BY <1>1 DEF Fresh, Announce, SkipDuplicate
<1>8. QED
  BY <1>2, <1>4, <1>5, <1>6, <1>7

(* Every step preserves the invariant: one step per action. *)
LEMMA SerialInvStep ==
    ASSUME SerialInv, TypeOK', [Next]_vars
    PROVE  SerialInv'
<1> USE DEF SerialInv
<1>1. ASSUME NEW c \in Calls,
             (\E kind \in Outcomes, acc \in AccessChoices \cup {{}} : Announce(c, kind, acc))
               \/ SkipDuplicate(c)
      PROVE  SerialInv'
  BY <1>1, PreparePreserves
<1>2. ASSUME NEW c \in Calls, Schedule(c)
      PROVE  SerialInv'
  BY <1>2, SchedulePreserves
<1>3. ASSUME NEW c \in Calls, Settle(c)
      PROVE  SerialInv'
  <2>1. c \in active /\ SettleTask(c, executing \ {c})
    BY <1>3 DEF Settle
  <2>2. QED
    BY <2>1, SettlePreserves
<1>4. ASSUME NEW c \in Calls, GraceTimeout(c)
      PROVE  SerialInv'
  <2>1. c \in active /\ SettleTask(c, executing) /\ aborted
    BY <1>4 DEF GraceTimeout
  <2>2. QED
    BY <2>1, SettlePreserves
<1>5. ASSUME NEW c \in Calls, LateReturn(c)
      PROVE  SerialInv'
  BY <1>5 DEF LateReturn, batchVars, Placement, Placed, Fresh, StartOrder, Execution,
              ConflictingCallsSerial
<1>6. CASE \E c \in Calls : EmitResult(c)
  BY <1>6 DEF EmitResult, Placement, Placed, Fresh, StartOrder, Execution, ConflictingCallsSerial
<1>7. CASE DispatchFails \/ Return \/ Throw
  BY <1>7 DEF DispatchFails, Return, Throw, Placement, Placed, Fresh, StartOrder, Execution,
              ConflictingCallsSerial
<1>8. CASE Abort
  BY <1>8 DEF Abort, batchVars, Placement, Placed, Fresh, StartOrder, Execution,
              ConflictingCallsSerial
<1>9. CASE UNCHANGED vars
  BY <1>9 DEF vars, Placement, Placed, Fresh, StartOrder, Execution, ConflictingCallsSerial
<1>10. QED
  BY <1>1, <1>2, <1>3, <1>4, <1>5, <1>6, <1>7, <1>8, <1>9 DEF Next

(* Conflicting calls execute one at a time and in provider order, however  *)
(* tasks settle, time out or are aborted (ToolScheduler with               *)
(* raceExecuteWithGraceTimeout).                                           *)
THEOREM ConflictingCallsSerialCorrect == Spec => []ConflictingCallsSerial
<1>1. Init => SerialInv
  BY SerialInvInit
<1>2. SerialInv /\ TypeOK' /\ [Next]_vars => SerialInv'
  BY SerialInvStep
<1>3. SerialInv => ConflictingCallsSerial
  BY DEF SerialInv
<1>4. QED
  BY <1>1, <1>2, <1>3, TypeCorrect, PTL DEF Spec

(* After an abort a settling task may unblock others, but none of them     *)
(* executes its tool (runRunnableToolCall checks the signal first).        *)
THEOREM NothingStartsAfterAbortCorrect == Spec => NothingStartsAfterAbort
<1>1. ASSUME [Next]_vars, aborted
      PROVE  executing' \subseteq executing
  <2> USE <1>1 DEF Executable
  <2>1. ASSUME NEW c \in Calls, NEW kind \in Outcomes, NEW acc \in AccessChoices \cup {{}},
               Announce(c, kind, acc)
        PROVE  executing' \subseteq executing
    BY <2>1 DEF Announce
  <2>2. ASSUME NEW c \in Calls, SkipDuplicate(c) \/ EmitResult(c) \/ Schedule(c)
        PROVE  executing' \subseteq executing
    BY <2>2 DEF SkipDuplicate, EmitResult, Schedule
  <2>3. ASSUME NEW c \in Calls, Settle(c) \/ GraceTimeout(c) \/ LateReturn(c)
        PROVE  executing' \subseteq executing
    BY <2>3 DEF Settle, GraceTimeout, LateReturn, SettleTask
  <2>4. CASE DispatchFails \/ Return \/ Throw \/ Abort \/ UNCHANGED vars
    BY <2>4 DEF DispatchFails, Return, Throw, Abort, vars
  <2>5. QED
    BY <2>1, <2>2, <2>3, <2>4 DEF Next
<1>2. [Next]_vars => [aborted => executing' \subseteq executing]_vars
  BY <1>1
<1>3. QED
  BY <1>2, PTL DEF Spec, NothingStartsAfterAbort

-----------------------------------------------------------------------------
(* The results follow pendingResults, and pendingResults follows the       *)
(* announced calls: one entry behind while a dispatched call waits for its *)
(* task.                                                                   *)
OrderInv ==
    /\ announced = IF pc = "announced" THEN Append(pendingResults, next) ELSE pendingResults
    /\ Len(results) <= Len(pendingResults)
    /\ \A i \in DOMAIN results : results[i] = pendingResults[i]
    /\ pc = "returned" => results = pendingResults

LEMMA OrderInvStep ==
    ASSUME TypeOK, OrderInv, [Next]_vars
    PROVE  OrderInv'
<1> USE DEF TypeOK
<1>1. ASSUME NEW c \in Calls, NEW kind \in Outcomes, NEW acc \in AccessChoices \cup {{}},
             Announce(c, kind, acc)
      PROVE  OrderInv'
  BY <1>1 DEF Announce, OrderInv
<1>2. ASSUME NEW c \in Calls, SkipDuplicate(c)
      PROVE  OrderInv'
  BY <1>2 DEF SkipDuplicate, AfterCall, OrderInv
<1>3. ASSUME NEW c \in Calls, Schedule(c)
      PROVE  OrderInv'
  <2>1. /\ pendingResults' = Append(pendingResults, c) /\ c = next /\ pc = "announced"
        /\ pc' \in {"drain", "prepare"}
        /\ UNCHANGED <<announced, results>>
    BY <1>3 DEF Schedule, AfterCall
  <2>2. announced' = pendingResults' /\ Len(results') <= Len(pendingResults')
    BY <2>1 DEF OrderInv
  <2>3. ASSUME NEW i \in DOMAIN results
        PROVE  results[i] = pendingResults'[i]
    <3>1. i \in 1..Len(pendingResults) /\ results[i] = pendingResults[i]
      BY <2>3 DEF OrderInv
    <3>2. QED
      BY <2>1, <3>1
  <2>4. QED
    BY <2>1, <2>2, <2>3 DEF OrderInv
<1>4. ASSUME NEW c \in Calls, EmitResult(c)
      PROVE  OrderInv'
  <2>1. /\ results' = Append(results, pendingResults[Len(results) + 1])
        /\ Len(results) < Len(pendingResults) /\ pc = "drain"
        /\ UNCHANGED <<pc, next, announced, pendingResults>>
    BY <1>4 DEF EmitResult, NextResult
  <2>2. Len(results') = Len(results) + 1 /\ DOMAIN results' = 1..(Len(results) + 1)
    BY <2>1
  <2>3. ASSUME NEW i \in DOMAIN results'
        PROVE  results'[i] = pendingResults'[i]
    BY <2>1, <2>2, <2>3 DEF OrderInv
  <2>4. QED
    BY <2>1, <2>2, <2>3 DEF OrderInv
<1>5. ASSUME NEW c \in Calls, Settle(c) \/ GraceTimeout(c) \/ LateReturn(c)
      PROVE  OrderInv'
  BY <1>5 DEF Settle, GraceTimeout, LateReturn, SettleTask, batchVars, OrderInv
<1>6. CASE DispatchFails \/ Return \/ Throw
  BY <1>6 DEF DispatchFails, Return, Throw, OrderInv
<1>7. CASE Abort \/ UNCHANGED vars
  BY <1>7 DEF Abort, vars, batchVars, OrderInv
<1>8. QED
  BY <1>1, <1>2, <1>3, <1>4, <1>5, <1>6, <1>7 DEF Next

(* Every announced call is answered once and in provider order, whatever   *)
(* order the tasks settle in (the loop over pendingResults in              *)
(* runToolCallBatch).                                                      *)
THEOREM ResultsAnswerCallsCorrect == Spec => []ResultsAnswerCalls
<1>1. Init => OrderInv
  BY DEF Init, OrderInv
<1>2. TypeOK /\ OrderInv /\ [Next]_vars => OrderInv'
  BY OrderInvStep
<1>3. TypeOK /\ OrderInv => ResultsAnswerCalls
  <2> SUFFICES ASSUME TypeOK, OrderInv PROVE ResultsAnswerCalls
    OBVIOUS
  <2>1. /\ Len(pendingResults) <= Len(announced)
        /\ \A i \in 1..Len(pendingResults) : announced[i] = pendingResults[i]
    BY DEF TypeOK, OrderInv
  <2>2. QED
    BY <2>1 DEF TypeOK, OrderInv, ResultsAnswerCalls
<1>4. QED
  BY <1>1, <1>2, <1>3, TypeCorrect, PTL DEF Spec

-----------------------------------------------------------------------------
(* Why awaiting pendingResults awaits every task: each task the scheduler  *)
(* holds has its promise there, a result was emitted for a settled task    *)
(* only, and a batch that ended has awaited them all.                      *)
AwaitInv ==
    /\ \A c \in queued \cup active : \E i \in DOMAIN pendingResults : pendingResults[i] = c
    /\ \A i \in DOMAIN results : results[i] \in settled
    /\ Finished => \A i \in DOMAIN pendingResults : pendingResults[i] \in settled

LEMMA AwaitInvStep ==
    ASSUME TypeOK, OrderInv, AwaitInv, [Next]_vars
    PROVE  AwaitInv'
<1> USE DEF TypeOK
<1>1. ASSUME NEW c \in Calls, NEW kind \in Outcomes, NEW acc \in AccessChoices \cup {{}},
             Announce(c, kind, acc)
      PROVE  AwaitInv'
  BY <1>1 DEF Announce, AwaitInv, Finished
<1>2. ASSUME NEW c \in Calls, SkipDuplicate(c)
      PROVE  AwaitInv'
  BY <1>2 DEF SkipDuplicate, AfterCall, AwaitInv, Finished
<1>3. ASSUME NEW c \in Calls, Schedule(c)
      PROVE  AwaitInv'
  <2>1. /\ pendingResults' = Append(pendingResults, c) /\ pc' \in {"drain", "prepare"}
        /\ queued' \cup active' = queued \cup active \cup {c}
        /\ UNCHANGED <<results, settled>>
    BY <1>3 DEF Schedule, AfterCall
  <2>2. /\ DOMAIN pendingResults' = 1..(Len(pendingResults) + 1)
        /\ DOMAIN pendingResults = 1..Len(pendingResults) /\ Len(pendingResults) \in Nat
        /\ pendingResults'[Len(pendingResults) + 1] = c
        /\ \A i \in DOMAIN pendingResults : pendingResults'[i] = pendingResults[i]
    BY <2>1
  <2>3. ASSUME NEW d \in queued' \cup active'
        PROVE  \E i \in DOMAIN pendingResults' : pendingResults'[i] = d
    <3>1. CASE d = c
      BY <2>2, <3>1
    <3>2. CASE d # c
      <4>1. PICK i \in DOMAIN pendingResults : pendingResults[i] = d
        BY <2>1, <2>3, <3>2 DEF AwaitInv
      <4>2. QED
        BY <2>2, <4>1
    <3>3. QED
      BY <3>1, <3>2
  <2>4. QED
    BY <2>1, <2>3 DEF AwaitInv, Finished
<1>4. ASSUME NEW c \in Calls, EmitResult(c)
      PROVE  AwaitInv'
  <2>1. /\ results' = Append(results, c) /\ c \in settled /\ pc = "drain"
        /\ UNCHANGED <<pc, queued, active, pendingResults, settled>>
    BY <1>4 DEF EmitResult, NextResult
  <2>2. \A i \in DOMAIN results' : results'[i] \in settled
    BY <2>1 DEF AwaitInv
  <2>3. QED
    BY <2>1, <2>2 DEF AwaitInv, Finished
<1>5. ASSUME NEW c \in Calls, Settle(c) \/ GraceTimeout(c) \/ LateReturn(c)
      PROVE  AwaitInv'
  <2>1. /\ queued' \cup active' \subseteq queued \cup active
        /\ settled \subseteq settled'
        /\ UNCHANGED <<pc, results, pendingResults>>
    BY <1>5 DEF Settle, GraceTimeout, LateReturn, SettleTask, StillQueued, batchVars
  <2>2. QED
    BY <2>1 DEF AwaitInv, Finished
<1>6. CASE Return
  BY <1>6 DEF Return, AwaitInv, Finished
<1>7. CASE Throw
  BY <1>7 DEF Throw, AllSettled, AwaitInv, Finished
<1>8. CASE DispatchFails
  BY <1>8 DEF DispatchFails, AwaitInv, Finished
<1>9. CASE Abort \/ UNCHANGED vars
  BY <1>9 DEF Abort, vars, batchVars, AwaitInv, Finished
<1>10. QED
  BY <1>1, <1>2, <1>3, <1>4, <1>5, <1>6, <1>7, <1>8, <1>9 DEF Next

(* A batch that hands control back, normally or by an exception, leaves no *)
(* task with the scheduler (the finally block of runToolCallBatch); a tool *)
(* still executing outlived an abort.                                      *)
THEOREM NoDetachedTaskCorrect == Spec => []NoDetachedTask
<1>1. Init => SerialInv /\ OrderInv /\ AwaitInv
  <2>1. Init => OrderInv /\ AwaitInv
    BY DEF Init, OrderInv, AwaitInv, Finished
  <2>2. QED
    BY <2>1, SerialInvInit
<1>2. SerialInv /\ OrderInv /\ AwaitInv /\ TypeOK' /\ [Next]_vars
        => (SerialInv /\ OrderInv /\ AwaitInv)'
  BY SerialInvStep, OrderInvStep, AwaitInvStep DEF SerialInv
<1>3. SerialInv /\ AwaitInv => NoDetachedTask
  BY DEF SerialInv, Placement, Execution, AwaitInv, NoDetachedTask
<1>4. QED
  BY <1>1, <1>2, <1>3, TypeCorrect, PTL DEF Spec

=============================================================================
