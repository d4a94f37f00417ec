--------------------------- MODULE TurnFlow_proofs ---------------------------
(* What the turn engine keeps for any number of turns, steps, steers and    *)
(* compactions: one live turn, one compaction that may rewrite the history, *)
(* and nothing said that is forgotten but what a summary covers.            *)
EXTENDS TurnFlow, SequenceTheorems, WellFoundedInduction, TLAPS

\* None is the name of no turn and of no compaction.
NoneIsNoName == None \notin Nat

\* The turns are numbered in the order of their launch, and only the latest
\* one can be active; a worker whose turn is not the active one is aborted.
TurnInv ==
  /\ turnId \in 0 .. MaxTurns
  /\ activeTurn \in {None, turnId}
  /\ DOMAIN turn = Turns
  /\ \A t \in Turns : DOMAIN turn[t] = DOMAIN NoTurn /\ turn[t].serial \in Nat
  /\ \A t \in Turns : Live(t) /\ ~turn[t].aborted => activeTurn = t

\* A compaction that may still apply is the current one.
CompactionInv ==
  /\ DOMAIN comp = Compactions /\ \A k \in Compactions : DOMAIN comp[k] = DOMAIN NoWorker
  /\ \A k \in Compactions : Running(k) /\ ~comp[k].aborted => compacting = k

LEMMA InitInv == Init => TurnInv /\ CompactionInv
BY TurnBounds, CompactionBounds
   DEF Init, TurnInv, CompactionInv, CompactionInit, Live, Running, NoTurn, NoWorker, Turns

-----------------------------------------------------------------------------
(* One live turn.                                                           *)

\* A worker that goes on: its turn stays active if it was.
WorkerGoesOn(t) ==
  /\ turn[t].pc \notin {"none", "ended"}
  /\ DOMAIN turn' = DOMAIN turn
  /\ \A u \in Turns : u # t => turn'[u] = turn[u]
  /\ turn'[t].aborted = turn[t].aborted /\ DOMAIN turn'[t] = DOMAIN turn[t]
  /\ turn'[t].serial \in Nat
  /\ UNCHANGED <<turnId, activeTurn>>

LEMMA GoesOnKeeps ==
    ASSUME TurnInv, NEW t \in Turns, WorkerGoesOn(t)
    PROVE  TurnInv'
BY DEF TurnInv, WorkerGoesOn, Live

LEMMA EndsKeeps ==
    ASSUME TurnInv, NEW t \in Turns, NEW outcome, Ends(t, outcome)
    PROVE  TurnInv'
<1>1. /\ DOMAIN turn' = Turns /\ \A u \in Turns : u # t => turn'[u] = turn[u]
      /\ turn'[t] = [NoTurn EXCEPT !.pc = "ended", !.outcome = outcome]
      /\ activeTurn' = IF turnId = t THEN None ELSE activeTurn
      /\ turnId' = turnId
  BY DEF Ends, TurnInv
<1>2. turn'[t].pc = "ended" /\ DOMAIN turn'[t] = DOMAIN NoTurn /\ turn'[t].serial \in Nat
  BY <1>1 DEF NoTurn
<1>3. QED
  BY <1>1, <1>2 DEF TurnInv, Live

LEMMA LaunchKeeps ==
    ASSUME NoneIsNoName, TurnInv, NEW m, Launch(m)
    PROVE  TurnInv'
<1>1. /\ activeTurn = None /\ turnId < MaxTurns /\ turnId' = turnId + 1
      /\ activeTurn' = turnId + 1 /\ DOMAIN turn' = Turns
      /\ \A u \in Turns : u # turnId + 1 => turn'[u] = turn[u]
      /\ \A u \in Turns : DOMAIN turn'[u] = DOMAIN NoTurn /\ turn'[u].serial \in Nat
  BY DEF Launch, TurnInv, NoTurn
<1>2. turnId \in 0 .. MaxTurns /\ MaxTurns \in Nat
  BY TurnBounds DEF TurnInv
<1>3. \A u \in Turns : u # turnId + 1 => ~(Live(u)' /\ ~turn'[u].aborted)
  BY <1>1, <1>2 DEF TurnInv, Live, NoneIsNoName, Turns
<1>4. QED
  BY <1>1, <1>2, <1>3 DEF TurnInv

\* Every update of a worker's record but those of a request and of its end.
LEMMA UpdateGoesOn ==
    ASSUME TurnInv, NEW t \in Turns, turn[t].pc \notin {"none", "ended"},
           UNCHANGED <<turnId, activeTurn>>,
           NEW pc, NEW step, NEW heard, NEW on, NEW stop,
           \/ turn' = [turn EXCEPT ![t].pc = pc]
           \/ turn' = [turn EXCEPT ![t].heard = heard]
           \/ turn' = [turn EXCEPT ![t].pc = pc, ![t].step = step]
           \/ turn' = [turn EXCEPT ![t].pc = pc, ![t].on = on]
           \/ turn' = [turn EXCEPT ![t].pc = pc, ![t].stopUsed = stop]
           \/ turn' = [turn EXCEPT ![t].pc = pc, ![t].on = on, ![t].step = step]
           \/ turn' = [turn EXCEPT ![t].pc = pc, ![t].step = step, ![t].on = on]
    PROVE  TurnInv'
<1>1. /\ DOMAIN turn = Turns /\ turn[t].serial \in Nat
      /\ "aborted" \in DOMAIN turn[t] /\ "serial" \in DOMAIN turn[t]
  BY DEF TurnInv, NoTurn
<1>2. WorkerGoesOn(t)
  BY <1>1 DEF WorkerGoesOn
<1>3. QED
  BY <1>2, GoesOnKeeps

\* A step that leaves the turns alone.
LEMMA TurnsIdle ==
    ASSUME TurnInv, UNCHANGED <<turnId, activeTurn, turn>>
    PROVE  TurnInv'
BY DEF TurnInv, Live

LEMMA CancelKeeps ==
    ASSUME TurnInv, Cancel
    PROVE  TurnInv'
<1>1. /\ turn' = [turn EXCEPT ![activeTurn].aborted = TRUE] /\ activeTurn' = None
      /\ turnId' = turnId
  BY DEF Cancel
<1>2. /\ DOMAIN turn' = Turns
      /\ \A u \in Turns : DOMAIN turn'[u] = DOMAIN NoTurn /\ turn'[u].serial \in Nat
      /\ \A u \in Turns : u # activeTurn => turn'[u] = turn[u]
      /\ \A u \in Turns : u = activeTurn => turn'[u].aborted = TRUE
  BY <1>1 DEF TurnInv, NoTurn
<1>3. QED
  BY <1>1, <1>2 DEF TurnInv, Live

LEMMA CrashKeeps ==
    ASSUME TurnInv, Crash
    PROVE  TurnInv'
<1>1. /\ turn' = [t \in Turns |->
           IF Live(t) THEN [NoTurn EXCEPT !.pc = "ended", !.outcome = "crashed"]
                      ELSE turn[t]]
      /\ activeTurn' = None /\ turnId' = turnId
  BY DEF Crash
<1>2. \A t \in Turns : ~Live(t)' /\ DOMAIN turn'[t] = DOMAIN NoTurn /\ turn'[t].serial \in Nat
  BY <1>1 DEF TurnInv, Live, NoTurn
<1>3. QED
  BY <1>1, <1>2 DEF TurnInv

LEMMA TurnStepKeeps ==
    ASSUME TurnInv, NEW t \in Turns, TurnStep(t)
    PROVE  TurnInv'
<1>1. CASE Unwind(t)
  BY <1>1, EndsKeeps DEF Unwind
<1>2. CASE PromptHook(t)
  BY <1>2, EndsKeeps, UpdateGoesOn, Zenon DEF PromptHook, Go
<1>3. CASE Load(t)
  BY <1>3, UpdateGoesOn, Zenon DEF Load, Go
<1>4. CASE BeginStep(t)
  <2>1. turn[t].pc = "loop"
    BY <1>4 DEF BeginStep
  <2>2. CASE Ends(t, "failed")
    BY <2>2, EndsKeeps
  <2>3. ASSUME UNCHANGED <<turnId, activeTurn>>,
               turn' = [turn EXCEPT ![t].pc = "inject", ![t].step = @ + 1]
        PROVE  TurnInv'
    BY <2>1, <2>3, UpdateGoesOn, Zenon
  <2>4. ASSUME UNCHANGED <<turnId, activeTurn>>, NEW on, NEW place,
               turn' = [turn EXCEPT ![t].pc = place, ![t].on = on, ![t].step = @ + 1]
        PROVE  TurnInv'
    BY <2>1, <2>4, UpdateGoesOn, Zenon
  <2>5. QED
    BY <1>4, <2>2, <2>3, <2>4, Zenon DEF BeginStep
<1>5. CASE TooManySteps(t)
  BY <1>5, EndsKeeps DEF TooManySteps
<1>6. CASE Unblock(t)
  BY <1>6, UpdateGoesOn, Zenon DEF Unblock
<1>7. CASE SendRequest(t)
  <2>1. /\ turn' = [turn EXCEPT ![t].pc = "chat", ![t].serial = @ + 1, ![t].heard = FALSE]
        /\ turn[t].pc = "inject" /\ UNCHANGED <<turnId, activeTurn>>
    BY <1>7 DEF SendRequest
  <2>2. DOMAIN turn = Turns /\ DOMAIN turn[t] = DOMAIN NoTurn /\ turn[t].serial \in Nat
    BY DEF TurnInv
  <2>3. WorkerGoesOn(t)
    BY <2>1, <2>2 DEF WorkerGoesOn, NoTurn
  <2>4. QED
    BY <2>3, GoesOnKeeps
<1>8. CASE ContentPart(t) \/ ToolCall(t) \/ ChatEnds(t)
  BY <1>8, UpdateGoesOn, Zenon DEF ContentPart, ToolCall, ChatEnds, Chatting, Go
<1>9. CASE OrphanedPart(t) \/ ChatFails(t)
  BY <1>9, EndsKeeps DEF OrphanedPart, ChatFails
<1>10. CASE ChatOverflows(t)
  <2>1. turn[t].pc = "chat"
    BY <1>10 DEF ChatOverflows, Chatting
  <2>2. CASE Ends(t, "failed")
    BY <2>2, EndsKeeps
  <2>3. ASSUME UNCHANGED <<turnId, activeTurn>>, NEW on,
               turn' = [turn EXCEPT ![t].pc = "overflow", ![t].on = on]
        PROVE  TurnInv'
    BY <2>1, <2>3, UpdateGoesOn, Zenon
  <2>4. QED
    BY <1>10, <2>2, <2>3, Zenon DEF ChatOverflows
<1>11. CASE ToolResult(t) \/ SealStep(t) \/ StopFlushes(t)
  BY <1>11, UpdateGoesOn, Zenon DEF ToolResult, SealStep, StopFlushes, Go
<1>12. CASE OffloadResult(t)
  BY <1>12, TurnsIdle DEF OffloadResult, tvars
<1>13. CASE StopAsks(t)
  BY <1>13, EndsKeeps, UpdateGoesOn, ZenonT(30) DEF StopAsks, Go
<1>14. CASE StopHook(t)
  <2>1. CASE Ends(t, "completed")
    BY <2>1, EndsKeeps
  <2>2. CASE /\ turn' = [turn EXCEPT ![t].pc = "loop", ![t].stopUsed = TRUE]
             /\ UNCHANGED <<activeTurn, turnId>>
    <3>1. turn[t].pc \notin {"none", "ended"}
      BY <1>14 DEF StopHook
    <3>2. QED
      BY <2>2, <3>1, UpdateGoesOn, Zenon
  <2>3. QED
    BY <1>14, <2>1, <2>2, Zenon DEF StopHook
<1>15. QED
  BY <1>1, <1>2, <1>3, <1>4, <1>5, <1>6, <1>7, <1>8, <1>9, <1>10, <1>11, <1>12, <1>13,
     <1>14, Zenon DEF TurnStep

LEMMA TurnInvStep == NoneIsNoName /\ TurnInv /\ [Next]_vars => TurnInv'
<1> SUFFICES ASSUME NoneIsNoName, TurnInv, [Next]_vars PROVE TurnInv'
  OBVIOUS
<1>1. CASE Prompt \/ SteerLaunches
  BY <1>1, LaunchKeeps DEF Prompt, SteerLaunches
<1>2. CASE SteerBuffered \/ HostCompacts \/ ClearContext \/ UNCHANGED vars
  BY <1>2, TurnsIdle DEF SteerBuffered, HostCompacts, ClearContext, vars, tvars
<1>3. CASE Cancel
  BY <1>3, CancelKeeps
<1>4. CASE Crash
  BY <1>4, CrashKeeps
<1>5. ASSUME NEW t \in Turns, TurnStep(t) PROVE TurnInv'
  BY <1>5, TurnStepKeeps
<1>6. ASSUME NEW k \in Compactions, CompactionStep(k) PROVE TurnInv'
  BY <1>6, TurnsIdle DEF CompactionStep, tvars
<1>7. QED
  BY <1>1, <1>2, <1>3, <1>4, <1>5, <1>6, Zenon DEF Next

-----------------------------------------------------------------------------
(* One compaction that may rewrite the history.                             *)

\* The step applies no compaction but the current one.
AppliesCurrent ==
  \A k \in Compactions :
    comp[k].pc # "applied" /\ comp'[k].pc = "applied"
      => compacting = k /\ ~comp[k].aborted

LEMMA CompactionsIdle ==
    ASSUME CompactionInv, UNCHANGED <<compacting, comp>>
    PROVE  CompactionInv' /\ AppliesCurrent
BY DEF CompactionInv, Running, AppliesCurrent

LEMMA NoneCurrent ==
    ASSUME NoneIsNoName, CompactionInv, compacting = None, NEW k \in Compactions
    PROVE  ~(Running(k) /\ ~comp[k].aborted)
BY CompactionBounds DEF NoneIsNoName, CompactionInv, Compactions

LEMMA StartKeeps ==
    ASSUME NoneIsNoName, CompactionInv, compacting = None, NEW c, NEW count,
           StartWorker(c, count)
    PROVE  CompactionInv' /\ AppliesCurrent
<1> DEFINE first == Min(Unstarted)
           r == [pc |-> "hook", aborted |-> FALSE, snap |-> c.history, count |-> count]
<1>1. comp' = [comp EXCEPT ![first] = r] /\ compacting' = first
  BY Zenon DEF StartWorker
<1> HIDE DEF first
<1>2. /\ DOMAIN comp' = Compactions
      /\ \A j \in Compactions : j # first => comp'[j] = comp[j]
      /\ \A j \in Compactions : j = first => comp'[j] = r
  BY <1>1, Zenon DEF CompactionInv
<1>3. r.pc = "hook" /\ DOMAIN r = DOMAIN NoWorker
  BY DEF NoWorker
<1> HIDE DEF r
<1>4. ASSUME NEW j \in Compactions, Running(j)', ~comp'[j].aborted PROVE j = first
  BY <1>2, <1>4, NoneCurrent DEF Running
<1>5. CompactionInv'
  BY <1>1, <1>2, <1>3, <1>4 DEF CompactionInv
<1>6. AppliesCurrent
  BY <1>2, <1>3 DEF AppliesCurrent
<1>7. QED
  BY <1>5, <1>6

LEMMA BeginAutoKeeps ==
    ASSUME NoneIsNoName, CompactionInv, compacting = None, NEW c, BeginAuto(c)
    PROVE  CompactionInv' /\ AppliesCurrent
BY StartKeeps, CompactionsIdle, Zenon DEF BeginAuto

LEMMA AbortKeeps ==
    ASSUME CompactionInv, comp' = Abort(compacting), compacting' = None
    PROVE  CompactionInv' /\ AppliesCurrent
<1>1. /\ DOMAIN comp' = Compactions
      /\ \A j \in Compactions : /\ DOMAIN comp'[j] = DOMAIN NoWorker
                                /\ comp'[j].pc = comp[j].pc
                                /\ j # compacting => comp'[j] = comp[j]
                                /\ j = compacting => comp'[j].aborted = TRUE
  BY DEF CompactionInv, Abort, NoWorker
<1>2. CompactionInv'
  BY <1>1 DEF CompactionInv, Running
<1>3. AppliesCurrent
  BY <1>1 DEF AppliesCurrent
<1>4. QED
  BY <1>2, <1>3

\* A worker goes on, or returns, and the compaction stays current unless it
\* was the current one.
LEMMA WorkerKeeps ==
    ASSUME NoneIsNoName, CompactionInv, NEW k \in Compactions, Worker(k)
    PROVE  CompactionInv' /\ AppliesCurrent
<1>1. ASSUME NEW place \in {"applied", "ended"}
      PROVE  /\ Gone(place).pc = place /\ DOMAIN Gone(place) = DOMAIN NoWorker
  BY DEF Gone, NoWorker
<1>2. ASSUME NEW r, comp' = [comp EXCEPT ![k] = r]
      PROVE  /\ DOMAIN comp' = Compactions /\ comp'[k] = r
             /\ \A j \in Compactions : j # k => comp'[j] = comp[j]
  BY <1>2, Zenon DEF CompactionInv
<1>3. ASSUME NEW place \in {"applied", "ended"}, comp' = [comp EXCEPT ![k] = Gone(place)],
             \/ compacting' = compacting
             \/ compacting' = None /\ Running(k) /\ ~comp[k].aborted,
             place = "applied" => Running(k) /\ ~comp[k].aborted
      PROVE  CompactionInv' /\ AppliesCurrent
  <2>1. /\ DOMAIN comp' = Compactions /\ comp'[k].pc = place
        /\ DOMAIN comp'[k] = DOMAIN NoWorker
        /\ \A j \in Compactions : j # k => comp'[j] = comp[j]
    BY <1>1, <1>2, <1>3
  <2>2. CompactionInv'
    BY <1>3, <2>1 DEF CompactionInv, Running
  <2>3. AppliesCurrent
    BY <1>3, <2>1 DEF AppliesCurrent, CompactionInv
  <2>4. QED
    BY <2>2, <2>3
<1>4. CASE PreCompactHook(k)
  <2>1. CASE comp' = [comp EXCEPT ![k] = Gone("ended")]
    BY <1>3, <1>4, <2>1 DEF PreCompactHook
  <2>2. CASE comp' = [comp EXCEPT ![k] = [comp[k] EXCEPT !.pc = "generate"]]
    <3>1. /\ DOMAIN comp' = Compactions /\ comp'[k].pc = "generate"
          /\ comp'[k].aborted = comp[k].aborted /\ DOMAIN comp'[k] = DOMAIN NoWorker
          /\ \A j \in Compactions : j # k => comp'[j] = comp[j]
      BY <2>2 DEF CompactionInv, NoWorker
    <3>2. Running(k) /\ compacting' = compacting
      BY <1>4 DEF PreCompactHook, Running
    <3>3. CompactionInv'
      BY <3>1, <3>2 DEF CompactionInv, Running
    <3>4. AppliesCurrent
      BY <3>1 DEF AppliesCurrent
    <3>5. QED
      BY <3>3, <3>4
  <2>3. QED
    BY <1>4, <2>1, <2>2, Zenon DEF PreCompactHook
<1>5. CASE Apply(k)
  BY <1>3, <1>5 DEF Apply, Running
<1>6. CASE Outdated(k)
  BY <1>3, <1>6 DEF Outdated, Running
<1>7. CASE GenerateEnds(k)
  BY <1>3, <1>7 DEF GenerateEnds, Running
<1>8. QED
  BY <1>4, <1>5, <1>6, <1>7 DEF Worker

LEMMA CompactionStepKeeps ==
    NoneIsNoName /\ CompactionInv /\ [Next]_vars => CompactionInv' /\ AppliesCurrent
<1> SUFFICES ASSUME NoneIsNoName, CompactionInv, [Next]_vars
             PROVE  CompactionInv' /\ AppliesCurrent
  OBVIOUS
<1>1. CASE \/ Prompt \/ SteerBuffered \/ SteerLaunches \/ ClearContext \/ UNCHANGED vars
  BY <1>1, CompactionsIdle
     DEF Prompt, SteerBuffered, SteerLaunches, Launch, ClearContext, vars, cvars
<1>2. CASE Cancel
  <2>1. CASE comp' = Abort(compacting) /\ compacting' = None
    BY <2>1, AbortKeeps
  <2>2. CASE UNCHANGED <<comp, compacting>>
    BY <2>2, CompactionsIdle
  <2>3. QED
    BY <1>2, <2>1, <2>2, Zenon DEF Cancel
<1>3. CASE HostCompacts
  <2>1. CASE BeginManual
    BY <2>1, StartKeeps, CompactionsIdle, Zenon DEF BeginManual
  <2>2. CASE CancelCompaction
    BY <2>2, AbortKeeps DEF CancelCompaction
  <2>3. QED
    BY <1>3, <2>1, <2>2 DEF HostCompacts
<1>4. CASE Crash
  <2>1. /\ comp' = [k \in Compactions |-> IF Running(k) THEN Gone("ended") ELSE comp[k]]
        /\ compacting' = None
    BY <1>4 DEF Crash
  <2>2. \A k \in Compactions : /\ ~Running(k)' /\ DOMAIN comp'[k] = DOMAIN NoWorker
                               /\ comp'[k].pc = "applied" => comp[k].pc = "applied"
    BY <2>1 DEF Running, Gone, NoWorker, CompactionInv
  <2>3. QED
    BY <2>1, <2>2 DEF CompactionInv, AppliesCurrent
<1>5. ASSUME NEW t \in Turns, TurnStep(t) PROVE CompactionInv' /\ AppliesCurrent
  <2>1. CASE BeginStep(t)
    BY <2>1, BeginAutoKeeps, CompactionsIdle, Zenon DEF BeginStep
  <2>2. CASE ChatOverflows(t)
    <3>1. CASE UNCHANGED <<compacting, comp>>
      BY <3>1, CompactionsIdle
    <3>2. CASE compacting = None /\ BeginAuto(ctx)
      BY <3>2, BeginAutoKeeps
    <3>3. QED
      BY <2>2, <3>1, <3>2 DEF ChatOverflows, cvars
  <2>3. CASE \/ Unwind(t) \/ PromptHook(t) \/ Load(t) \/ TooManySteps(t) \/ Unblock(t)
             \/ SendRequest(t) \/ ContentPart(t) \/ ToolCall(t) \/ OrphanedPart(t)
             \/ ChatEnds(t) \/ ChatFails(t) \/ ToolResult(t) \/ OffloadResult(t)
             \/ SealStep(t) \/ StopFlushes(t) \/ StopAsks(t) \/ StopHook(t)
    <3>1. UNCHANGED <<compacting, comp>>
      BY <2>3
         DEF Unwind, PromptHook, Load, TooManySteps, Unblock, SendRequest, ContentPart,
             ToolCall, OrphanedPart, ChatEnds, ChatFails, ToolResult, OffloadResult,
             SealStep, StopFlushes, StopAsks, StopHook, cvars
    <3>2. QED
      BY <3>1, CompactionsIdle
  <2>4. QED
    BY <1>5, <2>1, <2>2, <2>3, Zenon DEF TurnStep
<1>6. ASSUME NEW k \in Compactions, CompactionStep(k)
      PROVE  CompactionInv' /\ AppliesCurrent
  BY <1>6, WorkerKeeps DEF CompactionStep
<1>7. QED
  BY <1>1, <1>2, <1>3, <1>4, <1>5, <1>6, Zenon DEF Next

-----------------------------------------------------------------------------
(* Turns and compactions; the context plays no part in these.               *)

LEMMA NameStays == NoneIsNoName => []NoneIsNoName
<1>1. NoneIsNoName => NoneIsNoName'
  BY DEF NoneIsNoName
<1>2. QED
  BY <1>1, PTL

\* Whatever the order in which cancelled workers unwind and new turns are
\* launched, at most one worker that is not aborted drives the agent, that of
\* the active turn (turn/index.ts launch, abortTurn, the end of turnWorker).
THEOREM OneLiveTurnCorrect == NoneIsNoName /\ Spec => []OneLiveTurn
<1>1. Init => TurnInv
  BY InitInv
<1>2. TurnInv => OneLiveTurn
  BY DEF TurnInv, OneLiveTurn
<1>3. QED
  BY <1>1, <1>2, TurnInvStep, NameStays, PTL DEF Spec

\* Only the current compaction, not aborted, rewrites the history, although
\* cancelled ones wind down beside it (full.ts compactionWorker, markCanceled).
THEOREM OnlyCurrentAppliesCorrect == NoneIsNoName /\ Spec => OnlyCurrentApplies
<1>1. Init => CompactionInv
  BY InitInv
<1>2. AppliesCurrent =>
        [ \A k \in Compactions :
            comp[k].pc # "applied" /\ comp'[k].pc = "applied"
              => compacting = k /\ ~comp[k].aborted ]_vars
  BY DEF AppliesCurrent
<1>3. QED
  BY <1>1, <1>2, CompactionStepKeeps, NameStays, PTL DEF Spec, OnlyCurrentApplies


-----------------------------------------------------------------------------
(* Where a history may be cut.                                              *)

Kinds    == {"prompt", "trigger", "notice", "assistant", "tool", "summary"}
Messages == [kind : Kinds, turn : Nat, n : Nat, rev : {0, 1}]
Steps    == Nat \X Nat
Contexts == [history : Seq(Messages), open : SUBSET Steps, pending : SUBSET Steps,
             deferred : Seq(Messages), called : SUBSET Steps, filled : SUBSET Steps]

LEMMA LeastNatural ==
    ASSUME NEW T, T \subseteq Nat, T # {}
    PROVE  \E m \in T : \A k \in T : m <= k
<1> DEFINE R == {ss \in Nat \X Nat : ss[1] < ss[2]}
<1>1. IsWellFoundedOn(R, Nat)
  BY NatLessThanWellFounded DEF OpToRel
<1>2. PICK m \in T : \A k \in T : <<k, m>> \notin R
  <2> HIDE DEF R
  <2> QED BY <1>1, WFMin
<1>3. ASSUME NEW k \in T PROVE m <= k
  <2>1. <<k, m>> \in Nat \X Nat /\ <<k, m>> \notin R
    BY <1>2
  <2>2. ~(k < m)
    BY <2>1
  <2>3. QED
    BY <2>2
<1>4. QED
  BY <1>2, <1>3

LEMMA SetInduction ==
    ASSUME NEW T, 0 \in T, \A n \in Nat : n \in T => n + 1 \in T
    PROVE  Nat \subseteq T
<1> SUFFICES ASSUME Nat \ T # {} PROVE FALSE
  OBVIOUS
<1>1. PICK m \in Nat \ T : \A k \in Nat \ T : m <= k
  BY LeastNatural
<1>2. m # 0 /\ m - 1 \in Nat
  BY <1>1
<1>3. m - 1 \in T
  BY <1>1, <1>2
<1>4. QED
  BY <1>2, <1>3

LEMMA LargestNatural ==
    ASSUME NEW N \in Nat, NEW T, T \subseteq 0 .. N, T # {}
    PROVE  Max(T) \in T
<1> DEFINE R == { k \in Nat : k <= N /\ N - k \in T }
<1>1. R # {}
  <2>1. PICK x \in T : TRUE
    OBVIOUS
  <2>2. N - x \in R
    BY <2>1
  <2>3. QED
    BY <2>2
<1>2. PICK m \in R : \A k \in R : m <= k
  <2>1. R \subseteq Nat
    OBVIOUS
  <2> HIDE DEF R
  <2>2. QED
    BY <1>1, <2>1, LeastNatural
<1>3. N - m \in T
  BY <1>2
<1>4. ASSUME NEW y \in T PROVE N - m >= y
  <2>1. N - y \in R /\ y \in 0 .. N /\ m \in Nat
    BY <1>2
  <2>2. m <= N - y
    BY <1>2, <2>1
  <2>3. QED
    BY <2>1, <2>2
<1>5. QED
  BY <1>3, <1>4 DEF Max

LEMMA CutsBounded ==
    ASSUME NEW c \in Contexts
    PROVE  WantedCuts(c) \subseteq 0 .. Len(c.history)
<1>1. Len(c.history) \in Nat /\ DOMAIN c.history = 1 .. Len(c.history)
  BY DEF Contexts
<1>2. LastCut(c) \in 0 .. Len(c.history)
  <2> DEFINE T == {0} \cup {i \in DOMAIN c.history : ~Trails(c, c.history[i])}
  <2>1. T \subseteq 0 .. Len(c.history) /\ T # {}
    BY <1>1
  <2>2. LastCut(c) = Max(T)
    BY DEF LastCut
  <2> HIDE DEF T
  <2>3. QED
    BY <1>1, <2>1, <2>2, LargestNatural
<1>3. QED
  BY <1>1, <1>2 DEF WantedCuts

\* C lists the cuts that CompleteSlice goes through in the first n messages.
Moves(C, c, wanted, n) ==
  C = [i \in 0 .. n |->
         IF i = 0 THEN wanted
         ELSE IF Splits(c, i, C[i - 1]) THEN BeforePrompt(c.history, i) ELSE C[i - 1]]

LEMMA MovesExist ==
    ASSUME NEW c, NEW wanted, NEW n \in Nat
    PROVE  \E C : Moves(C, c, wanted, n)
<1> DEFINE Moved(i, x) == IF Splits(c, i, x) THEN BeforePrompt(c.history, i) ELSE x
           T == { k \in Nat : \E C : Moves(C, c, wanted, k) }
<1>1. 0 \in T
  <2> DEFINE C == [i \in 0 .. 0 |-> wanted]
  <2>1. C = [i \in 0 .. 0 |-> IF i = 0 THEN wanted ELSE Moved(i, C[i - 1])]
    BY \A i \in 0 .. 0 : i = 0
  <2>2. Moves(C, c, wanted, 0)
    BY <2>1 DEF Moves
  <2>3. QED
    BY <2>2
<1>2. ASSUME NEW k \in Nat, k \in T PROVE k + 1 \in T
  <2>1. PICK C : Moves(C, c, wanted, k)
    BY <1>2
  <2> DEFINE D == [i \in 0 .. (k + 1) |-> IF i = k + 1 THEN Moved(k + 1, C[k]) ELSE C[i]]
  <2>2. \A i \in 0 .. k : D[i] = C[i]
    OBVIOUS
  <2>3. ASSUME NEW i \in 0 .. (k + 1)
        PROVE  D[i] = IF i = 0 THEN wanted ELSE Moved(i, D[i - 1])
    <3>1. CASE i = k + 1
      BY <2>2, <3>1
    <3>2. CASE i \in 0 .. k
      <4>1. C[i] = IF i = 0 THEN wanted ELSE Moved(i, C[i - 1])
        BY <2>1, <3>2 DEF Moves
      <4>2. i # 0 => i - 1 \in 0 .. k
        BY <3>2
      <4>3. QED
        BY <2>2, <3>2, <4>1, <4>2
    <3>3. QED
      BY <3>1, <3>2
  <2>4. D = [i \in 0 .. (k + 1) |-> D[i]]
    OBVIOUS
  <2>5. Moves(D, c, wanted, k + 1)
    <3> HIDE DEF D
    <3> QED BY <2>3, <2>4 DEF Moves
  <2>6. QED
    BY <2>5
<1>3. Nat \subseteq T
  <2> HIDE DEF T
  <2> QED BY <1>1, <1>2, SetInduction
<1>4. QED
  BY <1>3

\* A cut only moves towards the front.
LEMMA SliceBounded ==
    ASSUME NEW c \in Contexts, NEW wanted \in Nat
    PROVE  CompleteSlice(c, wanted) \in 0 .. wanted
<1> DEFINE n == Len(c.history)
           C == CHOOSE C : Moves(C, c, wanted, n)
           T == { k \in Nat : k <= n => C[k] \in 0 .. wanted }
<1>1. n \in Nat
  BY DEF Contexts
<1>2. Moves(C, c, wanted, n)
  BY <1>1, MovesExist
<1>3. CompleteSlice(c, wanted) = C[n]
  BY DEF CompleteSlice, Moves
<1> HIDE DEF C, n
<1>4. 0 \in T
  BY <1>1, <1>2 DEF Moves
<1>5. ASSUME NEW k \in Nat, k \in T PROVE k + 1 \in T
  <2> SUFFICES ASSUME k + 1 <= n PROVE C[k + 1] \in 0 .. wanted
    OBVIOUS
  <2>1. C[k] \in 0 .. wanted
    BY <1>1, <1>5
  <2>2. C[k + 1] = IF Splits(c, k + 1, C[k]) THEN BeforePrompt(c.history, k + 1) ELSE C[k]
    <3>1. k + 1 \in 0 .. n /\ k + 1 # 0 /\ (k + 1) - 1 = k
      BY <1>1
    <3>2. QED
      BY <1>2, <3>1 DEF Moves
  <2>3. CASE Splits(c, k + 1, C[k])
    <3>1. C[k] >= k + 1
      BY <2>3 DEF Splits
    <3>2. BeforePrompt(c.history, k + 1) \in 0 .. k
      BY DEF BeforePrompt
    <3>3. QED
      BY <2>1, <2>2, <2>3, <3>1, <3>2
  <2>4. QED
    BY <2>1, <2>2, <2>3
<1>6. Nat \subseteq T
  <2> HIDE DEF T
  <2> QED BY <1>4, <1>5, SetInduction
<1>7. QED
  BY <1>1, <1>3, <1>6

LEMMA CountsBounded ==
    ASSUME NEW c \in Contexts, NEW count \in CompactableCounts(c)
    PROVE  count \in 0 .. Len(c.history)
<1>1. PICK w \in WantedCuts(c) : count = CompleteSlice(c, w)
  BY DEF CompactableCounts
<1>2. w \in 0 .. Len(c.history) /\ Len(c.history) \in Nat
  BY CutsBounded DEF Contexts
<1>3. QED
  BY <1>1, <1>2, SliceBounded

-----------------------------------------------------------------------------
(* What the folds keep of a context.                                        *)

LEMMA ToldFacts ==
    ASSUME NEW A, NEW B
    PROVE  /\ Told(A \cup B) = Told(A) \cup Told(B)
           /\ A \subseteq B => Told(A) \subseteq Told(B)
BY DEF Told

LEMMA AppendFacts ==
    ASSUME NEW s \in Seq(Messages), NEW m \in Messages
    PROVE  Append(s, m) \in Seq(Messages) /\ ToSet(Append(s, m)) = ToSet(s) \cup {m}
<1> DEFINE T == Append(s, m)
<1>1. /\ T \in Seq(Messages) /\ Len(s) \in Nat /\ DOMAIN s = 1 .. Len(s)
      /\ DOMAIN T = 1 .. (Len(s) + 1)
      /\ T[Len(s) + 1] = m /\ \A i \in 1 .. Len(s) : T[i] = s[i]
  OBVIOUS
<1> HIDE DEF T
<1>2. ToSet(T) \subseteq ToSet(s) \cup {m}
  BY <1>1 DEF ToSet
<1>3. ToSet(s) \cup {m} \subseteq ToSet(T)
  BY <1>1 DEF ToSet
<1>4. QED
  BY <1>1, <1>2, <1>3 DEF T

LEMMA ConcatFacts ==
    ASSUME NEW s \in Seq(Messages), NEW u \in Seq(Messages)
    PROVE  s \o u \in Seq(Messages) /\ ToSet(s \o u) = ToSet(s) \cup ToSet(u)
<1> DEFINE T == s \o u
<1>1. /\ T \in Seq(Messages) /\ Len(s) \in Nat /\ Len(u) \in Nat
      /\ DOMAIN s = 1 .. Len(s) /\ DOMAIN u = 1 .. Len(u)
      /\ DOMAIN T = 1 .. (Len(s) + Len(u))
      /\ \A i \in 1 .. (Len(s) + Len(u)) :
           T[i] = IF i <= Len(s) THEN s[i] ELSE u[i - Len(s)]
  BY ConcatProperties, LenProperties
<1> HIDE DEF T
<1>2. ASSUME NEW i \in DOMAIN T PROVE T[i] \in ToSet(s) \cup ToSet(u)
  <2>1. CASE i <= Len(s)
    BY <1>1, <2>1 DEF ToSet
  <2>2. CASE ~(i <= Len(s))
    <3>1. i - Len(s) \in DOMAIN u /\ T[i] = u[i - Len(s)]
      BY <1>1, <2>2
    <3>2. QED
      BY <3>1 DEF ToSet
  <2>3. QED
    BY <2>1, <2>2
<1>3. ToSet(s) \subseteq ToSet(T)
  BY <1>1 DEF ToSet
<1>4. ASSUME NEW i \in DOMAIN u PROVE u[i] \in ToSet(T)
  <2>1. i + Len(s) \in DOMAIN T /\ ~(i + Len(s) <= Len(s)) /\ (i + Len(s)) - Len(s) = i
    BY <1>1
  <2>2. T[i + Len(s)] = u[i]
    BY <1>1, <2>1
  <2>3. QED
    BY <2>1, <2>2 DEF ToSet
<1>5. QED
  BY <1>1, <1>2, <1>3, <1>4 DEF T, ToSet

\* d holds what c does, and the messages ms besides.
Keeps(d, c, ms) == d \in Contexts /\ Held(c) \cup ms \subseteq Held(d)

LEMMA AppendMessageKeeps ==
    ASSUME NEW c \in Contexts, NEW m \in Messages
    PROVE  Keeps(FoldAppendMessage(c, m), c, {m})
<1>1. c.history \in Seq(Messages) /\ c.deferred \in Seq(Messages)
  BY DEF Contexts
<1>2. CASE c.pending # {}
  <2> DEFINE s == Append(c.deferred, m)
  <2>1. s \in Seq(Messages) /\ ToSet(s) = ToSet(c.deferred) \cup {m}
    BY <1>1, AppendFacts
  <2>2. FoldAppendMessage(c, m) = [c EXCEPT !.deferred = s]
    BY <1>2 DEF FoldAppendMessage
  <2> HIDE DEF s
  <2>3. QED
    BY <2>1, <2>2 DEF Keeps, Held, Contexts
<1>3. CASE c.pending = {}
  <2> DEFINE s == Append(c.history, m)
  <2>1. s \in Seq(Messages) /\ ToSet(s) = ToSet(c.history) \cup {m}
    BY <1>1, AppendFacts
  <2>2. FoldAppendMessage(c, m) = [c EXCEPT !.history = s]
    BY <1>3 DEF FoldAppendMessage
  <2> HIDE DEF s
  <2>3. QED
    BY <2>1, <2>2 DEF Keeps, Held, Contexts
<1>4. QED
  BY <1>2, <1>3

LEMMA AppendAllKeeps ==
    ASSUME NEW c \in Contexts, NEW ms \in Seq(Messages)
    PROVE  Keeps(AppendAll(c, ms), c, ToSet(ms))
<1>1. c.history \in Seq(Messages) /\ c.deferred \in Seq(Messages)
  BY DEF Contexts
<1>2. CASE c.pending # {}
  <2> DEFINE s == c.deferred \o ms
  <2>1. s \in Seq(Messages) /\ ToSet(s) = ToSet(c.deferred) \cup ToSet(ms)
    BY <1>1, ConcatFacts
  <2>2. AppendAll(c, ms) = [c EXCEPT !.deferred = s]
    BY <1>2 DEF AppendAll
  <2> HIDE DEF s
  <2>3. QED
    BY <2>1, <2>2 DEF Keeps, Held, Contexts
<1>3. CASE c.pending = {}
  <2> DEFINE s == c.history \o ms
  <2>1. s \in Seq(Messages) /\ ToSet(s) = ToSet(c.history) \cup ToSet(ms)
    BY <1>1, ConcatFacts
  <2>2. AppendAll(c, ms) = [c EXCEPT !.history = s]
    BY <1>3 DEF AppendAll
  <2> HIDE DEF s
  <2>3. QED
    BY <2>1, <2>2 DEF Keeps, Held, Contexts
<1>4. QED
  BY <1>2, <1>3

LEMMA FlushKeeps ==
    ASSUME NEW c \in Contexts
    PROVE  Keeps(FlushDeferred(c), c, {})
<1>1. c.history \in Seq(Messages) /\ c.deferred \in Seq(Messages)
  BY DEF Contexts
<1>2. CASE c.pending # {}
  BY <1>2 DEF FlushDeferred, Keeps
<1>3. CASE c.pending = {}
  <2> DEFINE s == c.history \o c.deferred
  <2>1. s \in Seq(Messages) /\ ToSet(s) = ToSet(c.history) \cup ToSet(c.deferred)
    BY <1>1, ConcatFacts
  <2>2. FlushDeferred(c) = [c EXCEPT !.history = s, !.deferred = <<>>]
    BY <1>3 DEF FlushDeferred
  <2>3. <<>> \in Seq(Messages)
    OBVIOUS
  <2> HIDE DEF s
  <2>4. QED
    BY <2>1, <2>2, <2>3 DEF Keeps, Held, Contexts
<1>4. QED
  BY <1>2, <1>3

\* The events of a step.
LEMMA StepKeeps ==
    ASSUME NEW c \in Contexts, NEW s \in Steps
    PROVE  /\ Keeps(FoldStepBegin(c, s), c, {}) /\ Keeps(FoldContentPart(c, s), c, {})
           /\ Keeps(FoldToolCall(c, s), c, {}) /\ Keeps(FoldToolResult(c, s), c, {})
           /\ Keeps(FoldStepEnd(c, s), c, {})
<1>1. \A kind \in Kinds : StepMessage(kind, s) \in Messages
  BY DEF StepMessage, Message, Messages, Steps
<1>2. c.history \in Seq(Messages)
  BY DEF Contexts
<1>3. Keeps(FoldStepBegin(c, s), c, {})
  <2> DEFINE h == Append(c.history, StepMessage("assistant", s))
  <2>1. h \in Seq(Messages) /\ ToSet(c.history) \subseteq ToSet(h)
    BY <1>1, <1>2, AppendFacts DEF Kinds
  <2>2. FoldStepBegin(c, s) = [c EXCEPT !.history = h, !.open = @ \cup {s}]
    BY DEF FoldStepBegin
  <2> HIDE DEF h
  <2>3. QED
    BY <2>1, <2>2 DEF Keeps, Held, Contexts
<1>4. Keeps(FoldContentPart(c, s), c, {}) /\ Keeps(FoldToolCall(c, s), c, {})
  BY DEF FoldContentPart, FoldToolCall, Keeps, Held, Contexts
<1>5. Keeps(FoldToolResult(c, s), c, {})
  <2> DEFINE h == Append(c.history, StepMessage("tool", s))
             d == [c EXCEPT !.history = h, !.pending = @ \ {s}]
  <2>1. h \in Seq(Messages) /\ ToSet(c.history) \subseteq ToSet(h)
    BY <1>1, <1>2, AppendFacts DEF Kinds
  <2>2. FoldToolResult(c, s) = FlushDeferred(d)
    BY DEF FoldToolResult
  <2> HIDE DEF h
  <2>3. Keeps(d, c, {})
    BY <2>1 DEF Keeps, Held, Contexts
  <2> HIDE DEF d
  <2>4. Keeps(FlushDeferred(d), d, {})
    BY <2>3, FlushKeeps DEF Keeps
  <2>5. QED
    BY <2>2, <2>3, <2>4 DEF Keeps
<1>6. Keeps(FoldStepEnd(c, s), c, {})
  <2> DEFINE d == [c EXCEPT !.open = @ \ {s}]
  <2>1. FoldStepEnd(c, s) = FlushDeferred(d)
    BY DEF FoldStepEnd
  <2>2. Keeps(d, c, {})
    BY DEF Keeps, Held, Contexts
  <2> HIDE DEF d
  <2>3. Keeps(FlushDeferred(d), d, {})
    BY <2>2, FlushKeeps DEF Keeps
  <2>4. QED
    BY <2>1, <2>2, <2>3 DEF Keeps
<1>7. QED
  BY <1>3, <1>4, <1>5, <1>6

-----------------------------------------------------------------------------
(* What is replaced by a copy is still told.                                *)

Copies(m) == { [m EXCEPT !.rev = r] : r \in {0, 1} }

LEMMA CopyFacts ==
    ASSUME NEW m \in Messages, NEW d \in Copies(m) \cup {m}
    PROVE  d \in Messages /\ [d EXCEPT !.rev = 0] = [m EXCEPT !.rev = 0]
BY DEF Copies, Messages

\* Element by element, h is s or a copy of it.
Replaces(h, s) ==
  /\ DOMAIN h = DOMAIN s /\ h = [i \in DOMAIN s |-> h[i]]
  /\ \A i \in DOMAIN s : h[i] \in Copies(s[i]) \cup {s[i]}

LEMMA ReplacedTold ==
    ASSUME NEW s \in Seq(Messages), NEW h, Replaces(h, s)
    PROVE  h \in Seq(Messages) /\ Told(ToSet(h)) = Told(ToSet(s))
<1>1. Len(s) \in Nat /\ DOMAIN s = 1 .. Len(s) /\ \A i \in DOMAIN s : s[i] \in Messages
  OBVIOUS
<1>2. \A i \in DOMAIN s : h[i] \in Messages /\ [h[i] EXCEPT !.rev = 0] = [s[i] EXCEPT !.rev = 0]
  BY <1>1, CopyFacts DEF Replaces
<1>3. h \in [1 .. Len(s) -> Messages]
  BY <1>1, <1>2 DEF Replaces
<1>4. h \in Seq(Messages)
  BY <1>1, <1>3, SeqDef
<1>5. Told(ToSet(h)) = { [h[i] EXCEPT !.rev = 0] : i \in DOMAIN s }
  BY DEF Told, ToSet, Replaces
<1>6. Told(ToSet(s)) = { [s[i] EXCEPT !.rev = 0] : i \in DOMAIN s }
  BY DEF Told, ToSet
<1>7. Told(ToSet(h)) = Told(ToSet(s))
  <2> DEFINE A(i) == [h[i] EXCEPT !.rev = 0]
             B(i) == [s[i] EXCEPT !.rev = 0]
  <2>1. \A i \in DOMAIN s : A(i) = B(i)
    BY <1>2
  <2>2. Told(ToSet(h)) = { A(i) : i \in DOMAIN s } /\ Told(ToSet(s)) = { B(i) : i \in DOMAIN s }
    BY <1>5, <1>6
  <2> HIDE DEF A, B
  <2>3. QED
    BY <2>1, <2>2
<1>8. QED
  BY <1>4, <1>7

\* d tells what c does, and ms besides.
Tells(d, c, ms) == d \in Contexts /\ Told(Held(c) \cup ms) \subseteq Told(Held(d))

LEMMA KeepsTells ==
    ASSUME NEW c, NEW d, NEW ms, Keeps(d, c, ms)
    PROVE  Tells(d, c, ms)
BY ToldFacts DEF Keeps, Tells

LEMMA TellsOn ==
    ASSUME NEW b, NEW c, NEW d, NEW ms, NEW ns, Tells(c, b, ms), Tells(d, c, ns)
    PROVE  Tells(d, b, ms \cup ns)
<1>1. Told(Held(b) \cup (ms \cup ns)) = Told(Held(b) \cup ms) \cup Told(ns)
  BY DEF Told
<1>2. /\ Told(Held(c) \cup ns) = Told(Held(c)) \cup Told(ns)
      /\ Told(Held(b) \cup ms) \subseteq Told(Held(c))
  BY ToldFacts DEF Tells
<1>3. QED
  BY <1>1, <1>2 DEF Tells

LEMMA ReplacedTells ==
    ASSUME NEW c \in Contexts, NEW h, Replaces(h, c.history)
    PROVE  Tells([c EXCEPT !.history = h], c, {})
<1>1. c.history \in Seq(Messages)
  BY DEF Contexts
<1>2. h \in Seq(Messages) /\ Told(ToSet(h)) = Told(ToSet(c.history))
  BY <1>1, ReplacedTold
<1> DEFINE d == [c EXCEPT !.history = h]
<1>3. d \in Contexts /\ d.history = h /\ d.deferred = c.deferred
  BY <1>2 DEF Contexts
<1> HIDE DEF d
<1>4. Told(Held(d)) = Told(ToSet(h)) \cup Told(ToSet(c.deferred))
  BY <1>3, ToldFacts DEF Held
<1>5. Told(Held(c) \cup {}) = Told(ToSet(c.history)) \cup Told(ToSet(c.deferred))
  BY ToldFacts DEF Held
<1>6. QED
  BY <1>2, <1>3, <1>4, <1>5 DEF Tells, d

LEMMA CopiesTell ==
    ASSUME NEW c \in Contexts
    PROVE  /\ Tells(MarkLastUserPromptBlocked(c), c, {}) /\ Tells(MaskTools(c), c, {})
           /\ \A s : Tells(Offload(c, s), c, {})
           /\ Tells(Refolded(c), c, {})
<1>1. c.history \in Seq(Messages)
  BY DEF Contexts
<1>2. Tells(MarkLastUserPromptBlocked(c), c, {})
  <2> DEFINE prompts == {i \in DOMAIN c.history : c.history[i].kind = "prompt"}
             last    == Max(prompts)
             h       == [c.history EXCEPT ![last].rev = 1]
  <2>1. CASE prompts = {}
    <3>1. MarkLastUserPromptBlocked(c) = c
      BY <2>1 DEF MarkLastUserPromptBlocked
    <3>2. QED
      BY <3>1 DEF Tells
  <2>2. CASE prompts # {}
    <3>1. MarkLastUserPromptBlocked(c) = [c EXCEPT !.history[last].rev = 1]
      BY <2>2 DEF MarkLastUserPromptBlocked
    <3> HIDE DEF last
    <3>2. [c EXCEPT !.history[last].rev = 1] = [c EXCEPT !.history = h]
      BY DEF Contexts
    <3>3. Replaces(h, c.history)
      BY <1>1 DEF Replaces, Copies
    <3>4. QED
      BY <3>1, <3>2, <3>3, ReplacedTells
  <2>3. QED
    BY <2>1, <2>2
<1>3. Tells(MaskTools(c), c, {})
  <2> DEFINE h == [i \in DOMAIN c.history |-> IF c.history[i].kind = "tool"
                     THEN [c.history[i] EXCEPT !.rev = 1] ELSE c.history[i]]
  <2>1. MaskTools(c) = [c EXCEPT !.history = h]
    BY DEF MaskTools
  <2>2. Replaces(h, c.history)
    BY DEF Replaces, Copies
  <2> HIDE DEF h
  <2>3. QED
    BY <2>1, <2>2, ReplacedTells
<1>4. ASSUME NEW s PROVE Tells(Offload(c, s), c, {})
  <2> DEFINE h == [i \in DOMAIN c.history |-> IF c.history[i].kind = "tool" /\ StepOf(c.history[i]) = s
                     THEN [c.history[i] EXCEPT !.rev = 1] ELSE c.history[i]]
  <2>1. Offload(c, s) = [c EXCEPT !.history = h]
    BY DEF Offload
  <2>2. Replaces(h, c.history)
    BY DEF Replaces, Copies
  <2> HIDE DEF h
  <2>3. QED
    BY <2>1, <2>2, ReplacedTells
<1>5. Tells(Refolded(c), c, {})
  <2> DEFINE h == [i \in DOMAIN c.history |-> IF c.history[i].kind = "tool"
                     THEN [c.history[i] EXCEPT !.rev = 0] ELSE c.history[i]]
  <2>1. Refolded(c) = [c EXCEPT !.history = h]
    BY DEF Refolded
  <2>2. Replaces(h, c.history)
    BY DEF Replaces, Copies
  <2> HIDE DEF h
  <2>3. QED
    BY <2>1, <2>2, ReplacedTells
<1>6. QED
  BY <1>2, <1>3, <1>4, <1>5

\* A summary of the first "count" messages takes their place; what is behind
\* them, deferred messages included, is kept.
LEMMA CompactionForgets ==
    ASSUME NEW c \in Contexts, NEW k \in Nat, NEW count \in 0 .. Len(c.history)
    PROVE  LET d == FoldApplyCompaction(c, k, count)
           IN  /\ d \in Contexts
               /\ \A m \in Held(c) : m \in Held(d) \/ \E i \in 1 .. count : m = c.history[i]
<1> DEFINE summary == <<Message("summary", 0, k)>>
           rest == SubSeq(c.history, count + 1, Len(c.history))
           h == summary \o rest
           b == [c EXCEPT !.history = h, !.open = {}]
<1>1. c.history \in Seq(Messages) /\ Len(c.history) \in Nat
      /\ DOMAIN c.history = 1 .. Len(c.history)
  BY DEF Contexts
<1>2. summary \in Seq(Messages)
  BY DEF Message, Messages, Kinds
<1>3. /\ rest \in Seq(Messages) /\ Len(rest) = Len(c.history) - count
      /\ \A i \in 1 .. Len(c.history) - count : rest[i] = c.history[count + i]
  <2>1. \A i \in count + 1 .. Len(c.history) : c.history[i] \in Messages
    BY <1>1
  <2>2. count + 1 \in Int /\ Len(c.history) \in Int
    BY <1>1
  <2> DEFINE a == count + 1
             n == Len(c.history)
  <2>3. /\ rest \in Seq(Messages) /\ Len(rest) = IF a <= n THEN n - a + 1 ELSE 0
        /\ \A i \in 1 .. n - a + 1 : rest[i] = c.history[a + i - 1]
    BY <2>1, <2>2, SubSeqProperties
  <2>4. QED
    BY <1>1, <2>3
<1>4. DOMAIN rest = 1 .. (Len(c.history) - count)
  BY <1>3, LenProperties
<1> HIDE DEF rest, summary
<1>5. h \in Seq(Messages) /\ ToSet(rest) \subseteq ToSet(h)
  BY <1>2, <1>3, ConcatFacts
<1> HIDE DEF h
<1>6. b \in Contexts /\ b.history = h /\ b.deferred = c.deferred
  BY <1>5 DEF Contexts
<1>7. FoldApplyCompaction(c, k, count) = FlushDeferred(b)
  BY DEF FoldApplyCompaction, h, rest, summary
<1> HIDE DEF b
<1>8. Keeps(FlushDeferred(b), b, {})
  BY <1>6, FlushKeeps
<1>9. ASSUME NEW m \in Held(c)
      PROVE  m \in Held(b) \/ \E i \in 1 .. count : m = c.history[i]
  <2>1. CASE m \in ToSet(c.deferred)
    BY <1>6, <2>1 DEF Held
  <2>2. CASE m \in ToSet(c.history)
    <3>1. PICK i \in 1 .. Len(c.history) : m = c.history[i]
      BY <1>1, <2>2 DEF ToSet
    <3>2. CASE i > count
      <4>1. i - count \in DOMAIN rest /\ rest[i - count] = m
        BY <1>1, <1>3, <1>4, <3>1, <3>2
      <4>2. m \in ToSet(rest)
        BY <4>1 DEF ToSet
      <4>3. QED
        BY <1>5, <1>6, <4>2 DEF Held
    <3>3. QED
      BY <3>1, <3>2
  <2>3. QED
    BY <2>1, <2>2 DEF Held
<1>10. QED
  BY <1>7, <1>8, <1>9 DEF Keeps

-----------------------------------------------------------------------------
(* Nothing said is forgotten.                                               *)

\* A compaction summarises a prefix of the history it has seen.
Snapshots ==
  \A k \in Compactions : /\ comp[k].snap \in Seq(Messages)
                         /\ comp[k].count \in 0 .. Len(comp[k].snap)

SaidInv ==
  /\ ctx \in Contexts
  /\ steerBuffer \in Seq(Messages)
  /\ steers \in Nat
  /\ Snapshots

LEMMA EmptyContextIsContext == EmptyContext \in Contexts
BY DEF EmptyContext, Contexts

LEMMA InitSaid == Init => SaidInv
<1> SUFFICES ASSUME Init PROVE SaidInv
  OBVIOUS
<1>1. <<>> \in Seq(Messages) /\ 0 \in 0 .. Len(<<>>)
  OBVIOUS
<1>2. \A k \in Compactions : comp[k].snap = <<>> /\ comp[k].count = 0
  BY DEF Init, CompactionInit, NoWorker
<1>3. QED
  BY <1>1, <1>2, EmptyContextIsContext DEF Init, CompactionInit, SaidInv, Snapshots

LEMMA WorkerUpdated ==
    ASSUME CompactionInv, Snapshots, NEW k, NEW r, comp' = [comp EXCEPT ![k] = r],
           k \in Compactions => r.snap \in Seq(Messages) /\ r.count \in 0 .. Len(r.snap)
    PROVE  Snapshots'
<1>1. \A j \in Compactions : comp'[j] = IF j = k THEN r ELSE comp[j]
  BY DEF CompactionInv
<1>2. ASSUME NEW j \in Compactions
      PROVE  comp'[j].snap \in Seq(Messages) /\ comp'[j].count \in 0 .. Len(comp'[j].snap)
  <2>1. CASE j = k
    BY <1>1, <2>1
  <2>2. CASE j # k
    BY <1>1, <2>2 DEF Snapshots
  <2>3. QED
    BY <2>1, <2>2
<1>3. QED
  BY <1>2 DEF Snapshots

LEMMA StartSnapshot ==
    ASSUME CompactionInv, Snapshots, NEW c \in Contexts, NEW count \in 0 .. Len(c.history),
           StartWorker(c, count)
    PROVE  Snapshots'
<1> DEFINE r == [pc |-> "hook", aborted |-> FALSE, snap |-> c.history, count |-> count]
           first == Min(Unstarted)
<1>1. comp' = [comp EXCEPT ![first] = r]
  BY Zenon DEF StartWorker
<1>2. r.snap \in Seq(Messages) /\ r.count \in 0 .. Len(r.snap)
  BY DEF Contexts
<1> HIDE DEF first, r
<1>3. QED
  BY <1>1, <1>2, WorkerUpdated

LEMMA AutoSnapshot ==
    ASSUME CompactionInv, Snapshots, NEW c \in Contexts, BeginAuto(c)
    PROVE  Snapshots'
<1>1. PICK count \in CompactableCounts(c) \cup {0} :
        comp' = comp \/ StartWorker(c, count)
  BY Zenon DEF BeginAuto
<1>2. count \in 0 .. Len(c.history)
  <2>1. Len(c.history) \in Nat
    BY DEF Contexts
  <2>2. QED
    BY <2>1, CountsBounded
<1>3. QED
  BY <1>1, <1>2, StartSnapshot DEF Snapshots

LEMMA AbortSnapshot ==
    ASSUME CompactionInv, Snapshots, NEW k, comp' = Abort(k)
    PROVE  Snapshots'
<1> DEFINE r == [comp[k] EXCEPT !.aborted = TRUE]
<1>1. comp' = [comp EXCEPT ![k] = r]
  BY DEF Abort
<1>2. k \in Compactions => r.snap = comp[k].snap /\ r.count = comp[k].count
  BY DEF CompactionInv, NoWorker
<1> HIDE DEF r
<1>3. QED
  BY <1>1, <1>2, WorkerUpdated DEF Snapshots

LEMMA GoneSnapshot ==
    ASSUME NEW place
    PROVE  Gone(place).snap \in Seq(Messages) /\ Gone(place).count \in 0 .. Len(Gone(place).snap)
<1>1. Gone(place).snap = <<>> /\ Gone(place).count = 0
  BY DEF Gone, NoWorker
<1>2. <<>> \in Seq(Messages) /\ 0 \in 0 .. Len(<<>>)
  OBVIOUS
<1>3. QED
  BY <1>1, <1>2

\* What a step may do to what was said: a step that keeps all of it.
KeepsAll == SaidInv' /\ Kept \subseteq Kept'

LEMMA ContextGrows ==
    ASSUME NEW ms, Tells(ctx', ctx, ms), ToSet(steerBuffer) \subseteq ms \cup ToSet(steerBuffer'),
           steerBuffer' \in Seq(Messages), steers' \in Nat, Snapshots'
    PROVE  KeepsAll
<1>1. SaidInv'
  BY DEF SaidInv, Tells
<1>2. /\ Told(Held(ctx) \cup ToSet(steerBuffer)) \subseteq Told(Held(ctx) \cup ms) \cup Told(ToSet(steerBuffer'))
      /\ Told(Held(ctx') \cup ToSet(steerBuffer')) = Told(Held(ctx')) \cup Told(ToSet(steerBuffer'))
  BY DEF Told
<1>3. Kept \subseteq Kept'
  <2>1. Kept = Told(Held(ctx) \cup ToSet(steerBuffer))
    BY DEF Kept
  <2>2. Kept' = Told(Held(ctx') \cup ToSet(steerBuffer'))
    BY DEF Kept
  <2>3. QED
    BY <1>2, <2>1, <2>2 DEF Tells
<1>4. QED
  BY <1>1, <1>3 DEF KeepsAll

\* A step that changes neither the context nor the buffer.
LEMMA NothingSaid ==
    ASSUME SaidInv, UNCHANGED <<ctx, steerBuffer, steers>>, Snapshots'
    PROVE  KeepsAll
BY DEF SaidInv, KeepsAll, Kept

LEMMA Speaks ==
    ASSUME SaidInv, UNCHANGED <<comp, steerBuffer, steers>>, NEW ms, Tells(ctx', ctx, ms)
    PROVE  KeepsAll
<1>1. Snapshots'
  BY DEF SaidInv, Snapshots
<1>2. QED
  BY <1>1, ContextGrows DEF SaidInv

LEMMA MessageFacts ==
    ASSUME NEW kind \in Kinds, NEW t \in Nat, NEW n \in Nat
    PROVE  Message(kind, t, n) \in Messages
BY DEF Message, Messages

LEMMA LaunchSpeaks ==
    ASSUME SaidInv, NEW m \in Messages, Launch(m), UNCHANGED steers
    PROVE  KeepsAll
<1>1. ctx' = FoldAppendMessage(ctx, m) /\ UNCHANGED <<comp, steerBuffer>>
  BY DEF Launch
<1>2. Tells(ctx', ctx, {m})
  BY <1>1, AppendMessageKeeps, KeepsTells DEF SaidInv
<1>3. QED
  BY <1>1, <1>2, Speaks

LEMMA BeginStepSays ==
    ASSUME CompactionInv, SaidInv, NEW t \in Turns, BeginStep(t)
    PROVE  KeepsAll
<1> DEFINE flushed == AppendAll(ctx, steerBuffer)
<1>1. Tells(flushed, ctx, ToSet(steerBuffer)) /\ flushed \in Contexts
  <2>1. Keeps(flushed, ctx, ToSet(steerBuffer))
    BY AppendAllKeeps DEF SaidInv
  <2>2. QED
    BY <2>1, KeepsTells DEF Keeps
<1> HIDE DEF flushed
<1>2. /\ ctx' = MaskTools(flushed) \/ ctx' = flushed
      /\ UNCHANGED comp \/ BeginAuto(ctx')
      /\ steerBuffer' = <<>> /\ steers' = steers
  <2>1. PICK masks \in {FALSE, "mask" \in Features}, over \in BOOLEAN :
          LET seen == IF masks THEN MaskTools(flushed) ELSE flushed
          IN  /\ ctx' = seen
              /\ \/ UNCHANGED comp /\ steers' = steers
                 \/ BeginAuto(seen) /\ steers' = steers
    BY Zenon DEF BeginStep, Ends, flushed
  <2>2. QED
    BY <2>1, Zenon DEF BeginStep
<1>3. Tells(ctx', ctx, ToSet(steerBuffer))
  <2>1. CASE ctx' = flushed
    BY <1>1, <2>1
  <2>2. CASE ctx' = MaskTools(flushed)
    <3>1. Tells(ctx', flushed, {})
      BY <1>1, <2>2, CopiesTell
    <3>2. Tells(ctx', ctx, ToSet(steerBuffer) \cup {})
      BY <1>1, <3>1, TellsOn
    <3>3. ToSet(steerBuffer) \cup {} = ToSet(steerBuffer)
      OBVIOUS
    <3>4. QED
      BY <3>2, <3>3
  <2>3. QED
    BY <1>2, <2>1, <2>2
<1>4. Snapshots'
  <2>1. ctx' \in Contexts
    BY <1>3 DEF Tells
  <2>2. CASE UNCHANGED comp
    BY <2>2 DEF SaidInv, Snapshots
  <2>3. CASE BeginAuto(ctx')
    BY <2>1, <2>3, AutoSnapshot DEF SaidInv
  <2>4. QED
    BY <1>2, <2>2, <2>3
<1>5. steerBuffer' \in Seq(Messages) /\ steers' \in Nat
  BY <1>2 DEF SaidInv
<1>6. QED
  BY <1>3, <1>4, <1>5, ContextGrows

LEMMA StopFlushesSays ==
    ASSUME SaidInv, NEW t \in Turns, StopFlushes(t)
    PROVE  KeepsAll
<1>1. /\ ctx' = AppendAll(ctx, steerBuffer) /\ steerBuffer' = <<>>
      /\ UNCHANGED <<comp, steers>>
  BY DEF StopFlushes
<1>2. Tells(ctx', ctx, ToSet(steerBuffer))
  BY <1>1, AppendAllKeeps, KeepsTells DEF SaidInv
<1>3. Snapshots' /\ steerBuffer' \in Seq(Messages) /\ steers' \in Nat
  BY <1>1 DEF SaidInv, Snapshots
<1>4. QED
  BY <1>2, <1>3, ContextGrows

LEMMA TurnStepSays ==
    ASSUME TurnInv, CompactionInv, SaidInv, NEW t \in Turns, TurnStep(t)
    PROVE  KeepsAll
<1>1. t \in Nat /\ turn[t].serial \in Nat
  BY TurnBounds DEF TurnInv, Turns
<1>2. StepName(t) \in Steps
  BY <1>1 DEF StepName, Steps
<1>3. ctx \in Contexts /\ Snapshots
  BY DEF SaidInv
<1>4. CASE \/ Unwind(t) \/ Load(t) \/ TooManySteps(t) \/ Unblock(t) \/ OrphanedPart(t)
           \/ ChatFails(t) \/ StopAsks(t)
  <2>1. UNCHANGED <<ctx, comp, steerBuffer, steers>>
    BY <1>4 DEF Unwind, Load, TooManySteps, Unblock, OrphanedPart, ChatFails, StopAsks,
                Ends, cvars
  <2>2. QED
    BY <1>3, <2>1, NothingSaid DEF Snapshots
<1>5. CASE PromptHook(t)
  <2>1. CASE UNCHANGED <<ctx, steers>>
    BY <1>3, <1>5, <2>1, NothingSaid DEF PromptHook, Snapshots
  <2>2. CASE UNCHANGED steers /\ ctx' = FoldAppendMessage(MarkLastUserPromptBlocked(ctx), Message("notice", t, 0))
    <3> DEFINE c == MarkLastUserPromptBlocked(ctx)
               m == Message("notice", t, 0)
    <3>1. Tells(c, ctx, {}) /\ c \in Contexts
      BY <1>3, CopiesTell DEF Tells
    <3>2. m \in Messages
      BY <1>1, MessageFacts DEF Kinds
    <3> HIDE DEF c, m
    <3>3. Tells(ctx', c, {m})
      BY <2>2, <3>1, <3>2, AppendMessageKeeps, KeepsTells DEF c, m
    <3>4. Tells(ctx', ctx, {} \cup {m})
      BY <3>1, <3>3, TellsOn
    <3>5. UNCHANGED <<comp, steerBuffer, steers>>
      BY <1>5, <2>2 DEF PromptHook
    <3>6. QED
      BY <3>4, <3>5, Speaks
  <2>3. QED
    BY <1>5, <2>1, <2>2, Zenon DEF PromptHook, Ends
<1>6. CASE BeginStep(t)
  BY <1>6, BeginStepSays
<1>7. CASE SendRequest(t)
  <2>1. <<t, turn[t].serial + 1>> \in Steps
    BY <1>1 DEF Steps
  <2>2. Tells(ctx', ctx, {}) /\ UNCHANGED <<comp, steerBuffer, steers>>
    BY <1>3, <1>7, <2>1, StepKeeps, KeepsTells DEF SendRequest
  <2>3. QED
    BY <2>2, Speaks
<1>8. CASE ContentPart(t) \/ ToolCall(t) \/ ChatEnds(t) \/ ToolResult(t) \/ SealStep(t)
  <2>1. Tells(ctx', ctx, {}) /\ UNCHANGED <<comp, steerBuffer, steers>>
    BY <1>2, <1>3, <1>8, StepKeeps, KeepsTells
       DEF ContentPart, ToolCall, ChatEnds, ToolResult, SealStep
  <2>2. QED
    BY <2>1, Speaks
<1>9. CASE ChatOverflows(t)
  <2>1. UNCHANGED <<ctx, steerBuffer, steers>> /\ (UNCHANGED comp \/ BeginAuto(ctx))
    BY <1>9, Zenon DEF ChatOverflows, Ends, cvars
  <2>2. Snapshots'
    BY <1>3, <2>1, AutoSnapshot DEF Snapshots
  <2>3. QED
    BY <2>1, <2>2, NothingSaid
<1>10. CASE OffloadResult(t)
  <2>1. Tells(ctx', ctx, {}) /\ UNCHANGED <<comp, steerBuffer, steers>>
    BY <1>3, <1>10, CopiesTell DEF OffloadResult, tvars
  <2>2. QED
    BY <2>1, Speaks
<1>11. CASE StopFlushes(t)
  BY <1>11, StopFlushesSays
<1>12. CASE StopHook(t)
  <2>1. CASE UNCHANGED <<ctx, steers>>
    BY <1>3, <1>12, <2>1, NothingSaid DEF StopHook, Snapshots
  <2>2. CASE UNCHANGED steers /\ ctx' = FoldAppendMessage(ctx, Message("trigger", t, turn[t].serial))
    <3>1. Message("trigger", t, turn[t].serial) \in Messages
      BY <1>1, MessageFacts DEF Kinds
    <3>2. Tells(ctx', ctx, {Message("trigger", t, turn[t].serial)})
      BY <1>3, <2>2, <3>1, AppendMessageKeeps, KeepsTells
    <3>3. UNCHANGED <<comp, steerBuffer, steers>>
      BY <1>12, <2>2 DEF StopHook
    <3>4. QED
      BY <3>2, <3>3, Speaks
  <2>3. QED
    BY <1>12, <2>1, <2>2, Zenon DEF StopHook, Ends
<1>13. QED
  BY <1>4, <1>5, <1>6, <1>7, <1>8, <1>9, <1>10, <1>11, <1>12, Zenon
     DEF TurnStep

\* What a summary takes the place of.
Summarised ==
  \A m \in Kept \ Kept' :
    \E k \in Compactions :
      /\ comp[k].pc # "applied" /\ comp'[k].pc = "applied"
      /\ \E i \in 1 .. comp[k].count : [comp[k].snap[i] EXCEPT !.rev = 0] = m

\* The snapshot is still the head of the history, so the summary covers all
\* that is cut.
LEMMA ApplySummarises ==
    ASSUME CompactionInv, SaidInv, NEW k \in Compactions, Apply(k), UNCHANGED tvars
    PROVE  SaidInv' /\ Summarised
<1> DEFINE count == comp[k].count
           snap  == comp[k].snap
<1>1. /\ ctx \in Contexts /\ k \in Nat /\ snap \in Seq(Messages) /\ count \in 0 .. Len(snap)
  BY CompactionBounds DEF SaidInv, Snapshots, Compactions
<1>2. /\ ctx' = FoldApplyCompaction(ctx, k, count)
      /\ comp' = [comp EXCEPT ![k] = Gone("applied")] /\ comp[k].pc = "generate"
      /\ Len(snap) <= Len(ctx.history) /\ \A i \in DOMAIN snap : ctx.history[i] = snap[i]
      /\ UNCHANGED <<steerBuffer, steers>>
  BY DEF Apply, SamePrefix, tvars
<1>3. DOMAIN snap = 1 .. Len(snap) /\ Len(snap) \in Nat /\ Len(ctx.history) \in Nat
  BY <1>1 DEF Contexts
<1> HIDE DEF count, snap
<1>4. count \in 0 .. Len(ctx.history) /\ \A i \in 1 .. count : ctx.history[i] = snap[i]
  BY <1>1, <1>2, <1>3
<1>5. /\ ctx' \in Contexts
      /\ \A m \in Held(ctx) : m \in Held(ctx') \/ \E i \in 1 .. count : m = snap[i]
  <2>1. /\ ctx' \in Contexts
        /\ \A m \in Held(ctx) : m \in Held(ctx') \/ \E i \in 1 .. count : m = ctx.history[i]
    BY <1>1, <1>2, <1>4, CompactionForgets, Zenon
  <2>2. QED
    BY <1>4, <2>1
<1>6. comp'[k].pc = "applied"
  BY <1>2 DEF CompactionInv, Gone, NoWorker
<1>7. Snapshots'
  BY <1>2, GoneSnapshot, WorkerUpdated DEF SaidInv
<1>8. ASSUME NEW m \in Kept \ Kept'
      PROVE  \E i \in 1 .. count : [snap[i] EXCEPT !.rev = 0] = m
  <2>1. PICK x \in Held(ctx) \cup ToSet(steerBuffer) : m = [x EXCEPT !.rev = 0]
    BY DEF Kept, Told
  <2>2. x \notin Held(ctx') \cup ToSet(steerBuffer')
    BY <2>1 DEF Kept, Told
  <2>3. QED
    BY <1>2, <1>5, <2>1, <2>2
<1>9. Summarised
  BY <1>2, <1>6, <1>8 DEF Summarised, count, snap
<1>10. QED
  BY <1>2, <1>5, <1>7, <1>9 DEF SaidInv

LEMMA CompactionSays ==
    ASSUME CompactionInv, SaidInv, NEW k \in Compactions, CompactionStep(k)
    PROVE  SaidInv' /\ Summarised
<1>1. UNCHANGED tvars /\ Worker(k)
  BY DEF CompactionStep
<1>2. CASE Apply(k)
  BY <1>1, <1>2, ApplySummarises
<1>3. CASE PreCompactHook(k) \/ Outdated(k) \/ GenerateEnds(k)
  <2>1. /\ UNCHANGED <<ctx, steerBuffer, steers>>
        /\ \/ comp' = [comp EXCEPT ![k] = Gone("ended")]
           \/ comp' = [comp EXCEPT ![k] = [comp[k] EXCEPT !.pc = "generate"]]
    BY <1>1, <1>3, Zenon DEF PreCompactHook, Outdated, GenerateEnds, tvars
  <2>2. Snapshots'
    <3>1. CASE comp' = [comp EXCEPT ![k] = Gone("ended")]
      BY <3>1, GoneSnapshot, WorkerUpdated DEF SaidInv
    <3>2. CASE comp' = [comp EXCEPT ![k] = [comp[k] EXCEPT !.pc = "generate"]]
      <4> DEFINE r == [comp[k] EXCEPT !.pc = "generate"]
      <4>1. r.snap = comp[k].snap /\ r.count = comp[k].count
        BY DEF CompactionInv, NoWorker
      <4>2. r.snap \in Seq(Messages) /\ r.count \in 0 .. Len(r.snap)
        BY <4>1 DEF SaidInv, Snapshots
      <4> HIDE DEF r
      <4>3. comp' = [comp EXCEPT ![k] = r]
        BY <3>2 DEF r
      <4>4. QED
        BY <4>2, <4>3, WorkerUpdated DEF SaidInv
    <3>3. QED
      BY <2>1, <3>1, <3>2
  <2>3. KeepsAll
    BY <2>1, <2>2, NothingSaid
  <2>4. QED
    BY <2>3 DEF KeepsAll, Summarised
<1>4. QED
  BY <1>1, <1>2, <1>3 DEF Worker

\* What ForgetsOnlySummarised says of one step.
Remembers ==
  \/ ctx'.history = <<>>
  \/ Crash /\ Told(Held(ctx)) \subseteq Told(Held(ctx'))
  \/ Summarised

LEMMA SaidStep ==
    NoneIsNoName /\ TurnInv /\ CompactionInv /\ SaidInv /\ [Next]_vars => SaidInv' /\ Remembers
<1> SUFFICES ASSUME NoneIsNoName, TurnInv, CompactionInv, SaidInv, [Next]_vars
             PROVE  SaidInv' /\ Remembers
  OBVIOUS
<1>0. KeepsAll => SaidInv' /\ Remembers
  BY DEF KeepsAll, Remembers, Summarised
<1>1. ctx \in Contexts /\ Snapshots /\ turnId \in Nat /\ MaxTurns \in Nat
  BY TurnBounds DEF SaidInv, TurnInv
<1>2. CASE UNCHANGED vars
  BY <1>0, <1>1, <1>2, NothingSaid DEF vars, cvars, tvars, Snapshots
<1>3. CASE Prompt \/ SteerLaunches
  <2>1. PICK m \in {Message("prompt", turnId + 1, 0), Message("trigger", turnId + 1, 0)} :
          Launch(m) /\ UNCHANGED steers
    BY <1>3 DEF Prompt, SteerLaunches
  <2>2. m \in Messages
    BY <1>1, <2>1, MessageFacts DEF Kinds
  <2>3. QED
    BY <1>0, <2>1, <2>2, LaunchSpeaks
<1>4. CASE SteerBuffered
  <2> DEFINE m == Message("prompt", 0, steers + 1)
  <2>1. /\ UNCHANGED <<ctx, comp>> /\ steerBuffer' = Append(steerBuffer, m)
        /\ steers' = steers + 1 /\ steers \in Nat /\ steerBuffer \in Seq(Messages)
    BY <1>4 DEF SteerBuffered, cvars, SaidInv
  <2>2. m \in Messages
    BY <2>1, MessageFacts DEF Kinds
  <2> HIDE DEF m
  <2>3. steerBuffer' \in Seq(Messages) /\ ToSet(steerBuffer) \subseteq ToSet(steerBuffer')
    BY <2>1, <2>2, AppendFacts
  <2>4. Tells(ctx', ctx, {}) /\ Snapshots'
    BY <1>1, <2>1 DEF Tells, Snapshots
  <2>5. QED
    BY <1>0, <2>1, <2>3, <2>4, ContextGrows
<1>5. CASE Cancel \/ HostCompacts
  <2>1. /\ UNCHANGED <<ctx, steerBuffer, steers>>
        /\ \/ UNCHANGED comp
           \/ comp' = Abort(compacting)
           \/ \E count \in CompactableCounts(ctx) : StartWorker(ctx, count)
    BY <1>5, Zenon DEF Cancel, HostCompacts, BeginManual, CancelCompaction, tvars
  <2>2. Snapshots'
    <3>1. CASE UNCHANGED comp
      BY <1>1, <3>1 DEF Snapshots
    <3>2. CASE comp' = Abort(compacting)
      BY <1>1, <3>2, AbortSnapshot
    <3>3. CASE \E count \in CompactableCounts(ctx) : StartWorker(ctx, count)
      BY <1>1, <3>3, CountsBounded, StartSnapshot
    <3>4. QED
      BY <2>1, <3>1, <3>2, <3>3
  <2>3. QED
    BY <1>0, <2>1, <2>2, NothingSaid
<1>6. CASE ClearContext
  <2>1. ctx' = EmptyContext /\ UNCHANGED <<comp, steerBuffer, steers>>
    BY <1>6 DEF ClearContext, tvars
  <2>2. ctx'.history = <<>>
    BY <2>1 DEF EmptyContext
  <2>3. QED
    BY <1>1, <2>1, <2>2, EmptyContextIsContext DEF SaidInv, Snapshots, Remembers
<1>7. CASE Crash
  <2>1. /\ comp' = [k \in Compactions |-> IF Running(k) THEN Gone("ended") ELSE comp[k]]
        /\ ctx' = Refolded(ctx) /\ steerBuffer' = <<>> /\ steers' = steers
    BY <1>7, Zenon DEF Crash
  <2>2. Tells(ctx', ctx, {})
    BY <1>1, <2>1, CopiesTell
  <2>3. ASSUME NEW k \in Compactions
        PROVE  comp'[k].snap \in Seq(Messages) /\ comp'[k].count \in 0 .. Len(comp'[k].snap)
    <3>1. CASE comp'[k] = comp[k]
      BY <1>1, <3>1 DEF Snapshots
    <3>2. CASE comp'[k] = Gone("ended")
      BY <3>2, GoneSnapshot
    <3>3. QED
      BY <2>1, <3>1, <3>2
  <2>4. SaidInv'
    BY <2>1, <2>2, <2>3 DEF SaidInv, Snapshots, Tells
  <2>5. Told(Held(ctx)) \subseteq Told(Held(ctx'))
    BY <2>2, ToldFacts DEF Tells
  <2>6. QED
    BY <1>7, <2>4, <2>5 DEF Remembers
<1>8. ASSUME NEW t \in Turns, TurnStep(t) PROVE SaidInv' /\ Remembers
  BY <1>0, <1>8, TurnStepSays
<1>9. ASSUME NEW k \in Compactions, CompactionStep(k) PROVE SaidInv' /\ Remembers
  BY <1>9, CompactionSays DEF Remembers
<1>10. QED
  BY <1>2, <1>3, <1>4, <1>5, <1>6, <1>7, <1>8, <1>9, Zenon DEF Next

\* Nothing said leaves the conversation except in a clear or behind a summary
\* that covers it, although the history changes while the summary is written
\* (full.ts "History changed during compaction"), messages wait behind open
\* tool calls and steers in their buffer (wire-fold.ts, turn/index.ts
\* flushSteerBuffer), and tool results are masked and offloaded.
THEOREM ForgetsOnlySummarisedCorrect == NoneIsNoName /\ Spec => ForgetsOnlySummarised
<1>1. Init => TurnInv /\ CompactionInv /\ SaidInv
  BY InitInv, InitSaid
<1>2. Remembers =>
        [ \/ ctx'.history = <<>>
          \/ Crash /\ Told(Held(ctx)) \subseteq Told(Held(ctx'))
          \/ \A m \in Kept \ Kept' :
               \E k \in Compactions :
                 /\ comp[k].pc # "applied" /\ comp'[k].pc = "applied"
                 /\ \E i \in 1 .. comp[k].count :
                      [comp[k].snap[i] EXCEPT !.rev = 0] = m ]_vars
  BY DEF Remembers, Summarised
<1>3. QED
  BY <1>1, <1>2, TurnInvStep, CompactionStepKeeps, SaidStep, NameStays, PTL
     DEF Spec, ForgetsOnlySummarised
=============================================================================
