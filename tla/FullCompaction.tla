--------------------------- MODULE FullCompaction ---------------------------
(* Full compaction (agent/compaction/full.ts): a summary of a prefix of    *)
(* the history, written by the model while the session goes on, replaces   *)
(* that prefix.  At most one compaction is current; a cancelled one may    *)
(* still be winding down while the next one runs.  The turn engine calls   *)
(* into this module; its own steps are the waits of compactionWorker.      *)
EXTENDS ContextFold, FiniteSets

CONSTANTS
  None,
  MaxCompactions,  \* bound: compactions started, each named by its number
  MaxAuto          \* strategy.maxCompactionPerTurn

ASSUME CompactionBounds == MaxCompactions \in Nat /\ MaxAuto \in Nat

VARIABLES
  ctx,         \* ContextMemory: the fold state
  compacting,  \* FullCompaction.compacting
  comp,        \* the compaction workers, by number
  autoCount    \* compactionCountInTurn

cvars == <<ctx, compacting, comp, autoCount>>

Compactions == 1 .. MaxCompactions

Waits == {"none", "hook", "generate", "applied", "ended"}

\* snap and count: originalHistory and compactedCount of the worker.
NoWorker == [pc |-> "none", aborted |-> FALSE, snap |-> <<>>, count |-> 0]

CompactionTypeOK ==
  /\ compacting \in Compactions \cup {None}
  /\ \A k \in Compactions : /\ comp[k].pc \in Waits
                            /\ comp[k].count \in 0 .. Len(comp[k].snap)
  /\ autoCount \in 0 .. MaxAuto

CompactionInit ==
  /\ ctx = EmptyContext
  /\ compacting = None
  /\ comp = [k \in Compactions |-> NoWorker]
  /\ autoCount = 0

Unstarted == {k \in Compactions : comp[k].pc = "none"}

\* startCompactionWorker and the worker up to its first wait, over context c.
StartWorker(c, count) ==
  LET k == Min(Unstarted)
  IN  /\ comp' = [comp EXCEPT ![k] = [pc |-> "hook", aborted |-> FALSE,
                                      snap |-> c.history, count |-> count]]
      /\ compacting' = k

\* beginAutoCompaction once the limit is known not to be reached.  A prefix
\* that is empty, or a rest that alone fills the window, starts nothing.
BeginAuto(c) ==
  \E count \in CompactableCounts(c) \cup {0} :
    IF count = 0 \/ Unstarted = {}
    THEN UNCHANGED <<compacting, comp, autoCount>>
    ELSE StartWorker(c, count) /\ autoCount' = autoCount + 1

\* begin with source manual.  With nothing to compact the worker cancels
\* itself before it waits for anything.
BeginManual ==
  /\ compacting = None
  /\ Unstarted # {}
  /\ \E count \in CompactableCounts(ctx) :
       IF count = 0 THEN UNCHANGED <<compacting, comp>>
                    ELSE StartWorker(ctx, count)
  /\ autoCount' = 0
  /\ UNCHANGED ctx

\* Plausible bug: a cancelled compaction is forgotten but not aborted.
AbortNothing(k) == comp

Abort(k) == [comp EXCEPT ![k].aborted = TRUE]

\* cancel, markCanceled
CancelCompaction ==
  /\ compacting # None
  /\ comp' = Abort(compacting)
  /\ compacting' = None
  /\ UNCHANGED <<ctx, autoCount>>

\* A worker that has returned keeps none of its locals.
Gone(place) == [NoWorker EXCEPT !.pc = place]

\* The PreCompact hook returns; the signal is tested before and after it.
PreCompactHook(k) ==
  /\ comp[k].pc = "hook"
  /\ comp' = [comp EXCEPT ![k] = IF comp[k].aborted THEN Gone("ended")
                                  ELSE [comp[k] EXCEPT !.pc = "generate"]]
  /\ UNCHANGED <<ctx, compacting, autoCount>>

\* Plausible bug: only the length of the history is compared.
SamePrefixLength(k) == Len(comp[k].snap) <= Len(ctx.history)

\* The summary has come, and no message of the snapshot was replaced.
SamePrefix(k) ==
  LET snap == comp[k].snap
  IN  /\ Len(snap) <= Len(ctx.history)
      /\ \A i \in DOMAIN snap : ctx.history[i] = snap[i]

\* complete, then context.applyCompaction
Apply(k) ==
  /\ comp[k].pc = "generate"
  /\ ~comp[k].aborted
  /\ SamePrefix(k)
  /\ ctx' = FoldApplyCompaction(ctx, k, comp[k].count)
  /\ comp' = [comp EXCEPT ![k] = Gone("applied")]
  /\ compacting' = None
  /\ UNCHANGED autoCount

\* "History changed during compaction": whatever is current is cancelled.
Outdated(k) ==
  /\ comp[k].pc = "generate"
  /\ ~comp[k].aborted
  /\ ~SamePrefix(k)
  /\ comp' = [comp EXCEPT ![k] = Gone("ended")]
  /\ compacting' = None
  /\ UNCHANGED <<ctx, autoCount>>

\* The model request fails for good, or is aborted.  Only the former ends
\* the current compaction.
GenerateEnds(k) ==
  /\ comp[k].pc = "generate"
  /\ comp' = [comp EXCEPT ![k] = Gone("ended")]
  /\ compacting' = IF comp[k].aborted THEN compacting ELSE None
  /\ UNCHANGED <<ctx, autoCount>>

Worker(k) ==
  PreCompactHook(k) \/ Apply(k) \/ Outdated(k) \/ GenerateEnds(k)

Running(k) == comp[k].pc \in {"hook", "generate"}

Resolved(k) == comp[k].pc \in {"applied", "ended"}
=============================================================================
