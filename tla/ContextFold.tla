---------------------------- MODULE ContextFold ----------------------------
(* The fold that turns the records of a conversation into the history the  *)
(* model is sent (agent/context/wire-fold.ts, agent/wire/ops/context.ts),  *)
(* as operators on one record.  A message stands for one object of the     *)
(* history array: "rev" is 1 once masking or a blocking hook has replaced  *)
(* the object by another one.  A step is <<turn, number>> and makes at     *)
(* most one tool call, which bears its step's name.                        *)
EXTENDS Naturals, SequencesExt

Message(kind, turn, n) == [kind |-> kind, turn |-> turn, n |-> n, rev |-> 0]
StepMessage(kind, s) == Message(kind, s[1], s[2])
StepOf(m) == <<m.turn, m.n>>

\* "prompt" has the origin user, "trigger" any other one (cron, background
\* task, stop hook); "notice" is the answer of a hook that blocked a prompt.
Role(m) == CASE m.kind \in {"prompt", "trigger"} -> "user"
             [] m.kind \in {"assistant", "summary", "notice"} -> "assistant"
             [] m.kind = "tool" -> "tool"

\* createWireFoldState, resetWireFoldState.  "called" and "filled" are attributes of the
\* assistant messages: the steps with a tool call, and with any content.
EmptyContext == [history |-> <<>>, open |-> {}, pending |-> {},
                 deferred |-> <<>>, called |-> {}, filled |-> {}]

Held(c) == ToSet(c.history) \cup ToSet(c.deferred)

-----------------------------------------------------------------------------
FoldAppendMessage(c, m) ==
  IF c.pending # {} THEN [c EXCEPT !.deferred = Append(@, m)]
                    ELSE [c EXCEPT !.history = Append(@, m)]

\* FoldAppendMessage of one message after the other: none of them opens a
\* tool exchange.
AppendAll(c, ms) ==
  IF c.pending # {} THEN [c EXCEPT !.deferred = @ \o ms]
                    ELSE [c EXCEPT !.history = @ \o ms]

FlushDeferred(c) ==
  IF c.pending # {} THEN c
  ELSE [c EXCEPT !.history = @ \o c.deferred, !.deferred = <<>>]

FoldStepBegin(c, s) ==
  [c EXCEPT !.history = Append(@, StepMessage("assistant", s)),
            !.open = @ \cup {s}]

\* content.part and tool.call throw when the step is not in "open".
FoldContentPart(c, s) == [c EXCEPT !.filled = @ \cup {s}]

FoldToolCall(c, s) == [c EXCEPT !.filled = @ \cup {s}, !.called = @ \cup {s},
                                !.pending = @ \cup {s}]

FoldToolResult(c, s) ==
  FlushDeferred([c EXCEPT !.history = Append(@, StepMessage("tool", s)),
                          !.pending = @ \ {s}])

FoldStepEnd(c, s) == FlushDeferred([c EXCEPT !.open = @ \ {s}])

FoldApplyCompaction(c, k, count) ==
  FlushDeferred([c EXCEPT
    !.history = <<Message("summary", 0, k)>> \o SubSeq(@, count + 1, Len(@)),
    !.open = {}])

\* The last message of origin user is replaced by a marked copy.
MarkLastUserPromptBlocked(c) ==
  LET prompts == {i \in DOMAIN c.history : c.history[i].kind = "prompt"}
  IN  IF prompts = {} THEN c ELSE [c EXCEPT !.history[Max(prompts)].rev = 1]

\* Observation masking and pruning replace the content of tool messages
\* (of all of them here: how many depends on their sizes).
MaskTools(c) ==
  [c EXCEPT !.history =
     [i \in DOMAIN @ |-> IF @[i].kind = "tool" THEN [@[i] EXCEPT !.rev = 1]
                                               ELSE @[i]]]

\* The output of a step's tool goes to a file and a preview takes its place.
Offload(c, s) ==
  [c EXCEPT !.history =
     [i \in DOMAIN @ |-> IF @[i].kind = "tool" /\ StepOf(@[i]) = s
                         THEN [@[i] EXCEPT !.rev = 1] ELSE @[i]]]

\* The records folded again: those replacements are in no record.
Refolded(c) ==
  [c EXCEPT !.history =
     [i \in DOMAIN @ |-> IF @[i].kind = "tool" THEN [@[i] EXCEPT !.rev = 0]
                                               ELSE @[i]]]

-----------------------------------------------------------------------------
(* Where a history may be cut.                                             *)

\* findToolExchangeEnd: 0 stands for an exchange that is not complete.
ExchangeEnd(h, i) ==
  LET ends == {j \in i + 1 .. Len(h) :
                 /\ \A l \in i + 1 .. j : h[l].kind = "tool"
                 /\ StepOf(h[j]) = StepOf(h[i])}
  IN  IF ends = {} THEN 0 ELSE Min(ends)

\* Before message i, and before the prompt it answers.
BeforePrompt(h, i) == IF i > 1 /\ Role(h[i - 1]) = "user" THEN i - 2 ELSE i - 1

\* The tool exchange of message i lies on both sides of the cut.
Splits(c, i, cut) ==
  LET h == c.history
  IN  /\ h[i].kind = "assistant"
      /\ StepOf(h[i]) \in c.called
      /\ cut >= i
      /\ ExchangeEnd(h, i) = 0 \/ cut < ExchangeEnd(h, i)

\* sliceCompleteMessages: the cut is moved before every tool exchange it
\* would split.
CompleteSlice(c, wanted) ==
  LET cut[i \in 0 .. Len(c.history)] ==
        IF i = 0 THEN wanted
        ELSE IF Splits(c, i, cut[i - 1]) THEN BeforePrompt(c.history, i)
        ELSE cut[i - 1]
  IN  cut[Len(c.history)]

\* computeCompactCount: trailing user messages and empty assistant
\* placeholders stay; which split before them is taken depends on sizes.
Trails(c, m) == \/ Role(m) = "user"
                \/ m.kind = "assistant" /\ StepOf(m) \notin c.filled

\* Plausible bug: the first message that stays is compacted too.
LastCutOffByOne(c) ==
  Max({0} \cup {i \in DOMAIN c.history : ~Trails(c, c.history[i])}) + 1

LastCut(c) == Max({0} \cup {i \in DOMAIN c.history : ~Trails(c, c.history[i])})

WantedCuts(c) ==
  LET h == c.history
      CanSplitBefore(i) ==
        /\ Role(h[i]) # "tool"
        /\ i > 1 => /\ Role(h[i - 1]) # Role(h[i])
                    /\ ~(Role(h[i - 1]) = "user" /\ Role(h[i]) = "assistant")
      before == {i \in DOMAIN h : i <= LastCut(c) /\ CanSplitBefore(i)}
  IN  {LastCut(c)} \cup {i - 1 : i \in before}

CompactableCounts(c) == {CompleteSlice(c, n) : n \in WantedCuts(c)}
=============================================================================
