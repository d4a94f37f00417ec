----------------------------- MODULE Operations -----------------------------
(***************************************************************************)
(* What a lane promises about its operations, whatever crashes and resumes *)
(* happen underneath: they are accepted one at a time, an accepted one     *)
(* stays open until it gets its single outcome, and outcomes are final.    *)
(***************************************************************************)
CONSTANTS Ops, Outcomes, NoOp

VARIABLES
    open,     \* the accepted operation that has no outcome yet, or NoOp
    outcome   \* [Ops -> Outcomes \cup {NoOp}]

vars == <<open, outcome>>

Init == open = NoOp /\ outcome = [op \in Ops |-> NoOp]

Accept(op) ==
    /\ open = NoOp /\ outcome[op] = NoOp
    /\ open' = op /\ UNCHANGED outcome

Finish(o) ==
    /\ open # NoOp
    /\ outcome' = [outcome EXCEPT ![open] = o] /\ open' = NoOp

Next == (\E op \in Ops : Accept(op)) \/ (\E o \in Outcomes : Finish(o))

Spec == Init /\ [][Next]_vars
=============================================================================
