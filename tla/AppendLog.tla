------------------------------ MODULE AppendLog ------------------------------
(***************************************************************************)
(* What a session's storage promises: a log to which one line at a time is *)
(* added, and from which nothing is ever taken or reordered.               *)
(***************************************************************************)
EXTENDS Naturals, Sequences

VARIABLE log

Init == log = <<>>

Grow == /\ Len(log') = Len(log) + 1
        /\ SubSeq(log', 1, Len(log)) = log

Spec == Init /\ [][Grow]_log
=============================================================================
