---------------------------- MODULE MCSessionLock ----------------------------
(* TLC instances of SessionLock: two or three handles, each of its own     *)
(* process, or the first two of three of the same one.                     *)
EXTENDS SessionLock, TLC

CONSTANTS h1, h2, h3, p1, p2, p3

OwnProcesses == h1 :> p1 @@ h2 :> p2 @@ h3 :> p3
TwoProcesses == h1 :> p1 @@ h2 :> p2
Reentrant    == h1 :> p1 @@ h2 :> p1 @@ h3 :> p2
=============================================================================
