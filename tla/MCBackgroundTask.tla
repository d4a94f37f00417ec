--------------------------- MODULE MCBackgroundTask ---------------------------
(* TLC instances of BackgroundTask.                                          *)
EXTENDS BackgroundTask
=============================================================================
