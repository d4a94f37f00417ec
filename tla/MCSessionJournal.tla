-------------------------- MODULE MCSessionJournal --------------------------
(* TLC instances of SessionJournal: the configurations choose the hazards. *)
EXTENDS SessionJournal
=============================================================================
