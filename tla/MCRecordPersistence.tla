------------------------- MODULE MCRecordPersistence -------------------------
(* TLC instances of RecordPersistence.                                       *)
EXTENDS RecordPersistence
=============================================================================
