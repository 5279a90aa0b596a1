--------------------------- MODULE MCSeqLockQueue ---------------------------
(***************************************************************************)
(* Small instances of SeqLockQueue for TLC.                                *)
(***************************************************************************)
EXTENDS SeqLockQueue
=============================================================================
