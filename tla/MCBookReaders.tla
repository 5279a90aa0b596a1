--------------------------- MODULE MCBookReaders ---------------------------
(***************************************************************************)
(* Small instances of BookReaders for TLC.                                 *)
(***************************************************************************)
EXTENDS BookReaders

UnitVolumes == {-1, 1}
OneStep == {-1, 1}
=============================================================================
