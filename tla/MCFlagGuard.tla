----------------------------- MODULE MCFlagGuard -----------------------------
(***************************************************************************)
(* Small instances of FlagGuard for TLC.                                   *)
(***************************************************************************)
EXTENDS FlagGuard, TLC

CONSTANTS t1, t2, g1, g2, g3, g4

\* Two guards of each thread, to move between
TwoEach == g1 :> t1 @@ g2 :> t1 @@ g3 :> t2 @@ g4 :> t2
=============================================================================
