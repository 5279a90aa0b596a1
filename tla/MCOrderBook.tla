---------------------------- MODULE MCOrderBook ----------------------------
(***************************************************************************)
(* Small instances of OrderBook and of its refinement for TLC.            *)
(***************************************************************************)
EXTENDS BookRefinement, TLC

\* Volumes that fill a bucket in part, exactly and beyond
SmallVolumes == -2..2
UnitVolumes == {-1, 1}

\* Distances up to one less than the array
SmallShifts == -2..2
DownShifts == {-1, 0}
NoShifts == {0}

\* All the restrictions, and all but one
AllButInnerPrice == Disciplines \ {"inner_price"}
AllButClearEdges == Disciplines \ {"clear_edges"}
AllButClearTop == Disciplines \ {"clear_top"}
AllButLoneShift == Disciplines \ {"lone_shift"}
AllButNarrowPrice == Disciplines \ {"narrow_price"}

Symmetry == Permutations(Threads)
=============================================================================
