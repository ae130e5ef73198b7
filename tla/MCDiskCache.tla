---------------------------- MODULE MCDiskCache ----------------------------
(***************************************************************************)
(* Two segments that do not fit together, and two goroutines that persist  *)
(* the same or different ones.                                             *)
(***************************************************************************)
EXTENDS DiskCache, TLC

MCSize == [k \in Keys |-> IF k = "seg1" THEN 1 ELSE 2]
MCSymmetry == Permutations(Putters)
=============================================================================
