----------------------------- MODULE MCScorePull -----------------------------
(* Two attempts, one of them a walk-in's, two workers that are alike and a   *)
(* column.                                                                   *)
EXTENDS ScorePull, TLC

SameWorkers == Permutations(Workers)
=============================================================================
