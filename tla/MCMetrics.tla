----------------------------- MODULE MCMetrics -----------------------------
(* Two requests, a reader and a reset. *)
EXTENDS Metrics, TLC

CONSTANTS r1, r2, r3, m1, z1

RecorderSymmetry == Permutations(Recorders)
=============================================================================
