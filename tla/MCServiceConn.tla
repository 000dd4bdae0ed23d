--------------------------- MODULE MCServiceConn ---------------------------
(* Model values and symmetry for TLC. *)
EXTENDS ServiceConn, TLC

WorkerSymmetry == Permutations(Workers)
=============================================================================
