---------------------------- MODULE MCRecvPool ----------------------------
(* Instances of RecvPool for TLC. *)
EXTENDS RecvPool, TLC

\* The workers of the pool are interchangeable, and so are the descriptors.
WorkerSymmetry == Permutations(Workers)
WorkerFdSymmetry == Permutations(Workers) \cup Permutations(Fds)

=============================================================================
