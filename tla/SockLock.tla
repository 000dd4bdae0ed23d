------------------------------ MODULE SockLock ------------------------------
(***************************************************************************)
(* What g_tmp_clientsock_hash promises: a lock per descriptor.  One worker  *)
(* at a time reads from a descriptor, it keeps the lock until it gives it   *)
(* up, and a thread that tears the descriptor down may break the lock.  A   *)
(* worker whose lock was broken is not a reader any more as far as the lock *)
(* is concerned, although it does not know it.                              *)
(***************************************************************************)
CONSTANTS Workers, Fds

VARIABLE readers    \* [Fds -> SUBSET Workers]: who holds the lock of a descriptor

Init == readers = [f \in Fds |-> {}]

\* Only a worker that has no lock takes one, and only a free one.
Acquire(w, f) ==
    /\ readers[f] = {}
    /\ \A g \in Fds : w \notin readers[g]
    /\ readers' = [readers EXCEPT ![f] = {w}]

Release(w, f) ==
    /\ w \in readers[f]
    /\ readers' = [readers EXCEPT ![f] = @ \ {w}]

Break(f) == readers' = [readers EXCEPT ![f] = {}]

Next == \E f \in Fds : Break(f) \/ \E w \in Workers : Acquire(w, f) \/ Release(w, f)

Spec == Init /\ [][Next]_readers

=============================================================================
