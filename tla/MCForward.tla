----------------------------- MODULE MCForward -----------------------------
(* What happens to the requests of clients in either mode, for TLC. *)
EXTENDS MCForkMode, Waiting

\* With four values no number comes twice and a bucket has several records, before which
\* others are put; with two the third request has the number of the first.
SomeShapes == {[half |-> 2, buckets |-> 1, front |-> TRUE],
               [half |-> 1, buckets |-> 2, front |-> FALSE]}

\* A server runs in one of the two modes, which share no state that matters.  For the
\* epoll mode the other part is brought up, without clients and failures, and rests.
VARIABLE epoll

AtRest == written /\ ~awake /\ mpc = "Accept"
BringUp ==
    /\ ForkNext
    /\ accepted' = 0 /\ wakes' = 0 /\ faults' = 0
    /\ mpc' = "Accept" => written

ModesInit ==
    /\ ForkInit /\ FewLeft /\ WaitInit
    /\ \/ epoll = FALSE /\ shape = CHOOSE s \in Shapes : TRUE
       \/ epoll = TRUE /\ conf = TwoKinds /\ ~stale
ModesNext ==
    /\ UNCHANGED epoll
    /\ \/ ~epoll /\ ForkNext /\ FewWakes /\ UNCHANGED waitVars
       \/ epoll /\ ~AtRest /\ BringUp /\ UNCHANGED waitVars
       \/ epoll /\ AtRest /\ WaitNext /\ UNCHANGED forkVars
ModesSpec ==
    ModesInit /\ [][ModesNext]_<<forkVars, waitVars, epoll>> /\ ForkFairness /\ WaitFairness
=============================================================================
