----------------------------- MODULE MCForkMode -----------------------------
(* Two clients and two servers, for TLC. *)
EXTENDS ForkMode, TLC

L(k, s) == [kind |-> k, seq |-> s]
TwoKinds == <<L("im", 1), L("ww", 1)>>

\* In the second list the numbers are not those that GetSrvSeq counts.
AllConfigs == {TwoKinds, <<L("im", 1), L("im", 3)>>}
ClientWants == <<{"im"}, {"ww"}>>

\* What an earlier run left: nothing, or the table of the same two servers and at most
\* one message.
FewLeft ==
    /\ stale => conf = TwoKinds /\ (queue = <<>> \/ answers = <<>>)
    /\ ~stale => queue = <<>> /\ answers = <<>>
    /\ \A m \in ToSet(queue) \cup ToSet(answers) : m.kind = "im"

\* The table is written a second time, and a step fails, only when nothing was left.
FewWakes == stale => wakes' = 0 /\ faults' = 0

Init == ForkInit /\ FewLeft
Spec == Init /\ [][ForkNext /\ FewWakes]_forkVars /\ ForkFairness
=============================================================================
