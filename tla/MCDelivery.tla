---------------------------- MODULE MCDelivery ----------------------------
(* WorkerDelivery on two workers, over every mix of four messages.         *)
EXTENDS WorkerDelivery

\* The deployed setting, each branch of the policy, and a limit that is neither.
MCDeployments ==
    {[skip |-> FALSE, limit |-> 1], [skip |-> TRUE, limit |-> -1],
     [skip |-> TRUE, limit |-> 1], [skip |-> TRUE, limit |-> 0]}
=============================================================================
