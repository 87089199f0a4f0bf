---------------------------- MODULE MCPipeline ----------------------------
(* PredictionPipeline on two or three tasks and two workers.                *)
EXTENDS PredictionPipeline, TLC

CONSTANTS t1, t2, t3, alice, bob

\* Alice has two paid tasks, which compete for her wallet; bob, who may owe,
\* has one with a free model.
ThreeOwner == t1 :> alice @@ t2 :> alice @@ t3 :> bob
ThreeCharge == t1 :> 1 @@ t2 :> 1 @@ t3 :> 0

\* Two paid tasks of alice.
PairOwner == t1 :> alice @@ t2 :> alice
PairCharge == t1 :> 1 @@ t2 :> 1

\* As docker-compose.yml deploys it; with errors skipped; without a broker.
Strict == [broker |-> TRUE, skipErrors |-> FALSE]
Skipping == [broker |-> TRUE, skipErrors |-> TRUE]
Inline == [broker |-> FALSE, skipErrors |-> FALSE]

StrictOnly == {Strict}
AllDeployments == {Strict, Skipping, Inline}
=============================================================================
