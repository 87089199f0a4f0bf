---------------------------- MODULE MCBackOffice ----------------------------
(* BackOffice with two threads beside the benchmark, which has two tasks.  *)
EXTENDS BackOffice
MCTasks == 1 .. 2
MCPrice == [j \in MCTasks |-> j]
MCRequests == {[name |-> "new"], [allow |-> TRUE], [name |-> "new", allow |-> TRUE]}
=============================================================================
