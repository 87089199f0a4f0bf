--------------------------- MODULE TaskLifecycle ---------------------------
(***************************************************************************)
(* What a user of the prediction service is promised about one paid task:  *)
(* it is recorded, then completed, and completing it is the only thing     *)
(* that charges for it, once, in the same step.  Threads, queue, locks and *)
(* failures are those of PredictionPipeline, which implements this.        *)
(***************************************************************************)
EXTENDS Integers

CONSTANTS
    Works,      \* the tasks
    Price       \* the charge of each task, zero for a free model

VARIABLES
    stage,      \* "absent", "PENDING" or "COMPLETED"
    paid        \* how many times the task was charged

Nothing ==
    /\ stage = [t \in Works |-> "absent"]
    /\ paid = [t \in Works |-> 0]

\* The request is accepted; nothing is charged.
Accept(t) ==
    /\ stage[t] = "absent"
    /\ stage' = [stage EXCEPT ![t] = "PENDING"]
    /\ UNCHANGED paid

\* The task is completed and charged: by a worker after it was accepted, or
\* within the request when there is no broker.
Settle(t) ==
    /\ stage[t] # "COMPLETED"
    /\ stage' = [stage EXCEPT ![t] = "COMPLETED"]
    /\ paid' = [paid EXCEPT ![t] = IF Price[t] > 0 THEN @ + 1 ELSE @]

Advance == \E t \in Works : Accept(t) \/ Settle(t)

LifecycleSpec == Nothing /\ [][Advance]_<<stage, paid>>
=============================================================================
