--------------------------- MODULE WorkerDelivery ---------------------------
(***************************************************************************)
(* The delivery side of ml-worker/main.py: which message a worker gets     *)
(* next, and what its failure policy does with one that cannot be          *)
(* processed.  The queue keeps the order of publication; a message that is *)
(* returned takes its old place.  The database work behind a message is    *)
(* that of PredictionPipeline and is here only its result.                 *)
(***************************************************************************)
EXTENDS Integers, FiniteSets, FiniteSetsExt

CONSTANTS
    Workers,        \* ml-worker processes, each with prefetch_count = 1
    Published,      \* bound: messages published in a behaviour
    Deployments,    \* values of ML_WORKER_SKIP_ERRORS and its _LIMIT
    NoMessage,      \* what an idle worker holds
    MaxErrors,      \* bound: errors on messages that could be processed
    MaxRestarts     \* bound: worker processes that end and are started again

ASSUME DeliveryAssumption ==
    /\ Published \in Nat
    /\ Deployments \subseteq [skip : BOOLEAN, limit : Int]
    /\ NoMessage \notin 1 .. Published
    /\ MaxErrors \in Nat /\ MaxRestarts \in Nat

Messages == 1 .. Published      \* in the order of publication

(***************************************************************************)
(* A poison message fails at every attempt: its body is no payload, or its *)
(* model or text differs from the task's row.  A good one is acknowledged: *)
(* its task is completed, or was before, or has no row in the database.    *)
(***************************************************************************)
Kinds == {"good", "poison"}

VARIABLES
    settings,       \* the deployment
    kind,           \* what each message is
    sent,           \* number of messages published so far
    ready,          \* messages the broker may deliver
    held,           \* each worker's unacknowledged message
    pausing,        \* workers in the pause before a nack
    budget,         \* _failure_ack_budget_remaining
    streak,         \* history variable: messages a worker has dropped since
                    \* it last started or settled one
    settled,        \* messages acknowledged because they were dealt with
    dropped,        \* messages acknowledged because they failed
    errors, restarts

vars == <<settings, kind, sent, ready, held, pausing, budget, streak, settled,
          dropped, errors, restarts>>

Idle(w) == held[w] = NoMessage

\* Failures in a row that a worker may acknowledge; Unlimited when all of them.
Unlimited == settings.skip /\ settings.limit = -1
FullBudget == IF settings.skip /\ settings.limit >= 1 THEN settings.limit ELSE 0

Init ==
    /\ settings \in Deployments
    /\ kind \in [Messages -> Kinds]
    /\ sent = 0
    /\ ready = {} /\ settled = {} /\ dropped = {} /\ pausing = {}
    /\ held = [w \in Workers |-> NoMessage]
    /\ budget = [w \in Workers |-> FullBudget]
    /\ streak = [w \in Workers |-> 0]
    /\ errors = 0 /\ restarts = 0

----------------------------------------------------------------------------
\* Some publisher adds a message to the end of the queue.
Publish ==
    /\ sent < Published
    /\ sent' = sent + 1
    /\ ready' = ready \cup {sent + 1}
    /\ UNCHANGED <<settings, kind, held, pausing, budget, streak, settled, dropped,
                   errors, restarts>>

\* The broker delivers the oldest message to a worker that holds none.
Deliver(w) ==
    /\ Idle(w)
    /\ ready # {}
    /\ held' = [held EXCEPT ![w] = Min(ready)]
    /\ ready' = ready \ {Min(ready)}
    /\ UNCHANGED <<settings, kind, sent, pausing, budget, streak, settled, dropped,
                   errors, restarts>>

\* The message is processed, was processed before, or has no task: the budget
\* is restored and the message acknowledged.
Settle(w) ==
    /\ ~Idle(w) /\ w \notin pausing
    /\ kind[held[w]] = "good"
    /\ settled' = settled \cup {held[w]}
    /\ held' = [held EXCEPT ![w] = NoMessage]
    /\ budget' = [budget EXCEPT ![w] = FullBudget]
    /\ streak' = [streak EXCEPT ![w] = 0]
    /\ UNCHANGED <<settings, kind, sent, ready, pausing, dropped, errors, restarts>>

\* Mutations of MayDrop: there is no case for limit -1; the budget is not looked at.
DropWhileBudget(w) == settings.skip /\ settings.limit >= 1 /\ budget[w] > 0
MayDropAnyway(w) == settings.skip /\ (settings.limit = -1 \/ settings.limit >= 1)

\* The policy's two reasons to acknowledge a message that failed.
MayDrop(w) ==
    /\ settings.skip
    /\ settings.limit = -1 \/ (settings.limit >= 1 /\ budget[w] > 0)

BudgetAfterDrop(w) == IF settings.limit = -1 THEN budget[w] ELSE budget[w] - 1

\* _apply_delivery_failure_policy: the failed message is acknowledged, and gone,
\* or the worker pauses before it returns the message.
ApplyFailurePolicy(w) ==
    \/ /\ MayDrop(w)
       /\ dropped' = dropped \cup {held[w]}
       /\ held' = [held EXCEPT ![w] = NoMessage]
       /\ budget' = [budget EXCEPT ![w] = BudgetAfterDrop(w)]
       /\ streak' = [streak EXCEPT ![w] = @ + 1]
       /\ UNCHANGED pausing
    \/ /\ ~MayDrop(w)
       /\ pausing' = pausing \cup {w}
       /\ UNCHANGED <<held, dropped, streak, budget>>

\* Processing raises: always for a poison message, now and then for another one.
Fail(w) ==
    /\ ~Idle(w) /\ w \notin pausing
    /\ \/ kind[held[w]] = "poison" /\ UNCHANGED errors
       \/ kind[held[w]] = "good" /\ errors < MaxErrors /\ errors' = errors + 1
    /\ ApplyFailurePolicy(w)
    /\ UNCHANGED <<settings, kind, sent, ready, settled, restarts>>

(***************************************************************************)
(* The pause of five seconds is over and the message goes back to its      *)
(* place.  In five seconds the broker has delivered what there was to      *)
(* deliver: a message does not wait beside an idle worker that long.       *)
(***************************************************************************)
NothingToDeliver == ready = {} \/ \A w \in Workers : ~Idle(w)

\* Mutations of Requeue: without the pause; the worker keeps what it returned.
RequeueAtOnce(w) ==
    /\ w \in pausing
    /\ ready' = ready \cup {held[w]}
    /\ held' = [held EXCEPT ![w] = NoMessage]
    /\ pausing' = pausing \ {w}
    /\ UNCHANGED <<settings, kind, sent, budget, streak, settled, dropped, errors,
                   restarts>>

RequeueAndKeep(w) ==
    /\ w \in pausing
    /\ NothingToDeliver
    /\ ready' = ready \cup {held[w]}
    /\ pausing' = pausing \ {w}
    /\ UNCHANGED <<settings, kind, sent, held, budget, streak, settled, dropped, errors,
                   restarts>>

Requeue(w) ==
    /\ w \in pausing
    /\ NothingToDeliver
    /\ ready' = ready \cup {held[w]}
    /\ held' = [held EXCEPT ![w] = NoMessage]
    /\ pausing' = pausing \ {w}
    /\ UNCHANGED <<settings, kind, sent, budget, streak, settled, dropped, errors,
                   restarts>>

\* The process ends and is started again with a fresh budget; the broker takes
\* its message back.
Restart(w) ==
    /\ restarts < MaxRestarts
    /\ restarts' = restarts + 1
    /\ ready' = IF Idle(w) THEN ready ELSE ready \cup {held[w]}
    /\ held' = [held EXCEPT ![w] = NoMessage]
    /\ pausing' = pausing \ {w}
    /\ budget' = [budget EXCEPT ![w] = FullBudget]
    /\ streak' = [streak EXCEPT ![w] = 0]
    /\ UNCHANGED <<settings, kind, sent, settled, dropped, errors>>

----------------------------------------------------------------------------
WorkerStep(w) == Deliver(w) \/ Settle(w) \/ Fail(w) \/ Requeue(w)

\* Everything is published and dealt with.
Quiet ==
    /\ sent = Published
    /\ ready = {} /\ \A w \in Workers : Idle(w)
    /\ UNCHANGED vars

Next ==
    \/ Publish
    \/ \E w \in Workers : WorkerStep(w) \/ Restart(w)
    \/ Quiet

Spec == Init /\ [][Next]_vars

\* Workers keep running, and a pause ends although NothingToDeliver comes and
\* goes meanwhile; nothing makes messages arrive or processes end.
Fairness == \A w \in Workers : SF_vars(WorkerStep(w))

FairSpec == Spec /\ Fairness

----------------------------------------------------------------------------
(* Properties                                                              *)

\* Every variable has its type.
TypeOK ==
    /\ settings \in Deployments
    /\ kind \in [Messages -> Kinds]
    /\ sent \in 0 .. Published
    /\ \A M \in {ready, settled, dropped} : M \subseteq Messages
    /\ held \in [Workers -> Messages \cup {NoMessage}]
    /\ pausing \subseteq Workers
    /\ budget \in [Workers -> Nat]
    /\ streak \in [Workers -> Nat]
    /\ errors \in Nat /\ restarts \in Nat

\* Unless all errors are skipped a worker drops at most ML_WORKER_SKIP_ERRORS_LIMIT
\* messages, and none when errors are not skipped or the limit is no positive
\* number, without settling one in between or starting afresh.
DropsWithinLimit ==
    ~Unlimited => \A w \in Workers : streak[w] <= FullBudget

\* The reason: what a worker has dropped is what is gone from its budget.
DropsSpendBudget ==
    ~Unlimited => \A w \in Workers : streak[w] + budget[w] = FullBudget

\* Unless errors are skipped no message is ever dropped.
StrictDropsNothing ==
    ~settings.skip => dropped = {}

\* Each published message is in exactly one place: in the queue, with one
\* worker, or acknowledged for one reason.
OnePlace ==
    /\ \A m \in 1 .. sent :
          m \in ready \cup settled \cup dropped \/ \E w \in Workers : held[w] = m
    /\ \A w \in Workers :
          /\ held[w] \notin ready \cup settled \cup dropped
          /\ \A v \in Workers : held[v] = held[w] /\ ~Idle(w) => v = w
    /\ ready \cap settled = {} /\ ready \cap dropped = {} /\ settled \cap dropped = {}

\* What is anywhere has been published, and a pausing worker holds a message.
OnlyPublished ==
    /\ ready \cup settled \cup dropped \subseteq 1 .. sent
    /\ \A w \in Workers : held[w] \in 1 .. sent \/ (Idle(w) /\ w \notin pausing)

\* The inductive invariant.
IInv ==
    /\ TypeOK
    /\ OnlyPublished
    /\ OnePlace
    /\ DropsSpendBudget
    /\ StrictDropsNothing

\* Poison blocks a worker only once its budget is used up, and an error on a good
\* message uses up as much: while there is less of both than it takes to block
\* every worker, each good message gets through, in whatever order they come.
FewPoison ==
    \/ Unlimited
    \/ Cardinality({m \in Messages : kind[m] = "poison"})
          + (IF FullBudget > 0 THEN MaxErrors ELSE 0)
          < Cardinality(Workers) * (FullBudget + 1)

GoodGetsThrough ==
    FewPoison => \A m \in Messages :
        m <= sent /\ kind[m] = "good" ~> m \in settled \cup dropped

\* With all errors skipped the queue drains whatever is in it.
UnlimitedDrains ==
    \A m \in Messages : Unlimited /\ m <= sent ~> m \in settled \cup dropped
=============================================================================
