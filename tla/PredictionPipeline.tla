------------------------- MODULE PredictionPipeline -------------------------
(***************************************************************************)
(* The paid prediction: POST /predict in the API process                   *)
(* (app/modules/neural/service.py), the RabbitMQ queue, and the ml-worker  *)
(* processes (ml-worker/main.py, app/modules/neural/ml_task_queue.py),     *)
(* with the database they share.  A variable of the database holds what is *)
(* committed; the row locks of PostgreSQL are in taskLock and walletLock.  *)
(* Each task is one request; its message carries nothing but the task.     *)
(*                                                                         *)
(* The queue is the set of messages ready for delivery, so that any of     *)
(* them may be next: WorkerDelivery has the order.                         *)
(***************************************************************************)
EXTENDS Integers, FiniteSets

CONSTANTS
    Users,
    Tasks,              \* one per request for a prediction
    Workers,            \* ml-worker processes
    Owner,              \* the user who requests a task
    Charge,             \* length of the text times the price of the model
    MayOwe,             \* users with allow_negative_balance set
    Transfers,          \* amounts of top-ups and administrator spends
    Deployments,        \* the settings the system may be deployed with
    Nobody,             \* the holder of a lock that nobody holds
    MaxTransfers,       \* bound: top-ups and administrator spends
    MaxApiFaults,       \* bound: failed or cut requests, lost publications
    MaxWorkerFaults,    \* bound: errors while processing, worker crashes
    MaxConnLosses       \* bound: broker connections lost during processing

ASSUME PipelineAssumption ==
    /\ Owner \in [Tasks -> Users]
    /\ Charge \in [Tasks -> Nat]
    /\ MayOwe \subseteq Users
    /\ Transfers \subseteq Nat \ {0}
    /\ Deployments \subseteq [broker : BOOLEAN, skipErrors : BOOLEAN]
    /\ Nobody \notin Tasks \cup Workers
    /\ Tasks \cap Workers = {}
    /\ {MaxTransfers, MaxApiFaults, MaxWorkerFaults, MaxConnLosses} \subseteq Nat

VARIABLES
    settings,       \* RABBITMQ_HOST is set; ML_WORKER_SKIP_ERRORS
    wallet,         \* user_balances.token_count
    credited,       \* sum of a user's "credit" journal rows
    debited,        \* sum of a user's "debit" journal rows
    debits,         \* number of "debit" journal rows that name a task
    status,         \* ml_prediction_tasks.status, "absent" without a row
    history,        \* the task's row of the request history
    walletLock, taskLock,
    request,        \* what the API thread serving a task is doing
    ready,          \* messages the broker may deliver
    worker,         \* what each worker process is doing
    reached,        \* history variable: tasks whose message reached the broker
    mixed,          \* history variable: users who used their balance in
                    \* another way while one of their tasks was pending
    transfers, apiFaults, workerFaults, connLosses

accounts == <<wallet, credited, debited>>
database == <<accounts, debits, status, history>>
locks == <<walletLock, taskLock>>
bounds == <<transfers, apiFaults, workerFaults, connLosses>>
vars == <<settings, database, locks, request, ready, worker,
          reached, mixed, bounds>>

----------------------------------------------------------------------------
(* Requests, workers and the rows they hold                                *)

RequestPhases ==
    {"new",         \* not yet received
     "begun",       \* validated, profile read
     "inserted",    \* wallet locked, task and history rows flushed
     "unpublished", \* transaction committed, message not yet published
     "answered",    \* the client has its task
     "refused",     \* the client has an error and nothing was recorded
     "broken"}      \* the request failed half way

WorkerPhases ==
    {"idle",
     "received",    \* a message is delivered and unacknowledged
     "running",     \* the row was read as PENDING; inference
     "completed",   \* complete_task flushed: the task's row is locked
     "charged",     \* spend_tokens and the history update flushed
     "acking",      \* about to acknowledge
     "nacking"}     \* about to return the message to the queue

\* linked is FALSE once the broker has given the connection up
IdleWorker == [phase |-> "idle", linked |-> TRUE]
Deliveries ==
    [phase  : WorkerPhases \ {"idle"},
     task   : Tasks,
     linked : BOOLEAN,
     count  : Int]      \* the balance read with the wallet locked

Busy(w) == worker[w].phase # "idle"
Pending(u) == {t \in Tasks : Owner[t] = u /\ status[t] = "PENDING"}

\* Mutation of WalletsWithout: the lock survives the transaction.
WalletsKept(p) == walletLock

\* The lock tables once p has ended its transaction
WalletsWithout(p) == [u \in Users |-> IF walletLock[u] = p THEN Nobody ELSE walletLock[u]]
TasksWithout(p) == [t \in Tasks |-> IF taskLock[t] = p THEN Nobody ELSE taskLock[t]]

\* DebitTransaction.apply with force_allow_negative, for a task's charge: the
\* row's charge is written against the balance that was read.  A task that
\* costs nothing is not debited.
WriteCharge(t, count) ==
    IF Charge[t] > 0
    THEN /\ wallet' = [wallet EXCEPT ![Owner[t]] = count - Charge[t]]
         /\ debited' = [debited EXCEPT ![Owner[t]] = @ + Charge[t]]
         /\ debits' = [debits EXCEPT ![t] = @ + 1]
         /\ UNCHANGED credited
    ELSE UNCHANGED <<accounts, debits>>

----------------------------------------------------------------------------
(* Initial state                                                           *)

Init ==
    /\ settings \in Deployments
    /\ wallet = [u \in Users |-> 0]
    /\ credited = [u \in Users |-> 0]
    /\ debited = [u \in Users |-> 0]
    /\ debits = [t \in Tasks |-> 0]
    /\ status = [t \in Tasks |-> "absent"]
    /\ history = [t \in Tasks |-> "absent"]
    /\ walletLock = [u \in Users |-> Nobody]
    /\ taskLock = [t \in Tasks |-> Nobody]
    /\ request = [t \in Tasks |-> "new"]
    /\ ready = {}
    /\ worker = [w \in Workers |-> IdleWorker]
    /\ reached = {}
    /\ mixed = {}
    /\ transfers = 0 /\ apiFaults = 0 /\ workerFaults = 0 /\ connLosses = 0

----------------------------------------------------------------------------
(* The API process: create_prediction_task                                 *)

\* The validations pass, the model is active and the profile is read.
Begin(t) ==
    /\ request[t] = "new"
    /\ request' = [request EXCEPT ![t] = "begun"]
    /\ UNCHANGED <<settings, database, locks, ready, worker, reached, mixed, bounds>>

\* Mutation of Covered: off by one.
NearlyCovered(t) == Owner[t] \in MayOwe \/ wallet[Owner[t]] + 1 >= Charge[t]

Covered(t) == Owner[t] \in MayOwe \/ wallet[Owner[t]] >= Charge[t]

\* Mutation of CheckBalance: the message is published before the commit.
CheckAndPublish(t) ==
    /\ request[t] = "begun"
    /\ walletLock[Owner[t]] = Nobody
    /\ Covered(t)
    /\ walletLock' = [walletLock EXCEPT ![Owner[t]] = t]
    /\ request' = [request EXCEPT ![t] = "inserted"]
    /\ ready' = ready \cup {t}
    /\ UNCHANGED <<settings, database, taskLock, worker, reached, mixed, bounds>>

\* The wallet is locked and read; it covers the charge, so the pending task and
\* its history row are flushed.  Nothing is reserved in the wallet.
CheckBalance(t) ==
    /\ request[t] = "begun"
    /\ walletLock[Owner[t]] = Nobody
    /\ Covered(t)
    /\ walletLock' = [walletLock EXCEPT ![Owner[t]] = t]
    /\ request' = [request EXCEPT ![t] = "inserted"]
    /\ UNCHANGED <<settings, database, taskLock, ready, worker, reached, mixed,
                   bounds>>

\* A validation fails, or the wallet does not cover the charge: the error
\* leaves the handler and get_db rolls back.
Refuse(t) ==
    /\ \/ request[t] = "new"
       \/ request[t] = "begun" /\ walletLock[Owner[t]] = Nobody /\ ~Covered(t)
    /\ request' = [request EXCEPT ![t] = "refused"]
    /\ UNCHANGED <<settings, database, locks, ready, worker, reached, mixed, bounds>>

\* With a broker the request commits before it publishes, so that no worker
\* can receive the message of a task it cannot see.
CommitPending(t) ==
    /\ settings.broker
    /\ request[t] = "inserted"
    /\ request' = [request EXCEPT ![t] = "unpublished"]
    /\ status' = [status EXCEPT ![t] = "PENDING"]
    /\ history' = [history EXCEPT ![t] = "PENDING"]
    /\ walletLock' = WalletsWithout(t)
    /\ mixed' = IF Pending(Owner[t]) # {} THEN mixed \cup {Owner[t]} ELSE mixed
    /\ UNCHANGED <<settings, accounts, debits, taskLock, ready, worker, reached,
                   bounds>>

\* publish_ml_prediction_payload returns and the broker has the message.
Publish(t) ==
    /\ request[t] = "unpublished"
    /\ request' = [request EXCEPT ![t] = "answered"]
    /\ ready' = ready \cup {t}
    /\ reached' = reached \cup {t}
    /\ UNCHANGED <<settings, database, locks, worker, mixed, bounds>>

\* Without a broker the model runs in the request, and the completed task, the
\* debit and the history row are committed together.
CompleteInline(t) ==
    /\ ~settings.broker
    /\ request[t] = "inserted"
    /\ request' = [request EXCEPT ![t] = "answered"]
    /\ status' = [status EXCEPT ![t] = "COMPLETED"]
    /\ history' = [history EXCEPT ![t] = "charged"]
    /\ WriteCharge(t, wallet[Owner[t]])
    /\ walletLock' = WalletsWithout(t)
    /\ UNCHANGED <<settings, taskLock, ready, worker, reached, mixed, bounds>>

\* The request ends with an exception, or with the process, before it commits:
\* everything is rolled back.
BreakBeforeCommit(t) ==
    /\ request[t] \in {"begun", "inserted"}
    /\ request' = [request EXCEPT ![t] = "refused"]
    /\ walletLock' = WalletsWithout(t)
    /\ UNCHANGED <<settings, database, taskLock, ready, worker, reached, mixed>>

\* After the commit the task stays: pika raises or the process ends before the
\* message is out, or after the broker has it but before the connection is closed.
BreakAfterCommit(t) ==
    /\ request[t] = "unpublished"
    /\ request' = [request EXCEPT ![t] = "broken"]
    /\ \/ UNCHANGED <<ready, reached>>
       \/ ready' = ready \cup {t} /\ reached' = reached \cup {t}
    /\ UNCHANGED <<settings, database, locks, worker, mixed>>

\* basic_publish without publisher confirms: it returns although the broker
\* never stores the message, and the client is told that all is well.
LosePublication(t) ==
    /\ request[t] = "unpublished"
    /\ request' = [request EXCEPT ![t] = "answered"]
    /\ UNCHANGED <<settings, database, locks, ready, worker, reached, mixed>>

ApiFault(t) ==
    /\ apiFaults < MaxApiFaults
    /\ apiFaults' = apiFaults + 1
    /\ UNCHANGED <<transfers, workerFaults, connLosses>>
    /\ BreakBeforeCommit(t) \/ BreakAfterCommit(t) \/ LosePublication(t)

\* A top-up or an administrator's spend: module Ledger has why it is one step.
Transfer(u, a) ==
    /\ transfers < MaxTransfers
    /\ transfers' = transfers + 1
    /\ walletLock[u] = Nobody
    /\ \/ /\ wallet' = [wallet EXCEPT ![u] = @ + a]
          /\ credited' = [credited EXCEPT ![u] = @ + a]
          /\ UNCHANGED <<debited, mixed>>
       \/ /\ u \in MayOwe \/ wallet[u] >= a
          /\ wallet' = [wallet EXCEPT ![u] = @ - a]
          /\ debited' = [debited EXCEPT ![u] = @ + a]
          /\ mixed' = IF Pending(u) # {} THEN mixed \cup {u} ELSE mixed
          /\ UNCHANGED credited
    /\ UNCHANGED <<settings, debits, status, history, locks, request, ready, worker,
                   reached, apiFaults, workerFaults, connLosses>>

----------------------------------------------------------------------------
(* The worker process: _on_message and _complete_in_session                *)

\* Mutation of Deliver: auto_ack, so the broker forgets the message.
DeliverAcked(w, t) ==
    /\ ~Busy(w)
    /\ t \in ready
    /\ ready' = ready \ {t}
    /\ worker' = [worker EXCEPT ![w] =
          [phase |-> "received", task |-> t, linked |-> FALSE, count |-> 0]]
    /\ UNCHANGED <<settings, database, locks, request, reached, mixed, bounds>>

\* The broker delivers a message to a worker that has none unacknowledged
\* (prefetch 1).
Deliver(w, t) ==
    /\ ~Busy(w)
    /\ t \in ready
    /\ ready' = ready \ {t}
    /\ worker' = [worker EXCEPT ![w] =
          [phase |-> "received", task |-> t, linked |-> TRUE, count |-> 0]]
    /\ UNCHANGED <<settings, database, locks, request, reached, mixed, bounds>>

\* Mutation of ReadTask: the status of the row is not looked at.
ReadTaskUnchecked(w) ==
    /\ worker[w].phase = "received"
    /\ worker' = [worker EXCEPT ![w].phase = "running"]
    /\ UNCHANGED <<settings, database, locks, request, ready, reached, mixed, bounds>>

\* The task's row is read without a lock.  A task that is not there or is
\* already done makes the worker acknowledge and write nothing.
ReadTask(w) ==
    /\ worker[w].phase = "received"
    /\ worker' = [worker EXCEPT ![w].phase =
          IF status[worker[w].task] = "PENDING" THEN "running" ELSE "acking"]
    /\ UNCHANGED <<settings, database, locks, request, ready, reached, mixed,
                   bounds>>

\* Mutation of CompleteTask: it commits on its own.
CompleteAndCommit(w) ==
    /\ worker[w].phase = "running"
    /\ taskLock[worker[w].task] = Nobody
    /\ status' = [status EXCEPT ![worker[w].task] = "COMPLETED"]
    /\ worker' = [worker EXCEPT ![w].phase = "completed"]
    /\ UNCHANGED <<settings, accounts, debits, history, locks, request, ready, reached,
                   mixed, bounds>>

\* After the inference complete_task updates the row, whatever its status is
\* by now; the update waits for another transaction that has the row.
CompleteTask(w) ==
    /\ worker[w].phase = "running"
    /\ taskLock[worker[w].task] = Nobody
    /\ taskLock' = [taskLock EXCEPT ![worker[w].task] = w]
    /\ worker' = [worker EXCEPT ![w].phase = "completed"]
    /\ UNCHANGED <<settings, database, walletLock, request, ready, reached, mixed,
                   bounds>>

\* Mutation of SpendTokens: the wallet is read without a lock.
SpendUnlocked(w) ==
    /\ worker[w].phase = "completed"
    /\ worker' = [worker EXCEPT ![w].phase = "charged",
                                ![w].count = wallet[Owner[worker[w].task]]]
    /\ UNCHANGED <<settings, database, locks, request, ready, reached, mixed, bounds>>

\* spend_tokens locks and reads the wallet, and the history row is updated.
SpendTokens(w) ==
    /\ worker[w].phase = "completed"
    /\ LET t == worker[w].task IN
       IF Charge[t] > 0
       THEN /\ walletLock[Owner[t]] = Nobody
            /\ walletLock' = [walletLock EXCEPT ![Owner[t]] = w]
            /\ worker' = [worker EXCEPT ![w].phase = "charged",
                                        ![w].count = wallet[Owner[t]]]
       ELSE /\ worker' = [worker EXCEPT ![w].phase = "charged"]
            /\ UNCHANGED walletLock
    /\ UNCHANGED <<settings, database, taskLock, request, ready, reached, mixed,
                   bounds>>

\* db.commit(): the completed task, the debit and the history row together.
CommitTask(w) ==
    /\ worker[w].phase = "charged"
    /\ LET t == worker[w].task IN
       /\ status' = [status EXCEPT ![t] = "COMPLETED"]
       /\ history' = [history EXCEPT ![t] = "charged"]
       /\ WriteCharge(t, worker[w].count)
    /\ worker' = [worker EXCEPT ![w].phase = "acking"]
    /\ walletLock' = WalletsWithout(w)
    /\ taskLock' = TasksWithout(w)
    /\ UNCHANGED <<settings, request, ready, reached, mixed, bounds>>

\* Mutation of Answer: basic_nack with requeue=False.
AnswerNoRequeue(w) ==
    /\ worker[w].phase \in {"acking", "nacking"}
    /\ worker' = [worker EXCEPT ![w] = IdleWorker]
    /\ UNCHANGED <<settings, database, locks, request, ready, reached, mixed, bounds>>

\* basic_ack or basic_nack.  On a connection the broker has given up it raises,
\* the process ends and is started again.
Answer(w) ==
    /\ worker[w].phase \in {"acking", "nacking"}
    /\ worker' = [worker EXCEPT ![w] = IdleWorker]
    /\ ready' = IF worker[w].phase = "nacking" /\ worker[w].linked
                THEN ready \cup {worker[w].task}
                ELSE ready
    /\ UNCHANGED <<settings, database, locks, request, reached, mixed, bounds>>

\* An error in the session rolls it back; the failure policy then returns the
\* message to the queue or, where errors are skipped, may drop it.
Fail(w) ==
    /\ worker[w].phase \in {"received", "running", "completed", "charged"}
    /\ \E answer \in IF settings.skipErrors THEN {"acking", "nacking"} ELSE {"nacking"} :
          worker' = [worker EXCEPT ![w].phase = answer]
    /\ walletLock' = WalletsWithout(w)
    /\ taskLock' = TasksWithout(w)
    /\ UNCHANGED <<settings, database, request, ready, reached, mixed>>

\* The process ends and is started again; the database rolls back and the
\* broker takes the unacknowledged message back.
Crash(w) ==
    /\ Busy(w)
    /\ worker' = [worker EXCEPT ![w] = IdleWorker]
    /\ ready' = IF worker[w].linked THEN ready \cup {worker[w].task} ELSE ready
    /\ walletLock' = WalletsWithout(w)
    /\ taskLock' = TasksWithout(w)
    /\ UNCHANGED <<settings, database, request, reached, mixed>>

WorkerFault(w) ==
    /\ workerFaults < MaxWorkerFaults
    /\ workerFaults' = workerFaults + 1
    /\ UNCHANGED <<transfers, apiFaults, connLosses>>
    /\ Fail(w) \/ Crash(w)

\* The broker gives up the connection of a worker that is busy in its callback
\* and does not answer heartbeats, and takes the message back; the worker does
\* not notice before it answers.
LoseConnection(w) ==
    /\ connLosses < MaxConnLosses
    /\ Busy(w) /\ worker[w].linked
    /\ connLosses' = connLosses + 1
    /\ worker' = [worker EXCEPT ![w].linked = FALSE]
    /\ ready' = ready \cup {worker[w].task}
    /\ UNCHANGED <<settings, database, locks, request, reached, mixed, transfers,
                   apiFaults, workerFaults>>

----------------------------------------------------------------------------
RequestStep(t) ==
    \/ Begin(t)
    \/ CheckBalance(t)
    \/ Refuse(t)
    \/ CommitPending(t)
    \/ Publish(t)
    \/ CompleteInline(t)

WorkerStep(w) ==
    \/ \E t \in Tasks : Deliver(w, t)
    \/ ReadTask(w)
    \/ CompleteTask(w)
    \/ SpendTokens(w)
    \/ CommitTask(w)
    \/ Answer(w)

\* Every request is over and every worker waits for a message.
Quiet ==
    /\ \A t \in Tasks : request[t] \in {"answered", "refused", "broken"}
    /\ \A w \in Workers : ~Busy(w)
    /\ ready = {}
    /\ UNCHANGED vars

Next ==
    \/ \E t \in Tasks : RequestStep(t) \/ ApiFault(t)
    \/ \E w \in Workers : WorkerStep(w) \/ WorkerFault(w) \/ LoseConnection(w)
    \/ \E u \in Users, a \in Transfers : Transfer(u, a)
    \/ Quiet

Spec == Init /\ [][Next]_vars

(***************************************************************************)
(* A request that has begun and a worker with something to do get their    *)
(* turn; strong fairness because a row lock, and a message two idle        *)
(* workers could take, are available again and again rather than always.   *)
(* Nothing makes a client send a request: Begin is not fair on its own.    *)
(***************************************************************************)
Fairness ==
    /\ \A t \in Tasks : SF_vars(request[t] # "new" /\ RequestStep(t))
    /\ \A w \in Workers : SF_vars(WorkerStep(w))

FairSpec == Spec /\ Fairness

----------------------------------------------------------------------------
(* Properties                                                              *)

\* Every variable has its type.
TypeOK ==
    /\ settings \in Deployments
    /\ \A f \in {wallet, credited, debited} : f \in [Users -> Int]
    /\ debits \in [Tasks -> Nat]
    /\ status \in [Tasks -> {"absent", "PENDING", "COMPLETED"}]
    /\ history \in [Tasks -> {"absent", "PENDING", "charged"}]
    /\ walletLock \in [Users -> Tasks \cup Workers \cup {Nobody}]
    /\ taskLock \in [Tasks -> Workers \cup {Nobody}]
    /\ request \in [Tasks -> RequestPhases]
    /\ ready \subseteq Tasks /\ reached \subseteq Tasks /\ mixed \subseteq Users
    /\ worker \in [Workers -> Deliveries \cup {IdleWorker}]
    /\ \A n \in {transfers, apiFaults, workerFaults, connLosses} : n \in Nat

\* A task is charged once if it is completed and not at all otherwise, through
\* crashes, errors and redeliveries: "повторно писать не нужно" of a duplicate
\* delivery, and the promise that only a successful request is paid for.
ChargedExactlyOnce ==
    \A t \in Tasks :
        debits[t] = IF status[t] = "COMPLETED" /\ Charge[t] > 0 THEN 1 ELSE 0

\* The history row of a task, the task itself and its debit are written in the
\* same transactions, so no failure leaves one without the other.
HistoryFollowsTask ==
    \A t \in Tasks :
        /\ status[t] = "absent" <=> history[t] = "absent"
        /\ status[t] = "COMPLETED" <=> history[t] = "charged"
        /\ debits[t] > 0 => status[t] = "COMPLETED"

\* A message in the queue or in a worker belongs to a task that is committed:
\* what the commit before the publication is for.
NoOrphanMessage ==
    \A t \in Tasks :
        t \in ready \/ (\E w \in Workers : Busy(w) /\ worker[w].task = t) =>
            status[t] # "absent"

\* A pending task whose message reached the broker still has it, waiting in the
\* queue or held by a connected worker that will not drop it.
PendingHasMessage ==
    \A t \in reached : ~settings.skipErrors /\ status[t] = "PENDING" =>
        \/ t \in ready
        \/ \E w \in Workers :
              /\ Busy(w) /\ worker[w].task = t
              /\ worker[w].linked /\ worker[w].phase # "acking"

\* A request that is refused or breaks before its commit leaves nothing behind.
RefusedLeavesNothing ==
    \A t \in Tasks : request[t] = "refused" =>
        /\ status[t] = "absent" /\ debits[t] = 0
        /\ \A u \in Users : walletLock[u] # t

\* The forced debits of the workers overdraw only a user who may owe, or one
\* who used the balance otherwise while a task was pending: a user with one
\* task at a time is held to the balance the request was checked against.
OverdraftNeedsOverlap ==
    \A u \in Users : wallet[u] < 0 => u \in MayOwe \cup mixed

\* A user who may not owe is never charged for more than the balance.
NoOverdraft == \A u \in Users : wallet[u] < 0 => u \in MayOwe

\* A request writes nothing before it commits, and what it then wrote stays; a
\* task waits as PENDING only where a broker is to bring it to a worker.
RowsFollowRequests ==
    \A t \in Tasks :
        /\ request[t] \in {"new", "begun", "inserted", "refused"} =>
              status[t] = "absent" /\ debits[t] = 0
        /\ request[t] \in {"unpublished", "answered", "broken"} => status[t] # "absent"
        /\ status[t] = "PENDING" => settings.broker

\* No message is anywhere before its request has got as far as publishing it.
MessagesFollowRequests ==
    \A t \in Tasks :
        t \in ready \/ t \in reached \/ (\E w \in Workers : Busy(w) /\ worker[w].task = t) =>
            request[t] \in {"answered", "broken"}

\* Who holds a wallet: the requests between check and commit, and the workers
\* between debit and commit, whose balance is the committed one.
WalletsAreHeld ==
    /\ \A t \in Tasks : request[t] = "inserted" => walletLock[Owner[t]] = t
    /\ \A u \in Users, t \in Tasks :
          walletLock[u] = t => u = Owner[t] /\ request[t] = "inserted"
    /\ \A w \in Workers :
          worker[w].phase = "charged" /\ Charge[worker[w].task] > 0 =>
              /\ walletLock[Owner[worker[w].task]] = w
              /\ worker[w].count = wallet[Owner[worker[w].task]]

\* The invariant of the component, whatever is lost.
IInv ==
    /\ TypeOK
    /\ RowsFollowRequests
    /\ MessagesFollowRequests
    /\ WalletsAreHeld
    /\ HistoryFollowsTask
    /\ PendingHasMessage

\* Until a connection is lost: a message is in one place, its worker is on its own
\* with the task, and the task is charged once.
OneHolder ==
    /\ \A w \in Workers : Busy(w) =>
          /\ worker[w].linked
          /\ worker[w].task \notin ready
          /\ worker[w].phase \in {"running", "completed", "charged"} =>
                status[worker[w].task] = "PENDING"
    /\ \A v, w \in Workers : Busy(v) /\ Busy(w) /\ worker[v].task = worker[w].task =>
          v = w

\* Until a connection is lost: the wallet of a user with one task at a time covers
\* the task that was checked against it.
PendingIsCovered ==
    /\ \A t \in Tasks : request[t] = "inserted" => Covered(t)
    /\ \A u \in Users \ (MayOwe \cup mixed) :
          /\ wallet[u] >= 0
          /\ \A t \in Pending(u) : wallet[u] >= Charge[t] /\ Pending(u) = {t}

\* Whatever is lost: the broker has one message of a task, which is in the queue or
\* with one worker whose connection it has not given up.
OneMessage ==
    \A w \in Workers : Busy(w) /\ worker[w].linked =>
        /\ worker[w].task \notin ready
        /\ \A v \in Workers :
              Busy(v) /\ worker[v].linked /\ worker[v].task = worker[w].task => v = w

\* Workers that may yet charge a task whose message the broker has taken back.
Stale(t) ==
    {w \in Workers :
        /\ worker[w].phase \in {"received", "running", "completed", "charged"}
        /\ worker[w].task = t /\ ~worker[w].linked}

\* The task may yet be charged by a worker that has the message.
Due(t) ==
    \/ status[t] # "COMPLETED"
    \/ \E w \in Workers :
          /\ worker[w].phase \in {"running", "completed", "charged"}
          /\ worker[w].task = t /\ worker[w].linked

\* The charges that a task has had and may yet have are one and one for every
\* connection lost.
LossesCoverCharges ==
    \A t \in Tasks :
        /\ IsFiniteSet(Stale(t))
        /\ debits[t] + Cardinality(Stale(t)) + (IF Due(t) THEN 1 ELSE 0) <= 1 + connLosses

\* A task is charged again only where a connection was lost, once for each: crashes,
\* errors and redeliveries never repeat a charge, however often they happen.
RepeatsNeedLosses == \A t \in Tasks : debits[t] <= 1 + connLosses

\* What a lost connection puts at risk.
ConnectedInv == OneHolder /\ ChargedExactlyOnce /\ PendingIsCovered

\* The inductive invariant.
FullInv ==
    /\ IInv
    /\ OneMessage
    /\ LossesCoverCharges
    /\ connLosses <= MaxConnLosses
    /\ connLosses = 0 => ConnectedInv

\* Money: every step is a step of the abstract account.
Account == INSTANCE Ledger
    WITH Accounts <- Users, balance <- wallet,
         Amounts <- Transfers \cup {Charge[t] : t \in Tasks}
ImplementsLedger == Account!LedgerSpec

\* Tasks: every step is a step of the abstract life cycle.
Lifecycle == INSTANCE TaskLifecycle
    WITH Works <- Tasks, Price <- Charge, stage <- status, paid <- debits
ImplementsLifecycle == Lifecycle!LifecycleSpec

\* A task whose message reached the broker is completed in the end, through a
\* bounded number of crashes, errors and lost connections.
ReachedIsCompleted ==
    \A t \in Tasks : t \in reached /\ ~settings.skipErrors ~> status[t] = "COMPLETED"

\* Every request that has begun gets an answer: nobody waits for ever for a lock.
RequestsEnd ==
    \A t \in Tasks : request[t] = "begun" ~>
        request[t] \in {"answered", "refused", "broken"}
=============================================================================
