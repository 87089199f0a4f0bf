------------------------------ MODULE Benchmark ------------------------------
(***************************************************************************)
(* scripts/benchmark_dialogs_predict.py, a client of the API: it logs in   *)
(* with the seeded account, posts all its tasks, then polls one after the  *)
(* other under one deadline and prints a row for each.  An HTTP error in   *)
(* either phase ends it with a traceback, whatever it has created.         *)
(***************************************************************************)
EXTENDS DemoDatabase

VARIABLES
    bench,      \* the script
    overdue     \* the deadline of the second phase has passed

client == <<bench, overdue>>

Dialogs == Cardinality(Tasks)

\* _dialogs() is a list with members, and its tasks are numbered in its order.
ASSUME DialogsAssumption == Dialogs > 0 /\ Tasks = 1 .. Dialogs

Phases == {"login", "model", "posting", "waiting", "getting", "ended"}

BenchmarkInit ==
    /\ bench = [phase |-> "login", at |-> 1, rows |-> <<>>, slow |-> FALSE]
    /\ overdue = FALSE

Goto(phase) == bench' = [bench EXCEPT !.phase = phase]

\* Each request is one step, and finds the tables and its user or fails.
Served == Stored \subseteq tables /\ account["user"] # NoAccount

\* A stranger who has the login has another password.
LogIn ==
    /\ bench.phase = "login"
    /\ Goto(IF Served /\ account["user"].by = "seed" THEN "model" ELSE "ended")
    /\ UNCHANGED <<database, overdue>>

ChooseModel ==
    /\ bench.phase = "model"
    /\ Goto(IF Served /\ models # {} THEN "posting" ELSE "ended")
    /\ UNCHANGED <<database, overdue>>

\* The end of the first phase and the beginning of the second
AfterPost ==
    bench' = IF bench.at = Dialogs
             THEN [bench EXCEPT !.phase = "waiting", !.at = 1]
             ELSE [bench EXCEPT !.at = @ + 1]

Accepts(j) ==
    Served /\ models # {} /\ (wallet["user"] >= Price[j] \/ account["user"].allow)

\* POST /predict: the task is created, with or without an answer, or it is not.
Post ==
    /\ bench.phase = "posting"
    /\ LET j == bench.at IN
       \/ /\ Accepts(j)
          /\ task' = [task EXCEPT ![j] = "pending"]
          /\ AfterPost \/ Goto("ended")
       \/ Goto("ended") /\ UNCHANGED task
    /\ UNCHANGED <<schema, account, wallet, journal, session, sessions, transfers, overdue>>

\* A row, and the next task
Report(status) ==
    bench' = [bench EXCEPT
        !.rows = Append(@, status), !.at = @ + 1,
        !.phase = IF bench.at = Dialogs THEN "ended" ELSE "waiting"]

\* The clock
Expire ==
    /\ bench.phase \in {"waiting", "getting"}
    /\ ~overdue
    /\ overdue' = TRUE
    /\ UNCHANGED <<database, bench>>

\* The deadline is looked at before each poll, of this task or of the next.
CheckDeadline ==
    /\ bench.phase = "waiting"
    /\ IF overdue THEN Report("timeout") ELSE Goto("getting")
    /\ UNCHANGED <<database, overdue>>

\* Mutation of Get: the script keeps polling a task once it has begun.
GetUntilCompleted ==
    /\ bench.phase = "getting"
    /\ task[bench.at] = "completed"
    /\ Report("completed")
    /\ UNCHANGED <<database, overdue>>

\* Mutation of Get: what is not pending any more is what the first row says.
GetFirst ==
    /\ bench.phase = "getting"
    /\ IF task[1] = "completed" THEN Report("completed") ELSE Goto("waiting")
    /\ UNCHANGED <<database, overdue>>

\* GET /predict/{task_id}: the task, an error, or an answer so slow that the
\* TimeoutError of the connection passes for the deadline's.
Get ==
    /\ bench.phase = "getting"
    /\ \/ Served /\ IF task[bench.at] = "completed"
                    THEN Report("completed") ELSE Goto("waiting")
       \/ Goto("ended")
       \/ bench' = [bench EXCEPT
             !.rows = Append(@, "timeout"), !.at = @ + 1, !.slow = TRUE,
             !.phase = IF bench.at = Dialogs THEN "ended" ELSE "waiting"]
    /\ UNCHANGED <<database, overdue>>

BenchmarkStep ==
    \/ LogIn
    \/ ChooseModel
    \/ Post
    \/ CheckDeadline
    \/ Get
    \/ Expire
=============================================================================
