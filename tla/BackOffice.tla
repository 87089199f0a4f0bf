----------------------------- MODULE BackOffice -----------------------------
(***************************************************************************)
(* What maintainers and administrators do to one database: migrations, the *)
(* seed script, profile edits, statistics and the benchmark, beside the    *)
(* transfers of the API and the workers.                                   *)
(***************************************************************************)
EXTENDS Administration, Benchmark

vars == <<database, client>>

Init == DatabaseInit /\ BenchmarkInit

Server ==
    \/ \E to \in Revisions : Migrate(to)
    \/ \E t \in Threads :
          \/ StartSeed(t) \/ StartStats(t)
          \/ \E l \in Logins, r \in Requests : StartEdit(t, l, r)
          \/ SeedStep(t) \/ AdministrationStep(t) \/ Abort(t)
    \/ \E l \in Logins : Register(l) \/ TopUp(l)
    \/ \E j \in Tasks : Complete(j)

Next == (Server /\ UNCHANGED client) \/ BenchmarkStep

Spec == Init /\ [][Next]_vars

\* The benchmark runs until it ends, and time passes.  Nothing
\* is asked of the workers: a task whose message is lost stays pending.
Fairness ==
    /\ WF_vars(LogIn \/ ChooseModel \/ Post \/ CheckDeadline \/ Get)
    /\ WF_vars(Expire)

FairSpec == Spec /\ Fairness

----------------------------------------------------------------------------
(* Properties                                                              *)

\* Every wallet is the sum of its journal, however scripts, transfers and
\* workers cross, and a debit that names a task names one that is there,
\* completed, although no foreign key asks for it.
BooksBalance ==
    /\ \A l \in Logins : wallet[l] = Sum(l, "credit") - Sum(l, "debit")
    /\ \A j \in Tasks : Journalled(<<"task", j>>) => task[j] = "completed"

\* What the upgrades make of an empty database
Fresh ==
    [to \in Revisions |->
        FoldLeft(Execute, [ok |-> TRUE, tables |-> {}, models |-> {}],
                 FlattenSeq([i \in 1 .. to |-> Upgrades[i]]))]

\* Whatever ups and downs and whatever data a database has behind it, alembic takes
\* it from its revision to any other, and what comes out has the tables and models
\* of a new database there.  Only a downgrade that comes by revision 2 never gets
\* past the DELETE of the models, which is all that 3a29b2f97391 takes back.
MigrationsEndAsNew ==
    (\A t \in Threads : session[t] = NoSession) =>
        \A to \in Revisions :
            LET end == Outcome(to)
            IN  IF revision >= 2 /\ to < 2 THEN ~end.ok
                ELSE end.ok /\ end = Fresh[to]

\* An edit changes what its client did not name only if another edit of the user
\* was committed between its two reads: then it writes the old value back.
WriteBackNeedsWindow ==
    [][\A l \in Logins, f \in Fields :
          /\ account[l] # NoAccount /\ account'[l] # NoAccount
          /\ account'[l][f] # account[l][f]
          => \E t \in Threads :
                /\ Editing(t, "flushing") /\ session[t].login = l
                /\ f \in session[t].named \/ session[t].raced]_vars

\* A seed script adds the users that are missing. Of one that is there it changes
\* neither account nor wallet nor journal, whatever was committed since the script
\* looked, although it reads the administrator's wallet without a lock: run
\* again, it writes nothing.
SeedsOnlyAdd ==
    [][\A t \in Threads, l \in Logins :
          CommitSeed(t) /\ account[l] # NoAccount =>
              /\ account'[l] = account[l] /\ wallet'[l] = wallet[l]
              /\ {e \in journal' : e.login = l} = {e \in journal : e.login = l}]_vars

\* The statistics may count a task twice, once pending and once completed, but
\* their parts never fall short of their total.
StatisticsCoverTasks ==
    \A t \in Threads :
        session[t].kind = "stats" /\ Len(session[t].counts) = 3 =>
            LET n == session[t].counts IN n[2] + n[3] >= n[1]

\* A row of the report says "completed" of a task that is, and "timeout" only
\* after the deadline or an answer that came too late.
RowsAreTrue ==
    \A i \in DOMAIN bench.rows :
        \/ bench.rows[i] = "completed" /\ task[i] = "completed"
        \/ bench.rows[i] = "timeout" /\ (overdue \/ bench.slow)

\* The script ends, even if a task is never completed.
ScriptEnds == <>(bench.phase = "ended")
=============================================================================
