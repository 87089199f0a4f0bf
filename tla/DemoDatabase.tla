---------------------------- MODULE DemoDatabase ----------------------------
(***************************************************************************)
(* The database as its maintainers handle it: the migrations of alembic,   *)
(* each run one PostgreSQL transaction, and scripts/seed_demo_data.py,     *)
(* several of which may run at once, beside the API's registrations and    *)
(* transfers and the workers' forced debits, whose inside is modelled in   *)
(* UserAccounts, BillingTransactions and PredictionPipeline.               *)
(*                                                                         *)
(* Variables hold what is committed.  A thread that has a transaction open *)
(* keeps what it has read and flushed in its session.                      *)
(***************************************************************************)
EXTENDS Integers, SequencesExt, FiniteSetsExt

CONSTANTS
    Threads,        \* scripts and threads of the API
    Tasks,          \* ids of prediction tasks, in the order of their creation
    Price,          \* what a task costs
    UserTopup, AdminTopup, AdminDebit,      \* 1000, 10000 and 100
    MaxSessions,    \* bound: transactions opened by threads
    MaxTransfers,   \* bound: top-ups
    MaxMigrations   \* bound: migrations

ASSUME DatabaseAssumption ==
    /\ Tasks \subseteq Nat /\ IsFiniteSet(Tasks)
    /\ Price \in [Tasks -> Nat \ {0}]
    /\ UserTopup \in Nat /\ AdminTopup \in Nat /\ AdminDebit \in 0 .. AdminTopup
    /\ MaxSessions \in Nat /\ MaxTransfers \in Nat /\ MaxMigrations \in Nat

VARIABLES
    revision,       \* alembic_version: 0 is the empty database, 3 the head
    tables,
    models,         \* rows of ml_models
    account,        \* the users of the two demo logins, with their identities
    wallet,         \* user_balances
    journal,        \* balance_ledger_entries
    task,           \* ml_prediction_tasks.status, "none" without a row
    session,        \* the transaction of each thread
    sessions, transfers, migrations

rows == <<account, wallet, journal, task>>
schema == <<revision, tables, models, migrations>>
database == <<schema, rows, session, sessions, transfers>>

Logins == {"user", "admin"}     \* DEMO_USER_LOGIN, DEMO_ADMIN_LOGIN
Revisions == 0 .. 3
NoAccount == [by |-> "nobody"]
NoSession == [kind |-> "none"]

Entry(id, login, kind, amount) ==
    [id |-> id, login |-> login, kind |-> kind, amount |-> amount]
Sum(login, kind) ==
    MapThenSumSet(LAMBDA e : e.amount,
                  {e \in journal : e.login = login /\ e.kind = kind})

----------------------------------------------------------------------------
(* Migrations                                                              *)

Stored == {"ml_models", "users", "balance_ledger_entries", "ml_prediction_tasks",
           "user_balances", "user_identities", "history_records", "feedback"}

\* The foreign keys
References ==
    [t \in Stored \cup {"password_reset_attempts", "password_reset_tokens"} |->
        CASE t \in {"ml_models", "users", "password_reset_attempts"} -> {}
          [] t = "ml_prediction_tasks" -> {"ml_models", "users"}
          [] t = "history_records" -> {"ml_models", "ml_prediction_tasks", "users"}
          [] t = "feedback" -> {"history_records", "users"}
          [] OTHER -> {"users"}]

Models == {"toxic-baseline", "toxic-lite"}     \* MODEL_ROWS

Create(t) == [do |-> "create", table |-> t]
Drop(t) == [do |-> "drop", table |-> t]
Insert == [do |-> "insert", table |-> "ml_models"]
Delete == [do |-> "delete", table |-> "ml_models"]

CreateSchema ==
    <<Create("ml_models"), Create("users"), Create("balance_ledger_entries"),
      Create("ml_prediction_tasks"), Create("user_balances"),
      Create("user_identities"), Create("history_records"), Create("feedback")>>

\* Mutation of DropSchema: in the order of creation.
DropForwards ==
    <<Drop("ml_models"), Drop("users"), Drop("balance_ledger_entries"),
      Drop("ml_prediction_tasks"), Drop("user_balances"),
      Drop("user_identities"), Drop("history_records"), Drop("feedback")>>

DropSchema ==
    <<Drop("feedback"), Drop("history_records"), Drop("user_identities"),
      Drop("user_balances"), Drop("ml_prediction_tasks"),
      Drop("balance_ledger_entries"), Drop("users"), Drop("ml_models")>>

SeedModels == <<Insert>>
DeleteModels == <<Delete>>
AddResetTables ==
    <<Create("password_reset_attempts"), Create("password_reset_tokens")>>
DropResetTables ==
    <<Drop("password_reset_tokens"), Drop("password_reset_attempts")>>

Upgrades == <<CreateSchema, SeedModels, AddResetTables>>
Downgrades == <<DropSchema, DeleteModels, DropResetTables>>

\* alembic upgrade and downgrade: the scripts between two revisions
PlanTo(to) ==
    IF to >= revision
    THEN FlattenSeq([i \in 1 .. to - revision |-> Upgrades[revision + i]])
    ELSE FlattenSeq([i \in 1 .. revision - to |-> Downgrades[revision + 1 - i]])

\* PostgreSQL refuses a table that refers to a missing one, to drop a table that
\* another refers to, and, whatever rows there are, the DELETE of the models: it
\* compares their ids, a uuid column, with what str() makes of them, and the driver
\* (psycopg) sends this as VARCHAR, with which PostgreSQL compares no uuid.
Possible(db, st) ==
    \/ st.do = "create" /\ st.table \notin db.tables /\ References[st.table] \subseteq db.tables
    \/ /\ st.do = "drop" /\ st.table \in db.tables
       /\ \A t \in db.tables : st.table \notin References[t]
    \/ st.do = "insert" /\ db.models = {}

Execute(db, st) ==
    IF ~db.ok \/ ~Possible(db, st) THEN [db EXCEPT !.ok = FALSE]
    ELSE [ok     |-> TRUE,
          tables |-> CASE st.do = "create" -> db.tables \cup {st.table}
                       [] st.do = "drop"   -> db.tables \ {st.table}
                       [] OTHER            -> db.tables,
          models |-> IF st.do = "insert" THEN Models ELSE db.models]

Outcome(to) ==
    FoldLeft(Execute, [ok |-> TRUE, tables |-> tables, models |-> models], PlanTo(to))

\* One transaction for all scripts, on tables that nobody else has locked; when
\* a statement fails, nothing of it remains.
Migrate(to) ==
    /\ migrations < MaxMigrations
    /\ \A t \in Threads : session[t] = NoSession
    /\ to # revision
    /\ LET end == Outcome(to)
           kept(t, f, gone) == IF t \in end.tables THEN f ELSE gone
       IN
       /\ end.ok
       /\ revision' = to /\ tables' = end.tables /\ models' = end.models
       /\ account' = kept("users", account, [l \in Logins |-> NoAccount])
       /\ wallet' = kept("user_balances", wallet, [l \in Logins |-> 0])
       /\ journal' = kept("balance_ledger_entries", journal, {})
       /\ task' = kept("ml_prediction_tasks", task, [j \in Tasks |-> "none"])
    /\ migrations' = migrations + 1
    /\ UNCHANGED <<session, sessions, transfers>>

----------------------------------------------------------------------------
(* Sessions                                                                *)

Open(t, record) ==
    /\ session[t] = NoSession
    /\ sessions < MaxSessions
    /\ Stored \subseteq tables
    /\ sessions' = sessions + 1
    /\ session' = [session EXCEPT ![t] = record]

Close(t) == session' = [session EXCEPT ![t] = NoSession]

\* The connection is lost, a statement fails, or the process ends.
Abort(t) ==
    /\ session[t] # NoSession
    /\ Close(t)
    /\ UNCHANGED <<schema, rows, sessions, transfers>>

----------------------------------------------------------------------------
(* scripts/seed_demo_data.py                                               *)

Seeded(login) ==
    [by |-> "seed", allow |-> FALSE, name |-> "demo",
     role |-> login]
Topup(login) == IF login = "user" THEN UserTopup ELSE AdminTopup
Credit(login) == Entry(<<"credit", login>>, login, "credit", Topup(login))
Debit == Entry(<<"debit", "admin">>, "admin", "debit", AdminDebit)

Seeding(t, phase) == session[t].kind = "seed" /\ session[t].phase = phase

\* An identity with the login, whoever it belongs to
Absent(login) == IF account[login] = NoAccount THEN {login} ELSE {}

\* "balance" is what is left on the administrator's wallet after the debit.
StartSeed(t) ==
    /\ Open(t, [kind |-> "seed", phase |-> "looked", absent |-> Absent("user"),
                debits |-> FALSE, balance |-> 0])
    /\ UNCHANGED <<schema, rows, transfers>>

LookForAdmin(t) ==
    /\ Seeding(t, "looked")
    /\ session' = [session EXCEPT ![t].phase = "adding",
                                  ![t].absent = @ \cup Absent("admin")]
    /\ UNCHANGED <<schema, rows, sessions, transfers>>

\* The rows of a login that are flushed but not committed
Flushed(t, login) ==
    /\ session[t].kind = "seed" /\ session[t].phase \in {"added", "debited"}
    /\ login \in session[t].absent

\* Mutation of AddUsers: the users are committed before the debit.
AddUsersAlone(t) ==
    /\ Seeding(t, "adding")
    /\ LET new == session[t].absent IN
       /\ \A l \in new : account[l] = NoAccount
       /\ account' = [l \in Logins |-> IF l \in new THEN Seeded(l) ELSE account[l]]
       /\ wallet' = [l \in Logins |-> IF l \in new THEN Topup(l) ELSE wallet[l]]
       /\ journal' = journal \cup {Credit(l) : l \in new}
    /\ session' = [session EXCEPT ![t].phase = "added", ![t].absent = {}]
    /\ UNCHANGED <<schema, task, sessions, transfers>>

\* The flush waits for the same rows of another script; it fails when they, or
\* the login of someone who has registered, are there by now.
AddUsers(t) ==
    /\ Seeding(t, "adding")
    /\ \A o \in Threads \ {t}, l \in session[t].absent : ~Flushed(o, l)
    /\ IF \A l \in session[t].absent : account[l] = NoAccount
       THEN session' = [session EXCEPT ![t].phase = "added"]
       ELSE Close(t)
    /\ UNCHANGED <<schema, rows, sessions, transfers>>

Journalled(id) == \E e \in journal : e.id = id

\* _seed_demo_admin_debit, with its early returns.  The wallet is read without
\* a lock: it is this script's own, or a committed one.
DebitAdmin(t) ==
    /\ Seeding(t, "added")
    /\ LET own == "admin" \in session[t].absent
           balance == IF own THEN AdminTopup ELSE wallet["admin"]
           debits == /\ ~Journalled(Debit.id)
                     /\ own \/ account["admin"].by = "seed"
                     /\ balance >= AdminDebit
       IN session' = [session EXCEPT ![t].phase = "debited", ![t].debits = debits,
                                     ![t].balance = balance - AdminDebit]
    /\ UNCHANGED <<schema, rows, sessions, transfers>>

CommitSeed(t) ==
    /\ Seeding(t, "debited")
    /\ LET s == session[t]
       IN
       /\ account' = [l \in Logins |-> IF l \in s.absent THEN Seeded(l) ELSE account[l]]
       /\ wallet' = [l \in Logins |->
             IF l = "admin" /\ s.debits THEN s.balance
             ELSE IF l \in s.absent THEN Topup(l) ELSE wallet[l]]
       /\ journal' = journal \cup {Credit(l) : l \in s.absent} \cup (IF s.debits THEN {Debit} ELSE {})
    /\ Close(t)
    /\ UNCHANGED <<schema, task, sessions, transfers>>

----------------------------------------------------------------------------
(* The API and the workers                                                 *)

\* Someone registers a demo login.
Register(login) ==
    /\ Stored \subseteq tables
    /\ account[login] = NoAccount
    /\ \A t \in Threads : ~Flushed(t, login)
    /\ account' = [account EXCEPT ![login] =
          [by |-> "person", allow |-> FALSE, name |-> "own",
           role |-> "user"]]
    /\ UNCHANGED <<schema, wallet, journal, task, session, sessions, transfers>>

\* A top-up; the wallet's row is locked.
TopUp(login) ==
    /\ transfers < MaxTransfers
    /\ account[login] # NoAccount
    /\ transfers' = transfers + 1
    /\ wallet' = [wallet EXCEPT ![login] = @ + 1]
    /\ journal' = journal \cup {Entry(<<"transfer", transfers>>, login, "credit", 1)}
    /\ UNCHANGED <<schema, account, task, session, sessions>>

\* A worker completes a task of the demo user and debits its price.
Complete(j) ==
    /\ task[j] = "pending"
    /\ task' = [task EXCEPT ![j] = "completed"]
    /\ wallet' = [wallet EXCEPT !["user"] = @ - Price[j]]
    /\ journal' = journal \cup {Entry(<<"task", j>>, "user", "debit", Price[j])}
    /\ UNCHANGED <<schema, account, session, sessions, transfers>>

\* A new database, or one at the head with the demo data
DatabaseInit ==
    /\ \E new \in BOOLEAN :
        /\ revision = IF new THEN 0 ELSE 3
        /\ tables = IF new THEN {} ELSE DOMAIN References
        /\ models = IF new THEN {} ELSE Models
        /\ account = [l \in Logins |-> IF new THEN NoAccount ELSE Seeded(l)]
        /\ wallet = [l \in Logins |->
              IF new THEN 0 ELSE IF l = "user" THEN UserTopup ELSE AdminTopup - AdminDebit]
        /\ journal = IF new THEN {} ELSE {Credit(l) : l \in Logins} \cup {Debit}
    /\ task = [j \in Tasks |-> "none"]
    /\ session = [t \in Threads |-> NoSession]
    /\ sessions = 0 /\ transfers = 0 /\ migrations = 0

SeedStep(t) ==
    \/ LookForAdmin(t)
    \/ AddUsers(t)
    \/ DebitAdmin(t)
    \/ CommitSeed(t)
=============================================================================
