# A TLA+ model of SafeTalk

SafeTalk is a paid service that rates the toxicity of dialogs. A FastAPI
process takes requests, PostgreSQL keeps users, wallets, tasks and their
history, RabbitMQ carries tasks to `ml-worker` processes that run the model and
charge for it. This directory holds TLA+ modules for the parts where several
processes meet, the TLC runs that check them on small instances, and proofs for
TLAPS about them. Paths below are relative to the repository.

## 1. The system

| Component | State it keeps | Operations | Meets |
|---|---|---|---|
| billing (`app/modules/billing`) | `user_balances.token_count`, journal `balance_ledger_entries` | `add_tokens`, `spend_tokens`, `load_balance_state_for_update`, sums and lists | every request and every worker, through the row lock of the wallet |
| prediction requests (`app/modules/neural/service.py`) | `ml_prediction_tasks` | `create_prediction_task`, queries | billing (balance check), history, the queue; completes the task itself when no broker is configured |
| queue and completion (`app/modules/neural/ml_task_queue.py`) | RabbitMQ queue | `publish_ml_prediction_payload`, `complete_ml_task_from_queue_message` | called by the API and by the workers; task, billing, history in one session |
| worker (`ml-worker/main.py`) | unacknowledged delivery, failure budget | `_on_message`, `_apply_delivery_failure_policy`, connect | the broker; two processes, restarted on failure (`docker-compose.yml`) |
| history (`app/modules/history`) | `api_history` rows | insert as PENDING, update with the result | only inside the transactions of the two above |
| users (`app/modules/users`) | users, identities, verification code and attempts | register, verify, log in, edit, patch | wallet at registration; `allow_negative_balance` for billing |
| password reset | attempts, one-time tokens | request, complete | identities, access tokens |
| access tokens (`token_store.py`) | a dictionary in memory | issue, resolve, revoke | every authenticated route |
| telegram bot (`app/modules/telegram`) | none of its own | one handler per webhook update | users, billing, predictions; Telegram repeats updates that fail |
| administration (`app/modules/admin`) | none | top-up, spend, patch, statistics | billing, users |
| database schema (`alembic`) | tables, foreign keys, the rows of `ml_models` | three revisions, up and down | every table, and every open session, whose locks a migration waits for |
| scripts (`scripts`) | none | `seed_demo_data.py`, run by hand after the migrations; `benchmark_dialogs_predict.py` | users and wallets by SQL; the API as a client |
| dashboard (`dashboard/src`) | browser state | polling of a task, batches of tasks | the API |
| the rest | | feedback, health, OpenAPI filter, settings, model inference | |

Hard behaviours, by component, and what makes the component correct:

- **billing**: concurrent transactions at READ COMMITTED on one wallet row. The
  wallet equals credits minus debits of the journal; it is negative only with
  permission; what is read under the lock stays current until the commit; no
  lock outlives its transaction.
- **predictions and queue**: a balance checked in one transaction and debited in
  another; a commit followed by a publication; a message delivered twice; three
  rows that must change together. A task is charged when and only when it is
  completed; nothing is published that is not committed; nothing survives a
  refusal; a published task is completed.
- **worker**: messages that fail at every attempt, redelivered in queue order;
  a budget of failures to skip; restarts. No message disappears or doubles; a
  few bad messages do not stop the good ones.
- **users**: two commits in one registration; a look for the login and an INSERT with
  other registrations in between; rows read twice and written as a difference, so
  that updates of codes and attempts cross. A login has one user and keeps it;
  nobody has a user without a login; a verification is final; no attempt is taken
  that was not made.
- **password reset**: a limit counted by requests that run at once; links deleted by
  one request while another uses them; one-time links read and marked in two steps;
  tokens revoked in memory before the commit. The limit holds; a deleted link is
  dead and a used one stays, and only resets that meet use it again; a reset leaves no older
  token alive.
- **telegram bot**: several commits in one delivery, and a reply after the last of them
  whose error repeats it all; two first messages of one person; a text that is taken for a code
  of one of several emails. A task is repeated only with its delivery; nobody gets tasks without
  a verified email; a person's account leads to one user; every message is answered.
- **administration**: a profile that is read, read again and written as a difference; figures
  from several queries. An edit changes only what its client named, outside a
  window; a statistic leaves no task out.
- **schema and scripts**: tables whose order the foreign keys fix, in both directions;
  a seed script that is run again, perhaps twice at once, and writes wallets by
  itself; a client with one deadline for many tasks. The books balance; a migration ends with the
  schema that a new database has at its revision; the benchmark ends and reports what is so.

`PROJECT.json` lists each hazard at its source line with the properties that
would catch it.

## 2. The modules

```
      Ledger                     TaskLifecycle           abstract specifications
       ^   ^                          ^
       |   +---------------+          |                  implemented by
BillingTransactions      PredictionPipeline      WorkerDelivery
       ^        ^                ^                        ^
   MCBilling  BillingProofs   MCPipeline  PipelineProofs  MCDelivery  DeliveryProofs

StoredAmounts         UserAccounts             PasswordReset             TelegramBot
  ^       ^             ^       ^                ^       ^                ^        ^
MCAmounts AmountProofs MCAccounts AccountProofs MCReset ResetProofs MCTelegram TelegramProofs

             DemoDatabase
              ^         ^
     Administration   Benchmark
              ^         ^
              BackOffice                     composes the three above
              ^         ^
     MCBackOffice    BackOfficeProofs
```

**`Ledger`** is what billing promises: an account is a balance with the sums of
its credits and debits, and one step moves one account by one positive amount.
**`TaskLifecycle`** is what a task promises: absent, then PENDING, then COMPLETED,
and the step that completes it is the one that charges for it, once.

**`BillingTransactions`** is the billing component. A session (a thread of the
API) runs one transaction at a time:

| Action | Code |
|---|---|
| `ReadProfile` | the request arrives; `load_balance_state_for_update` calls `get_profile`, an unlocked read |
| `LockWallet` | `load_wallet_for_update`, `SELECT ... FOR UPDATE` |
| `Persist` | `Transaction.apply` succeeds; `persist_after_transaction` flushes wallet and journal row |
| `Refuse` | `Transaction.apply` raises `ValidationError` or `InsufficientBalanceError` |
| `Commit` | `session.commit()` |
| `Abort` | any other exception, or the end of the process; `get_db` or the server rolls back |
| `PatchAllowNegative` | `admin_patch_user`; it takes no lock on the wallet |

Variables hold committed data; what a transaction has flushed is in its session
record, where no other session sees it, as READ COMMITTED has it. The session
that locks the wallet reads it afresh: `ensure_wallet` has read the row before,
but nothing keeps that object, so SQLAlchemy loads a new one with the locked
row. The mutation `ReadWalletUnlocked` is what would happen otherwise, and four
properties find it.

**`PredictionPipeline`** composes the API thread of each request, the queue,
the workers and the database:

| Action | Code |
|---|---|
| `Begin`, `CheckBalance`, `Refuse` | `create_prediction_task` up to line 94 |
| `CommitPending`, `Publish` | lines 100 and 107; `publish_ml_prediction_payload` |
| `CompleteInline` | lines 122-148, when `RABBITMQ_HOST` is not set |
| `BreakBeforeCommit`, `BreakAfterCommit`, `LosePublication` | exceptions and ends of the process; a publication without confirms that gets lost |
| `Transfer` | a top-up or an administrator's spend, one step of `Ledger` |
| `Deliver` | RabbitMQ with `prefetch_count = 1` and `auto_ack = False` |
| `ReadTask` | `db.get` and the check for PENDING, without a lock |
| `CompleteTask` | the flush of `complete_task`, which locks the task's row |
| `SpendTokens` | `spend_tokens(force_allow_negative=True)` and the history update |
| `CommitTask`, `Answer` | `db.commit()`, then `basic_ack` or `basic_nack` |
| `Fail`, `Crash` | an exception and the failure policy; the end of the process |
| `LoseConnection` | the broker closes the connection of a worker that sits in its callback (inference, `time.sleep`) and answers no heartbeat |

`settings` is chosen in `Init` from `Deployments`: with or without a broker, and
with or without `ML_WORKER_SKIP_ERRORS`. In this module the queue is a set, so any
ready message may come next; the order is the subject of the next module.

**`WorkerDelivery`** is `ml-worker/main.py` by itself: the queue in publication
order (a returned message takes its old place), the failure policy with its four
branches, the budget and its restoration, the pause before a nack, restarts.
Each message is good or poison (it fails at every attempt), which stands for
everything the database work could report.

**`StoredAmounts`** is what the columns do to the amounts of billing. `TopUpRequest` and
the administrator's spend take a decimal of any precision, `Transaction.apply`
computes exactly, and `token_count` and `amount`, both `NUMERIC(24, 8)`, round what they
are given. One wallet, one transaction at a time; amounts are integers in parts (`Scale`) of the last
decimal place. Charges of predictions need no rounding: a price has eight decimals and
a length none.

**`UserAccounts`** is registration by email and its verification, by the threads of
the API. What matters is how the ORM writes a row: the request reads it once to
decide, drops the object (the identity map holds it weakly), reads it again to
change it, and at the commit updates only the columns whose value differs from this
second read (`Updated`), without looking at what is stored by then. A session that adds
rows does not flush them before its next query (`autoflush=False`), only where the
store says so.

| Action | Code |
|---|---|
| `Register` | `UserService.register`: user and wallet are flushed, in nobody else's sight |
| `FindLogin`, `RefuseLogin` | `register_email_identity` looks for the login |
| `InsertIdentity`, `InsertFails` | the flush of the identity, which waits for another INSERT of the same login by the unique constraint, and then succeeds or raises `IntegrityError` |
| `CommitIdentity` | the first commit: user, wallet, identity |
| `IssueCode` | `start_email_verification`, with the second commit |
| `Verify` | `verify_email_code` up to its decision: late, wrong or right |
| `Change` | the store reads the row again and changes the object (`Attempt`, the cleared code, `is_verified`) |
| `CommitChange` | the UPDATE and the commit |
| `Expire`, `Abort` | time; an exception or the end of the process |

The users are numbered after the request that makes them. `wrong` and `again` are history
variables: wrong codes that were answered with a count, and logins that were told to
register again.

**`PasswordReset`** is the link by email, and the bearer tokens in the memory of the API
process, within one hour (the window of the limit); each account has one email.

| Action | Code |
|---|---|
| `RecordAttempt` | `request_password_reset`: the attempt and its own commit |
| `Allow`, `Ignore` | the count of the last hour, and the look for a verified identity |
| `SeeUnused`, `DeleteUnused` | `DELETE ... WHERE used_at IS NULL`: what it sees; then, when the locks of others are gone, its condition once more on each row |
| `CommitLink` | the new link, and the commit |
| `Consume` | `try_consume_password_reset_token`: the link is read, checked, and marked in memory |
| `Revoke` | `revoke_access_tokens_for_user`, before the commit |
| `CommitReset`, `ResetFails` | the UPDATE of the link waits for a DELETE of it; `StaleDataError` if the row is gone |
| `CheckPassword`, `IssueToken` | `get_auth_token` and `issue_access_token` |
| `Expire`, `Abort`, `Restart` | time; an exception; the end of the process, which forgets every token |

**`TelegramBot`** is the webhook, handled by several threads. Telegram repeats an update until
a delivery of it returns with success.

| Action | Code |
|---|---|
| `Write`, `Deliver`, `GiveUp` | a person writes; the webhook is called, and looks for the Telegram identity (`_ensure_telegram_user`); Telegram stops waiting for the answer and delivers again |
| `RegisterUser` | `UserService.register` (a flush), and the second look in `register_telegram_identity`: found by now, the delivery goes on with a user of its own |
| `JoinChat`, `BindEmail` | the INSERT of the identity of the account, or of an email, with the commit; or `IntegrityError`, or "Login already registered" |
| `FindVerified`, `FindPending`, `FindEmail` | `_verified_email_login`, `_pending_email_login`, `get_email_identity` and the branches of `handle_telegram_update` |
| `IssueCode`, `CheckCode` | `start_email_verification`, `verify_email_code`; one step each, their inside is in `UserAccounts` |
| `RunCommand` | the commands of a verified user; `/predict` commits and publishes a task, unless it is refused |
| `Answer`, `Fail` | the replies are sent; or `send_message`, or anything before it, raises and the delivery fails, with what it has committed |

Deliveries have numbers, and what one makes (a user, a code) has its number. `failed` and
`crossed` are history variables: failed deliveries of a message, and people of whom two messages
were handled at once.

**`DemoDatabase`** is the database under its maintainers' hands. `Migrate` folds the statements
of the revisions' scripts (`Upgrades`, `Downgrades`) over tables and models as PostgreSQL would,
in one transaction (`alembic/env.py`); it waits for every session, since it locks the tables.
`StartSeed`, `LookForAdmin`, `AddUsers`, `DebitAdmin` and `CommitSeed` are the queries, the flush,
the early returns and the commit of `seed_demo_data.py`. `Register`, `TopUp` and `Complete` are what
the API and the workers do meanwhile, one step each.

**`Administration`** has an edit of a profile (`StartEdit`, the first read; `Save`, the second read, after
which the session knows the columns that differ; `CommitEdit`) and `GET /admin/stats`
(`StartStats`, `RunQuery` for each of its counts of tasks, `EndStats`).

**`Benchmark`** is `benchmark_dialogs_predict.py`: `LogIn`, `ChooseModel`, `Post` for each dialog, then for
each task `CheckDeadline` and `Get` until it is completed or `overdue`; `Expire` is the clock.
`ml_models`, the wallet and the account decide what the API answers.

**`BackOffice`** composes the three: everything happens to one database.

The modules `...Proofs` hold theorems about the module that the diagram has them by; the modules
`MC...` give the constants values for TLC. The definitions named as mutations
in comments are not used by any specification: each is a plausible slip in the
definition that follows it, and `PROJECT.json` says which property notices.

## 3. The runs

| Run | Instance | What it shows |
|---|---|---|
| `billing` | 1 user, 3 sessions, amounts -1, 0, 1, 2; 3 requests; 87,577 states | `BalanceMatchesJournal`, `OwesOnlyIfAllowed`, `ImplementsLedger`; `EveryRequestEnds` |
| `pipeline_safe` | 3 tasks, 2 users, 2 workers, 3 deployments; 434,977 states | `ChargedExactlyOnce`, `HistoryFollowsTask`, `NoOrphanMessage`, `OverdraftNeedsOverlap`, and both refinements |
| `pipeline_live` | 2 tasks of one user, 2 workers, as deployed, every kind of fault; 71,058 states | `PendingHasMessage`, `ReachedIsCompleted`, `RequestsEnd` |
| `delivery` | 2 workers, 4 messages of any mix, 4 policies; 35,531 states | `DropsWithinLimit`, `OnePlace`, `GoodGetsThrough`, `UnlimitedDrains` |
| `amounts` | quarters of the last place, 4 transactions; 537 states | `DriftWithinFractions`, `CreditsDoNotDrift` |
| `accounts` | 2 sessions, 2 logins, 2 attempts, 5 requests; 210,652 states | `UsersHaveIdentities`, `AttemptsAreGiven`, `IdentitiesKeepTheirUser`, `VerificationIsFinal`; `RequestsEnd` |
| `reset` | 2 sessions, an account and an unknown address, 3 links an hour, 5 requests; 307,572 states | `LinksWithinLimit`, `UsedLinksStay`, `DeletedLinksAreDead`, `OldTokensRevoked`, `UsesNeedOverlap`; `RequestsEnd` |
| `telegram` | 2 people, one known to the bot, 2 emails, 2 threads, 2 messages, 1 failure; 399,435 states | `TasksNeedFailures`, `StraysNeedOverlap`, `TasksNeedVerified`; `UpdatesAreAnswered` |
| `backoffice` | 2 threads, the benchmark with 2 tasks, 2 sessions, 1 top-up, 1 migration from either end; 1,610,202 states | `BooksBalance`, `MigrationsEndAsNew`, `StatisticsCoverTasks`, `RowsAreTrue`, `WriteBackNeedsWindow`; `ScriptEnds` |
| `double_charge` | 1 connection loss | violated: `ChargedExactlyOnce` |
| `overdraft` | no faults | violated: `NoOverdraft` |
| `register_again` | 1 login, 1 attempt | violated: `RegisterAgainWorks` |

The types, the inductive invariants and some consequences of them (`LockedReadIsCurrent`,
`RefusedLeavesNothing`, `RepeatsNeedLosses`, `SeedsOnlyAdd`, `LinkIsReplaced`, `CodeIsAccepted`, `StrictDropsNothing`, `OwesOnlyIfAllowed` of `StoredAmounts`) are
proved (section 4); no run repeats them.

Three disagreements between code and documentation:

1. **A redelivered task can be charged twice.** The status is read without a lock
   (`ml_task_queue.py:177`) and written after inference whatever it is by then. If the broker gives
   up the first worker's connection meanwhile, a second worker reads PENDING too;
   the second `complete_task` only waits for the first commit. The docstring of
   `MlTaskAlreadyDoneError` says a duplicate need not be written again. `pipeline_safe`
   shows that a broker connection that holds is enough for `ChargedExactlyOnce`,
   crashes, errors and redeliveries included; `RepeatsNeedLosses` is what holds with losses, one
   more charge for each at the most.
2. **Two parallel requests can overdraw a wallet** whose owner may not owe, since
   the check reserves nothing and the debit is forced. `OverdraftNeedsOverlap`
   is what does hold: the owner must have used the balance in another way while
   a task was pending.
3. **Who is told to register again is refused.** `verify_email_code` answers an expired or used-up
   code with "Please register again", but the identity stays, and
   `register_email_identity` refuses its login (`service.py:69`). The routes of
   the API know no second code.

The models also allow:

- An acknowledged task stays PENDING for ever when the process ends between commit and
  publication or the publication is lost. `ReachedIsCompleted` is what does hold: once the
  broker has the message the task is completed.
- A link by email, called one-time in the docstring of `PasswordResetTokenModel`, can set two
  passwords: `used_at` is read without a lock and the UPDATE has no condition on it.
  `UsesNeedOverlap` is what does hold: only resets that met while the link was unused, so no more
  than there are threads. The same race with a DELETE ends in `StaleDataError` (`DeletedLinksAreDead`).
- Two wrong codes at once may cost one attempt, so more than the limit can be tried.
  `AttemptsAreGiven` is the other direction, which a client relies on.
- A process that ends between the two commits of a registration leaves a login without a
  code, which `/auth/verify-email` refuses.
- Two requests for a link at once may leave two links that work: neither DELETE
  sees the link of the other.
- A log-in with the old password that is between `get_auth_token` and
  `issue_access_token` while a reset commits gets a token that survives it; and a reset
  that fails after `Revoke` has logged its user out for nothing.
- A `/predict` whose reply fails is charged again with each new delivery (`TasksNeedFailures`).
- When two first messages of a person are handled at once, one delivery may go on with a user
  that the Telegram account does not lead to. An email bound to this user is "taken" for the person
  ever after (`StraysNeedOverlap`); tasks it gets none (`TasksNeedVerified`).
- `_pending_email_login` takes the first unverified email that a query without an order
  returns, so with two of them the right code of one may cost an attempt of the other. Any text that
  is neither `/start` nor an email costs an attempt while an email is pending.
- The bot drops the code that `start_email_verification` returns: unlike `/auth/register`, which puts
  it into its answer, nothing tells it to the person.
- An edit of the name writes back a flag that an administrator has changed between its two reads
  of the profile (`WriteBackNeedsWindow`), and the other way round.
- `GET /admin/stats` may count a task as pending and as completed (`StatisticsCoverTasks`).
- A benchmark that fails while it posts leaves the tasks it has created.
- On PostgreSQL no downgrade gets past `3a29b2f97391`, tasks or not. Its `downgrade` binds `str()` of the
  ids of the models; psycopg, the driver of the deployment, has SQLAlchemy render them as `VARCHAR`, and
  PostgreSQL has no operator to compare the `uuid` column with that. The statement is refused and with it the whole
  transaction. `MigrationsEndAsNew` says so, and that every other migration gets through.

No document promises it, so it is no finding, but `amounts` shows that wallet and journal
can part: a debit of half of the last place is journalled as a whole one and
leaves the wallet as it was. `DriftWithinFractions` bounds this by one place for each
amount with more than eight decimals; without such amounts `BillingTransactions` is exact.

### Bounds, and why they are enough

- Billing: a lost update needs two sessions on one wallet; the third lets a
  lock pass on while another waits. Three requests allow a credit to fund a debit
  that races another debit. Wallets are independent, so one user suffices; two users with four
  requests (1.66 million states) were checked too and showed nothing new.
- Pipeline: two paid tasks of one user compete for the wallet and for the
  workers; the third task, of a user who may owe and with a free model,
  covers the branches that skip the debit and the check. Two workers are what a
  duplicate delivery needs (and what is deployed). Two transfers let a top-up fund a
  task and a spend compete with it. `MaxApiFaults`, `MaxWorkerFaults`, `MaxConnLosses`
  are 0 or 1: one fault at any point of any request or worker. The safe run
  has `MaxConnLosses = 0` because of disagreement 1, and names it.
- Delivery: `FewPoison` is a tight bound (with `<=` for `<`, two poison messages on two
  strict workers starve the good ones), so four messages reach both sides of it;
  five were checked once (144,000 states).

- Accounts: a lost or crossing update needs two sessions on one row, a taken login two on
  one key; the second login separates what belongs to one from what belongs to all. Five
  requests are a registration, two wrong codes that cross, a right one, and a
  registration that is refused, in any mix; `MaxAttempts = 2` has an attempt that withdraws the code and
  one that does not.
- Reset: with three links in an hour two requests can compete to delete a third one's
  link while the limit is still within reach of five requests. The unknown address
  covers the attempts that grant nothing.
- Telegram: two messages are what overlaps, repetitions and codes after emails need, with the
  first email of the known member sent before. One failure repeats a command; `TelegramProofs` has
  the bounds for any number of messages and failures.
- Back office: the cast of a race is two sessions and whoever else writes (the worker, a top-up, a
  person who registers a demo login, the benchmark). The two initial states are the empty database
  and the seeded one. With two migrations (2,440,177 states, checked once) a database goes up, down
  and up again; the run keeps to one, since `MigrationsEndAsNew` asks at every state where each
  migration would end. Amounts are small, in the order of the real ones: user's top-up above a
  task's price, administrator's above its debit.
- Amounts: quarters lie below, at and above the middle between two places; the largest
  amount that the columns hold is three places, so refusals for size occur.

### Fairness

- `BillingTransactions`: strong fairness of `LockWallet`, since PostgreSQL queues the
  waiters of a row lock and grants it in turn; weak fairness of the steps that
  need nothing from others. Requests need not arrive, nothing need abort.
- `PredictionPipeline`: strong fairness of the steps of a request that has begun
  and of a worker, for the same reason and because a message in the queue may be
  taken by the other worker. No fault is fair and no client is. The broker
  delivers what it holds.
- `UserAccounts`, `PasswordReset`: strong fairness of each session's steps; the database
  gives the waiters of a unique key or of a row their turn. Nobody need send a request,
  and `Abort`, `Restart` and the clock are not fair.
- `TelegramBot`: weak fairness of each thread, since no step waits for another, and of Telegram,
  which delivers as long as it holds something. No failure is fair, and there are finitely many.
- `BackOffice`: weak fairness of the benchmark and of its clock. Nothing is asked of the workers, so
  `ScriptEnds` covers tasks that are never completed.
- `WorkerDelivery`: strong fairness of each worker's steps. One more assumption, about
  time: a returned message comes back only after a pause of five seconds, and by
  then the broker has given every idle worker a message if it has one
  (`NothingToDeliver`). Without it (the mutation `RequeueAtOnce`) one poison message at
  the head of the queue can be handed round for ever.

## 4. What is proved

TLC checks the instances above; the theorems hold for every value of the
constants that satisfies the module's assumption (types of the constants, and
that nobody's name is taken; `BackOffice` has a second one, that the benchmark posts a dialog, as
`_dialogs()` always does, and that its tasks are numbered as `enumerate` numbers them), so for any number of users, threads, tasks, workers,
messages, requests and faults.

| Theorem | States |
|---|---|
| `BillingProofs!BalanceIsJournal` | no wallet update is lost |
| `BillingProofs!NoUnpermittedDebt` | only a user who was once allowed to has a negative balance |
| `BillingProofs!Refinement` | billing implements `Ledger` |
| `PipelineProofs!HistoryAgrees` | task, history row and debits never disagree |
| `PipelineProofs!NoOrphans`, `RefusalsLeaveNothing` | every message has its task; a refused request leaves nothing |
| `PipelineProofs!NothingLost` | no crash, error or lost connection of a worker loses a pending task's message |
| `PipelineProofs!MoneyRefinement` | the pipeline implements `Ledger`, whatever is lost |
| `PipelineProofs!ChargesAreBounded` | with any number of lost connections, a task is charged at most once and once more for each (`RepeatsNeedLosses`) |
| `PipelineProofs!ChargedOnce`, `DebtNeedsOverlap`, `TaskRefinement` | with `MaxConnLosses = 0`: charged once; overdrawn only by overlapping use; the pipeline implements `TaskLifecycle` |
| `DeliveryProofs!MessagesAreKept` | a message is in one place |
| `DeliveryProofs!DropsAreBounded`, `NothingDropped` | a worker drops no more messages in a row than the limit; without the setting there are none |
| `AccountProofs!NobodyIsLost`, `LoginsKept` | users and logins are made together, one for one; a login keeps its user |
| `AccountProofs!AttemptsCounted`, `VerifiedForGood` | no attempt is taken that was not made; nothing undoes a verification |
| `ResetProofs!LimitHolds` | no more links than the limit, however many ask at once |
| `ResetProofs!UsedStay`, `Replaced`, `DeletedStayDead` | used links stay, an account that was sent a link has one, deleted ones are dead |
| `ResetProofs!UsesOverlap` | a link sets no more passwords than there are threads, whose resets met while it was unused |
| `ResetProofs!Revoked` | a reset commits with no older token alive |
| `AmountProofs!DriftIsBounded`, `CreditsAgree` | wallet and journal part by at most one place for each amount that is too fine; credits to a wallet above zero never part them |
| `AmountProofs!NoDebtByRounding` | rounding alone overdraws no wallet |
| `TelegramProofs!TasksAreCounted`, `TasksAreVerified` | at most one task more than failed deliveries; none without a verified email of the writer's own user |
| `TelegramProofs!StraysAreExplained`, `CodesAccepted` | users astray only where messages crossed; a right code is refused only where there are two emails |
| `BackOfficeProofs!StatisticsCover` | no task is left out of the statistics, for any number of tasks and workers |
| `BackOfficeProofs!WritesBackInWindow` | an edit changes what it was not asked to only in its window |
| `BackOfficeProofs!BooksAreBalanced` | each wallet is the sum of its journal, and no debit is of a task that is not completed, through seeds, transfers, benchmark and migrations |
| `BackOfficeProofs!WhereMigrationsEnd`, `SchemaOfRevision` | every migration ends with the schema of a new database, but for downgrades past the models, which are all refused; tables and models are always those of the revision |
| `BackOfficeProofs!SeedsOnlyAddRows` | a seed script changes nothing of a user that is there when it commits |
| `BackOfficeProofs!ReportIsTrue`, `TasksGoOnwards` | the benchmark's rows are true of their tasks; no step takes a task back or forgets it |

Each of the modules but `BackOfficeProofs` also proves its `TypeOK`, and its inductive invariant
in `Inductive`. The arguments:

- **Billing.** `BalanceMatchesJournal` is not inductive: a commit writes the count that
  its session computed when it persisted, so that count must still fit the
  committed wallet. `LockedReadIsCurrent` says it does and `LocksAreHeld` why: the lock
  taken before the read is held until the commit, and only its holder commits.
- **Pipeline.** `IInv` holds whatever is lost. It needs `RowsFollowRequests` and
  `MessagesFollowRequests` (commit, then publish: a message has its task) and
  `WalletsAreHeld` (a debit is written against the balance it read). `ConnectedInv`
  adds `OneHolder`: a message has one place and its worker is the only one
  with that task, so the status it read is still the committed one when it commits,
  and the charge is the first. A lost connection breaks exactly this, as disagreement 1 shows; hence
  `FullInv` claims it while `connLosses = 0`, and three theorems ask for deployments
  in which no connection is lost. `PendingIsCovered` carries the balance check of a request
  through to its debit: until a user mixes uses of the balance, it covers the one
  pending task. With losses, `OneMessage` still holds: the broker has one message of a task,
  in the queue or with one worker that is connected. `LossesCoverCharges` is a sum: the charges a
  task has had, the workers with a lost connection that may yet charge it (`Stale`), and the one
  charge that is `Due`, are at most one more than the losses. A commit turns one of
  these into a charge, only a loss makes a new one, and a crash or an error takes some away.
- **Delivery.** `OnePlace` needs that nothing is anywhere before it is published.
  `DropsWithinLimit` compares the streak with the limit and does not mention the budget; it follows
  from `DropsSpendBudget`, an equation (what a worker has dropped is what is gone from its budget), and
  from the type of the budget, which is never negative because `MayDrop` asks first. That the broker delivers a message which is there rests on
  `MinIsMember`, from the well-foundedness of the natural numbers.
- **Accounts.** That users and logins agree needs `UsersAreFresh` (a registration
  on its way has a user that nobody else has) and `InsertsAreOwned` (who has inserted a login
  holds its key, and it has no owner yet). For the codes, `ReadsWereTrue` says what the
  row of a commit still has of the row that was read: neither a verification nor the end of a
  code has been undone, and the count only shrinks with answers. `CommittedRow` derives from it what
  the difference of an object makes of the row that is there; every other
  property of codes follows from this lemma. `LoginsStartFresh` keeps the two commits of a registration
  apart from all this: until the second, nobody can verify the login.
- **Reset.** What a request makes is named after its number, which nobody has seen before
  (`NamesAreFresh`), so a deleted link never comes back and a new token is not among those
  that a reset knew. `SeenAreDeletable` has the locks: what a DELETE has taken is unused until
  it commits. `UsesAreClaimed` counts the uses of a link together with the resets on their way
  with it: while it is unused these are at most the threads, and once it is used none comes in, so a
  commit only turns one into the other. `LimitHolds` compares two sets: the links that are granted or sent are at most
  `MaxPerHour`, and the ones that are asked for at most the attempts, because an attempt is
  committed before it is counted.
- **Amounts.** The wallet is a multiple of `Scale`, so the new balance has the remainder of the
  amount after a credit, and its complement after a debit (`AfterCredit`, `AfterDebit`); the lemmas
  on division say no more than that. A credit therefore rounds to the same neighbour in both columns,
  unless the wallet is negative and the amount in the middle between two places; a debit may part
  them by one place, and only if its amount is finer than the columns.
- **Telegram.** `Owned`: a number of a delivery names at most one user and one thread, so a user
  that no identity leads to is that of a delivery on its way, or it lost a race for the
  person's account, and then two messages were handled at once. `LookedUp` keeps what a thread has
  found about its user: owners never change and a verification is final, so a user that had a verified
  email has it when the command runs, and was that of the writer's account. `Counted` is a sum:
  tasks of a message, its delivery that waits and those that run are at most one more
  than the failed ones; `RunCommand` turns one of them into a task, a failure pays for a new one.
- **Back office.** `Seeds` and `Edits` say what a session may rely on: rows that a script has
  flushed are nobody else's, and what an edit that was not raced has read is still so.
  While a session is open no migration runs, and the tasks only go from absent to pending to
  completed (`Onwards`); so every count that statistics have made is covered by the tasks that are
  pending or completed later, whatever is completed between two queries (`Covered`).
  `Posting` says that the benchmark has no row for a task that it has still to post.
  - *The migrations.* A script is a sequence of statements, and its `Run` a trace of databases, one
    for each; whoever exhibits a sequence of databases each of which leads to the next has the
    run (`RunHasTrace`). Each of the six scripts leads from the schema of its revision to that of the
    next (`UpLeads`, `DownLeads`), or fails at the deletion of the models and stays failed (`FailureLeads`); a plan of
    several runs in its parts (`RunInParts`). `UpgradesLead` and `Outcomes` put them together for every two revisions,
    and `MInv`, that tables and models are those of the revision, follows.
  - *The books.* An id alone does not say that an entry is new: `IsEntry` says what each entry is of,
    a user that the seed made, a transfer that was counted, a task that is completed, so
    an operation that makes one of these adds an entry that is not there yet. `Booked` says what
    an entry does to the balance. The script writes the administrator's wallet from a
    value it read without a lock; `Decided` shows why nothing is lost: it debits the
    administrator only when it creates the account itself, and then nobody else has the row.
  - *Folds and sums* are recursive in the library, and so is `Run`. What they do is proved by a least
    counterexample among the natural numbers (`LeastNatural`, `SmallestSubset`): the function that
    the definition asks for exists (`FoldExists`, `AddsExists`), and a sum does not depend on the order
    (`AddsInAnyOrder`), so that one more element adds its amount (`TotalWith`).
  - *The report.* `RInv` has the position of the loop, with one row for each task before it. A row is
    written from what its step sees, and stays true: a completed task stays completed (`Onwards`),
    and neither the deadline nor the late answer is taken back (`ReportStays`).

## 5. What is only model-checked

- Liveness: `EveryRequestEnds`, `ReachedIsCompleted`, `RequestsEnd`, `GoodGetsThrough`,
  `UnlimitedDrains`, `RequestsEnd` of accounts and of reset, `UpdatesAreAnswered`, `ScriptEnds`. The prover does not reason about fairness, whose meaning
  rests on ENABLED.
- That the systems do not deadlock, except where everything is done (`Quiet`).
- The three disagreements, which are single behaviours.

## 6. What is not modelled, and why

- **PostgreSQL is taken at its word**: READ COMMITTED, row locks until the end of the
  transaction, atomic commits, constraints. SQLite, which the tests use, ignores
  `FOR UPDATE`; nothing here is about it.
- **In `PredictionPipeline`** top-ups and spends are one step (`BillingTransactions` has
  their interleavings, and implements the same `Ledger`), and `allow_negative_balance` is the
  constant `MayOwe`; a request sees the flag once and a worker ignores it. The message carries the task
  alone: what a message that differs from its task's row does is in `WorkerDelivery`.
- **The connection retry** at a worker's start is part of `Restart`; settings are constants of
  a deployment. Amounts are integers, in units of the columns' last place, outside `StoredAmounts`.
- **In `UserAccounts`** there are the identities of email alone. Names, passwords and the texts
  of the codes are left out; a guess is right or wrong.
- **In `TelegramBot`** the calls that issue and check a code, and a command with its commit, are one
  step each. A person who sends a code sends one that was issued, although the bot tells it to
  nobody: it may be guessed. An INSERT of an identity is one step with its commit, which is where
  the other one that waits for it goes on. The secret token of the webhook, the order of an unordered query
  (any) and the texts of replies are left out; whether a task is accepted is open.
- **In `DemoDatabase`** migrations run with a connection to PostgreSQL, and when no session is open. On SQLite,
  DDL is not transactional and the deletion of models is no error, but compares ids that are stored in
  another form, so it matches nothing; and `alembic --sql` executes nothing. Indexes and types of columns are left out, and
  so is whether the password of a demo user has been changed.
- **In `Administration`** the lists and the sums over users, journal and wallets that
  `GET /admin/stats` asks for before it counts tasks are left out: nothing relates them to each other.
- **In `PasswordReset`** nothing is older than an hour, and no second email of an account is
  verified meanwhile. Mail is not sent by the code either: the link is logged.
- **A lost connection** is only modelled while a worker is busy; an idle worker whose connection
  closes holds no message, and its process is started again.
- **Feedback** has a model and a store but no route, so no running system changes it. **Model inference**
  is a step that returns or raises; the verdict of `toxicity_pipeline.py` compares floating-point
  numbers with constants. The filter of the OpenAPI schema, the settings and the views have no state.
- **The dashboard** writes nothing that another part reads; its polling loop has the shape of the
  benchmark's, which `Benchmark` has. **Tests** were read for what the code is expected to do.

## 7. What could come next

- `TelegramBot` over `PredictionPipeline` instead of a count of tasks, so that a command that is repeated
  competes with other uses of the wallet.
- Pure algorithms against reference definitions: the closure of references in
  `public_openapi.py`.
