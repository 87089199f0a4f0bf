--------------------------- MODULE PipelineProofs ---------------------------
(***************************************************************************)
(* What module PredictionPipeline claims of safety, for any users, tasks,  *)
(* prices, workers and settings and any number of faults.                  *)
(*                                                                         *)
(* FullInv is inductive.  Its part IInv stands on two orders: a request    *)
(* commits before it publishes, so that a message always has its task      *)
(* (RowsFollowRequests, MessagesFollowRequests), and a wallet is locked    *)
(* before it is read and until the commit (WalletsAreHeld).  Its other     *)
(* part, ConnectedInv, ends with the first lost connection, after which    *)
(* two workers may be busy with one task: that a task is charged once is   *)
(* therefore proved for deployments that lose none.  For the others        *)
(* LossesCoverCharges bounds the charges by the losses.                    *)
(***************************************************************************)
EXTENDS PredictionPipeline, FiniteSetTheorems, TLAPS

USE DEF vars, accounts, database, locks, bounds

----------------------------------------------------------------------------
(* Initial state                                                           *)

\* A new deployment satisfies the inductive invariant.
LEMMA InitFullInv == Init => FullInv
<1>. SUFFICES ASSUME Init PROVE FullInv
  OBVIOUS
<1>1. TypeOK
  BY PipelineAssumption DEF Init, TypeOK, RequestPhases, IdleWorker
<1>2. RowsFollowRequests /\ MessagesFollowRequests /\ WalletsAreHeld
  BY PipelineAssumption DEF Init, RowsFollowRequests, MessagesFollowRequests,
     WalletsAreHeld, IdleWorker, Busy
<1>3. HistoryFollowsTask /\ PendingHasMessage /\ ChargedExactlyOnce
  BY DEF Init, HistoryFollowsTask, PendingHasMessage, ChargedExactlyOnce
<1>4. OneHolder
  BY DEF Init, OneHolder, Busy, IdleWorker
<1>5. PendingIsCovered
  BY DEF Init, PendingIsCovered, Pending
<1>6. OneMessage
  BY DEF Init, OneMessage, Busy, IdleWorker
<1>7. LossesCoverCharges
  <2>1. \A t \in Tasks : Stale(t) = {} /\ debits[t] = 0
    BY DEF Init, Stale, IdleWorker
  <2>2. connLosses = 0
    BY DEF Init
  <2>. QED
    BY <2>1, <2>2, FS_EmptySet DEF LossesCoverCharges
<1>. QED
  BY <1>1, <1>2, <1>3, <1>4, <1>5, <1>6, <1>7, PipelineAssumption
     DEF FullInv, IInv, ConnectedInv, Init

----------------------------------------------------------------------------
(* The parts that hold whatever is lost                                    *)

\* A delivery whose connection is given up is still a delivery.
LEMMA UnlinkedDelivery ==
    ASSUME TypeOK, NEW w \in Workers, Busy(w)
    PROVE  /\ worker[w] \in Deliveries
           /\ [worker[w] EXCEPT !.linked = FALSE] \in Deliveries
<1>1. worker[w] \in Deliveries
  BY DEF TypeOK, Busy, IdleWorker
<1>. QED
  BY <1>1 DEF Deliveries

\* No step leaves the types.
LEMMA TypeStep == TypeOK /\ [Next]_vars => TypeOK'
<1>. SUFFICES ASSUME TypeOK, [Next]_vars PROVE TypeOK'
  OBVIOUS
<1>. USE PipelineAssumption DEF TypeOK, RequestPhases, Deliveries, WorkerPhases,
         IdleWorker, Busy
<1>1. ASSUME NEW t \in Tasks, Begin(t) PROVE TypeOK'
  BY <1>1 DEF Begin
<1>2. ASSUME NEW t \in Tasks, CheckBalance(t) PROVE TypeOK'
  BY <1>2 DEF CheckBalance
<1>3. ASSUME NEW t \in Tasks, Refuse(t) PROVE TypeOK'
  BY <1>3 DEF Refuse
<1>4. ASSUME NEW t \in Tasks, CommitPending(t) PROVE TypeOK'
  BY <1>4 DEF CommitPending, WalletsWithout
<1>5. ASSUME NEW t \in Tasks, Publish(t) PROVE TypeOK'
  BY <1>5 DEF Publish
<1>6. ASSUME NEW t \in Tasks, CompleteInline(t) PROVE TypeOK'
  BY <1>6 DEF CompleteInline, WalletsWithout, WriteCharge
<1>7. ASSUME NEW t \in Tasks, ApiFault(t) PROVE TypeOK'
  BY <1>7 DEF ApiFault, BreakBeforeCommit, BreakAfterCommit, LosePublication,
     WalletsWithout
<1>8. ASSUME NEW w \in Workers, NEW t \in Tasks, Deliver(w, t) PROVE TypeOK'
  BY <1>8 DEF Deliver
<1>9. ASSUME NEW w \in Workers, ReadTask(w) PROVE TypeOK'
  BY <1>9 DEF ReadTask
<1>10. ASSUME NEW w \in Workers, CompleteTask(w) PROVE TypeOK'
  BY <1>10 DEF CompleteTask
<1>11. ASSUME NEW w \in Workers, SpendTokens(w) PROVE TypeOK'
  BY <1>11 DEF SpendTokens
<1>12. ASSUME NEW w \in Workers, CommitTask(w) PROVE TypeOK'
  BY <1>12 DEF CommitTask, WriteCharge, WalletsWithout, TasksWithout
<1>13. ASSUME NEW w \in Workers, Answer(w) PROVE TypeOK'
  BY <1>13 DEF Answer
<1>14. ASSUME NEW w \in Workers, WorkerFault(w) PROVE TypeOK'
  BY <1>14 DEF WorkerFault, Fail, Crash, WalletsWithout, TasksWithout
<1>15. ASSUME NEW w \in Workers, LoseConnection(w) PROVE TypeOK'
  <2>1. [worker[w] EXCEPT !.linked = FALSE] \in Deliveries /\ worker[w].task \in Tasks
    BY <1>15, UnlinkedDelivery DEF LoseConnection
  <2>. QED
    BY <1>15, <2>1 DEF LoseConnection
<1>16. ASSUME NEW u \in Users, NEW a \in Transfers, Transfer(u, a) PROVE TypeOK'
  BY <1>16 DEF Transfer
<1>17. CASE UNCHANGED vars
  BY <1>17
<1>. QED
  BY <1>1, <1>2, <1>3, <1>4, <1>5, <1>6, <1>7, <1>8, <1>9, <1>10, <1>11, <1>12,
     <1>13, <1>14, <1>15, <1>16, <1>17 DEF Next, RequestStep, WorkerStep, Quiet

\* Only a commit changes what is written of a task, and it ends its request or
\* belongs to a message.
LEMMA RowsStep == IInv /\ [Next]_vars => RowsFollowRequests'
<1>. SUFFICES ASSUME IInv, [Next]_vars PROVE RowsFollowRequests'
  OBVIOUS
<1>. USE DEF TypeOK, IInv, RowsFollowRequests, MessagesFollowRequests, Busy
<1>1. ASSUME NEW t \in Tasks, Begin(t) PROVE RowsFollowRequests'
  BY <1>1 DEF Begin
<1>2. ASSUME NEW t \in Tasks, CheckBalance(t) PROVE RowsFollowRequests'
  BY <1>2 DEF CheckBalance
<1>3. ASSUME NEW t \in Tasks, Refuse(t) PROVE RowsFollowRequests'
  BY <1>3 DEF Refuse
<1>4. ASSUME NEW t \in Tasks, CommitPending(t) PROVE RowsFollowRequests'
  BY <1>4 DEF CommitPending
<1>5. ASSUME NEW t \in Tasks, Publish(t) PROVE RowsFollowRequests'
  BY <1>5 DEF Publish
<1>6. ASSUME NEW t \in Tasks, CompleteInline(t) PROVE RowsFollowRequests'
  BY <1>6 DEF CompleteInline, WriteCharge
<1>7. ASSUME NEW t \in Tasks, ApiFault(t) PROVE RowsFollowRequests'
  BY <1>7 DEF ApiFault, BreakBeforeCommit, BreakAfterCommit, LosePublication
<1>8. ASSUME NEW w \in Workers, CommitTask(w) PROVE RowsFollowRequests'
  BY <1>8 DEF CommitTask, WriteCharge
<1>9. CASE UNCHANGED <<settings, request, status, debits>>
  BY <1>9
<1>. QED
  BY <1>1, <1>2, <1>3, <1>4, <1>5, <1>6, <1>7, <1>8, <1>9 DEF Next, RequestStep,
     WorkerStep, Quiet, Deliver, ReadTask, CompleteTask, SpendTokens, Answer,
     WorkerFault, LoseConnection, Transfer, Fail, Crash

\* A message comes into being after its request's commit, and nothing takes a
\* request back.
LEMMA MessagesStep == IInv /\ [Next]_vars => MessagesFollowRequests'
<1>. SUFFICES ASSUME IInv, [Next]_vars PROVE MessagesFollowRequests'
  OBVIOUS
<1>. USE DEF TypeOK, Deliveries, IdleWorker, IInv, MessagesFollowRequests, Busy
<1>1. ASSUME NEW t \in Tasks, Begin(t) PROVE MessagesFollowRequests'
  BY <1>1 DEF Begin
<1>2. ASSUME NEW t \in Tasks, CheckBalance(t) PROVE MessagesFollowRequests'
  BY <1>2 DEF CheckBalance
<1>3. ASSUME NEW t \in Tasks, Refuse(t) PROVE MessagesFollowRequests'
  BY <1>3 DEF Refuse
<1>4. ASSUME NEW t \in Tasks, CommitPending(t) PROVE MessagesFollowRequests'
  BY <1>4 DEF CommitPending
<1>5. ASSUME NEW t \in Tasks, Publish(t) PROVE MessagesFollowRequests'
  BY <1>5 DEF Publish
<1>6. ASSUME NEW t \in Tasks, CompleteInline(t) PROVE MessagesFollowRequests'
  BY <1>6 DEF CompleteInline
<1>7. ASSUME NEW t \in Tasks, ApiFault(t) PROVE MessagesFollowRequests'
  BY <1>7 DEF ApiFault, BreakBeforeCommit, BreakAfterCommit, LosePublication
<1>8. ASSUME NEW w \in Workers, NEW t \in Tasks, Deliver(w, t) PROVE
      MessagesFollowRequests'
  BY <1>8 DEF Deliver
<1>9. ASSUME NEW w \in Workers, ReadTask(w) PROVE MessagesFollowRequests'
  BY <1>9 DEF ReadTask
<1>10. ASSUME NEW w \in Workers, CompleteTask(w) PROVE MessagesFollowRequests'
  BY <1>10 DEF CompleteTask
<1>11. ASSUME NEW w \in Workers, SpendTokens(w) PROVE MessagesFollowRequests'
  BY <1>11 DEF SpendTokens
<1>12. ASSUME NEW w \in Workers, CommitTask(w) PROVE MessagesFollowRequests'
  BY <1>12 DEF CommitTask
<1>13. ASSUME NEW w \in Workers, Answer(w) PROVE MessagesFollowRequests'
  BY <1>13 DEF Answer
<1>14. ASSUME NEW w \in Workers, WorkerFault(w) PROVE MessagesFollowRequests'
  BY <1>14 DEF WorkerFault, Fail, Crash
<1>15. ASSUME NEW w \in Workers, LoseConnection(w) PROVE MessagesFollowRequests'
  BY <1>15 DEF LoseConnection
<1>16. CASE UNCHANGED <<request, ready, reached, worker>>
  BY <1>16
<1>. QED
  BY <1>1, <1>2, <1>3, <1>4, <1>5, <1>6, <1>7, <1>8, <1>9, <1>10, <1>11, <1>12,
     <1>13, <1>14, <1>15, <1>16 DEF Next, RequestStep, WorkerStep, Quiet, Transfer

\* A wallet is held from the locked read to the commit or the rollback, and
\* meanwhile no other transaction writes it.
LEMMA WalletsStep == IInv /\ [Next]_vars => WalletsAreHeld'
<1>. SUFFICES ASSUME IInv, [Next]_vars PROVE WalletsAreHeld'
  OBVIOUS
<1>. USE PipelineAssumption DEF TypeOK, Deliveries, IdleWorker, IInv, WalletsAreHeld
<1>1. ASSUME NEW t \in Tasks, Begin(t) PROVE WalletsAreHeld'
  BY <1>1 DEF Begin
<1>2. ASSUME NEW t \in Tasks, CheckBalance(t) PROVE WalletsAreHeld'
  BY <1>2 DEF CheckBalance
<1>3. ASSUME NEW t \in Tasks, Refuse(t) PROVE WalletsAreHeld'
  BY <1>3 DEF Refuse
<1>4. ASSUME NEW t \in Tasks, CommitPending(t) PROVE WalletsAreHeld'
  BY <1>4 DEF CommitPending, WalletsWithout
<1>5. ASSUME NEW t \in Tasks, Publish(t) PROVE WalletsAreHeld'
  BY <1>5 DEF Publish
<1>6. ASSUME NEW t \in Tasks, CompleteInline(t) PROVE WalletsAreHeld'
  BY <1>6 DEF CompleteInline, WalletsWithout, WriteCharge
<1>7. ASSUME NEW t \in Tasks, ApiFault(t) PROVE WalletsAreHeld'
  BY <1>7 DEF ApiFault, BreakBeforeCommit, BreakAfterCommit, LosePublication,
     WalletsWithout
<1>8. ASSUME NEW w \in Workers, NEW t \in Tasks, Deliver(w, t) PROVE WalletsAreHeld'
  BY <1>8 DEF Deliver
<1>9. ASSUME NEW w \in Workers, ReadTask(w) PROVE WalletsAreHeld'
  BY <1>9 DEF ReadTask
<1>10. ASSUME NEW w \in Workers, CompleteTask(w) PROVE WalletsAreHeld'
  BY <1>10 DEF CompleteTask
<1>11. ASSUME NEW w \in Workers, SpendTokens(w) PROVE WalletsAreHeld'
  BY <1>11 DEF SpendTokens
<1>12. ASSUME NEW w \in Workers, CommitTask(w) PROVE WalletsAreHeld'
  BY <1>12 DEF CommitTask, WriteCharge, WalletsWithout
<1>13. ASSUME NEW w \in Workers, Answer(w) PROVE WalletsAreHeld'
  BY <1>13 DEF Answer
<1>14. ASSUME NEW w \in Workers, WorkerFault(w) PROVE WalletsAreHeld'
  BY <1>14 DEF WorkerFault, Fail, Crash, WalletsWithout
<1>15. ASSUME NEW w \in Workers, LoseConnection(w) PROVE WalletsAreHeld'
  BY <1>15 DEF LoseConnection
<1>16. ASSUME NEW u \in Users, NEW a \in Transfers, Transfer(u, a) PROVE
      WalletsAreHeld'
  BY <1>16 DEF Transfer
<1>17. CASE UNCHANGED vars
  BY <1>17
<1>. QED
  BY <1>1, <1>2, <1>3, <1>4, <1>5, <1>6, <1>7, <1>8, <1>9, <1>10, <1>11, <1>12,
     <1>13, <1>14, <1>15, <1>16, <1>17 DEF Next, RequestStep, WorkerStep, Quiet

\* The commits write a task, its history row and its debits together.
LEMMA HistoryStep == IInv /\ [Next]_vars => HistoryFollowsTask'
<1>. SUFFICES ASSUME IInv, [Next]_vars PROVE HistoryFollowsTask'
  OBVIOUS
<1>. USE DEF TypeOK, IInv, RowsFollowRequests, HistoryFollowsTask
<1>1. ASSUME NEW t \in Tasks, CommitPending(t) PROVE HistoryFollowsTask'
  BY <1>1 DEF CommitPending
<1>2. ASSUME NEW t \in Tasks, CompleteInline(t) PROVE HistoryFollowsTask'
  BY <1>2 DEF CompleteInline, WriteCharge
<1>3. ASSUME NEW w \in Workers, CommitTask(w) PROVE HistoryFollowsTask'
  BY <1>3 DEF CommitTask, WriteCharge
<1>4. CASE UNCHANGED <<status, history, debits>>
  BY <1>4
<1>. QED
  BY <1>1, <1>2, <1>3, <1>4 DEF Next, RequestStep, WorkerStep, Quiet, Begin,
     CheckBalance, Refuse, Publish, ApiFault, Deliver, ReadTask, CompleteTask,
     SpendTokens, Answer, WorkerFault, LoseConnection, Transfer, BreakBeforeCommit,
     BreakAfterCommit, LosePublication, Fail, Crash

\* A worker lets go of a message by answering it or by losing it to the queue, and
\* without skipped errors it acknowledges none whose task is pending.
LEMMA PendingStep == IInv /\ [Next]_vars => PendingHasMessage'
<1>. SUFFICES ASSUME IInv, [Next]_vars PROVE PendingHasMessage'
  OBVIOUS
<1>. USE DEF TypeOK, Deliveries, IdleWorker, IInv, MessagesFollowRequests,
         PendingHasMessage, Busy
<1>1. ASSUME NEW t \in Tasks, CommitPending(t) PROVE PendingHasMessage'
  BY <1>1 DEF CommitPending
<1>2. ASSUME NEW t \in Tasks, Publish(t) PROVE PendingHasMessage'
  BY <1>2 DEF Publish
<1>3. ASSUME NEW t \in Tasks, CompleteInline(t) PROVE PendingHasMessage'
  BY <1>3 DEF CompleteInline
<1>4. ASSUME NEW t \in Tasks, ApiFault(t) PROVE PendingHasMessage'
  BY <1>4 DEF ApiFault, BreakBeforeCommit, BreakAfterCommit, LosePublication
<1>5. ASSUME NEW w \in Workers, NEW t \in Tasks, Deliver(w, t) PROVE
      PendingHasMessage'
  BY <1>5 DEF Deliver
<1>6. ASSUME NEW w \in Workers, ReadTask(w) PROVE PendingHasMessage'
  BY <1>6 DEF ReadTask
<1>7. ASSUME NEW w \in Workers, CompleteTask(w) PROVE PendingHasMessage'
  BY <1>7 DEF CompleteTask
<1>8. ASSUME NEW w \in Workers, SpendTokens(w) PROVE PendingHasMessage'
  BY <1>8 DEF SpendTokens
<1>9. ASSUME NEW w \in Workers, CommitTask(w) PROVE PendingHasMessage'
  BY <1>9 DEF CommitTask
<1>10. ASSUME NEW w \in Workers, Answer(w) PROVE PendingHasMessage'
  BY <1>10 DEF Answer
<1>11. ASSUME NEW w \in Workers, WorkerFault(w) PROVE PendingHasMessage'
  BY <1>11 DEF WorkerFault, Fail, Crash
<1>12. ASSUME NEW w \in Workers, LoseConnection(w) PROVE PendingHasMessage'
  BY <1>12 DEF LoseConnection
<1>13. CASE UNCHANGED <<settings, status, ready, reached, worker>>
  BY <1>13
<1>. QED
  BY <1>1, <1>2, <1>3, <1>4, <1>5, <1>6, <1>7, <1>8, <1>9, <1>10, <1>11, <1>12,
     <1>13 DEF Next, RequestStep, WorkerStep, Quiet, Begin, CheckBalance, Refuse,
     Transfer

----------------------------------------------------------------------------
(* One message, and a loss for every repeated charge                       *)

\* A message goes from the queue to one worker and back, or is gone.
LEMMA MessageStep == FullInv /\ [Next]_vars => OneMessage'
<1>. SUFFICES ASSUME FullInv, [Next]_vars PROVE OneMessage'
  OBVIOUS
<1>. USE DEF TypeOK, Deliveries, IdleWorker, FullInv, IInv, OneMessage,
         MessagesFollowRequests, Busy
<1>1. ASSUME NEW t \in Tasks, Publish(t) PROVE OneMessage'
  BY <1>1 DEF Publish
<1>2. ASSUME NEW t \in Tasks, ApiFault(t) PROVE OneMessage'
  BY <1>2 DEF ApiFault, BreakBeforeCommit, BreakAfterCommit, LosePublication
<1>3. ASSUME NEW w \in Workers, NEW t \in Tasks, Deliver(w, t) PROVE OneMessage'
  BY <1>3 DEF Deliver
<1>4. ASSUME NEW w \in Workers, ReadTask(w) PROVE OneMessage'
  BY <1>4 DEF ReadTask
<1>5. ASSUME NEW w \in Workers, CompleteTask(w) PROVE OneMessage'
  BY <1>5 DEF CompleteTask
<1>6. ASSUME NEW w \in Workers, SpendTokens(w) PROVE OneMessage'
  BY <1>6 DEF SpendTokens
<1>7. ASSUME NEW w \in Workers, CommitTask(w) PROVE OneMessage'
  BY <1>7 DEF CommitTask
<1>8. ASSUME NEW w \in Workers, Answer(w) PROVE OneMessage'
  BY <1>8 DEF Answer
<1>9. ASSUME NEW w \in Workers, WorkerFault(w) PROVE OneMessage'
  BY <1>9 DEF WorkerFault, Fail, Crash
<1>10. ASSUME NEW w \in Workers, LoseConnection(w) PROVE OneMessage'
  BY <1>10 DEF LoseConnection
<1>11. CASE UNCHANGED <<worker, ready>>
  BY <1>11
<1>. QED
  BY <1>1, <1>2, <1>3, <1>4, <1>5, <1>6, <1>7, <1>8, <1>9, <1>10, <1>11 DEF Next,
     RequestStep, WorkerStep, Quiet, Begin, CheckBalance, Refuse, CommitPending,
     CompleteInline, Transfer

\* What the losses cover: d charges, a set of workers that may each charge once
\* more, and one charge that is due.
Covers(d, S, due, c) ==
    IsFiniteSet(S) /\ d + Cardinality(S) + (IF due THEN 1 ELSE 0) <= 1 + c

\* Fewer workers, and no charge newly due, need no more.
LEMMA FewerAreCovered ==
    ASSUME NEW d \in Nat, NEW c \in Nat, NEW S, NEW due \in BOOLEAN, Covers(d, S, due, c),
           NEW T, T \subseteq S, NEW still \in BOOLEAN, still => due
    PROVE  Covers(d, T, still, c)
<1>1. IsFiniteSet(T) /\ Cardinality(T) <= Cardinality(S)
  BY FS_Subset DEF Covers
<1>2. Cardinality(S) \in Nat /\ Cardinality(T) \in Nat
  BY <1>1, FS_CardinalityType DEF Covers
<1>. QED
  BY <1>1, <1>2 DEF Covers

\* A worker of the set charges and leaves it.
LEMMA StaleChargeIsCovered ==
    ASSUME NEW d \in Nat, NEW c \in Nat, NEW S, NEW due \in BOOLEAN, Covers(d, S, due, c),
           NEW w \in S, NEW e \in d .. d + 1
    PROVE  Covers(e, S \ {w}, due, c)
<1>1. IsFiniteSet(S \ {w}) /\ Cardinality(S \ {w}) = Cardinality(S) - 1
  BY FS_RemoveElement DEF Covers
<1>2. Cardinality(S) \in Nat
  BY FS_CardinalityType DEF Covers
<1>. QED
  BY <1>1, <1>2 DEF Covers

\* The charge that is due is made.
LEMMA DueChargeIsCovered ==
    ASSUME NEW d \in Nat, NEW c \in Nat, NEW S, Covers(d, S, TRUE, c),
           NEW e \in d .. d + 1
    PROVE  Covers(e, S, FALSE, c)
<1>1. Cardinality(S) \in Nat
  BY FS_CardinalityType DEF Covers
<1>. QED
  BY <1>1 DEF Covers

\* A loss adds at most one worker.
LEMMA LossIsCovered ==
    ASSUME NEW d \in Nat, NEW c \in Nat, NEW S, NEW due \in BOOLEAN, Covers(d, S, due, c),
           NEW w
    PROVE  Covers(d, S \cup {w}, due, c + 1)
<1>1. /\ IsFiniteSet(S \cup {w})
      /\ Cardinality(S \cup {w}) = Cardinality(S) \/ Cardinality(S \cup {w}) = Cardinality(S) + 1
  BY FS_AddElement DEF Covers
<1>2. Cardinality(S) \in Nat
  BY FS_CardinalityType DEF Covers
<1>. QED
  BY <1>1, <1>2 DEF Covers

\* The invariant in these words.
LEMMA CoversIsLosses ==
    LossesCoverCharges <=> \A t \in Tasks : Covers(debits[t], Stale(t), Due(t), connLosses)
BY DEF LossesCoverCharges, Covers

\* The steps that charge nobody and lose no connection: no worker comes to be able
\* to charge, unless the task is pending.
LEMMA QuietStep ==
    ASSUME FullInv, [Next]_vars, NEW t \in Tasks, debits'[t] = debits[t],
           connLosses' = connLosses
    PROVE  Stale(t)' \subseteq Stale(t) /\ (Due(t)' => Due(t))
<1>. USE DEF TypeOK, Deliveries, IdleWorker, FullInv, IInv, HistoryFollowsTask,
         RowsFollowRequests, MessagesFollowRequests, Stale, Due, Busy
<1>. DEFINE Goal == Stale(t)' \subseteq Stale(t) /\ (Due(t)' => Due(t))
<1>1. ASSUME NEW s \in Tasks, CommitPending(s) PROVE Goal
  BY <1>1 DEF CommitPending
<1>2. ASSUME NEW s \in Tasks, CompleteInline(s) PROVE Goal
  BY <1>2 DEF CompleteInline
<1>3. ASSUME NEW w \in Workers, NEW s \in Tasks, Deliver(w, s) PROVE Goal
  BY <1>3 DEF Deliver
<1>4. ASSUME NEW w \in Workers, ReadTask(w) PROVE Goal
  BY <1>4 DEF ReadTask
<1>5. ASSUME NEW w \in Workers, CompleteTask(w) PROVE Goal
  BY <1>5 DEF CompleteTask
<1>6. ASSUME NEW w \in Workers, SpendTokens(w) PROVE Goal
  BY <1>6 DEF SpendTokens
<1>7. ASSUME NEW w \in Workers, CommitTask(w) PROVE Goal
  BY <1>7 DEF CommitTask
<1>8. ASSUME NEW w \in Workers, Answer(w) PROVE Goal
  BY <1>8 DEF Answer
<1>9. ASSUME NEW w \in Workers, WorkerFault(w) PROVE Goal
  BY <1>9 DEF WorkerFault, Fail, Crash
<1>10. ASSUME NEW w \in Workers, LoseConnection(w) PROVE Goal
  BY <1>10 DEF LoseConnection
<1>11. CASE UNCHANGED <<worker, status>>
  BY <1>11
<1>. QED
  BY <1>1, <1>2, <1>3, <1>4, <1>5, <1>6, <1>7, <1>8, <1>9, <1>10, <1>11 DEF Next,
     RequestStep, WorkerStep, Quiet, Begin, CheckBalance, Refuse, Publish, ApiFault,
     BreakBeforeCommit, BreakAfterCommit, LosePublication, Transfer

\* A charge takes the place of the one that is due or of a stale worker's, and a
\* worker joins those with the loss of its connection.
LEMMA CoversStep == FullInv /\ [Next]_vars => LossesCoverCharges'
<1>. SUFFICES ASSUME FullInv, [Next]_vars, NEW t \in Tasks
              PROVE  Covers(debits'[t], Stale(t)', Due(t)', connLosses')
  BY DEF LossesCoverCharges, Covers
<1>1. /\ debits[t] \in Nat /\ connLosses \in Nat
      /\ Due(t) \in BOOLEAN /\ Due(t)' \in BOOLEAN
      /\ Covers(debits[t], Stale(t), Due(t), connLosses)
  BY CoversIsLosses DEF FullInv, IInv, TypeOK, Due
<1>2. CASE debits'[t] = debits[t] /\ connLosses' = connLosses
  <2>1. Stale(t)' \subseteq Stale(t) /\ (Due(t)' => Due(t))
    BY <1>2, QuietStep
  <2>. QED
    BY <1>1, <1>2, <2>1, FewerAreCovered
<1>3. ASSUME CompleteInline(t) PROVE Covers(debits'[t], Stale(t)', Due(t)', connLosses')
  <2>1. Stale(t)' = Stale(t) /\ Due(t) /\ ~Due(t)' /\ connLosses' = connLosses
    BY <1>3 DEF FullInv, IInv, TypeOK, Deliveries, IdleWorker, MessagesFollowRequests,
       RowsFollowRequests, CompleteInline, Stale, Due, Busy
  <2>2. debits'[t] \in debits[t] .. debits[t] + 1
    BY <1>1, <1>3 DEF FullInv, IInv, TypeOK, CompleteInline, WriteCharge
  <2>. QED
    BY <1>1, <2>1, <2>2, DueChargeIsCovered
<1>4. ASSUME NEW w \in Workers, CommitTask(w), worker[w].task = t
      PROVE  Covers(debits'[t], Stale(t)', Due(t)', connLosses')
  <2>1. debits'[t] \in debits[t] .. debits[t] + 1 /\ connLosses' = connLosses
    BY <1>1, <1>4 DEF FullInv, IInv, TypeOK, CommitTask, WriteCharge
  <2>2. CASE worker[w].linked
    <3>1. Stale(t)' = Stale(t) /\ Due(t) /\ ~Due(t)'
      BY <1>4, <2>2 DEF FullInv, IInv, OneMessage, TypeOK, Deliveries, IdleWorker,
         CommitTask, Stale, Due, Busy
    <3>. QED
      BY <1>1, <2>1, <3>1, DueChargeIsCovered
  <2>3. CASE ~worker[w].linked
    <3>1. w \in Stale(t) /\ Stale(t)' = Stale(t) \ {w} /\ (Due(t)' => Due(t))
      BY <1>4, <2>3 DEF FullInv, IInv, TypeOK, Deliveries, IdleWorker, CommitTask,
         Stale, Due
    <3>2. Covers(debits'[t], Stale(t)', Due(t), connLosses)
      BY <1>1, <2>1, <3>1, StaleChargeIsCovered
    <3>3. debits'[t] \in Nat
      BY <1>1, <2>1
    <3>. QED
      BY <1>1, <2>1, <3>1, <3>2, <3>3, FewerAreCovered
  <2>. QED
    BY <2>2, <2>3, <1>4 DEF FullInv, IInv, TypeOK, Deliveries, IdleWorker, CommitTask
<1>5. ASSUME NEW w \in Workers, LoseConnection(w)
      PROVE  Covers(debits'[t], Stale(t)', Due(t)', connLosses')
  <2>1. Stale(t)' \subseteq Stale(t) \cup {w} /\ (Due(t)' => Due(t))
    BY <1>5 DEF FullInv, IInv, TypeOK, Deliveries, IdleWorker, LoseConnection, Stale,
       Due, Busy
  <2>2. debits'[t] = debits[t] /\ connLosses' = connLosses + 1
    BY <1>5 DEF LoseConnection
  <2>3. Covers(debits[t], Stale(t) \cup {w}, Due(t), connLosses + 1)
    BY <1>1, LossIsCovered
  <2>4. connLosses + 1 \in Nat
    BY <1>1
  <2>. QED
    BY <1>1, <2>1, <2>2, <2>3, <2>4, FewerAreCovered
<1>6. \/ debits'[t] = debits[t] /\ connLosses' = connLosses
      \/ CompleteInline(t)
      \/ \E w \in Workers : CommitTask(w) /\ worker[w].task = t
      \/ \E w \in Workers : LoseConnection(w)
  <2>1. ASSUME NEW s \in Tasks, CompleteInline(s), s # t
        PROVE  debits'[t] = debits[t] /\ connLosses' = connLosses
    BY <2>1 DEF FullInv, IInv, TypeOK, CompleteInline, WriteCharge
  <2>2. ASSUME NEW w \in Workers, CommitTask(w), worker[w].task # t
        PROVE  debits'[t] = debits[t] /\ connLosses' = connLosses
    BY <2>2 DEF FullInv, IInv, TypeOK, CommitTask, WriteCharge
  <2>3. CASE UNCHANGED <<debits, connLosses>>
    BY <2>3
  <2>. QED
    BY <2>1, <2>2, <2>3 DEF Next, RequestStep, WorkerStep, Quiet, Begin, CheckBalance,
       Refuse, CommitPending, Publish, ApiFault, Deliver, ReadTask, CompleteTask,
       SpendTokens, Answer, WorkerFault, Transfer, BreakBeforeCommit,
       BreakAfterCommit, LosePublication, Fail, Crash
<1>. QED
  BY <1>2, <1>3, <1>4, <1>5, <1>6

----------------------------------------------------------------------------
(* The parts that hold until a connection is lost                          *)

\* The bound on lost connections.
LEMMA LossStep == FullInv /\ [Next]_vars => (connLosses <= MaxConnLosses)'
<1>. SUFFICES ASSUME FullInv, [Next]_vars PROVE (connLosses <= MaxConnLosses)'
  OBVIOUS
<1>. USE PipelineAssumption DEF TypeOK, FullInv, IInv
<1>1. ASSUME NEW w \in Workers, LoseConnection(w) PROVE (connLosses <=
      MaxConnLosses)'
  BY <1>1 DEF LoseConnection
<1>2. CASE UNCHANGED <<connLosses>>
  BY <1>2
<1>. QED
  BY <1>1, <1>2 DEF Next, RequestStep, WorkerStep, Quiet, Begin, CheckBalance,
     Refuse, CommitPending, Publish, CompleteInline, ApiFault, Deliver, ReadTask,
     CompleteTask, SpendTokens, CommitTask, Answer, WorkerFault, Transfer,
     WriteCharge, BreakBeforeCommit, BreakAfterCommit, LosePublication, Fail, Crash

\* A message is taken from the queue by one worker, which answers it once.
LEMMA HolderStep == FullInv /\ [Next]_vars => (connLosses = 0 => OneHolder)'
<1>. SUFFICES ASSUME IInv, connLosses = 0 => ConnectedInv, [Next]_vars
              PROVE  (connLosses = 0 => OneHolder)'
  BY DEF FullInv
<1>. USE PipelineAssumption DEF TypeOK, Deliveries, IdleWorker, IInv,
         ConnectedInv, OneHolder, MessagesFollowRequests, RowsFollowRequests, Busy
<1>1. ASSUME NEW t \in Tasks, CommitPending(t) PROVE (connLosses = 0 => OneHolder)'
  BY <1>1 DEF CommitPending, WalletsWithout
<1>2. ASSUME NEW t \in Tasks, Publish(t) PROVE (connLosses = 0 => OneHolder)'
  BY <1>2 DEF Publish
<1>3. ASSUME NEW t \in Tasks, CompleteInline(t) PROVE (connLosses = 0 => OneHolder)'
  BY <1>3 DEF CompleteInline, WalletsWithout
<1>4. ASSUME NEW t \in Tasks, ApiFault(t) PROVE (connLosses = 0 => OneHolder)'
  BY <1>4 DEF ApiFault, BreakBeforeCommit, BreakAfterCommit, LosePublication,
     WalletsWithout
<1>5. ASSUME NEW w \in Workers, NEW t \in Tasks, Deliver(w, t) PROVE (connLosses = 0
      => OneHolder)'
  BY <1>5 DEF Deliver
<1>6. ASSUME NEW w \in Workers, ReadTask(w) PROVE (connLosses = 0 => OneHolder)'
  BY <1>6 DEF ReadTask
<1>7. ASSUME NEW w \in Workers, CompleteTask(w) PROVE (connLosses = 0 => OneHolder)'
  BY <1>7 DEF CompleteTask
<1>8. ASSUME NEW w \in Workers, SpendTokens(w) PROVE (connLosses = 0 => OneHolder)'
  BY <1>8 DEF SpendTokens
<1>9. ASSUME NEW w \in Workers, CommitTask(w) PROVE (connLosses = 0 => OneHolder)'
  BY <1>9 DEF CommitTask, WalletsWithout
<1>10. ASSUME NEW w \in Workers, Answer(w) PROVE (connLosses = 0 => OneHolder)'
  BY <1>10 DEF Answer
<1>11. ASSUME NEW w \in Workers, WorkerFault(w) PROVE (connLosses = 0 => OneHolder)'
  BY <1>11 DEF WorkerFault, Fail, Crash, WalletsWithout
<1>12. ASSUME NEW w \in Workers, LoseConnection(w) PROVE (connLosses = 0 =>
      OneHolder)'
  BY <1>12 DEF LoseConnection
<1>13. CASE UNCHANGED <<worker, ready, status, connLosses>>
  BY <1>13
<1>. QED
  BY <1>1, <1>2, <1>3, <1>4, <1>5, <1>6, <1>7, <1>8, <1>9, <1>10, <1>11, <1>12,
     <1>13 DEF Next, RequestStep, WorkerStep, Quiet, Begin, CheckBalance, Refuse,
     Transfer

\* The only worker with a task commits it while it is pending, and so charges for
\* it once.
LEMMA OnceStep == FullInv /\ [Next]_vars => (connLosses = 0 => ChargedExactlyOnce)'
<1>. SUFFICES ASSUME IInv, connLosses = 0 => ConnectedInv, [Next]_vars
              PROVE  (connLosses = 0 => ChargedExactlyOnce)'
  BY DEF FullInv
<1>. USE DEF TypeOK, IInv, ConnectedInv, OneHolder, RowsFollowRequests,
         ChargedExactlyOnce, Busy
<1>1. ASSUME NEW t \in Tasks, CommitPending(t) PROVE (connLosses = 0 =>
      ChargedExactlyOnce)'
  BY <1>1 DEF CommitPending
<1>2. ASSUME NEW t \in Tasks, CompleteInline(t) PROVE (connLosses = 0 =>
      ChargedExactlyOnce)'
  BY <1>2 DEF CompleteInline, WriteCharge
<1>3. ASSUME NEW w \in Workers, CommitTask(w) PROVE (connLosses = 0 =>
      ChargedExactlyOnce)'
  BY <1>3 DEF CommitTask, WriteCharge
<1>4. ASSUME NEW w \in Workers, LoseConnection(w) PROVE (connLosses = 0 =>
      ChargedExactlyOnce)'
  BY <1>4 DEF LoseConnection
<1>5. CASE UNCHANGED <<status, debits, connLosses>>
  BY <1>5
<1>. QED
  BY <1>1, <1>2, <1>3, <1>4, <1>5 DEF Next, RequestStep, WorkerStep, Quiet, Begin,
     CheckBalance, Refuse, Publish, ApiFault, Deliver, ReadTask, CompleteTask,
     SpendTokens, Answer, WorkerFault, Transfer, BreakBeforeCommit,
     BreakAfterCommit, LosePublication, Fail, Crash

\* A user whose balance had no other use keeps what the one pending task was
\* checked against.
LEMMA CoveredStep == FullInv /\ [Next]_vars => (connLosses = 0 => PendingIsCovered)'
<1>. SUFFICES ASSUME IInv, connLosses = 0 => ConnectedInv, [Next]_vars
              PROVE  (connLosses = 0 => PendingIsCovered)'
  BY DEF FullInv
<1>. USE PipelineAssumption DEF TypeOK, Deliveries, WorkerPhases, IdleWorker,
         IInv, ConnectedInv, OneHolder, RowsFollowRequests, WalletsAreHeld,
         PendingIsCovered, Pending, Covered, Busy
<1>1. ASSUME NEW t \in Tasks, Begin(t) PROVE (connLosses = 0 => PendingIsCovered)'
  BY <1>1 DEF Begin
<1>2. ASSUME NEW t \in Tasks, CheckBalance(t) PROVE (connLosses = 0 =>
      PendingIsCovered)'
  BY <1>2 DEF CheckBalance
<1>3. ASSUME NEW t \in Tasks, Refuse(t) PROVE (connLosses = 0 => PendingIsCovered)'
  BY <1>3 DEF Refuse
<1>4. ASSUME NEW t \in Tasks, CommitPending(t) PROVE (connLosses = 0 =>
      PendingIsCovered)'
  BY <1>4 DEF CommitPending, WalletsWithout
<1>5. ASSUME NEW t \in Tasks, Publish(t) PROVE (connLosses = 0 => PendingIsCovered)'
  BY <1>5 DEF Publish
<1>6. ASSUME NEW t \in Tasks, CompleteInline(t) PROVE (connLosses = 0 =>
      PendingIsCovered)'
  BY <1>6 DEF CompleteInline, WalletsWithout, WriteCharge
<1>7. ASSUME NEW t \in Tasks, ApiFault(t) PROVE (connLosses = 0 =>
      PendingIsCovered)'
  BY <1>7 DEF ApiFault, BreakBeforeCommit, BreakAfterCommit, LosePublication,
     WalletsWithout
<1>8. ASSUME NEW w \in Workers, CommitTask(w) PROVE (connLosses = 0 =>
      PendingIsCovered)'
  BY <1>8 DEF CommitTask, WriteCharge, WalletsWithout
<1>9. ASSUME NEW w \in Workers, LoseConnection(w) PROVE (connLosses = 0 =>
      PendingIsCovered)'
  BY <1>9 DEF LoseConnection
<1>10. ASSUME NEW u \in Users, NEW a \in Transfers, Transfer(u, a) PROVE (connLosses
      = 0 => PendingIsCovered)'
  BY <1>10 DEF Transfer
<1>11. CASE UNCHANGED <<request, wallet, status, mixed, connLosses>>
  BY <1>11
<1>. QED
  BY <1>1, <1>2, <1>3, <1>4, <1>5, <1>6, <1>7, <1>8, <1>9, <1>10, <1>11 DEF Next,
     RequestStep, WorkerStep, Quiet, Deliver, ReadTask, CompleteTask, SpendTokens,
     Answer, WorkerFault, Fail, Crash

----------------------------------------------------------------------------
(* The inductive invariant                                                 *)

\* The inductive invariant holds in every reachable state.
THEOREM Inductive == Spec => []FullInv
<1>1. FullInv /\ [Next]_vars => FullInv'
  <2>1. FullInv => IInv /\ TypeOK
    BY DEF FullInv, IInv
  <2>2. IInv /\ [Next]_vars => IInv'
    BY TypeStep, RowsStep, MessagesStep, WalletsStep, HistoryStep, PendingStep DEF IInv
  <2>3. FullInv /\ [Next]_vars => (connLosses = 0 => ConnectedInv)'
    BY HolderStep, OnceStep, CoveredStep DEF ConnectedInv
  <2>. QED
    BY <2>1, <2>2, <2>3, LossStep, MessageStep, CoversStep DEF FullInv
<1>. QED
  BY <1>1, InitFullInv, PTL DEF Spec

\* The types hold.
THEOREM TypeCorrect == Spec => []TypeOK
<1>1. FullInv => TypeOK
  BY DEF FullInv, IInv
<1>. QED
  BY <1>1, Inductive, PTL

\* A task, its history row and its debits never disagree.
THEOREM HistoryAgrees == Spec => []HistoryFollowsTask
<1>1. FullInv => HistoryFollowsTask
  BY DEF FullInv, IInv
<1>. QED
  BY <1>1, Inductive, PTL

\* No worker ever has the message of a task that is not in the database.
THEOREM NoOrphans == Spec => []NoOrphanMessage
<1>1. FullInv => NoOrphanMessage
  BY DEF FullInv, IInv, NoOrphanMessage, MessagesFollowRequests, RowsFollowRequests
<1>. QED
  BY <1>1, Inductive, PTL

\* No fault of a worker or its connection loses the message of a pending task.
THEOREM NothingLost == Spec => []PendingHasMessage
<1>1. FullInv => PendingHasMessage
  BY DEF FullInv, IInv
<1>. QED
  BY <1>1, Inductive, PTL

\* A refused request leaves no row and no lock.
THEOREM RefusalsLeaveNothing == Spec => []RefusedLeavesNothing
<1>1. FullInv => RefusedLeavesNothing
  <2>1. ASSUME FullInv, NEW t \in Tasks, request[t] = "refused"
        PROVE  /\ status[t] = "absent" /\ debits[t] = 0
               /\ \A u \in Users : walletLock[u] # t
    BY <2>1 DEF FullInv, IInv, RowsFollowRequests, WalletsAreHeld
  <2>. QED
    BY <2>1 DEF RefusedLeavesNothing
<1>. QED
  BY <1>1, Inductive, PTL

\* Where no connection is lost, a completed task has been charged once and no
\* other task at all.
THEOREM ChargedOnce ==
    ASSUME MaxConnLosses = 0
    PROVE  Spec => []ChargedExactlyOnce
<1>1. FullInv => ChargedExactlyOnce
  BY DEF FullInv, IInv, TypeOK, ConnectedInv
<1>. QED
  BY <1>1, Inductive, PTL

\* However many connections are lost, a task is charged at most once more for each
\* of them; no number of crashes, errors and redeliveries repeats a charge.
THEOREM ChargesAreBounded == Spec => []RepeatsNeedLosses
<1>1. FullInv => RepeatsNeedLosses
  <2>. SUFFICES ASSUME FullInv, NEW t \in Tasks PROVE debits[t] <= 1 + connLosses
    BY DEF RepeatsNeedLosses
  <2>1. debits[t] \in Nat /\ connLosses \in Nat
    BY DEF FullInv, IInv, TypeOK
  <2>2. /\ IsFiniteSet(Stale(t))
        /\ debits[t] + Cardinality(Stale(t)) + (IF Due(t) THEN 1 ELSE 0) <= 1 + connLosses
    BY DEF FullInv, LossesCoverCharges
  <2>3. Cardinality(Stale(t)) \in Nat
    BY <2>2, FS_CardinalityType
  <2>. QED
    BY <2>1, <2>2, <2>3
<1>. QED
  BY <1>1, Inductive, PTL

\* Where no connection is lost, a user with one task at a time is never charged
\* for more than the balance.
THEOREM DebtNeedsOverlap ==
    ASSUME MaxConnLosses = 0
    PROVE  Spec => []OverdraftNeedsOverlap
<1>1. FullInv => OverdraftNeedsOverlap
  <2>1. ASSUME FullInv, NEW u \in Users, wallet[u] < 0, u \notin MayOwe \cup mixed
        PROVE  FALSE
    <3>1. wallet[u] \in Int /\ wallet[u] >= 0
      BY <2>1 DEF FullInv, IInv, TypeOK, ConnectedInv, PendingIsCovered
    <3>. QED
      BY <2>1, <3>1
  <2>. QED
    BY <2>1 DEF OverdraftNeedsOverlap
<1>. QED
  BY <1>1, Inductive, PTL

----------------------------------------------------------------------------
(* Refinement of the abstract account                                      *)

\* A charge is a debit of the abstract account, when it is written against the
\* committed balance.
LEMMA ChargeIsMove ==
    ASSUME TypeOK, NEW t \in Tasks, NEW count,
           Charge[t] > 0 => count = wallet[Owner[t]], WriteCharge(t, count)
    PROVE  [Account!Move]_Account!ledgerVars
<1>. USE PipelineAssumption
<1>1. CASE Charge[t] > 0
  <2>1. Account!Debit(Owner[t], Charge[t])
    BY <1>1 DEF WriteCharge, Account!Debit
  <2>. QED
    BY <2>1 DEF Account!Move
<1>2. CASE ~(Charge[t] > 0)
  BY <1>2 DEF WriteCharge, Account!ledgerVars
<1>. QED
  BY <1>1, <1>2

\* A transfer is one step of the abstract account.
LEMMA TransferIsMove ==
    ASSUME NEW u \in Users, NEW a \in Transfers, Transfer(u, a)
    PROVE  Account!Move
<1>1. a \in Nat /\ a > 0
  BY PipelineAssumption
<1>2. Account!Credit(u, a) \/ Account!Debit(u, a)
  BY <1>1 DEF Transfer, Account!Credit, Account!Debit
<1>. QED
  BY <1>2 DEF Account!Move

\* A step of the pipeline is a step of the account or leaves it alone: the worker
\* that commits holds the wallet it has read.
LEMMA StepImplementsMove == IInv /\ [Next]_vars => [Account!Move]_Account!ledgerVars
<1>. SUFFICES ASSUME IInv, [Next]_vars PROVE [Account!Move]_Account!ledgerVars
  OBVIOUS
<1>0. TypeOK
  BY DEF IInv
<1>1. ASSUME NEW t \in Tasks, CompleteInline(t)
      PROVE  [Account!Move]_Account!ledgerVars
  BY <1>0, <1>1, ChargeIsMove DEF CompleteInline
<1>2. ASSUME NEW w \in Workers, CommitTask(w)
      PROVE  [Account!Move]_Account!ledgerVars
  <2>. DEFINE t == worker[w].task
  <2>1. t \in Tasks
    BY <1>0, <1>2 DEF CommitTask, TypeOK, Deliveries, IdleWorker
  <2>2. Charge[t] > 0 => worker[w].count = wallet[Owner[t]]
    BY <1>2 DEF CommitTask, IInv, WalletsAreHeld
  <2>3. WriteCharge(t, worker[w].count)
    BY <1>2 DEF CommitTask
  <2>. HIDE DEF t
  <2>. QED
    BY <1>0, <2>1, <2>2, <2>3, ChargeIsMove
<1>3. ASSUME NEW u \in Users, NEW a \in Transfers, Transfer(u, a)
      PROVE  [Account!Move]_Account!ledgerVars
  BY <1>3, TransferIsMove
<1>4. CASE UNCHANGED accounts
  BY <1>4 DEF Account!ledgerVars
<1>. QED
  BY <1>1, <1>2, <1>3, <1>4
     DEF Next, RequestStep, WorkerStep, Quiet, Begin, CheckBalance, Refuse,
         CommitPending, Publish, ApiFault, BreakBeforeCommit, BreakAfterCommit,
         LosePublication, Deliver, ReadTask, CompleteTask, SpendTokens, Answer,
         WorkerFault, Fail, Crash, LoseConnection

\* The pipeline implements the abstract account, whatever is lost.
THEOREM MoneyRefinement == Spec => ImplementsLedger
<1>1. Init => Account!Open
  BY DEF Init, Account!Open
<1>2. FullInv => IInv
  BY DEF FullInv
<1>. QED
  BY <1>1, <1>2, Inductive, StepImplementsMove, PTL
     DEF Spec, ImplementsLedger, Account!LedgerSpec

----------------------------------------------------------------------------
(* Refinement of the abstract life cycle                                   *)

\* Where no connection is lost, a step of the pipeline is a step of the life
\* cycle of some task or leaves all of them alone.
LEMMA StepImplementsAdvance ==
    FullInv /\ connLosses = 0 /\ [Next]_vars => [Lifecycle!Advance]_<<status, debits>>
<1>. SUFFICES ASSUME FullInv, connLosses = 0, [Next]_vars
              PROVE  [Lifecycle!Advance]_<<status, debits>>
  OBVIOUS
<1>. USE DEF Lifecycle!Advance
<1>0. TypeOK /\ RowsFollowRequests /\ OneHolder
  BY DEF FullInv, IInv, ConnectedInv
<1>1. ASSUME NEW t \in Tasks, CommitPending(t) PROVE Lifecycle!Advance
  <2>1. Lifecycle!Accept(t)
    BY <1>0, <1>1 DEF CommitPending, RowsFollowRequests, Lifecycle!Accept
  <2>. QED
    BY <2>1
<1>2. ASSUME NEW t \in Tasks, CompleteInline(t) PROVE Lifecycle!Advance
  <2>1. status[t] # "COMPLETED"
    BY <1>0, <1>2 DEF CompleteInline, RowsFollowRequests
  <2>2. Lifecycle!Settle(t)
    BY <1>0, <1>2, <2>1 DEF CompleteInline, WriteCharge, TypeOK, Lifecycle!Settle
  <2>. QED
    BY <2>2
<1>3. ASSUME NEW w \in Workers, CommitTask(w) PROVE Lifecycle!Advance
  <2>. DEFINE t == worker[w].task
  <2>1. t \in Tasks /\ status[t] # "COMPLETED"
    BY <1>0, <1>3 DEF CommitTask, TypeOK, Deliveries, IdleWorker, OneHolder, Busy
  <2>2. /\ status' = [status EXCEPT ![t] = "COMPLETED"]
        /\ WriteCharge(t, worker[w].count)
    BY <1>3 DEF CommitTask
  <2>. HIDE DEF t
  <2>3. Lifecycle!Settle(t)
    BY <1>0, <2>1, <2>2 DEF WriteCharge, TypeOK, Lifecycle!Settle
  <2>. QED
    BY <2>1, <2>3
<1>4. CASE UNCHANGED <<status, debits>>
  BY <1>4
<1>. QED
  BY <1>1, <1>2, <1>3, <1>4
     DEF Next, RequestStep, WorkerStep, Quiet, Begin, CheckBalance, Refuse, Publish,
         ApiFault, BreakBeforeCommit, BreakAfterCommit, LosePublication, Deliver,
         ReadTask, CompleteTask, SpendTokens, Answer, WorkerFault, Fail, Crash,
         LoseConnection, Transfer

\* Where no connection is lost, the pipeline implements the abstract life cycle:
\* accepted once, completed once, charged exactly there.
THEOREM TaskRefinement ==
    ASSUME MaxConnLosses = 0
    PROVE  Spec => ImplementsLifecycle
<1>1. Init => Lifecycle!Nothing
  BY DEF Init, Lifecycle!Nothing
<1>2. FullInv => connLosses = 0
  BY DEF FullInv, IInv, TypeOK
<1>. QED
  BY <1>1, <1>2, Inductive, StepImplementsAdvance, PTL
     DEF Spec, ImplementsLifecycle, Lifecycle!LifecycleSpec
=============================================================================
