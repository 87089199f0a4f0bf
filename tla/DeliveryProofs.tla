--------------------------- MODULE DeliveryProofs ---------------------------
(***************************************************************************)
(* What module WorkerDelivery claims of safety, for any number of workers  *)
(* and messages and any values of the two settings.  Each step is taken    *)
(* from the inductive invariant IInv to one of its parts; the numeric part *)
(* of it, DropsSpendBudget, is inductive given the types alone, and the    *)
(* places of messages need that nothing is ready before it is published.   *)
(***************************************************************************)
EXTENDS WorkerDelivery, WellFoundedInduction, TLAPS

USE DEF vars, Messages, Idle

----------------------------------------------------------------------------
(* The oldest message                                                      *)

\* Min, a CHOOSE, returns a member of a set of naturals that has one: what the
\* broker delivers is a message that was ready.
LEMMA MinIsMember ==
    ASSUME NEW S \in SUBSET Nat, S # {}
    PROVE  Min(S) \in S
<1>. DEFINE R == OpToRel(<, Nat)
<1>1. IsWellFoundedOn(R, Nat)
  BY NatLessThanWellFounded
<1>. HIDE DEF R
<1>2. PICK x \in S : \A y \in S : <<y, x>> \notin R
  BY <1>1, WFMin
<1>3. \A y \in S : x =< y
  <2>. TAKE y \in S
  <2>1. y \in Nat /\ x \in Nat
    OBVIOUS
  <2>2. ~(y < x)
    <3>1. <<y, x>> \in Nat \X Nat
      BY <2>1
    <3>. QED
      BY <1>2, <2>1, <3>1 DEF R, OpToRel
  <2>. QED
    BY <2>1, <2>2
<1>. QED
  BY <1>3 DEF Min

\* The message a delivery takes.
LEMMA DeliverTakesReady ==
    ASSUME TypeOK, NEW w \in Workers, Deliver(w)
    PROVE  Min(ready) \in ready
<1>1. ready \in SUBSET Nat
  BY DeliveryAssumption DEF TypeOK
<1>. QED
  BY <1>1, MinIsMember DEF Deliver

\* The budget a worker starts with is a number.
LEMMA FullBudgetType == TypeOK => FullBudget \in Nat
BY DeliveryAssumption DEF TypeOK, FullBudget

----------------------------------------------------------------------------
(* The inductive invariant                                                 *)

\* A new deployment satisfies it.
LEMMA InitIInv == Init => IInv
<1>. SUFFICES ASSUME Init PROVE IInv
  OBVIOUS
<1>1. TypeOK
  BY DeliveryAssumption DEF Init, TypeOK, FullBudget
<1>2. OnlyPublished /\ OnePlace
  BY DeliveryAssumption DEF Init, OnlyPublished, OnePlace
<1>3. DropsSpendBudget /\ StrictDropsNothing
  BY <1>1, FullBudgetType DEF Init, DropsSpendBudget, StrictDropsNothing
<1>. QED
  BY <1>1, <1>2, <1>3 DEF IInv

\* No step leaves the types.
LEMMA TypeStep == IInv /\ [Next]_vars => TypeOK'
<1>. SUFFICES ASSUME IInv, [Next]_vars PROVE TypeOK'
  OBVIOUS
<1>. USE DeliveryAssumption, FullBudgetType DEF TypeOK, IInv
<1>1. CASE Publish
  BY <1>1 DEF Publish
<1>2. ASSUME NEW w \in Workers, Deliver(w) PROVE TypeOK'
  BY <1>2, DeliverTakesReady DEF Deliver
<1>3. ASSUME NEW w \in Workers, Settle(w) PROVE TypeOK'
  BY <1>3 DEF Settle, FullBudget
<1>4. ASSUME NEW w \in Workers, Fail(w) PROVE TypeOK'
  <2>1. CASE MayDrop(w)
    <3>1. settings.limit \in Int /\ BudgetAfterDrop(w) \in Nat
      BY <2>1 DEF MayDrop, BudgetAfterDrop
    <3>2. /\ UNCHANGED <<settings, kind, sent, ready, settled, pausing, restarts>>
          /\ dropped' = dropped \cup {held[w]} /\ held[w] \in Messages
          /\ held' = [held EXCEPT ![w] = NoMessage]
          /\ budget' = [budget EXCEPT ![w] = BudgetAfterDrop(w)]
          /\ streak' = [streak EXCEPT ![w] = @ + 1]
      BY <1>4, <2>1 DEF Fail, ApplyFailurePolicy
    <3>3. errors' \in Nat
      BY <1>4 DEF Fail
    <3>. QED
      BY <3>1, <3>2, <3>3
  <2>2. CASE ~MayDrop(w)
    BY <1>4, <2>2 DEF Fail, ApplyFailurePolicy
  <2>. QED
    BY <2>1, <2>2
<1>5. ASSUME NEW w \in Workers, Requeue(w) PROVE TypeOK'
  BY <1>5 DEF Requeue, OnlyPublished
<1>6. ASSUME NEW w \in Workers, Restart(w) PROVE TypeOK'
  BY <1>6 DEF Restart
<1>7. CASE UNCHANGED vars
  BY <1>7
<1>. QED
  BY <1>1, <1>2, <1>3, <1>4, <1>5, <1>6, <1>7 DEF Next, WorkerStep, Quiet

\* Nothing turns up anywhere before it is published.
LEMMA PublishedStep == IInv /\ [Next]_vars => OnlyPublished'
<1>. SUFFICES ASSUME IInv, [Next]_vars PROVE OnlyPublished'
  OBVIOUS
<1>. USE DeliveryAssumption DEF TypeOK, IInv, OnlyPublished
<1>1. CASE Publish
  BY <1>1 DEF Publish
<1>2. ASSUME NEW w \in Workers, Deliver(w) PROVE OnlyPublished'
  BY <1>2, DeliverTakesReady DEF Deliver
<1>3. ASSUME NEW w \in Workers, Settle(w) PROVE OnlyPublished'
  BY <1>3 DEF Settle
<1>4. ASSUME NEW w \in Workers, Fail(w) PROVE OnlyPublished'
  BY <1>4 DEF Fail, ApplyFailurePolicy
<1>5. ASSUME NEW w \in Workers, Requeue(w) PROVE OnlyPublished'
  BY <1>5 DEF Requeue
<1>6. ASSUME NEW w \in Workers, Restart(w) PROVE OnlyPublished'
  BY <1>6 DEF Restart
<1>7. CASE UNCHANGED vars
  BY <1>7
<1>. QED
  BY <1>1, <1>2, <1>3, <1>4, <1>5, <1>6, <1>7 DEF Next, WorkerStep, Quiet

\* Each step takes a message from one place to one other place.
LEMMA PlaceStep == IInv /\ [Next]_vars => OnePlace'
<1>. SUFFICES ASSUME IInv, [Next]_vars PROVE OnePlace'
  OBVIOUS
<1>. USE DeliveryAssumption DEF TypeOK, IInv, OnlyPublished, OnePlace
<1>1. CASE Publish
  BY <1>1 DEF Publish
<1>2. ASSUME NEW w \in Workers, Deliver(w) PROVE OnePlace'
  <2>. DEFINE m == Min(ready)
  <2>1. m \in ready
    BY <1>2, DeliverTakesReady
  <2>2. /\ held' = [held EXCEPT ![w] = m]
        /\ ready' = ready \ {m}
        /\ UNCHANGED <<sent, settled, dropped>>
        /\ Idle(w)
    BY <1>2 DEF Deliver
  <2>. HIDE DEF m
  <2>. QED
    BY <2>1, <2>2
<1>3. ASSUME NEW w \in Workers, Settle(w) PROVE OnePlace'
  BY <1>3 DEF Settle
<1>4. ASSUME NEW w \in Workers, Fail(w) PROVE OnePlace'
  BY <1>4 DEF Fail, ApplyFailurePolicy
<1>5. ASSUME NEW w \in Workers, Requeue(w) PROVE OnePlace'
  BY <1>5 DEF Requeue
<1>6. ASSUME NEW w \in Workers, Restart(w) PROVE OnePlace'
  BY <1>6 DEF Restart
<1>7. CASE UNCHANGED vars
  BY <1>7
<1>. QED
  BY <1>1, <1>2, <1>3, <1>4, <1>5, <1>6, <1>7 DEF Next, WorkerStep, Quiet

\* A drop takes from the budget what it adds to the streak, and whatever restores
\* the budget ends the streak.
LEMMA LimitStep == IInv /\ [Next]_vars => DropsSpendBudget'
<1>. SUFFICES ASSUME IInv, [Next]_vars PROVE DropsSpendBudget'
  OBVIOUS
<1>. USE FullBudgetType DEF TypeOK, IInv, DropsSpendBudget, Unlimited, FullBudget
<1>1. ASSUME NEW w \in Workers, Settle(w) \/ Restart(w) PROVE DropsSpendBudget'
  <2>1. /\ budget' = [budget EXCEPT ![w] = FullBudget]
        /\ streak' = [streak EXCEPT ![w] = 0]
        /\ settings' = settings
    BY <1>1 DEF Settle, Restart
  <2>. QED
    BY <2>1
<1>2. ASSUME NEW w \in Workers, Fail(w) PROVE DropsSpendBudget'
  BY <1>2 DEF Fail, ApplyFailurePolicy, MayDrop, BudgetAfterDrop
<1>3. ASSUME UNCHANGED <<settings, budget, streak>> PROVE DropsSpendBudget'
  BY <1>3
<1>. QED
  BY <1>1, <1>2, <1>3 DEF Next, WorkerStep, Publish, Deliver, Requeue, Quiet

\* The only action that drops asks for the setting.
LEMMA StrictStep == IInv /\ [Next]_vars => StrictDropsNothing'
<1>. SUFFICES ASSUME IInv, [Next]_vars PROVE StrictDropsNothing'
  OBVIOUS
<1>. USE DEF IInv, StrictDropsNothing
<1>1. ASSUME NEW w \in Workers, Fail(w) PROVE StrictDropsNothing'
  BY <1>1 DEF Fail, ApplyFailurePolicy, MayDrop
<1>2. ASSUME UNCHANGED <<settings, dropped>> PROVE StrictDropsNothing'
  BY <1>2
<1>. QED
  BY <1>1, <1>2 DEF Next, WorkerStep, Publish, Deliver, Settle, Requeue, Restart, Quiet

\* The inductive invariant holds in every reachable state.
THEOREM Inductive == Spec => []IInv
<1>1. IInv /\ [Next]_vars => IInv'
  BY TypeStep, PublishedStep, PlaceStep, LimitStep, StrictStep DEF IInv
<1>. QED
  BY <1>1, InitIInv, PTL DEF Spec

----------------------------------------------------------------------------
(* What follows                                                            *)

\* The types hold.
THEOREM TypeCorrect == Spec => []TypeOK
<1>1. IInv => TypeOK
  BY DEF IInv
<1>. QED
  BY <1>1, Inductive, PTL

\* No message is lost or doubled between queue, workers and acknowledgements.
THEOREM MessagesAreKept == Spec => []OnePlace
<1>1. IInv => OnePlace
  BY DEF IInv
<1>. QED
  BY <1>1, Inductive, PTL

\* A worker drops no more messages in a row than the limit set for it: what it has
\* dropped is gone from its budget, and what is left of a budget is never negative.
THEOREM DropsAreBounded == Spec => []DropsWithinLimit
<1>1. IInv => DropsWithinLimit
  <2>. SUFFICES ASSUME IInv, ~Unlimited, NEW w \in Workers
                PROVE  streak[w] <= FullBudget
    BY DEF DropsWithinLimit
  <2>1. streak[w] + budget[w] = FullBudget
    BY DEF IInv, DropsSpendBudget
  <2>2. streak[w] \in Nat /\ budget[w] \in Nat
    BY DEF IInv, TypeOK
  <2>. QED
    BY <2>1, <2>2
<1>. QED
  BY <1>1, Inductive, PTL

\* As deployed, with errors not skipped, no message is ever dropped.
THEOREM NothingDropped == Spec => []StrictDropsNothing
<1>1. IInv => StrictDropsNothing
  BY DEF IInv
<1>. QED
  BY <1>1, Inductive, PTL
=============================================================================
