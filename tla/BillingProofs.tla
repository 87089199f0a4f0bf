--------------------------- MODULE BillingProofs ---------------------------
(***************************************************************************)
(* What module BillingTransactions claims, for any sets of users, threads  *)
(* and amounts and any number of requests.                                 *)
(*                                                                         *)
(* IInv is inductive because of the lock: LocksAreHeld says that at most   *)
(* one transaction is between its locked read and its commit on a wallet,  *)
(* so a commit by another one cannot make its copy of the balance stale    *)
(* (LockedReadIsCurrent), and then a commit moves the balance by exactly   *)
(* what it adds to the journal.                                            *)
(***************************************************************************)
EXTENDS BillingTransactions, TLAPS

----------------------------------------------------------------------------
(* Initial state                                                           *)

\* The state registration leaves satisfies the inductive invariant.
LEMMA InitIInv == Init => IInv
BY DEF Init, IInv, TypeOK, BalanceMatchesJournal, OwesOnlyIfAllowed,
       LockedReadIsCurrent, LocksAreHeld, PermissionsWereGiven, WritesWereChecked,
       IdleSession, Idle

----------------------------------------------------------------------------
(* Type correctness                                                        *)

\* A session that is not idle runs a well-formed transaction.
LEMMA ActiveSession ==
    ASSUME TypeOK, NEW s \in Sessions, ~Idle(s)
    PROVE  session[s] \in Transactions
BY DEF TypeOK, Idle, IdleSession

\* The balance Transaction.apply returns is an integer.
LEMMA NewCountType ==
    ASSUME NEW r \in Transactions
    PROVE  NewCount(r) \in Int
<1>1. r.count \in Int /\ r.amount \in Int
  BY BillingAssumption DEF BillingAssumption, Transactions
<1> QED
  BY <1>1 DEF NewCount

\* No step leaves the types.
LEMMA TypeStep == TypeOK /\ [Next]_vars => TypeOK'
<1> SUFFICES ASSUME TypeOK, [Next]_vars PROVE TypeOK'
  OBVIOUS
<1>1. ASSUME NEW s \in Sessions, NEW k \in Kinds, NEW u \in Users,
             NEW a \in Amounts, ReadProfile(s, k, u, a)
      PROVE  TypeOK'
  <2>1. allowNegative[u] \in BOOLEAN
    BY DEF TypeOK
  <2>2. [phase |-> "profiled", kind |-> k, user |-> u, amount |-> a,
         mayOwe |-> allowNegative[u], count |-> 0] \in Transactions
    BY <2>1 DEF Transactions
  <2> QED
    BY <1>1, <2>2 DEF TypeOK, ReadProfile
<1>2. ASSUME NEW s \in Sessions, LockWallet(s) PROVE TypeOK'
  <2>1. session[s] \in Transactions
    BY <1>2, ActiveSession DEF LockWallet, Idle
  <2>2. [session[s] EXCEPT !.phase = "locked", !.count = wallet[session[s].user]]
           \in Transactions
    BY <2>1 DEF Transactions, TypeOK
  <2> QED
    BY <1>2, <2>1, <2>2 DEF TypeOK, LockWallet, Transactions
<1>3. ASSUME NEW s \in Sessions, Persist(s) PROVE TypeOK'
  <2>1. session[s] \in Transactions
    BY <1>3, ActiveSession DEF Persist, Idle
  <2>2. NewCount(session[s]) \in Int
    BY <2>1, NewCountType
  <2>3. [session[s] EXCEPT !.phase = "written", !.count = NewCount(session[s])]
           \in Transactions
    BY <2>1, <2>2 DEF Transactions
  <2> QED
    BY <1>3, <2>3 DEF TypeOK, Persist
<1>4. ASSUME NEW s \in Sessions, Refuse(s) PROVE TypeOK'
  BY <1>4 DEF TypeOK, Refuse, Unlocked
<1>5. ASSUME NEW s \in Sessions, Commit(s) PROVE TypeOK'
  <2>1. session[s] \in Transactions
    BY <1>5, ActiveSession DEF Commit, Idle
  <2>2. /\ session[s].user \in Users
        /\ session[s].count \in Int
        /\ session[s].amount \in Int
    BY <2>1, BillingAssumption DEF Transactions, BillingAssumption
  <2>3. /\ wallet' \in [Users -> Int]
        /\ credited' \in [Users -> Int]
        /\ debited' \in [Users -> Int]
    BY <1>5, <2>2 DEF TypeOK, Commit
  <2> QED
    BY <1>5, <2>3 DEF TypeOK, Commit, Unlocked
<1>6. ASSUME NEW s \in Sessions, Abort(s) PROVE TypeOK'
  BY <1>6 DEF TypeOK, Abort, Unlocked
<1>7. ASSUME NEW u \in Users, NEW allow \in BOOLEAN, PatchAllowNegative(u, allow)
      PROVE  TypeOK'
  BY <1>7 DEF TypeOK, PatchAllowNegative
<1>8. CASE UNCHANGED vars
  BY <1>8 DEF TypeOK, vars
<1> QED
  BY <1>1, <1>2, <1>3, <1>4, <1>5, <1>6, <1>7, <1>8 DEF Next, Step

\* Every variable keeps its type in every behaviour.
THEOREM TypeCorrect == Spec => []TypeOK
<1>1. Init => TypeOK
  BY InitIInv DEF IInv
<1> QED
  BY <1>1, TypeStep, PTL DEF Spec

----------------------------------------------------------------------------
(* The inductive invariant                                                 *)

\* What a commit does, given the lock it holds: the committed balance moves by
\* the amount that enters the journal, and only a permitted debit ends below 0.
LEMMA CommitMoves ==
    ASSUME IInv, NEW s \in Sessions, Commit(s)
    PROVE  LET r == session[s] IN
           /\ r \in Transactions
           /\ r.amount \in Int /\ r.amount > 0
           /\ lockedBy[r.user] = s
           /\ r.kind = "credit" => r.count = wallet[r.user] + r.amount
           /\ r.kind = "debit" => /\ r.count = wallet[r.user] - r.amount
                                  /\ r.mayOwe \/ r.count >= 0
           /\ r.mayOwe => r.user \in everAllowed
<1>1. session[s] \in Transactions /\ ~Idle(s)
  BY ActiveSession DEF Commit, Idle, IInv
<1>2. session[s].count = NewCount([session[s] EXCEPT !.count = wallet[session[s].user]])
  BY DEF Commit, IInv, LockedReadIsCurrent
<1>3. /\ session[s].kind = "credit" =>
            session[s].count = wallet[session[s].user] + session[s].amount
      /\ session[s].kind = "debit" =>
            session[s].count = wallet[session[s].user] - session[s].amount
  BY <1>1, <1>2 DEF NewCount, Transactions
<1> QED
  BY <1>1, <1>3, BillingAssumption
     DEF BillingAssumption, Commit, IInv, WritesWereChecked, LocksAreHeld,
         PermissionsWereGiven, Transactions

\* No transaction but s is past its locked read on the wallet s has locked.
LEMMA OneWriter ==
    ASSUME IInv, NEW s \in Sessions, NEW t \in Sessions, s # t,
           session[s].phase \in {"locked", "written"},
           session[t].phase \in {"locked", "written"}
    PROVE  session[s].user # session[t].user
BY DEF IInv, LocksAreHeld

\* Every step preserves the inductive invariant.
LEMMA IInvStep == IInv /\ [Next]_vars => IInv'
<1> SUFFICES ASSUME IInv, [Next]_vars PROVE IInv'
  OBVIOUS
<1> TypeOK /\ TypeOK'
  BY TypeStep DEF IInv
<1>1. ASSUME NEW s \in Sessions, NEW k \in Kinds, NEW u \in Users,
             NEW a \in Amounts, ReadProfile(s, k, u, a)
      PROVE  IInv'
  <2>1. /\ UNCHANGED <<wallet, credited, debited, allowNegative, everAllowed, lockedBy>>
        /\ session'[s] = [phase |-> "profiled", kind |-> k, user |-> u, amount |-> a,
                          mayOwe |-> allowNegative[u], count |-> 0]
        /\ \A t \in Sessions : t # s => session'[t] = session[t]
    BY <1>1 DEF ReadProfile, TypeOK
  <2>2. PermissionsWereGiven'
    BY <2>1 DEF IInv, PermissionsWereGiven, Idle
  <2>3. LockedReadIsCurrent' /\ LocksAreHeld' /\ WritesWereChecked'
    BY <2>1 DEF IInv, LockedReadIsCurrent, LocksAreHeld, WritesWereChecked
  <2> QED
    BY <2>1, <2>2, <2>3 DEF IInv, BalanceMatchesJournal, OwesOnlyIfAllowed
<1>2. ASSUME NEW s \in Sessions, LockWallet(s) PROVE IInv'
  <2>0. session[s] \in Transactions /\ ~Idle(s)
    BY <1>2, ActiveSession DEF LockWallet, Idle
  <2>1. /\ UNCHANGED <<wallet, credited, debited, allowNegative, everAllowed>>
        /\ session'[s] = [session[s] EXCEPT !.phase = "locked",
                                            !.count = wallet[session[s].user]]
        /\ \A t \in Sessions : t # s => session'[t] = session[t]
        /\ lockedBy[session[s].user] = NoSession
        /\ lockedBy' = [lockedBy EXCEPT ![session[s].user] = s]
    BY <1>2, <2>0 DEF LockWallet, TypeOK
  <2>2. LocksAreHeld'
    <3> SUFFICES ASSUME NEW t \in Sessions, session'[t].phase \in {"locked", "written"}
                 PROVE  lockedBy'[session'[t].user] = t
      BY DEF LocksAreHeld
    <3>1. session[s].user \in Users
      BY <2>0 DEF Transactions
    <3>2. CASE t = s
      BY <2>0, <2>1, <3>1, <3>2 DEF TypeOK, Transactions
    <3>3. CASE t # s
      <4>1. session'[t] = session[t] /\ lockedBy[session[t].user] = t
        BY <2>1, <3>3 DEF IInv, LocksAreHeld
      <4>2. session[t].user # session[s].user
        BY <2>1, <4>1, BillingAssumption DEF BillingAssumption
      <4>3. session[t] \in Transactions
        BY <4>1, ActiveSession DEF Idle
      <4> QED
        BY <2>1, <4>1, <4>2, <4>3 DEF TypeOK, Transactions
    <3> QED
      BY <3>2, <3>3
  <2>3. /\ session'[s].phase = "locked"
        /\ session'[s].user = session[s].user
        /\ session'[s].mayOwe = session[s].mayOwe
        /\ session'[s].count = wallet[session[s].user]
    BY <2>0, <2>1 DEF Transactions
  <2>4. PermissionsWereGiven'
    BY <2>0, <2>1, <2>3 DEF IInv, PermissionsWereGiven, Idle
  <2>5. LockedReadIsCurrent' /\ WritesWereChecked'
    BY <2>1, <2>3 DEF IInv, LockedReadIsCurrent, WritesWereChecked
  <2> QED
    BY <2>1, <2>2, <2>4, <2>5 DEF IInv, BalanceMatchesJournal, OwesOnlyIfAllowed
<1>3. ASSUME NEW s \in Sessions, Persist(s) PROVE IInv'
  <2>0. session[s] \in Transactions /\ ~Idle(s) /\ NewCount(session[s]) \in Int
    BY <1>3, ActiveSession, NewCountType DEF Persist, Idle
  <2>1. /\ UNCHANGED <<wallet, credited, debited, allowNegative, everAllowed, lockedBy>>
        /\ session'[s] = [session[s] EXCEPT !.phase = "written",
                                            !.count = NewCount(session[s])]
        /\ \A t \in Sessions : t # s => session'[t] = session[t]
        /\ session[s].phase = "locked"
        /\ Applies(session[s])
    BY <1>3 DEF Persist, TypeOK
  <2>2. /\ session'[s].phase = "written"
        /\ session'[s].user = session[s].user
        /\ session'[s].kind = session[s].kind
        /\ session'[s].amount = session[s].amount
        /\ session'[s].mayOwe = session[s].mayOwe
        /\ session'[s].count = NewCount(session[s])
    BY <2>0, <2>1 DEF Transactions
  <2>3. session[s].count = wallet[session[s].user]
    BY <2>1 DEF IInv, LockedReadIsCurrent
  <2>4. session'[s].count = NewCount([session'[s] EXCEPT !.count = wallet[session'[s].user]])
    BY <2>0, <2>1, <2>2, <2>3 DEF NewCount, Transactions
  <2>5. LockedReadIsCurrent'
    BY <2>1, <2>2, <2>4 DEF IInv, LockedReadIsCurrent
  <2>6. LocksAreHeld'
    <3>1. \A t \in Sessions :
             /\ session'[t].user = session[t].user
             /\ session'[t].phase \in {"locked", "written"} =>
                   session[t].phase \in {"locked", "written"}
      BY <2>1, <2>2
    <3>2. lockedBy' = lockedBy
      BY <2>1
    <3> QED
      BY <3>1, <3>2, Zenon DEF IInv, LocksAreHeld
  <2>8. WritesWereChecked'
    <3>1. /\ session'[s].amount > 0
          /\ session'[s].kind = "debit" =>
                (session'[s].mayOwe \/ session'[s].count >= 0)
      BY <2>1, <2>2 DEF Applies
    <3> QED
      BY <2>1, <3>1 DEF IInv, WritesWereChecked
  <2>7. PermissionsWereGiven'
    BY <2>0, <2>1, <2>2 DEF IInv, PermissionsWereGiven, Idle
  <2> QED
    BY <2>1, <2>5, <2>6, <2>7, <2>8 DEF IInv, BalanceMatchesJournal, OwesOnlyIfAllowed
<1>4. ASSUME NEW s \in Sessions,
             Refuse(s) \/ Abort(s)
      PROVE  IInv'
  <2>1. /\ UNCHANGED <<wallet, credited, debited, allowNegative, everAllowed>>
        /\ session'[s].phase = "idle"
        /\ \A t \in Sessions : t # s => session'[t] = session[t]
        /\ lockedBy' = Unlocked(s)
    BY <1>4 DEF Refuse, Abort, TypeOK, IdleSession
  <2>2. LocksAreHeld'
    <3> SUFFICES ASSUME NEW t \in Sessions, session'[t].phase \in {"locked", "written"}
                 PROVE  lockedBy'[session'[t].user] = t
      BY DEF LocksAreHeld
    <3>1. t # s /\ session'[t] = session[t] /\ ~Idle(t)
      BY <2>1 DEF Idle
    <3>2. session[t] \in Transactions
      BY <3>1, ActiveSession
    <3>3. session[t].user \in Users /\ lockedBy[session[t].user] = t
      BY <3>1, <3>2 DEF IInv, LocksAreHeld, Transactions
    <3> QED
      BY <2>1, <3>1, <3>3 DEF Unlocked
  <2>3. LockedReadIsCurrent' /\ WritesWereChecked'
    BY <2>1 DEF IInv, LockedReadIsCurrent, WritesWereChecked
  <2>4. PermissionsWereGiven'
    BY <2>1 DEF IInv, PermissionsWereGiven, Idle
  <2> QED
    BY <2>1, <2>2, <2>3, <2>4 DEF IInv, BalanceMatchesJournal, OwesOnlyIfAllowed
<1>5. ASSUME NEW s \in Sessions, Commit(s) PROVE IInv'
  <2> DEFINE r == session[s]
  <2>0. /\ r \in Transactions
        /\ r.user \in Users /\ r.kind \in Kinds
        /\ r.amount \in Int /\ r.amount > 0
        /\ lockedBy[r.user] = s
        /\ r.kind = "credit" => r.count = wallet[r.user] + r.amount
        /\ r.kind = "debit" => /\ r.count = wallet[r.user] - r.amount
                               /\ r.mayOwe \/ r.count >= 0
        /\ r.mayOwe => r.user \in everAllowed
    BY <1>5, CommitMoves DEF Transactions
  <2>1. /\ UNCHANGED <<allowNegative, everAllowed>>
        /\ session'[s].phase = "idle"
        /\ \A t \in Sessions : t # s => session'[t] = session[t]
        /\ wallet'[r.user] = r.count
        /\ \A u \in Users : u # r.user => wallet'[u] = wallet[u]
        /\ lockedBy' = Unlocked(s)
        /\ r.phase = "written"
    BY <1>5, <2>0 DEF Commit, TypeOK, IdleSession
  <2>2. BalanceMatchesJournal'
    <3>1. CASE r.kind = "credit"
      BY <1>5, <2>0, <3>1 DEF Commit, TypeOK, IInv, BalanceMatchesJournal
    <3>2. CASE r.kind = "debit"
      BY <1>5, <2>0, <3>2 DEF Commit, TypeOK, IInv, BalanceMatchesJournal
    <3> QED
      BY <2>0, <3>1, <3>2 DEF Kinds
  <2>3. OwesOnlyIfAllowed'
    <3>1. wallet[r.user] \in Int /\ wallet'[r.user] \in Int
      BY <2>0 DEF TypeOK
    <3> QED
      BY <2>0, <2>1, <3>1 DEF IInv, OwesOnlyIfAllowed, Kinds
  <2>4. ASSUME NEW t \in Sessions, session'[t].phase \in {"locked", "written"}
        PROVE  /\ t # s /\ session'[t] = session[t]
               /\ session[t].user \in Users
               /\ lockedBy'[session'[t].user] = t
               /\ wallet'[session[t].user] = wallet[session[t].user]
    <3>1. t # s /\ session'[t] = session[t] /\ ~Idle(t)
      BY <2>1, <2>4 DEF Idle
    <3>2. session[t].user \in Users /\ session[t].user # r.user
      BY <2>1, <2>4, <3>1, ActiveSession, OneWriter DEF Transactions
    <3>3. lockedBy[session[t].user] = t
      BY <2>4, <3>1 DEF IInv, LocksAreHeld
    <3> QED
      BY <2>1, <3>1, <3>2, <3>3 DEF Unlocked
  <2>5. LocksAreHeld'
    BY <2>4 DEF LocksAreHeld
  <2>6. LockedReadIsCurrent'
    BY <2>4 DEF IInv, LockedReadIsCurrent
  <2>7. WritesWereChecked'
    BY <2>4 DEF IInv, WritesWereChecked
  <2>8. PermissionsWereGiven'
    BY <2>1 DEF IInv, PermissionsWereGiven, Idle
  <2> QED
    BY <2>2, <2>3, <2>5, <2>6, <2>7, <2>8 DEF IInv
<1>6. ASSUME NEW u \in Users, NEW allow \in BOOLEAN, PatchAllowNegative(u, allow)
      PROVE  IInv'
  <2>1. /\ UNCHANGED <<wallet, credited, debited, lockedBy, session>>
        /\ everAllowed \subseteq everAllowed'
        /\ \A v \in Users : allowNegative'[v] => v \in everAllowed'
    BY <1>6 DEF PatchAllowNegative, IInv, PermissionsWereGiven, TypeOK
  <2>2. PermissionsWereGiven'
    BY <2>1 DEF IInv, PermissionsWereGiven, Idle
  <2>3. LockedReadIsCurrent' /\ LocksAreHeld' /\ WritesWereChecked'
    BY <2>1 DEF IInv, LockedReadIsCurrent, LocksAreHeld, WritesWereChecked
  <2> QED
    BY <2>1, <2>2, <2>3 DEF IInv, BalanceMatchesJournal, OwesOnlyIfAllowed
<1>7. CASE UNCHANGED vars
  BY <1>7 DEF IInv, vars, BalanceMatchesJournal, OwesOnlyIfAllowed, LockedReadIsCurrent,
              LocksAreHeld, PermissionsWereGiven, WritesWereChecked, Idle
<1> QED
  BY <1>1, <1>2, <1>3, <1>4, <1>5, <1>6, <1>7 DEF Next, Step

\* The inductive invariant holds in every reachable state.
THEOREM Inductive == Spec => []IInv
BY InitIInv, IInvStep, PTL DEF Spec

\* No top-up or spend is ever lost: the stored balance is always the sum of the
\* credits less the sum of the debits.
THEOREM BalanceIsJournal == Spec => []BalanceMatchesJournal
<1>1. IInv => BalanceMatchesJournal
  BY DEF IInv
<1> QED
  BY Inductive, <1>1, PTL

\* Nobody owes without having been allowed to.
THEOREM NoUnpermittedDebt == Spec => []OwesOnlyIfAllowed
<1>1. IInv => OwesOnlyIfAllowed
  BY DEF IInv
<1> QED
  BY Inductive, <1>1, PTL

----------------------------------------------------------------------------
(* Refinement of the abstract account                                      *)

\* A step of the component is a step of the account or leaves it alone: commits
\* move it, and everything a transaction does before that is invisible.
LEMMA StepImplementsMove == IInv /\ [Next]_vars => [Account!Move]_Account!ledgerVars
<1> SUFFICES ASSUME IInv, [Next]_vars PROVE [Account!Move]_Account!ledgerVars
  OBVIOUS
<1>1. ASSUME NEW s \in Sessions, Commit(s) PROVE Account!Move
  <2> DEFINE r == session[s]
  <2>1. /\ r.user \in Users /\ r.kind \in Kinds /\ r.amount \in Amounts
        /\ r.amount > 0
        /\ r.kind = "credit" => r.count = wallet[r.user] + r.amount
        /\ r.kind = "debit" => r.count = wallet[r.user] - r.amount
    BY <1>1, CommitMoves DEF Transactions
  <2>2. CASE r.kind = "credit"
    <3>1. Account!Credit(r.user, r.amount)
      BY <1>1, <2>1, <2>2 DEF Commit, Account!Credit
    <3> QED
      BY <2>1, <3>1 DEF Account!Move
  <2>3. CASE r.kind = "debit"
    <3>1. Account!Debit(r.user, r.amount)
      BY <1>1, <2>1, <2>3 DEF Commit, Account!Debit
    <3> QED
      BY <2>1, <3>1 DEF Account!Move
  <2> QED
    BY <2>1, <2>2, <2>3 DEF Kinds
<1>2. ASSUME NEW s \in Sessions,
             \/ \E k \in Kinds, u \in Users, a \in Amounts : ReadProfile(s, k, u, a)
             \/ LockWallet(s) \/ Persist(s) \/ Refuse(s) \/ Abort(s)
      PROVE  UNCHANGED Account!ledgerVars
  BY <1>2 DEF ReadProfile, LockWallet, Persist, Refuse, Abort, Account!ledgerVars
<1>3. ASSUME NEW u \in Users, NEW allow \in BOOLEAN, PatchAllowNegative(u, allow)
      PROVE  UNCHANGED Account!ledgerVars
  BY <1>3 DEF PatchAllowNegative, Account!ledgerVars
<1>4. CASE UNCHANGED vars
  BY <1>4 DEF vars, Account!ledgerVars
<1> QED
  BY <1>1, <1>2, <1>3, <1>4 DEF Next, Step

\* The billing component implements the abstract account.
THEOREM Refinement == Spec => ImplementsLedger
<1>1. Init => Account!Open
  BY DEF Init, Account!Open
<1> QED
  BY <1>1, Inductive, StepImplementsMove, PTL
     DEF Spec, ImplementsLedger, Account!LedgerSpec
=============================================================================
