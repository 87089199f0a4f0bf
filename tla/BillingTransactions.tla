------------------------ MODULE BillingTransactions ------------------------
(***************************************************************************)
(* The billing component of SafeTalk (app/modules/billing): top-ups and    *)
(* administrator spends served by concurrent threads, each in a database   *)
(* transaction of its own at READ COMMITTED.  A request reads the profile  *)
(* without a lock, locks the wallet row and reads it, writes the wallet    *)
(* and a journal row, and commits; anything that fails rolls all of it     *)
(* back.  A variable holds what is committed; what a transaction has       *)
(* written but not committed is in its session's record.                   *)
(***************************************************************************)
EXTENDS Integers, FiniteSets

CONSTANTS
    Users,          \* registered users; registration commits their wallet
    Sessions,       \* threads of the API process, one transaction at a time
    Amounts,        \* amounts a request may carry, the invalid ones included
    NoSession,      \* the holder of a wallet lock that nobody holds
    MaxRequests     \* bound: requests served in a behaviour

ASSUME BillingAssumption ==
    /\ Amounts \subseteq Int
    /\ NoSession \notin Sessions
    /\ MaxRequests \in Nat

VARIABLES
    wallet,         \* user_balances.token_count
    credited,       \* sum of a user's "credit" journal rows
    debited,        \* sum of a user's "debit" journal rows
    allowNegative,  \* users.allow_negative_balance
    everAllowed,    \* history variable: users whose flag has ever been set
    lockedBy,       \* holder of the row lock on a wallet
    session,        \* what each thread is doing
    requests        \* requests taken so far

vars == <<wallet, credited, debited, allowNegative, everAllowed, lockedBy,
          session, requests>>

----------------------------------------------------------------------------
(* Sessions                                                                *)

Kinds == {"credit", "debit"}
Transactions ==
    [phase  : {"profiled", "locked", "written"},
     kind   : Kinds,
     user   : Users,
     amount : Amounts,
     mayOwe : BOOLEAN,  \* BalanceState.allow_negative_balance
     count  : Int]      \* BalanceState.token_count, read and then updated

IdleSession == [phase |-> "idle"]

Idle(s) == session[s].phase = "idle"

\* Transaction.apply: the balance it returns
NewCount(r) == IF r.kind = "credit" THEN r.count + r.amount
                                    ELSE r.count - r.amount

\* Mutation of Applies: the balance is not compared.
AppliesUncovered(r) == r.amount > 0

\* Transaction.apply: the conditions under which it does not raise
Applies(r) ==
    /\ r.amount > 0
    /\ r.kind = "debit" => (r.mayOwe \/ NewCount(r) >= 0)

\* Mutation of Unlocked: the lock survives the transaction.
UnlockedNever(s) == lockedBy

\* The lock table once session s has ended its transaction
Unlocked(s) == [u \in Users |-> IF lockedBy[u] = s THEN NoSession ELSE lockedBy[u]]

----------------------------------------------------------------------------
(* Initial state: fresh users, as registration leaves them                 *)

Init ==
    /\ wallet = [u \in Users |-> 0]
    /\ credited = [u \in Users |-> 0]
    /\ debited = [u \in Users |-> 0]
    /\ allowNegative = [u \in Users |-> FALSE]
    /\ everAllowed = {}
    /\ lockedBy = [u \in Users |-> NoSession]
    /\ session = [s \in Sessions |-> IdleSession]
    /\ requests = 0

----------------------------------------------------------------------------
(* Actions                                                                 *)

\* load_balance_state_for_update reads the profile, without a lock: the
\* permission to owe is the one of this moment.
ReadProfile(s, k, u, a) ==
    /\ Idle(s)
    /\ requests < MaxRequests
    /\ requests' = requests + 1
    /\ session' = [session EXCEPT ![s] =
          [phase |-> "profiled", kind |-> k, user |-> u, amount |-> a,
           mayOwe |-> allowNegative[u], count |-> 0]]
    /\ UNCHANGED <<wallet, credited, debited, allowNegative, everAllowed, lockedBy>>

\* Mutation of LockWallet: load_wallet, which takes and awaits no lock.
ReadWalletUnlocked(s) ==
    /\ session[s].phase = "profiled"
    /\ session' = [session EXCEPT ![s].phase = "locked",
                                  ![s].count = wallet[session[s].user]]
    /\ UNCHANGED <<wallet, credited, debited, allowNegative, everAllowed, lockedBy,
                   requests>>

\* load_wallet_for_update: SELECT ... FOR UPDATE waits until the row is free
\* and returns what is committed then.
LockWallet(s) ==
    /\ session[s].phase = "profiled"
    /\ LET u == session[s].user IN
       /\ lockedBy[u] = NoSession
       /\ lockedBy' = [lockedBy EXCEPT ![u] = s]
       /\ session' = [session EXCEPT ![s].phase = "locked", ![s].count = wallet[u]]
    /\ UNCHANGED <<wallet, credited, debited, allowNegative, everAllowed, requests>>

\* _apply_transaction: the balance is computed from the locked state and the
\* wallet and a journal row are flushed, visible to no other transaction.
Persist(s) ==
    /\ session[s].phase = "locked"
    /\ Applies(session[s])
    /\ session' = [session EXCEPT ![s].phase = "written",
                                  ![s].count = NewCount(session[s])]
    /\ UNCHANGED <<wallet, credited, debited, allowNegative, everAllowed, lockedBy,
                   requests>>

\* The ValidationError and InsufficientBalanceError of Transaction.apply leave
\* the handler; get_db rolls the transaction back.
Refuse(s) ==
    /\ session[s].phase = "locked"
    /\ ~Applies(session[s])
    /\ session' = [session EXCEPT ![s] = IdleSession]
    /\ lockedBy' = Unlocked(s)
    /\ UNCHANGED <<wallet, credited, debited, allowNegative, everAllowed, requests>>

\* session.commit(): the wallet and the journal row become visible together
\* and the row lock is released.
Commit(s) ==
    /\ session[s].phase = "written"
    /\ LET r == session[s] IN
       /\ wallet' = [wallet EXCEPT ![r.user] = r.count]
       /\ IF r.kind = "credit"
          THEN /\ credited' = [credited EXCEPT ![r.user] = @ + r.amount]
               /\ UNCHANGED debited
          ELSE /\ debited' = [debited EXCEPT ![r.user] = @ + r.amount]
               /\ UNCHANGED credited
    /\ session' = [session EXCEPT ![s] = IdleSession]
    /\ lockedBy' = Unlocked(s)
    /\ UNCHANGED <<allowNegative, everAllowed, requests>>

\* Anything else that ends a request: an error of the database or the end of
\* the process.  The server rolls the transaction back.
Abort(s) ==
    /\ ~Idle(s)
    /\ session' = [session EXCEPT ![s] = IdleSession]
    /\ lockedBy' = Unlocked(s)
    /\ UNCHANGED <<wallet, credited, debited, allowNegative, everAllowed, requests>>

\* admin_patch_user commits a new allow_negative_balance; it takes no lock that
\* a billing transaction holds.
PatchAllowNegative(u, allow) ==
    /\ allowNegative' = [allowNegative EXCEPT ![u] = allow]
    /\ everAllowed' = IF allow THEN everAllowed \cup {u} ELSE everAllowed
    /\ UNCHANGED <<wallet, credited, debited, lockedBy, session, requests>>

----------------------------------------------------------------------------
Step(s) ==
    \/ \E k \in Kinds, u \in Users, a \in Amounts : ReadProfile(s, k, u, a)
    \/ LockWallet(s)
    \/ Persist(s)
    \/ Refuse(s)
    \/ Commit(s)
    \/ Abort(s)

Next ==
    \/ \E s \in Sessions : Step(s)
    \/ \E u \in Users, allow \in BOOLEAN : PatchAllowNegative(u, allow)

Spec == Init /\ [][Next]_vars

(***************************************************************************)
(* A thread that can run does run, and PostgreSQL grants a row lock to its *)
(* waiters in turn, so one that is free again and again is granted.        *)
(* Nothing makes requests arrive, flags change or transactions abort.      *)
(***************************************************************************)
Fairness ==
    \A s \in Sessions :
        /\ SF_vars(LockWallet(s))
        /\ WF_vars(Persist(s))
        /\ WF_vars(Refuse(s))
        /\ WF_vars(Commit(s))

FairSpec == Spec /\ Fairness

----------------------------------------------------------------------------
(* Properties                                                              *)

\* Every variable has its type.
TypeOK ==
    /\ wallet \in [Users -> Int]
    /\ credited \in [Users -> Int]
    /\ debited \in [Users -> Int]
    /\ allowNegative \in [Users -> BOOLEAN]
    /\ everAllowed \in SUBSET Users
    /\ lockedBy \in [Users -> Sessions \cup {NoSession}]
    /\ session \in [Sessions -> Transactions \cup {IdleSession}]
    /\ requests \in Nat

\* No update of a wallet is lost: whatever the interleaving of top-ups and
\* spends, the stored balance is the difference of the journal's two sums.
BalanceMatchesJournal ==
    \A u \in Users : wallet[u] = credited[u] - debited[u]

\* A wallet goes below zero only for a user whose profile has allowed it at
\* some time: neither two spends in parallel nor a stale read gets past the
\* check of DebitTransaction.apply.
OwesOnlyIfAllowed ==
    \A u \in Users : wallet[u] < 0 => u \in everAllowed

\* What load_balance_state_for_update is for: between the locked read and the
\* commit, the balance a transaction computes with is the committed one.
LockedReadIsCurrent ==
    \A s \in Sessions :
        /\ session[s].phase = "locked" =>
              session[s].count = wallet[session[s].user]
        /\ session[s].phase = "written" =>
              session[s].count = NewCount([session[s] EXCEPT
                                              !.count = wallet[session[s].user]])

\* A transaction past its locked read holds the lock on its wallet.
LocksAreHeld ==
    \A s \in Sessions :
        session[s].phase \in {"locked", "written"} => lockedBy[session[s].user] = s

\* The permission a transaction carries had been given when it was read.
PermissionsWereGiven ==
    /\ \A u \in Users : allowNegative[u] => u \in everAllowed
    /\ \A s \in Sessions : ~Idle(s) /\ session[s].mayOwe =>
          session[s].user \in everAllowed

\* What is flushed has passed the checks of Transaction.apply.
WritesWereChecked ==
    \A s \in Sessions : session[s].phase = "written" =>
        /\ session[s].amount > 0
        /\ session[s].kind = "debit" => (session[s].mayOwe \/ session[s].count >= 0)

\* The inductive invariant of the component.
IInv ==
    /\ TypeOK
    /\ BalanceMatchesJournal
    /\ OwesOnlyIfAllowed
    /\ LockedReadIsCurrent
    /\ LocksAreHeld
    /\ PermissionsWereGiven
    /\ WritesWereChecked

\* The component implements the account of module Ledger.
Account == INSTANCE Ledger WITH Accounts <- Users, balance <- wallet
ImplementsLedger == Account!LedgerSpec

\* Every request comes to an end: no lock survives the transaction that took it.
EveryRequestEnds == \A s \in Sessions : ~Idle(s) ~> Idle(s)
=============================================================================
