------------------------------ MODULE Ledger ------------------------------
(***************************************************************************)
(* What the billing component promises, with no trace of transactions,     *)
(* locks or sessions: an account is a balance together with the sums of    *)
(* the credit and debit entries of its journal, and one step moves one     *)
(* account by one positive amount and journals exactly that amount.        *)
(* BillingTransactions and PredictionPipeline are shown to implement it.   *)
(***************************************************************************)
EXTENDS Integers

CONSTANTS
    Accounts,   \* the users that own a wallet
    Amounts     \* the amounts a request may name, positive or not

VARIABLES
    balance,    \* user_balances.token_count
    credited,   \* sum of the "credit" rows of balance_ledger_entries
    debited     \* sum of the "debit" rows of balance_ledger_entries

ledgerVars == <<balance, credited, debited>>

Open ==
    /\ balance = [u \in Accounts |-> 0]
    /\ credited = [u \in Accounts |-> 0]
    /\ debited = [u \in Accounts |-> 0]

\* CreditTransaction.apply and the row it journals, as one indivisible step.
Credit(u, a) ==
    /\ a > 0
    /\ balance' = [balance EXCEPT ![u] = @ + a]
    /\ credited' = [credited EXCEPT ![u] = @ + a]
    /\ UNCHANGED debited

\* DebitTransaction.apply and the row it journals, as one indivisible step.
Debit(u, a) ==
    /\ a > 0
    /\ balance' = [balance EXCEPT ![u] = @ - a]
    /\ debited' = [debited EXCEPT ![u] = @ + a]
    /\ UNCHANGED credited

Move == \E u \in Accounts, a \in Amounts : Credit(u, a) \/ Debit(u, a)

LedgerSpec == Open /\ [][Move]_ledgerVars

\* Every account's balance is the difference of its two journal sums.
Balanced == \A u \in Accounts : balance[u] = credited[u] - debited[u]
=============================================================================
