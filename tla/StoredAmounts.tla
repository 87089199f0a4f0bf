--------------------------- MODULE StoredAmounts ---------------------------
(***************************************************************************)
(* What the columns of billing do to amounts.  A request may carry a       *)
(* decimal of any precision; Transaction.apply computes with it exactly,   *)
(* and user_balances.token_count and balance_ledger_entries.amount, both   *)
(* NUMERIC(24, 8), each round what they are given.  One wallet, one        *)
(* transaction at a time: BillingTransactions has the concurrency, with    *)
(* amounts that need no rounding.                                          *)
(***************************************************************************)
EXTENDS Integers

CONSTANTS
    Scale,      \* parts of the last decimal place that amounts may have
    Amounts,    \* amounts of requests, in these parts
    Largest,    \* the largest number of the columns, in these parts
    MaxMoves    \* bound: transactions in a behaviour

ASSUME AmountsAssumption ==
    /\ Scale \in Nat \ {0}
    /\ Amounts \subseteq Int
    /\ Largest \in Nat /\ Largest % Scale = 0
    /\ MaxMoves \in Nat

VARIABLES
    wallet,         \* user_balances.token_count
    credited,       \* sum of the "credit" journal rows
    debited,        \* sum of the "debit" journal rows
    everAllowed,    \* history variable: a debit was allowed to overdraw
    fractions,      \* history variable: amounts that had to be rounded
    moves

vars == <<wallet, credited, debited, everAllowed, fractions, moves>>

\* The multiples of Scale on both sides of a number, and the nearer of them;
\* PostgreSQL rounds a number in the middle away from zero.
Below(x) == x - (x % Scale)
Above(x) == IF x % Scale = 0 THEN x ELSE Below(x) + Scale

\* Mutation of Stored: a number in the middle goes to the even neighbour.
StoredHalfEven(x) ==
    LET twice == 2 * (x % Scale) IN
    IF twice < Scale \/ (twice = Scale /\ (Below(x) \div Scale) % 2 = 0)
    THEN Below(x) ELSE Above(x)

Stored(x) ==
    LET twice == 2 * (x % Scale) IN
    IF twice < Scale \/ (twice = Scale /\ x < 0) THEN Below(x) ELSE Above(x)

\* Mutation of StoredBalance: the column has a coarser scale than the journal's.
StoredCoarse(x) == 2 * Scale * (x \div (2 * Scale))

\* The column of the wallet.
StoredBalance(x) == Stored(x)

\* A number the columns have no place for is refused by the database.
Fits(x) == Stored(x) \in -Largest .. Largest

Init ==
    /\ wallet = 0 /\ credited = 0 /\ debited = 0
    /\ everAllowed = FALSE
    /\ fractions = 0
    /\ moves = 0

\* What both kinds of transaction have in common: the amount is positive, and the
\* balance and the journal row are stored, or neither is.
Persist(a, count) ==
    /\ moves < MaxMoves
    /\ moves' = moves + 1
    /\ a > 0
    /\ Fits(a) /\ Fits(count)
    /\ wallet' = StoredBalance(count)
    /\ fractions' = IF a % Scale = 0 THEN fractions ELSE fractions + 1

Credit(a) ==
    /\ Persist(a, wallet + a)
    /\ credited' = credited + Stored(a)
    /\ UNCHANGED <<debited, everAllowed>>

Covers(a) == wallet - a >= 0

\* The comparison is made before anything is rounded.
Debit(a, mayOwe) ==
    /\ mayOwe \/ Covers(a)
    /\ Persist(a, wallet - a)
    /\ debited' = debited + Stored(a)
    /\ everAllowed' = (everAllowed \/ mayOwe)
    /\ UNCHANGED credited

Next == \E a \in Amounts : Credit(a) \/ \E mayOwe \in BOOLEAN : Debit(a, mayOwe)

Spec == Init /\ [][Next]_vars

----------------------------------------------------------------------------
(* Properties                                                              *)

\* Every variable has its type: the columns hold multiples of their last place.
TypeOK ==
    /\ wallet \in -Largest .. Largest /\ wallet % Scale = 0
    /\ credited \in Nat /\ debited \in Nat
    /\ everAllowed \in BOOLEAN
    /\ fractions \in 0 .. moves /\ moves \in 0 .. MaxMoves

\* What becomes of BalanceMatchesJournal: wallet and journal round different
\* numbers, so each amount with a fraction may part them by one place, and
\* amounts without one never do.
DriftWithinFractions ==
    wallet - (credited - debited) \in -Scale * fractions .. Scale * fractions

\* A credit to a wallet that is not negative cannot part them at all, because the
\* columns round halves away from zero.
CreditsDoNotDrift ==
    [][credited' # credited /\ wallet >= 0 =>
          wallet' - wallet = credited' - credited]_vars

\* No rounding overdraws a wallet: the stored balance is negative only after a
\* debit that was allowed to make it so.
OwesOnlyIfAllowed == wallet < 0 => everAllowed
=============================================================================
