----------------------------- MODULE MCBilling -----------------------------
(* BillingTransactions on three threads that compete for one wallet.       *)
EXTENDS BillingTransactions

\* Two valid amounts, and two that Transaction.apply refuses.
MCAmounts == {-1, 0, 1, 2}
=============================================================================
