------------------------------ MODULE MCReset ------------------------------
(* PasswordReset with threads that compete for the links of one account.   *)
EXTENDS PasswordReset
============================================================================
