---------------------------- MODULE MCAccounts ----------------------------
(* UserAccounts with threads that compete for one or two logins.           *)
EXTENDS UserAccounts
===========================================================================
