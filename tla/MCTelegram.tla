---------------------------- MODULE MCTelegram ----------------------------
(* TelegramBot with two people who write to two threads.                   *)
EXTENDS TelegramBot
===========================================================================
