---------------------------- MODULE MCChatQueue ----------------------------
(* ChatQueue as TLC checks it.                                             *)
EXTENDS ChatQueue, TLC
=============================================================================
