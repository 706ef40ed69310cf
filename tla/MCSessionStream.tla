---- MODULE MCSessionStream ----
(* SessionStream for TLC. *)
EXTENDS SessionStream
====
