----------------------------- MODULE MCProcess ------------------------------
(* Process for TLC. *)
EXTENDS Process
=============================================================================
