---------------------------- MODULE MCSubscriber ----------------------------
(* Subscriber for TLC. *)
EXTENDS Subscriber
=============================================================================
