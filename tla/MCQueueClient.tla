--------------------------- MODULE MCQueueClient ---------------------------
(* QueueClient for TLC: the last of the messages has a body nobody can read. *)
EXTENDS QueueClient
CONSTANTS m1, m2, m3
MCMessages == {m1, m2, m3}
MCPoison == {m3}
=============================================================================
