------------------------------- MODULE MCRabbit -------------------------------
(* Concurrent emits over a few sessions for TLC. *)
EXTENDS RabbitPublisher, TLC

CONSTANTS e1, e2, r1, r2, r3
===============================================================================
