------------------------------- MODULE MCHealth -------------------------------
(* One check and a short clock for TLC. *)
EXTENDS HealthMonitor, TLC

CONSTANT c1
===============================================================================
