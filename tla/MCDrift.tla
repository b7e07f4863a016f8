------------------------------ MODULE MCDrift -------------------------------
(* A small instance of Drift for TLC: the poll, the thread that runs the   *)
(* daemon and one that decides calls.                                      *)
EXTENDS Drift

MCProducer == {"watch", "main", "call"}
=============================================================================
