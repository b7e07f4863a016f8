--------------------------- MODULE MCHookDelivery ---------------------------
(* A small instance of HookDelivery for TLC.                               *)
EXTENDS HookDelivery

CONSTANTS h1, h2, d1, d2, d3

MCHook == {h1, h2}
MCProc == {d1, d2, d3}
=============================================================================
