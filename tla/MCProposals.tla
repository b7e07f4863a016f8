---------------------------- MODULE MCProposals -----------------------------
(* A small instance of Proposals for TLC: one proposal, one admin thread,  *)
(* the daemon and the command line.                                        *)
EXTENDS Proposals

MCProc == {"daemon", "cli"}
=============================================================================
