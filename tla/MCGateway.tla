----------------------------- MODULE MCGateway -----------------------------
(* Small instances of Gateway for TLC, and a sentence of the documents     *)
(* that the code does not keep.                                            *)
EXTENDS Gateway

CONSTANTS c1, c2, s1

MCCaller == {c1, c2}
MCSession == {s1}
MCSessionOf == [c \in MCCaller |-> s1]

\* "A server whose entry changed or went away is stopped" (daemon.md,
\* docstring of upstreams): once every call is over and every close done,
\* no process runs but the current server's.
ReplacedIsStopped ==
    /\ \A c \in Caller : thread[c].pc = "over"
    /\ closing = [objects |-> {}, kills |-> {}]
    => \A p \in 1 .. Len(server) : server[p].alive => server[p].of = up
=============================================================================
