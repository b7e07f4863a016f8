---------------------------- MODULE Conversation ----------------------------
(***************************************************************************)
(* One conversation of the daemon's trace store, as data                   *)
(* (sponsio/daemon/guard_service.py, _Conversation and the static helpers  *)
(* of MemoryTraceStore).  A conversation is the list of admitted calls,    *)
(* each in the bucket (contract library) that decided it, the outputs      *)
(* attached to them, and the number the next call gets.                    *)
(*                                                                         *)
(* Abstractions.  Event arguments, agents and timestamps are left out: no  *)
(* operation of the store reads them.  Every event the daemon appends is a *)
(* tool_call, so the test on the event type is left out as well.           *)
(***************************************************************************)
EXTENDS Integers, Sequences

CONSTANTS
    Bucket,     \* contract libraries that admit calls into the conversation
    Tool,       \* tool names
    Output,     \* texts a post-event may attach to a call
    NoOutput    \* content of a call no output was attached to

ASSUME NoOutputAssumption == NoOutput \notin Output

\* The seq of a logged event written before seq existed.  Below every
\* number, so "not an int, or lower than next_seq" is one comparison.
NoSeq == -1

Event == [bucket : Bucket, tool : Tool, seq : Nat, content : Output \cup {NoOutput}]

Attached == [at : Nat \ {0}, content : Output]

Memory == [events : Seq(Event), attaches : Seq(Attached), nextSeq : Nat]

NewConversation == [events |-> <<>>, attaches |-> <<>>, nextSeq |-> 0]

\* The calls of a bucket to a tool that wait for an output.
Unanswered(evs, b, t) ==
    {i \in DOMAIN evs : /\ evs[i].bucket = b
                        /\ evs[i].tool = t
                        /\ evs[i].content = NoOutput}

\* Mutants for LatestUnanswered: the search runs forward; the bucket and
\* the missing output are not tested.
EarliestUnanswered(evs, b, t) ==
    {i \in Unanswered(evs, b, t) : \A j \in Unanswered(evs, b, t) : i <= j}

AnyBucketUnanswered(evs, b, t) ==
    LET open == {i \in DOMAIN evs : evs[i].tool = t}
    IN {i \in open : \A j \in open : j <= i}

\* The one an output goes to: the latest.  Empty when there is none.
LatestUnanswered(evs, b, t) ==
    {i \in Unanswered(evs, b, t) : \A j \in Unanswered(evs, b, t) : j <= i}

\* The conversation after the output is attached to call i.
WithOutput(m, i, o) ==
    [events   |-> [m.events EXCEPT ![i] = [@ EXCEPT !.content = o]],
     attaches |-> Append(m.attaches, [at |-> i, content |-> o]),
     nextSeq  |-> m.nextSeq]

\* _apply_attach: unchanged when no call waits for the output.
ApplyAttach(m, b, t, o) ==
    LET S == LatestUnanswered(m.events, b, t)
    IN IF S = {} THEN m ELSE WithOutput(m, CHOOSE i \in S : TRUE, o)

\* Mutant for WithEvent: the counter counts events instead of following
\* their numbers.
WithEventKeepingNumber(m, b, t, n, o) ==
    [events   |-> Append(m.events, [bucket |-> b, tool |-> t, seq |-> n, content |-> o]),
     attaches |-> m.attaches,
     nextSeq  |-> m.nextSeq + 1]

\* The conversation with one more event, numbered n.
WithEvent(m, b, t, n, o) ==
    [events   |-> Append(m.events, [bucket |-> b, tool |-> t, seq |-> n, content |-> o]),
     attaches |-> m.attaches,
     nextSeq  |-> n + 1]
=============================================================================
