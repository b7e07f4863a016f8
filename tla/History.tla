------------------------------ MODULE History ------------------------------
(***************************************************************************)
(* What a conversation's durable history promises its readers, whatever    *)
(* happens to the process that keeps it: calls are added at the end,  an   *)
(* output goes to the latest call of its bucket and tool that has none,    *)
(* and nothing else changes it short of forgetting the conversation.       *)
(***************************************************************************)
EXTENDS Sequences, Naturals

CONSTANTS Bucket, Tool, Output, NoOutput

VARIABLE hist   \* the calls, oldest first

Call == [bucket : Bucket, tool : Tool, content : Output \cup {NoOutput}]

Open(b, t) == {i \in DOMAIN hist :
                  hist[i] = [bucket |-> b, tool |-> t, content |-> NoOutput]}

Init == hist \in Seq(Call)

Admit(b, t) == hist' = Append(hist, [bucket |-> b, tool |-> t, content |-> NoOutput])

Answer(b, t, o) ==
    \E i \in Open(b, t) :
        /\ \A j \in Open(b, t) : j <= i
        /\ hist' = [hist EXCEPT ![i].content = o]

\* Forgetting is complete: no later call inherits a part of the old history.
Forget == hist' = <<>>

\* An expired conversation is replaced by the one its next call starts.
Restart(b, t) == hist' = <<[bucket |-> b, tool |-> t, content |-> NoOutput]>>

Next ==
    \/ \E b \in Bucket, t \in Tool : Admit(b, t) \/ Restart(b, t)
    \/ \E b \in Bucket, t \in Tool, o \in Output : Answer(b, t, o)
    \/ Forget

Spec == Init /\ [][Next]_hist
=============================================================================
