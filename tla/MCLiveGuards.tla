---------------------------- MODULE MCLiveGuards ----------------------------
(* Small instances of LiveGuards for TLC.                                  *)
EXTENDS LiveGuards

CONSTANTS b1, b2, t1, o1

MCBucket == {b1, b2}
MCReads == {b1}
MCTool == {t1}
MCOutput == {o1}

\* A new conversation; one call; and two of which the first was lost with
\* its line: a gap in the numbers.
MCLogged ==
    {NewConversation,
     [events |-> <<[bucket |-> b1, tool |-> t1, seq |-> 0, content |-> NoOutput]>>,
      attaches |-> <<>>, nextSeq |-> 1],
     [events |-> <<[bucket |-> b2, tool |-> t1, seq |-> 1, content |-> o1]>>,
      attaches |-> <<[at |-> 1, content |-> o1]>>, nextSeq |-> 2]}
=============================================================================
