-------------------------- MODULE TraceStoreRestart --------------------------
(***************************************************************************)
(* What a restart of the daemon makes of the log, compared with what the   *)
(* store had in memory, and the abstract history the log implements.       *)
(***************************************************************************)
EXTENDS TraceStore

\* The conversation that replaying lines builds.  The bound x makes TLC
\* evaluate the shorter replay once.
Replay(lines) ==
    LET replay[n \in 0 .. Len(lines)] ==
            IF n = 0 THEN NewConversation
            ELSE CHOOSE m \in {Replayed(x, lines[n]) : x \in {replay[n - 1]}} : TRUE
    IN replay[Len(lines)]

\* The conversation load would build from the file as it is now.
Restored == Replay(wal.lines)

(***************************************************************************)
(* A restart restores what memory has: every call, in order and with its   *)
(* number, and every output, on the call memory has it on ("every append   *)
(* is written ... before it is acknowledged", "seq survives a restart",    *)
(* "a restart restores every live conversation").  Not claimed while the   *)
(* file is known to be short: it is rewritten when the next record is due. *)
(***************************************************************************)
RestartKeepsHistory ==
    mode = "up" /\ ~wal.short => Restored.events = conv.events

\* The file can restore every call memory has, in order and with its number,
\* or is known to be short and is rewritten when the next record is due.
Restorable ==
    LET Calls(evs) == [i \in DOMAIN evs |-> [evs[i] EXCEPT !.content = NoOutput]]
    IN wal.short \/ Calls(Restored.events) = Calls(conv.events)

\* Through torn lines, cuts by others and writes that raise, a daemon serves
\* with a log that can restore every call, and none of its operations loses
\* one, unless it continues the part of a line that an earlier process left
\* at the end of the file (_write does not look at the last line).
Inherited == wal.torn /\ ~wal.short

DamageLosesNoCall ==
    [][mode' = "up" /\ (mode = "up" => Restorable /\ ~Inherited) => Restorable']_vars

\* While the daemon serves, a known conversation changes only by a call at
\* the end, an output on a call that had none, or by being dropped whole.
CallsNeverRewritten ==
    [][mode = "up" /\ mode' = "up" /\ known /\ known' =>
          \/ idle
          \/ /\ Len(conv.events) <= Len(conv'.events)
             /\ \A i \in DOMAIN conv.events :
                   \/ conv'.events[i] = conv.events[i]
                   \/ /\ conv.events[i].content = NoOutput
                      /\ [conv'.events[i] EXCEPT !.content = NoOutput] = conv.events[i]
      ]_vars

\* The durable history is the replay of the log.
Content(evs) == [i \in DOMAIN evs |-> [bucket |-> evs[i].bucket, tool |-> evs[i].tool,
                                        content |-> evs[i].content]]

Durable == CHOOSE h \in {Content(evs) : evs \in {Restored.events}} : TRUE

H == INSTANCE History WITH hist <- Durable

\* The log implements the abstract history through failing writes, crashes
\* at every point, restarts and expiry: a restart is a stuttering step.
ImplementsHistory == H!Spec
=============================================================================
