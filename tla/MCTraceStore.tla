---------------------------- MODULE MCTraceStore ----------------------------
(* Small instances of TraceStore for TLC.                                  *)
EXTENDS TraceStoreRestart

CONSTANTS b1, b2, t1, o1, o2

MCBucket == {b1, b2}
MCTool == {t1}
MCOutput == {o1, o2}

\* Logs from before seq existed: none, one call, two calls of which the
\* later has its output.
MCLegacy ==
    {<<>>,
     <<EventLine(b1, t1, NoSeq, NoOutput)>>,
     <<EventLine(b1, t1, NoSeq, NoOutput), EventLine(b1, t1, NoSeq, NoOutput),
       AttachLine(b1, t1, o1)>>}
=============================================================================
