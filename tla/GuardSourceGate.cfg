CONSTANTS
    Aliases <- MCAliases
    Perms <- MCPerms
    Finds <- MCFinds
    Thread <- MCThread
    Books <- MCGate
    Evaluate <- EvaluateRec
    Temporal <- TemporalRec
    AggregatesOf <- AggregatesRec
    Simplify <- SimplifyRec
    Progress <- ProgressRec
    Finalize <- FinalizeRec
SPECIFICATION Spec
INVARIANT SinksAreGated
CHECK_DEADLOCK FALSE
