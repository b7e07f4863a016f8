CONSTANTS
    Aliases <- MCAliases
    Perms <- MCPerms
    Finds <- MCFinds
    Thread <- MCThread
    Books <- MCBooks
    Evaluate <- EvaluateRec
    Temporal <- TemporalRec
    AggregatesOf <- AggregatesRec
    Simplify <- SimplifyRec
    Progress <- ProgressRec
    Finalize <- FinalizeRec
SPECIFICATION Spec
INVARIANTS TypeOK CachesAgree HistoryIsAdmitted GroundedIsHistory PatternMeaning
PROPERTIES AdmittedKeepsRules BlockedHasCause ReportsAllPending
CHECK_DEADLOCK FALSE
