CONSTANTS
    Proposal = {"p1"}
    Admin = {"admin"}
    Sync = "sync"
    Agent = "agent"
    Daemon = "daemon"
    Proc <- MCProc
    MaxLines = 3
    MaxId = 3
    MaxGap = 1
SPECIFICATION Spec
INVARIANTS AppliedOnce ChainUnbroken CutIsSeen HeldIsFound
CHECK_DEADLOCK FALSE
