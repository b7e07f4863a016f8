CONSTANTS
    h1 = h1
    h2 = h2
    d1 = d1
    d2 = d2
    d3 = d3
    None = None
    Hook <- MCHook
    Proc <- MCProc
    First = d1
SPECIFICATION Spec
INVARIANTS OneServes RunsAreRecorded MemoryIsLogged
PROPERTY EveryHookAnswers
CHECK_DEADLOCK FALSE
