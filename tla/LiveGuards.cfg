CONSTANTS
    b1 = b1
    b2 = b2
    t1 = t1
    o1 = o1
    NoOutput = NoOutput
    None = None
    Bucket <- MCBucket
    Tool <- MCTool
    Output <- MCOutput
    Reads <- MCReads
    Logged <- MCLogged
    MaxSeq = 3
    MaxGen = 2
SPECIFICATION Spec
INVARIANTS ReusedAsRebuilt DroppedOnlyWithConversation KeptIsPast

