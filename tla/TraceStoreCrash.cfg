CONSTANTS
    b1 = b1
    b2 = b2
    t1 = t1
    o1 = o1
    o2 = o2
    NoOutput = NoOutput
    Bucket <- MCBucket
    Tool <- MCTool
    Output <- MCOutput
    Legacy <- MCLegacy
    Fault = {"failCall"}
    MaxSeq = 3
    MaxLines = 5
SPECIFICATION Spec
INVARIANTS RestartKeepsHistory GapFree
PROPERTIES ImplementsHistory CallsNeverRewritten
