CONSTANTS
    c1 = c1
    c2 = c2
    s1 = s1
    None = None
    Gone = Gone
    Caller <- MCCaller
    Session <- MCSession
    SessionOf <- MCSessionOf
    MaxUp = 2
    MaxProc = 2
SPECIFICATION Spec
INVARIANT ReplacedIsStopped
CHECK_DEADLOCK FALSE
