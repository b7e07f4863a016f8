CONSTANTS
    c1 = c1
    r1 = r1
    r2 = r2
    x1 = x1
    x2 = x2
    k1 = k1
    NoKey = NoKey
    Missing = Missing
    None = None
    Call <- MCCall
    Rule <- MCRule
    Text <- MCText
    Key <- MCKey
    Watch = FALSE
    Change = {"restart", "delete", "key", "race", "broken", "unwritable"}
SPECIFICATION Spec
SYMMETRY MCSymmetry
INVARIANTS UnsignedNeverDecides EnforcedIsApproved HeldIsShown
PROPERTY NoSilentWeakening
