CONSTANTS
    c1 = c1
    r1 = r1
    r2 = r2
    x1 = x1
    x2 = x2
    k1 = k1
    NoKey = NoKey
    Missing = Missing
    None = None
    Call <- MCCall
    Rule <- MCRule
    Text <- MCTexts
    Key <- MCKey
    Watch = FALSE
    Change = {"restart"}
SPECIFICATION FloorSpec
INVARIANT DeniedUntilReload
