SPECIFICATION Spec
CONSTANTS
    c1 = c1
    c2 = c2
    socials = socials
    hug = hug
    hello = hello
    HELLO = HELLO
    bye = bye
    Calls = {c1, c2}
    Ops = {"add"}
    Keys = {socials, hug}
    FamilyKeys = {socials}
    Texts = {hello, HELLO, bye}
    Fold <- MCFold
    InitialRows <- MCInitialRows
    MaxRows = 3
    NoEntry = NoEntry
    Hole = Hole
    Idle = Idle
INVARIANT CacheInSync
