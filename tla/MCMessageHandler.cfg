SPECIFICATION Spec
CONSTANTS
    m1 = m1
    m2 = m2
    m3 = m3
    owner = owner
    sub = sub
    viewer = viewer
    drink = drink
    socials = socials
    k1 = k1
    k2 = k2
    DrinkTimeout = 3
    Messages = {m1, m2, m3}
    Users = {owner, sub, viewer}
    Commands = {drink, socials}
    Buckets = {k1, k2}
    NoCall = NoCall
    RolesOf <- MCRolesOf
    Permits <- MCPermits
    Restriction <- MCRestriction
    Timeout <- MCTimeout
    BucketsOf <- MCBucketsOf
    ClockStep = 750
    MaxNow = 3000
    MaxFlips = 1
CHECK_DEADLOCK FALSE
SYMMETRY Symmetry
INVARIANTS
    RestrictionHoldsUnlessFlipped
    TypeOK
    OneEntryPerBucket
    TimerIsLatestExecution
    CooldownSpacing
    WholeWaitSuffices
