CONSTANTS
    m1 = m1  m2 = m2  u1 = u1  start = start  k1 = k1  k2 = k2  g1 = g1  g2 = g2
    h1 = h1  h2 = h2  p1 = p1  s1 = s1
    Pending = Pending
    Idle = Idle
    Messages = {m1, m2}
    Users = {u1}
    Start = start
    MaxStreams = 2
    MaxNow = 2
    MayReject = TRUE
    Calls = {k1, k2}
    Games = {g1, g2}
    Milestone = 2
    MaxDeathStreams = 3
    MaxDeaths = 3
    Handlers = {h1, h2}
    Gifters = {s1}
    MaxNotices = 3
    MaxGift = 2
    Nobody = Nobody
    Free = Free
    Pairs = {p1}
    Tags = {3, 4}
    MaxWrites = 2
    None = None
    MaxDays = 1600
SPECIFICATION RecordsSpec
SYMMETRY Symmetry
INVARIANTS RecordsTypeOK OutdatedIsBounded SavedIsNotGreeted
    CountsAgree FirstSaidOnce LastStreamIsPrevious
    GiftsAddUp GiftsHaveTheirGiver LastSubIsLatest
    RestorePointIsComplete PendingCanRun AgesAddUp
PROPERTY RemovedStaysRemoved
CHECK_DEADLOCK FALSE
