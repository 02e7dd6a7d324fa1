CONSTANTS
    m1 = m1  m2 = m2  u1 = u1  start = start
    Pending = Pending
    Idle = Idle
    Messages = {m1}
    Users = {u1}
    Start = start
    MaxStreams = 2
    MaxNow = 2
    MayReject = FALSE
SPECIFICATION Spec
INVARIANT GreetedOnce
CHECK_DEADLOCK FALSE
