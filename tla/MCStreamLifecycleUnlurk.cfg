CONSTANTS
    s1 = s1  s2 = s2  h1 = h1  h2 = h2  m1 = m1  m2 = m2  u1 = u1  u2 = u2
    NoTimer = NoTimer
    Idle = Idle
    Starts = {s1}
    Handlers = {h1, h2}
    Messages = {m1}
    Users = {u1}
    Epoch <- MCEpoch
    MaxTimerDelay <- MCMaxTimerDelay
    MaxNow = 5900002
    MaxFlips = 3
    MaxRepeats = 0
    MaxCrashes = 0
    MaxStarts = 1
    MaxLurks = 1
    MaxTimers = 8
    FaultKinds = {}
SPECIFICATION Spec
SYMMETRY Symmetry
PROPERTY UnlurkWaitsTenMinutes
CHECK_DEADLOCK FALSE
