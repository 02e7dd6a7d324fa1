CONSTANTS
    r1 = r1  main = main  s1 = s1  s2 = s2
    NoSocket = NoSocket
    Requests = {r1}
    Main = main
    MaxEnds = 2
    MaxTokens = 2
    Sockets = {s1, s2}
    First = s1
    MaxRetryCount = 2
SPECIFICATION OperationsSpec
INVARIANTS OperationsTypeOK TokenFileFollows InChatOnlyWhenDue
PROPERTIES StartsInTheEnd PageReconnects OneInterval
CHECK_DEADLOCK FALSE
