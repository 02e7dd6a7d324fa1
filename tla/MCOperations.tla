----------------------------- MODULE MCOperations -----------------------------
(* The process with the overlay page for TLC: the socket server runs from the  *)
(* start of main to the end of the process, and a page is open all the time.   *)
EXTENDS BotProcess

CONSTANTS r1, main, s1, s2, Sockets, NoSocket, First, MaxRetryCount

ASSUME PageAssumption ==
    First \in Sockets /\ NoSocket \notin Sockets /\ MaxRetryCount \in Nat

VARIABLES ws, connecting, openTo, handled, retrying, retryCount, status, misplaced

\* SocketServer.startServer.
instance == IF phase \in Running THEN boots ELSE 0

Page == INSTANCE Overlay

page == <<ws, connecting, openTo, handled, retrying, retryCount, status, misplaced>>
allVars == <<vars, page>>

OperationsInit == Init /\ Page!Init

OperationsNext == (Next /\ UNCHANGED page) \/ (UNCHANGED vars /\ Page!Next)

OperationsSpec ==
    OperationsInit /\ [][OperationsNext]_allVars /\ Fairness /\ Page!Fairness

OperationsTypeOK == TypeOK /\ Page!TypeOK
PageReconnects == Page!PageReconnects
OneInterval == Page!OneInterval
=============================================================================
