-------------------------------- MODULE Overlay --------------------------------
(***************************************************************************)
(* The overlay page and its socket server: how the page connects again     *)
(* after the server went away.  The server is seen here as its instance: 0 *)
(* while there is none, and another number after each start.               *)
(*                                                                         *)
(* The browser reports the end of a socket only to the handlers it has.    *)
(* They are set on the newest socket when any of them opens, and the       *)
(* interval makes another every two seconds, whether the last attempts     *)
(* have ended or not.                                                      *)
(***************************************************************************)
EXTENDS Naturals

CONSTANTS
    Sockets,
    NoSocket,       \* null
    First,          \* the socket made when the page was loaded
    MaxRetryCount   \* maxRetryCount

VARIABLES
    instance,   \* the server's instance, which is not the page's to change
    ws,         \* the newest socket, or null
    connecting, \* sockets that are being opened
    openTo,     \* the instance each socket is open to, or 0
    handled,    \* sockets with onmessage and onclose
    retrying,   \* reconnectInterval is running
    retryCount,
    status,     \* what the page shows
    misplaced   \* history: the last socket to open set its handlers on a dead one

page == <<ws, connecting, openTo, handled, retrying, retryCount, status, misplaced>>
vars == <<instance, page>>

TypeOK ==
    /\ ws \in Sockets \cup {NoSocket}
    /\ connecting \subseteq Sockets /\ handled \subseteq Sockets
    /\ openTo \in [Sockets -> Nat] /\ \A s \in connecting : openTo[s] = 0
    /\ {retrying, misplaced} \subseteq BOOLEAN /\ retryCount \in 0..MaxRetryCount
    /\ status \in {"connected", "disconnected"}

Init ==
    /\ ws = First /\ connecting = {First}
    /\ openTo = [s \in Sockets |-> 0] /\ handled = {}
    /\ retrying = FALSE /\ retryCount = 0
    /\ status = "disconnected" /\ misplaced = FALSE

-----------------------------------------------------------------------------

Open(s) ==
    /\ s \in connecting /\ instance # 0
    /\ connecting' = connecting \ {s}
    /\ openTo' = [openTo EXCEPT ![s] = instance]
    /\ status' = "connected"
    /\ retryCount' = 0
    /\ misplaced' = ~(ws \in connecting \/ (ws # NoSocket /\ openTo[ws] # 0))
    /\ UNCHANGED <<instance, ws>>

\* The handlers are set on the newest socket; if that is null, onOpenHandler throws.
SetHandlers == handled' = handled \cup ({ws} \ {NoSocket})

OpenedWithoutClearing(s) == Open(s) /\ SetHandlers /\ UNCHANGED retrying

OpenedWithoutHandlers(s) ==
    Open(s) /\ retrying' = FALSE /\ IF retrying THEN UNCHANGED handled ELSE SetHandlers

\* onOpenHandler, for whichever socket.
Opened(s) == Open(s) /\ retrying' = FALSE /\ SetHandlers

\* onCloseHanlder, if it has been set on the socket.
OnClose(s) ==
    /\ handled' = handled \ {s}
    /\ status' = IF s \in handled THEN "disconnected" ELSE status
    /\ IF s \in handled /\ retryCount < MaxRetryCount
       THEN ws' = NoSocket /\ retrying' = TRUE
       ELSE UNCHANGED <<ws, retrying>>

Refused(s) ==
    /\ s \in connecting /\ instance = 0
    /\ connecting' = connecting \ {s}
    /\ OnClose(s)
    /\ UNCHANGED <<instance, openTo, retryCount, misplaced>>

\* A socket to an instance that has ended.
Closed(s) ==
    /\ openTo[s] \notin {0, instance}
    /\ openTo' = [openTo EXCEPT ![s] = 0]
    /\ OnClose(s)
    /\ UNCHANGED <<instance, connecting, retryCount, misplaced>>

\* createWebSocket makes a socket that is neither opening nor open.
CreateWebSocket(s) ==
    /\ s \notin connecting /\ openTo[s] = 0
    /\ ws' = s /\ connecting' = connecting \cup {s}
    /\ status' = "disconnected"
    /\ UNCHANGED <<instance, openTo, handled, retrying, misplaced>>

RetryOnceMore(s) ==
    /\ retrying /\ retryCount <= MaxRetryCount
    /\ retryCount' = retryCount + 1
    /\ CreateWebSocket(s)

\* The interval fires: another attempt, or the end of them.
Retry(s) ==
    /\ retrying /\ retryCount < MaxRetryCount
    /\ retryCount' = retryCount + 1
    /\ CreateWebSocket(s)

GiveUp ==
    /\ retrying /\ retryCount = MaxRetryCount
    /\ retrying' = FALSE
    /\ UNCHANGED <<instance, ws, connecting, openTo, handled, retryCount, status, misplaced>>

-----------------------------------------------------------------------------

Next ==
    \/ \E s \in Sockets : Opened(s) \/ Refused(s) \/ Closed(s) \/ Retry(s)
    \/ GiveUp

\* The browser ends an attempt, tells of a closed socket, and runs its timers.
Fairness == WF_vars(Next)

-----------------------------------------------------------------------------
(* Properties.                                                             *)

Connected ==
    ws # NoSocket /\ openTo[ws] # 0 /\ openTo[ws] = instance /\ ws \in handled

GaveUp == ~retrying /\ connecting = {} /\ retryCount = MaxRetryCount

\* A page that was once connected is connected again after the server returned,
\* however its attempts overlap, unless all of them failed before that, or one that
\* was no longer the newest opened when the newest had ended or there was none: its
\* handlers are then on a dead socket, no interval runs, and nothing tells the page
\* that the socket it has is closed.
PageReconnects ==
    (status = "connected" \/ retrying) ~> (Connected \/ GaveUp \/ instance = 0 \/ misplaced)

\* No interval starts while another runs: the reference to that would be lost, and
\* it would make sockets for as long as the page is open.
OneInterval == [][\A s \in handled \ handled' : ~retrying]_vars
=============================================================================
