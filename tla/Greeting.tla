------------------------------- MODULE Greeting -------------------------------
(***************************************************************************)
(* Who is greeted: JoinGreetingHandler, GreetUserService and its table of  *)
(* greeted users, over Broadcaster, which keeps Twitch's last answer for   *)
(* five minutes and decides which stream a greeting belongs to.            *)
(*                                                                         *)
(* Every await is a step of its own, so the calls of several messages      *)
(* interleave and Twitch's answers can arrive in another order than the    *)
(* requests were sent.  The time unit is the five minutes of the cache.    *)
(***************************************************************************)
EXTENDS Naturals, Sequences

CONSTANTS
    Messages,       \* the chat messages that can be in flight
    Users,          \* moderators and VIPs; nobody else is greeted
    Start,          \* ChatBot.start, which asks for the stream too
    MaxStreams, MaxNow, \* bounds
    MayReject,      \* whether a call to Twitch or the database may fail
    Pending, Idle   \* a request Twitch has not served; a slot not in use

ASSUME ConstantsAssumption ==
    /\ MaxStreams \in Nat \ {0} /\ MaxNow \in Nat
    /\ MayReject \in BOOLEAN
    /\ Start \notin Messages
    /\ Pending # Idle

VARIABLES
    now,
    current,    \* Twitch: the stream that is live, or NoStream
    begun,      \* Twitch: how many streams there have been
    stream,     \* Broadcaster.stream
    online,     \* Broadcaster.resetOnlineTimer is not null
    timers,     \* when the cache timers that have yet to fire are due
    asked,      \* each caller's request to Twitch
    isLive,     \* StreamStateService.isLive
    notified,   \* an EventSub event has yet to be handled
    session,    \* GreetUserService.greetedUsers
    rows,       \* greeted_user: who was saved for which stream
    call,       \* each message's greetIfEligible
    upset,      \* history: when the cache was last made out of date
    greeted     \* history: greetings of each user while isLive has been TRUE

twitch == <<current, begun>>
cache == <<stream, online, timers>>
service == <<session, rows, call, greeted>>
vars == <<now, twitch, cache, asked, isLive, notified, service, upset>>

NoStream == 0
CacheTime == 1          \* cachingTimeout
MaxGreeted == 2         \* more greetings than these count as these

Answers == 0..MaxStreams
Callers == Messages \cup {Start}

Call == [at : {"has", "query", "say", "save", "insert"}, user : Users,
         stream : Answers, known : BOOLEAN]

ASSUME SlotsAssumption == {Pending, Idle} \cap Answers = {} /\ Idle \notin Call

TypeOK ==
    /\ now \in 0..MaxNow /\ upset \in 0..MaxNow
    /\ begun \in Answers /\ current \in {NoStream, begun} /\ stream \in Answers
    /\ online \in BOOLEAN /\ isLive \in BOOLEAN /\ notified \in BOOLEAN
    /\ timers \in Seq(0..(MaxNow + CacheTime))
    /\ asked \in [Callers -> Answers \cup {Pending, Idle}]
    /\ session \subseteq Users /\ rows \subseteq (Users \X (1..MaxStreams))
    /\ call \in [Messages -> Call \cup {Idle}]
    /\ greeted \in [Users -> 0..MaxGreeted]
    /\ online => timers # <<>>

Init ==
    /\ now = 0 /\ begun \in {0, 1} /\ current = begun
    /\ stream = NoStream /\ online = FALSE /\ timers = <<>>
    /\ asked = [c \in Callers |-> IF c = Start THEN Pending ELSE Idle]
    /\ isLive = FALSE /\ notified = FALSE
    /\ session = {} /\ rows = {} /\ call = [m \in Messages |-> Idle]
    /\ upset = 0 /\ greeted = [u \in Users |-> 0]

-----------------------------------------------------------------------------
(* Twitch, the clock and the process.                                      *)

\* Events are sent only once ChatBot.start has started the listener.
StreamFlips ==
    /\ current # NoStream \/ begun < MaxStreams
    /\ begun' = IF current = NoStream THEN begun + 1 ELSE begun
    /\ current' = IF current = NoStream THEN begun + 1 ELSE NoStream
    /\ upset' = now
    /\ call' = [m \in Messages |-> IF call[m] = Idle THEN Idle ELSE [call[m] EXCEPT !.known = FALSE]]
    /\ notified' = (notified \/ asked[Start] = Idle)
    /\ UNCHANGED <<now, cache, asked, isLive, session, rows, greeted>>

Tick ==
    /\ now < MaxNow
    /\ \A i \in DOMAIN timers : timers[i] > now
    /\ now' = now + 1
    /\ UNCHANGED <<twitch, cache, asked, isLive, notified, service, upset>>

\* Everything but the table is lost, and the process starts again.
Crash ==
    /\ stream' = NoStream /\ online' = FALSE /\ timers' = <<>>
    /\ asked' = [c \in Callers |-> IF c = Start THEN Pending ELSE Idle]
    /\ isLive' = FALSE /\ notified' = FALSE /\ session' = {}
    /\ call' = [m \in Messages |-> Idle]
    /\ greeted' = [u \in Users |-> 0]
    /\ UNCHANGED <<now, twitch, rows, upset>>

-----------------------------------------------------------------------------
(* Broadcaster.                                                            *)

\* Twitch answers a request with the stream of that moment; the answer travels.
TwitchServes(c) ==
    /\ asked[c] = Pending
    /\ asked' = [asked EXCEPT ![c] = current]
    /\ UNCHANGED <<now, twitch, cache, isLive, notified, service, upset>>

StoreTwiceAsLong(c) ==
    /\ stream' = asked[c] /\ online' = TRUE
    /\ timers' = Append(timers, now + 2 * CacheTime)
    /\ upset' = IF asked[c] # current THEN now ELSE upset
    /\ asked' = [asked EXCEPT ![c] = Idle]

\* An answer arrives and starts a timer of its own, even when the answer to
\* another request has started one meanwhile.
Store(c) ==
    /\ stream' = asked[c] /\ online' = TRUE
    /\ timers' = Append(timers, now + CacheTime)
    /\ upset' = IF asked[c] # current THEN now ELSE upset
    /\ asked' = [asked EXCEPT ![c] = Idle]

CacheNeverReset ==
    /\ timers # <<>> /\ Head(timers) <= now
    /\ timers' = Tail(timers)
    /\ UNCHANGED <<now, twitch, stream, online, asked, isLive, notified, service, upset>>

CacheExpires ==
    /\ timers # <<>> /\ Head(timers) <= now
    /\ timers' = Tail(timers) /\ online' = FALSE
    /\ UNCHANGED <<now, twitch, stream, asked, isLive, notified, service, upset>>

-----------------------------------------------------------------------------
(* StreamStateService, as far as a greeting depends on it.                 *)

SetLive(live) ==
    /\ isLive' = live
    /\ greeted' = IF live = isLive THEN greeted ELSE [u \in Users |-> 0]

\* initialize takes the state from Broadcaster.isOnline.
Initialized ==
    /\ asked[Start] \in Answers
    /\ Store(Start)
    /\ SetLive(asked[Start] # NoStream)
    /\ UNCHANGED <<now, twitch, notified, session, rows, call>>

\* An EventSub event is handled some time after the stream has changed.
EventHandled ==
    /\ asked[Start] = Idle /\ notified /\ notified' = FALSE
    /\ SetLive(current # NoStream)
    /\ UNCHANGED <<now, twitch, cache, asked, session, rows, call, upset>>

\* The grace period after setOffline is over.
SessionCleared ==
    /\ ~isLive /\ session # {} /\ session' = {}
    /\ UNCHANGED <<now, twitch, cache, asked, isLive, notified, rows, call, upset, greeted>>

-----------------------------------------------------------------------------
(* greetIfEligible.                                                        *)

InFlight(m, at) == call[m] # Idle /\ call[m].at = at

\* hasUser ("has") and saveUser ("save") once getStream has given them s.
Resume(m, c, s) ==
    LET save == c.at = "save"
    IN  /\ session' = IF save /\ s # NoStream THEN session \cup {c.user} ELSE session
        /\ call' = [call EXCEPT ![m] =
                       CASE s # NoStream       -> [c EXCEPT !.at = IF save THEN "insert" ELSE "query",
                                                            !.stream = s]
                         [] s = NoStream /\ ~save -> [c EXCEPT !.at = "say", !.stream = s]
                         [] OTHER              -> Idle]

\* getStream: the cached stream, or a request to Twitch.
GetStream(m, c) ==
    IF online
    THEN Resume(m, c, stream) /\ UNCHANGED asked
    ELSE /\ asked' = [asked EXCEPT ![m] = Pending]
         /\ call' = [call EXCEPT ![m] = c]
         /\ UNCHANGED session

\* A message of an eligible user.  known: the user has been saved for the
\* current stream and the cache, if it is used, is not out of date.
MessageArrives(m, u) ==
    /\ isLive /\ call[m] = Idle
    /\ GetStream(m, [at |-> "has", user |-> u, stream |-> NoStream,
                     known |-> <<u, current>> \in rows /\ (online => stream = current)])
    /\ UNCHANGED <<now, twitch, cache, isLive, notified, rows, upset, greeted>>

StreamAnswered(m) ==
    /\ asked[m] \in Answers
    /\ Store(m) /\ Resume(m, call[m], asked[m])
    /\ UNCHANGED <<now, twitch, isLive, notified, rows, greeted>>

LookedUpInSession(m) ==
    /\ InFlight(m, "query")
    /\ LET found == call[m].user \in session /\ <<call[m].user, call[m].stream>> \in rows
       IN  call' = [call EXCEPT ![m] = IF found THEN Idle ELSE [@ EXCEPT !.at = "say"]]
    /\ UNCHANGED <<now, twitch, cache, asked, isLive, notified, session, rows, upset, greeted>>

\* The database answers hasUser.  The session only follows: with or without an
\* entry there, it is the row that decides.
LookedUp(m) ==
    /\ InFlight(m, "query")
    /\ LET found == <<call[m].user, call[m].stream>> \in rows
       IN  /\ call' = [call EXCEPT ![m] = IF found THEN Idle ELSE [@ EXCEPT !.at = "say"]]
           /\ session' = IF found THEN session \cup {call[m].user} ELSE session
    /\ UNCHANGED <<now, twitch, cache, asked, isLive, notified, rows, upset, greeted>>

\* The greeting is said; saveUser asks for the stream once more.
Greeted(m) ==
    /\ InFlight(m, "say")
    /\ greeted' = [greeted EXCEPT ![call[m].user] = IF @ < MaxGreeted THEN @ + 1 ELSE @]
    /\ GetStream(m, [call[m] EXCEPT !.at = "save"])
    /\ UNCHANGED <<now, twitch, cache, isLive, notified, rows, upset>>

Inserted(m) ==
    /\ InFlight(m, "insert")
    /\ rows' = rows \cup {<<call[m].user, call[m].stream>>}
    /\ call' = [call EXCEPT ![m] = Idle]
    /\ UNCHANGED <<now, twitch, cache, asked, isLive, notified, session, upset, greeted>>

\* Twitch, the chat or the database rejects: the rest of the call is skipped.
Rejects(m) ==
    /\ MayReject /\ call[m] # Idle
    /\ call' = [call EXCEPT ![m] = Idle] /\ asked' = [asked EXCEPT ![m] = Idle]
    /\ UNCHANGED <<now, twitch, cache, isLive, notified, session, rows, upset, greeted>>

-----------------------------------------------------------------------------

Next ==
    \/ StreamFlips \/ Tick \/ Crash \/ CacheExpires
    \/ \E c \in Callers : TwitchServes(c)
    \/ Initialized \/ EventHandled \/ SessionCleared
    \/ \E m \in Messages :
           \/ \E u \in Users : MessageArrives(m, u)
           \/ StreamAnswered(m) \/ LookedUp(m) \/ Greeted(m) \/ Inserted(m) \/ Rejects(m)

Spec == Init /\ [][Next]_vars

-----------------------------------------------------------------------------
(* Properties.                                                             *)

\* However refreshes overlap, with one overwriting the timer and the answer of
\* another, Broadcaster serves a stream that is not the current one for at most
\* the cache time after the stream flipped or the outdated answer arrived.
OutdatedIsBounded == online /\ stream # current => now <= upset + CacheTime

\* A user saved for the current stream who writes while the cache is not out of
\* date is not greeted again, unless the stream flips while the call is in
\* flight: not after a crash either, which empties the session.
SavedIsNotGreeted == \A m \in Messages : InFlight(m, "say") => ~call[m].known

\* join-greeting.handler.spec.ts:103 "Does not greet the same user twice in a
\* session".  It does not hold even when a user's messages are handled one after
\* the other: started before the stream, the bot has cached that there is none.
GreetedOnce == \A u \in Users : greeted[u] <= 1
=============================================================================
