---------------------------- MODULE StreamLifecycle ----------------------------
(***************************************************************************)
(* What the bot does when the stream starts and stops: ChatBot's two       *)
(* EventSub callbacks, StreamEventHandler with its static timer reference, *)
(* StreamStateService with its grace timers, the lurk commands that read   *)
(* and write the same rows, and the end of the process.                    *)
(*                                                                         *)
(* ChatBot.start is called by main and by every /auth, so it may run again *)
(* in a process that has timers and events in flight, after a /revoke or   *)
(* not, and may read a stream Broadcaster has cached.                      *)
(*                                                                         *)
(* EventSub callbacks are not awaited by their caller, so the handlers of  *)
(* two events interleave at their database calls; a database answer and    *)
(* the code that resumes on it are one step.                               *)
(*                                                                         *)
(* The time unit is five minutes, the largest one both delays are whole    *)
(* in.  now counts from the Unix epoch, as Date does.                      *)
(***************************************************************************)
EXTENDS Naturals, Sequences, FiniteSetsExt

CONSTANTS
    Starts,         \* the calls of ChatBot.start that can be in flight
    Handlers,       \* the event handlers that can be in flight
    Messages,       \* the lurk commands that can be in flight
    Users,          \* who lurks
    Epoch,          \* the time the behaviour starts at
    MaxTimerDelay,  \* Node's TIMEOUT_MAX, 2^31 - 1 ms, in whole units
    MaxNow, MaxFlips, MaxRepeats, MaxCrashes, MaxStarts, MaxLurks, MaxTimers,  \* bounds
    FaultKinds,     \* the calls that may reject
    NoTimer,        \* null, as a timer reference
    Idle            \* a handler or message slot not in use

ASSUME ConstantsAssumption ==
    /\ {Epoch, MaxTimerDelay, MaxNow, MaxFlips, MaxRepeats, MaxCrashes, MaxStarts, MaxLurks,
        MaxTimers} \subseteq Nat
    /\ Epoch \in 1..MaxNow
    /\ FaultKinds \subseteq {"fetch", "lookup", "cleanup", "save", "sweep"}

VARIABLES
    now,
    live,       \* Twitch: is the stream live
    notices,    \* EventSub notifications not yet delivered, oldest first
    listener,   \* the EventSub listener: "off", "starting" or "up"
    start,      \* where each call of start stands, with Twitch's answer on its way
    cache,      \* Broadcaster: the stream it has cached, and until when
    isLive,     \* StreamStateService.isLive
    pending,    \* pendingOfflineTimers that have not fired: when they are due
    ref,        \* StreamEventHandler.clearTimeoutRef
    sweepFailed,\* history: the sweep of the timer ref is set to was rejected
    armed,      \* the unlurk timers Node has yet to fire
    event,      \* where each handler in flight stands
    command,    \* where each lurk command in flight stands
    streams,    \* stream_event_record: each row's endDate
    lurks,      \* lurking_user
    spell,      \* history: since when isLive has its value, the grace timers left from before,
                \* and the sessions cleared since
    inOrder,    \* history: the last start took the state Twitch was in, and nothing has upset
                \* the order of events since
    used        \* bounds: flips, repeats, crashes, and starts of this process

twitch == <<live, notices, listener, used>>
bot == <<start, cache>>
service == <<isLive, pending, spell>>
timers == <<ref, armed, sweepFailed>>
tables == <<streams, lurks>>
vars == <<now, twitch, bot, service, timers, event, command, tables, inOrder>>

NoEnd == 0              \* a null endDate or endTime
GracePeriod == 1        \* 300_000 ms
CacheTime == 1          \* cachingTimeout
UnlurkDelay == 2        \* ten minutes

Times == Epoch..MaxNow
Ends == Times \cup {NoEnd}
Timer == [id : 1..MaxTimers, endTime : Times, due : Nat]
Event == [at : {"lookup", "cleanup", "saveStart", "saveEnd"}, endTime : Ends]
Command == [at : {"find", "create", "unlurk"}, user : Users]
NotCached == [stream |-> FALSE, until |-> 0]

ASSUME SlotsAssumption == Idle \notin Event \cup Command /\ NoTimer \notin Timer

TypeOK ==
    /\ now \in Times
    /\ live \in BOOLEAN /\ isLive \in BOOLEAN /\ inOrder \in BOOLEAN /\ sweepFailed \in BOOLEAN
    /\ notices \in Seq({"online", "offline"})
    /\ listener \in {"off", "starting", "up"}
    /\ start \in [Starts -> {"idle", "asking", "live", "offline"}]
    /\ cache \in [stream : BOOLEAN, until : Nat]
    /\ pending \in Seq(Nat)
    /\ armed \subseteq Timer /\ ref \in Timer \cup {NoTimer}
    /\ event \in [Handlers -> Event \cup {Idle}]
    /\ command \in [Messages -> Command \cup {Idle}]
    /\ streams \in Seq(Ends)
    /\ lurks \in Seq([user : Users, createdAt : Times, endTime : Ends]) /\ Len(lurks) <= MaxLurks
    /\ spell \in [since : Times, left : Nat, clears : Nat]
    /\ used \in [flips : 0..MaxFlips, repeats : 0..MaxRepeats, crashes : 0..MaxCrashes,
                 starts : 0..MaxStarts]

-----------------------------------------------------------------------------
(* The tables.                                                             *)

OpenLurks == {i \in DOMAIN lurks : lurks[i].endTime = NoEnd}

EndDates == {streams[i] : i \in DOMAIN streams} \ {NoEnd}

\* getLastStream: the latest endDate, if any stream has ended.
LastEnd == IF EndDates = {} THEN NoEnd ELSE Max(EndDates)

\* The update of setAllUsersToUnlurk and setUserToUnlurk.
EndLurks(ids, endTime) ==
    lurks' = [i \in DOMAIN lurks |->
                 IF i \in ids THEN [lurks[i] EXCEPT !.endTime = endTime] ELSE lurks[i]]

Init ==
    /\ now = Epoch
    /\ live \in BOOLEAN /\ notices = <<>> /\ listener = "off"
    /\ start = [s \in Starts |-> "idle"] /\ cache = NotCached
    /\ isLive = FALSE /\ pending = <<>>
    /\ ref = NoTimer /\ armed = {} /\ sweepFailed = FALSE
    /\ event = [h \in Handlers |-> Idle] /\ command = [m \in Messages |-> Idle]
    /\ streams = <<>> /\ lurks = <<>>
    /\ spell = [since |-> Epoch, left |-> 0, clears |-> 0]
    /\ inOrder = FALSE
    /\ used = [flips |-> 0, repeats |-> 0, crashes |-> 0, starts |-> 0]

-----------------------------------------------------------------------------
(* Twitch, the process and the clock.                                      *)

\* The stream starts or stops.  Nobody is told unless the listener is up.
StreamFlips ==
    /\ used.flips < MaxFlips
    /\ used' = [used EXCEPT !.flips = @ + 1]
    /\ live' = ~live
    /\ notices' = IF listener = "up" THEN Append(notices, IF live THEN "offline" ELSE "online")
                                     ELSE notices
    /\ inOrder' = (inOrder /\ listener = "up")
    /\ UNCHANGED <<now, listener, bot, service, timers, event, command, tables>>

\* The process ends, and with it its timers and everything in flight.
ProcessEnds ==
    /\ listener' = "off" /\ notices' = <<>>
    /\ start' = [s \in Starts |-> "idle"] /\ cache' = NotCached
    /\ isLive' = FALSE /\ pending' = <<>> /\ spell' = [since |-> now, left |-> 0, clears |-> 0]
    /\ ref' = NoTimer /\ armed' = {} /\ sweepFailed' = FALSE
    /\ event' = [h \in Handlers |-> Idle] /\ command' = [m \in Messages |-> Idle]
    /\ inOrder' = FALSE
    /\ UNCHANGED <<now, live, tables>>

Crash ==
    /\ used.crashes < MaxCrashes
    /\ used' = [used EXCEPT !.crashes = @ + 1, !.starts = 0]
    /\ ProcessEnds

\* Node runs a timer that is due before the clock moves on.
Tick ==
    /\ now < MaxNow
    /\ \A t \in armed : t.due > now
    /\ \A i \in DOMAIN pending : pending[i] > now
    /\ cache # NotCached => cache.until > now
    /\ now' = now + 1
    /\ UNCHANGED <<twitch, bot, service, timers, event, command, tables, inOrder>>

-----------------------------------------------------------------------------
(* ChatBot.start and Broadcaster.                                          *)

NothingHandled == notices = <<>> /\ \A h \in Handlers : event[h] = Idle

\* initialize takes the state over and leaves the grace timers as they are; then
\* the listener starts, if it has not.
Initialized(stream) ==
    /\ isLive' = stream /\ UNCHANGED pending
    /\ spell' = IF stream = isLive THEN spell
                ELSE [since |-> now, left |-> Len(pending), clears |-> 0]
    /\ listener' = IF listener = "off" THEN "starting" ELSE listener
    /\ inOrder' = (stream = live /\ (inOrder \/ NothingHandled))

\* start, called by main or by /auth, to isOnline, which asks Twitch unless a
\* stream is cached.
StartBegins(s) ==
    /\ start[s] = "idle" /\ used.starts < MaxStarts
    /\ used' = [used EXCEPT !.starts = @ + 1]
    /\ \/ /\ cache = NotCached
          /\ start' = [start EXCEPT ![s] = "asking"]
          /\ UNCHANGED <<listener, service, inOrder>>
       \/ /\ cache # NotCached /\ Initialized(cache.stream)
          /\ UNCHANGED start
    /\ UNCHANGED <<now, live, notices, cache, timers, event, command, tables>>

TwitchAnswers(s) ==
    /\ start[s] = "asking"
    /\ start' = [start EXCEPT ![s] = IF live THEN "live" ELSE "offline"]
    /\ UNCHANGED <<now, twitch, cache, service, timers, event, command, tables, inOrder>>

Initialize(s) ==
    /\ start[s] \in {"live", "offline"}
    /\ start' = [start EXCEPT ![s] = "idle"]
    /\ cache' = [stream |-> start[s] = "live", until |-> now + CacheTime]
    /\ Initialized(start[s] = "live")
    /\ UNCHANGED <<now, live, notices, used, timers, event, command, tables>>

\* /auth catches the rejection.  That of main ends the process: see Crash.
StartRejects(s) ==
    /\ "fetch" \in FaultKinds /\ start[s] = "asking"
    /\ start' = [start EXCEPT ![s] = "idle"]
    /\ UNCHANGED <<now, twitch, cache, service, timers, event, command, tables, inOrder>>

Listen ==
    /\ listener = "starting" /\ listener' = "up"
    /\ UNCHANGED <<now, live, notices, used, bot, service, timers, event, command, tables, inOrder>>

\* shutdown, for a /revoke: the handlers in flight and the timers go on.
Shutdown ==
    /\ listener # "off" /\ listener' = "off"
    /\ notices' = <<>> /\ inOrder' = (inOrder /\ notices = <<>>)
    /\ UNCHANGED <<now, live, used, bot, service, timers, event, command, tables>>

\* A greeting asks Broadcaster for the stream.
StreamFetched ==
    /\ isLive /\ cache = NotCached
    /\ cache' = [stream |-> live, until |-> now + CacheTime]
    /\ UNCHANGED <<now, twitch, start, service, timers, event, command, tables, inOrder>>

\* The timer of a fetch that this one overlapped ends the caching early.
CacheExpires ==
    /\ cache # NotCached /\ cache' = NotCached
    /\ UNCHANGED <<now, twitch, start, service, timers, event, command, tables, inOrder>>

-----------------------------------------------------------------------------
(* StreamStateService.                                                     *)

SetOnlineKeepsTimers ==
    /\ isLive' = TRUE
    /\ spell' = [since |-> now, left |-> 0, clears |-> 0]
    /\ UNCHANGED pending

SetOnline ==
    /\ isLive' = TRUE
    /\ pending' = <<>>
    /\ spell' = [since |-> now, left |-> 0, clears |-> 0]

SetOffline ==
    IF ~isLive
    THEN UNCHANGED service
    ELSE /\ isLive' = FALSE
         /\ pending' = Append(pending, now + GracePeriod)
         /\ spell' = [since |-> now, left |-> Len(pending), clears |-> 0]

\* The one offline callback there is: JoinGreetingHandler clears its session.
SessionCleared ==
    /\ pending # <<>> /\ Head(pending) <= now
    /\ pending' = Tail(pending)
    /\ spell' = [spell EXCEPT !.clears = @ + 1]
    /\ UNCHANGED <<now, twitch, bot, isLive, timers, event, command, tables, inOrder>>

-----------------------------------------------------------------------------
(* StreamEventHandler.                                                     *)

\* setTimeout: Node turns a delay beyond TIMEOUT_MAX into one millisecond.
DueAfter(delay) == IF delay > MaxTimerDelay THEN now ELSE now + delay

FreshIds == (1..MaxTimers) \ {t.id : t \in armed \cup ({ref} \ {NoTimer})}

NewTimer ==
    [id |-> CHOOSE id \in FreshIds : TRUE, endTime |-> now, due |-> DueAfter(now + UnlurkDelay)]

\* A notification reaches an idle handler; Twitch may send it once more.
Delivered(h, kind, again) ==
    /\ listener = "up" /\ event[h] = Idle
    /\ notices # <<>> /\ Head(notices) = kind
    /\ again => used.repeats < MaxRepeats
    /\ notices' = IF again THEN notices ELSE Tail(notices)
    /\ used' = [used EXCEPT !.repeats = IF again THEN @ + 1 ELSE @]
    /\ inOrder' = (inOrder /\ \A g \in Handlers : event[g] = Idle)
    /\ UNCHANGED <<now, live, listener, bot, service, command, tables>>

Proceed(h, at, endTime) ==
    event' = [event EXCEPT ![h] = [at |-> at, endTime |-> endTime]]

Done(h) == event' = [event EXCEPT ![h] = Idle]

OnlineArrivesKeepsRef(h, again) ==
    /\ Delivered(h, "online", again)
    /\ IF ref # NoTimer
       THEN /\ armed' = armed \ {ref}
            /\ Proceed(h, "saveStart", NoEnd)
            /\ UNCHANGED <<ref, sweepFailed>>
       ELSE /\ Proceed(h, "lookup", NoEnd)
            /\ UNCHANGED timers

\* streamOnline, to its first await.
OnlineArrives(h, again) ==
    /\ Delivered(h, "online", again)
    /\ IF ref # NoTimer
       THEN /\ armed' = armed \ {ref} /\ ref' = NoTimer /\ sweepFailed' = FALSE
            /\ Proceed(h, "saveStart", NoEnd)
       ELSE /\ Proceed(h, "lookup", NoEnd)
            /\ UNCHANGED timers

OfflineArrivesLate(h, again) ==
    /\ Delivered(h, "offline", again) /\ FreshIds # {}
    /\ ref' = NewTimer /\ armed' = armed \cup {NewTimer} /\ sweepFailed' = FALSE
    /\ Proceed(h, "saveEnd", now + UnlurkDelay)

\* streamOffline, to its await.
OfflineArrives(h, again) ==
    /\ Delivered(h, "offline", again) /\ FreshIds # {}
    /\ ref' = NewTimer /\ armed' = armed \cup {NewTimer} /\ sweepFailed' = FALSE
    /\ Proceed(h, "saveEnd", now)

LookUp(h) ==
    /\ event[h] # Idle /\ event[h].at = "lookup"
    /\ IF LastEnd = NoEnd THEN Proceed(h, "saveStart", NoEnd) ELSE Proceed(h, "cleanup", LastEnd)
    /\ UNCHANGED <<now, twitch, bot, service, timers, command, tables, inOrder>>

CleanUp(h) ==
    /\ event[h] # Idle /\ event[h].at = "cleanup"
    /\ EndLurks(OpenLurks, event[h].endTime)
    /\ Proceed(h, "saveStart", NoEnd)
    /\ UNCHANGED <<now, twitch, bot, service, timers, command, streams, inOrder>>

\* Nothing catches a rejection here, and the process ends.
CleanUpRejects(h) ==
    /\ event[h] # Idle /\ event[h].at \in {"lookup", "cleanup"} \cap FaultKinds
    /\ used' = [used EXCEPT !.starts = 0]
    /\ ProcessEnds

SaveStart(h) ==
    /\ event[h] # Idle /\ event[h].at = "saveStart"
    /\ streams' = Append(streams, NoEnd)
    /\ SetOnline /\ Done(h)
    /\ UNCHANGED <<now, twitch, bot, timers, command, lurks, inOrder>>

\* saveStreamEndEvent ends every stream that is still open.
SaveEnd(h) ==
    /\ event[h] # Idle /\ event[h].at = "saveEnd"
    /\ streams' = [i \in DOMAIN streams |->
                      IF streams[i] = NoEnd THEN event[h].endTime ELSE streams[i]]
    /\ SetOffline /\ Done(h)
    /\ UNCHANGED <<now, twitch, bot, timers, command, lurks, inOrder>>

SaveRejectsUncaught(h) ==
    /\ "save" \in FaultKinds
    /\ event[h] # Idle /\ event[h].at \in {"saveStart", "saveEnd"}
    /\ Done(h)
    /\ UNCHANGED <<now, twitch, bot, service, timers, command, tables, inOrder>>

\* A save that rejects is logged, and the callback goes on.
SaveRejects(h) ==
    /\ "save" \in FaultKinds
    /\ event[h] # Idle /\ event[h].at \in {"saveStart", "saveEnd"}
    /\ IF event[h].at = "saveStart" THEN SetOnline ELSE SetOffline
    /\ Done(h)
    /\ UNCHANGED <<now, twitch, bot, timers, command, tables, inOrder>>

\* unlurkUsers.  The reference to the fired timer stays.
TimerFires(t) ==
    /\ t \in armed /\ t.due <= now
    /\ armed' = armed \ {t}
    /\ EndLurks(OpenLurks, t.endTime)
    /\ UNCHANGED <<now, twitch, bot, service, ref, sweepFailed, event, command, streams, inOrder>>

\* unlurkUsers rejected, which is logged.
SweepRejects(t) ==
    /\ "sweep" \in FaultKinds
    /\ t \in armed /\ t.due <= now
    /\ armed' = armed \ {t}
    /\ sweepFailed' = (sweepFailed \/ t = ref)
    /\ UNCHANGED <<now, twitch, bot, service, ref, event, command, tables, inOrder>>

-----------------------------------------------------------------------------
(* The lurk commands.  MessageHandler has checked their 'online'           *)
(* restriction, and awaits Twitch before it calls handle.                  *)

InFlight == {m \in Messages : command[m] # Idle}

\* start connects the chat before it asks for the stream.
InChat == listener # "off" \/ \E s \in Starts : start[s] # "idle"

Admit(m, u) ==
    /\ InChat /\ isLive /\ command[m] = Idle
    /\ Len(lurks) + Cardinality(InFlight) < MaxLurks
    /\ \E at \in {"find", "unlurk"} : command' = [command EXCEPT ![m] = [at |-> at, user |-> u]]
    /\ UNCHANGED <<now, twitch, bot, service, timers, event, tables, inOrder>>

LurksOf(u) == {i \in OpenLurks : lurks[i].user = u}

\* findOrCreate looks for an open row, and with no unique index to lock ...
LurkFind(m) ==
    /\ command[m] # Idle /\ command[m].at = "find"
    /\ command' = [command EXCEPT ![m] =
                      IF LurksOf(command[m].user) = {} THEN [@ EXCEPT !.at = "create"] ELSE Idle]
    /\ UNCHANGED <<now, twitch, bot, service, timers, event, tables, inOrder>>

\* ... inserts one later.
LurkCreate(m) ==
    /\ command[m] # Idle /\ command[m].at = "create"
    /\ lurks' = Append(lurks, [user |-> command[m].user, createdAt |-> now, endTime |-> NoEnd])
    /\ command' = [command EXCEPT ![m] = Idle]
    /\ UNCHANGED <<now, twitch, bot, service, timers, event, streams, inOrder>>

Unlurk(m) ==
    /\ command[m] # Idle /\ command[m].at = "unlurk"
    /\ EndLurks(LurksOf(command[m].user), now)
    /\ command' = [command EXCEPT ![m] = Idle]
    /\ UNCHANGED <<now, twitch, bot, service, timers, event, streams, inOrder>>

-----------------------------------------------------------------------------

StartStep(s) == StartBegins(s) \/ TwitchAnswers(s) \/ Initialize(s) \/ StartRejects(s)

HandlerStep(h) ==
    \/ \E again \in BOOLEAN : OnlineArrives(h, again) \/ OfflineArrives(h, again)
    \/ LookUp(h) \/ CleanUp(h) \/ CleanUpRejects(h)
    \/ SaveStart(h) \/ SaveEnd(h) \/ SaveRejects(h)

CommandStep(m) ==
    \/ \E u \in Users : Admit(m, u)
    \/ LurkFind(m) \/ LurkCreate(m) \/ Unlurk(m)

Next ==
    \/ StreamFlips \/ Crash \/ Listen \/ Shutdown \/ Tick
    \/ \E s \in Starts : StartStep(s)
    \/ StreamFetched \/ CacheExpires \/ SessionCleared
    \/ \E h \in Handlers : HandlerStep(h)
    \/ \E t \in armed : TimerFires(t) \/ SweepRejects(t)
    \/ \E m \in Messages : CommandStep(m)

Spec == Init /\ [][Next]_vars

-----------------------------------------------------------------------------
(* Properties.                                                             *)

\* setOffline, setOnline and initialize together: beyond the grace timers that a
\* start has left running, a greeting session is cleared only when the bot has
\* held the stream for offline for the whole grace period without a break, and
\* once per outage, however often Twitch repeats an event.
ClearsFollowGrace ==
    spell.clears > spell.left =>
        /\ ~isLive /\ spell.clears = spell.left + 1
        /\ now >= spell.since + GracePeriod

OldLurks == {i \in OpenLurks : lurks[i].createdAt < LastEnd}

\* A lurker recorded before the last stream ended is not forgotten unless the
\* sweep itself was rejected: either the timer that is referred to is still to
\* fire, or the reference is null and the next streamOnline cleans up.
OldLurkersWillBeSwept == OldLurks # {} => ref \in armed \cup {NoTimer} \/ sweepFailed

Quiet == listener = "up" /\ NothingHandled

\* When the last start took the state Twitch was in, and not an older answer or
\* one in the cache, and the events since came one after another, isLive is what
\* Twitch says as soon as the last one is handled, whether or not the stream
\* records could be saved.
QuietStateAgrees == Quiet /\ inOrder => isLive = live

\* docs/command-system.md:53 has 'online' commands run only while the stream is
\* live, and StreamStateService.isOnline is what they are checked against.  It
\* does not hold even when everything is handled: the stream can end after
\* initialize has fetched its state and before the listener starts, and the
\* handlers of two events can finish in the other order.
OnlineOnlyWhileLive == Quiet => (isLive => live)

\* stream-event.handler.ts:66 asks for ten minutes, in which a stream that
\* recovers keeps its lurkers (:28).  It does not hold: the delay is a date.
UnlurkWaitsTenMinutes ==
    [][\A t \in armed : TimerFires(t) => now >= t.endTime + UnlurkDelay]_vars
=============================================================================
