---------------------------- MODULE MessageHandler ----------------------------
(***************************************************************************)
(* The dispatch of one chat message to a command                           *)
(* (bot/handlers/message.handler.ts).  MessageHandler.handle is an async   *)
(* function: every await in it returns to the event loop, so the handling  *)
(* of other messages, the stream going on or off line and the passage of   *)
(* time all fall between its steps.  A message's place in the function is  *)
(* pc[m]; each action below is the code between two awaits.  A call to     *)
(* Twitch that rejects ends the process, and Docker starts another.        *)
(*                                                                         *)
(* Time is Date.getTime(): milliseconds.  Cooldown periods may be half of  *)
(* an odd number of seconds, so they are counted in half seconds.          *)
(***************************************************************************)
EXTENDS Naturals, Sequences

CONSTANTS
    Messages,       \* chat messages, each handled at most once
    Users,
    Commands,       \* registered command handlers
    Buckets,        \* cooldown bucket keys
    NoCall,         \* stands for the locals of a message not being handled
    RolesOf,        \* the badges a user carries
    Permits,        \* the permission flags a command sets to true
    Restriction,    \* the stream state a command is restricted to
    Timeout,        \* a command's base cooldown, in seconds
    BucketsOf,      \* the bucket keys a command's invocations may use
    ClockStep,      \* milliseconds between two instants told apart
    MaxNow,         \* bound on the clock
    MaxFlips        \* bound on the changes of the stream's state

Roles == {"broadcaster", "leadMod", "mod", "vip", "artist", "founder", "subscriber"}
Flags == (Roles \ {"broadcaster"}) \cup {"follower", "viewer"}

ASSUME ConstantsAssumption ==
    /\ RolesOf \in [Users -> SUBSET Roles]
    /\ Permits \in [Commands -> SUBSET Flags]
    /\ Restriction \in [Commands -> {"always", "online", "offline"}]
    /\ Timeout \in [Commands -> Nat]
    /\ BucketsOf \in [Commands -> SUBSET Buckets]
    /\ ClockStep \in Nat /\ MaxNow \in Nat /\ MaxFlips \in Nat

Call == [user : Users, command : Commands, bucket : Buckets, flips : Nat]

ASSUME NoCallAssumption == NoCall \notin Call

VARIABLES
    pc,             \* where the handling of each message stands
    call,           \* the locals of each handling in progress
    globalTimeouts, \* MessageHandler.globalTimeouts
    isLive,         \* StreamStateService.isLive
    now,            \* the clock
    flips,          \* history: how often isLive has changed
    life,           \* history: how many processes have ended before this one
    executions,     \* history: the commands started, by any process, in order
    promises        \* history: the cooldown replies sent to users

vars == <<pc, call, globalTimeouts, isLive, now, flips, life, executions, promises>>

InHandle == {"getBroadcaster", "isFollowedBy", "sayCooldown", "executing"}

\* A message is lost with the process that was handling it.
PC == InHandle \cup {"unseen", "returned", "lost"}

\* One element of globalTimeouts.  The code's list is kept as a set: it is only
\* searched by name, and OneEntryPerBucket shows the order cannot matter.
CommandTimeout == [name : Buckets, timeout : Nat]

Execution == [user : Users, command : Commands, bucket : Buckets, at : Nat,
              life : Nat, live : BOOLEAN, flipped : BOOLEAN]

Promise == [user : Users, command : Commands, bucket : Buckets, at : Nat,
            wait : Nat, seen : Nat]

TypeOK ==
    /\ pc \in [Messages -> PC]
    /\ call \in [Messages -> Call \cup {NoCall}]
    /\ \A m \in Messages : call[m] = NoCall <=> pc[m] \notin InHandle
    /\ globalTimeouts \in SUBSET CommandTimeout
    /\ isLive \in BOOLEAN
    /\ now \in Nat
    /\ flips \in Nat
    /\ life \in Nat
    /\ executions \in Seq(Execution)
    /\ promises \in SUBSET Promise

-----------------------------------------------------------------------------
(* The decisions the handler takes, as pure operators.                     *)

\* Mutant: the 'online' case is missing from the switch.
CanExecuteOnlineDropped(c, live) ==
    Restriction[c] = "offline" => ~live

CanExecute(c, live) ==
    /\ Restriction[c] = "online" => live
    /\ Restriction[c] = "offline" => ~live

IsAuthorized(u, isFollower, c) ==
    \/ "viewer" \in Permits[c]
    \/ "broadcaster" \in RolesOf[u]
    \/ "mod" \in Permits[c] /\ "leadMod" \in RolesOf[u]
    \/ Permits[c] \cap RolesOf[u] # {}
    \/ "follower" \in Permits[c] /\ (isFollower \/ "subscriber" \in RolesOf[u])

\* timeoutPeriod, in half seconds.
TimeoutPeriod(u, c) ==
    IF "broadcaster" \in RolesOf[u]
    THEN 0
    ELSE IF RolesOf[u] \cap {"founder", "mod", "subscriber", "vip", "artist"} # {}
         THEN Timeout[c]
         ELSE 2 * Timeout[c]

\* Math.ceil(ms / 1000)
CeilSeconds(ms) == (ms + 999) \div 1000

\* The seconds, rounded up, since a bucket's timer was started.
Ttl(entry) == CeilSeconds(now - entry.timeout)

\* Mutant: the comparison turned round.
OnCooldownSwapped(entry, u, c) == 2 * Ttl(entry) > TimeoutPeriod(u, c)

\* Mutant: a second too generous.
OnCooldownLate(entry, u, c) == 2 * (Ttl(entry) + 1) < TimeoutPeriod(u, c)

\* ttl < period
OnCooldown(entry, u, c) == 2 * Ttl(entry) < TimeoutPeriod(u, c)

EntriesOf(k) == {entry \in globalTimeouts : entry.name = k}

-----------------------------------------------------------------------------
Init ==
    /\ pc = [m \in Messages |-> "unseen"]
    /\ call = [m \in Messages |-> NoCall]
    /\ globalTimeouts = {}
    /\ isLive \in BOOLEAN
    /\ now = 0
    /\ flips = 0
    /\ life = 0
    /\ executions = <<>>
    /\ promises = {}

\* A message arrives: parseCommand finds its handler, the bucket key is computed
\* from the arguments, and getBroadcaster is awaited.  (A message that matches no
\* handler returns at once and changes nothing.)
ReceiveMessage(m, u, c, k) ==
    /\ pc[m] = "unseen"
    /\ k \in BucketsOf[c]
    /\ call' = [call EXCEPT ![m] = [user |-> u, command |-> c, bucket |-> k, flips |-> flips]]
    /\ pc' = [pc EXCEPT ![m] = "getBroadcaster"]
    /\ UNCHANGED <<globalTimeouts, isLive, now, flips, life, executions, promises>>

\* The function returns.
Finish(m) ==
    /\ pc' = [pc EXCEPT ![m] = "returned"]
    /\ call' = [call EXCEPT ![m] = NoCall]

\* It goes on to wait for what the place names.
Await(m, place) ==
    /\ pc' = [pc EXCEPT ![m] = place]
    /\ UNCHANGED call

\* getBroadcaster resolves: the restriction is checked against the stream's state
\* and the follower lookup is awaited.
BroadcasterResolved(m) ==
    /\ pc[m] = "getBroadcaster"
    /\ IF CanExecute(call[m].command, isLive)
       THEN Await(m, "isFollowedBy")
       ELSE Finish(m)
    /\ UNCHANGED <<globalTimeouts, isLive, now, flips, life, executions, promises>>

\* The record of a start, for the properties.
Started(m) ==
    executions' = Append(executions,
        [user |-> call[m].user, command |-> call[m].command, bucket |-> call[m].bucket,
         at |-> now, life |-> life, live |-> isLive, flipped |-> call[m].flips # flips])

\* Mutant: the old timer is not spliced out.
ExecuteWithoutSplice(m, expired) ==
    /\ globalTimeouts' = globalTimeouts
                           \cup {[name |-> call[m].bucket, timeout |-> now]}
    /\ Started(m)
    /\ Await(m, "executing")
    /\ UNCHANGED promises

\* Mutant: the timer is pushed only when the bucket has none.
ExecuteWithoutRestart(m, expired) ==
    /\ globalTimeouts' = IF expired = {}
           THEN globalTimeouts \cup {[name |-> call[m].bucket, timeout |-> now]}
           ELSE globalTimeouts
    /\ Started(m)
    /\ Await(m, "executing")
    /\ UNCHANGED promises

\* The tail of handle: the bucket's timer restarts and the command is started.
\* `expired` is the entry the splice takes out, if there was one.
Execute(m, expired) ==
    /\ globalTimeouts' = (globalTimeouts \ expired)
                           \cup {[name |-> call[m].bucket, timeout |-> now]}
    /\ Started(m)
    /\ Await(m, "executing")
    /\ UNCHANGED promises

\* The cooldown reply's promise (in half seconds), for the properties.
Promised(m, entry) ==
    promises' = promises \cup
        {[user |-> call[m].user, command |-> call[m].command, bucket |-> call[m].bucket,
          at |-> now, seen |-> Len(executions),
          wait |-> TimeoutPeriod(call[m].user, call[m].command) - 2 * Ttl(entry)]}

\* Mutant: a refused attempt restarts the timer.
RefuseAndRestart(m, entry) ==
    /\ globalTimeouts' = (globalTimeouts \ {entry})
                           \cup {[name |-> call[m].bucket, timeout |-> now]}
    /\ Promised(m, entry)
    /\ Await(m, "sayCooldown")
    /\ UNCHANGED executions

\* The user is told how long to wait; the timer is left alone.
RefuseOnCooldown(m, entry) ==
    /\ Promised(m, entry)
    /\ Await(m, "sayCooldown")
    /\ UNCHANGED <<globalTimeouts, executions>>

\* isFollowedBy resolves.  From here to the start of the command nothing is
\* awaited: authorisation, the cooldown check and the restart of the timer are
\* one step.
FollowerResolved(m, isFollower) ==
    LET u == call[m].user
        c == call[m].command
        found == EntriesOf(call[m].bucket)
    IN  /\ pc[m] = "isFollowedBy"
        /\ \/ /\ ~IsAuthorized(u, isFollower, c)
              /\ Finish(m)
              /\ UNCHANGED <<globalTimeouts, executions, promises>>
           \/ /\ IsAuthorized(u, isFollower, c)
              /\ found = {}
              /\ Execute(m, {})
           \/ /\ IsAuthorized(u, isFollower, c)
              /\ \E entry \in found :
                     IF OnCooldown(entry, u, c)
                     THEN RefuseOnCooldown(m, entry)
                     ELSE Execute(m, {entry})
        /\ UNCHANGED <<isLive, now, flips, life>>

\* The cooldown reply is sent, or the command's promise settles (a rejection of
\* the command is caught and logged).
LastAwaitSettled(m) ==
    /\ pc[m] \in {"sayCooldown", "executing"}
    /\ Finish(m)
    /\ UNCHANGED <<globalTimeouts, isLive, now, flips, life, executions, promises>>

\* The process ends and Docker starts another, which has no timers and none of the
\* messages that were being handled.  It asks Twitch whether the stream is live.
ProcessRestarts ==
    /\ pc' = [m \in Messages |-> IF pc[m] \in InHandle THEN "lost" ELSE pc[m]]
    /\ call' = [m \in Messages |-> NoCall]
    /\ globalTimeouts' = {}
    /\ life' = life + 1
    /\ isLive' \in BOOLEAN
    /\ UNCHANGED <<now, flips, executions, promises>>

\* A Twitch call fails.  Nothing in handle or in onMessage catches it, and an
\* unhandled rejection ends the process.
TwitchCallRejected(m) ==
    /\ pc[m] \in {"getBroadcaster", "isFollowedBy", "sayCooldown"}
    /\ ProcessRestarts

\* StreamStateService.setOnline and setOffline, as far as this component sees
\* them; they are modelled in full in StreamLifecycle.
StreamFlips ==
    /\ flips < MaxFlips
    /\ isLive' = ~isLive
    /\ flips' = flips + 1
    /\ UNCHANGED <<pc, call, globalTimeouts, now, life, executions, promises>>

Tick ==
    /\ now + ClockStep <= MaxNow
    /\ now' = now + ClockStep
    /\ UNCHANGED <<pc, call, globalTimeouts, isLive, flips, life, executions, promises>>

HandleStep(m) ==
    \/ BroadcasterResolved(m)
    \/ \E isFollower \in BOOLEAN : FollowerResolved(m, isFollower)
    \/ LastAwaitSettled(m)
    \/ TwitchCallRejected(m)

Next ==
    \/ \E m \in Messages, u \in Users, c \in Commands, k \in Buckets :
           ReceiveMessage(m, u, c, k)
    \/ \E m \in Messages : HandleStep(m)
    \/ StreamFlips
    \/ Tick

Spec == Init /\ [][Next]_vars

-----------------------------------------------------------------------------
(* Properties.                                                             *)

\* A bucket never has two timers, although the handlings of several messages
\* of one bucket interleave between the parse and the cooldown check.
OneEntryPerBucket ==
    \A e, f \in globalTimeouts : e.name = f.name => e = f

\* The commands the present process has started.
OfThisLife == {i \in DOMAIN executions : executions[i].life = life}

\* A bucket's timer always measures from the latest start of a command in it by
\* this process: no start of its own is forgotten, whatever fails, and no timer
\* outlives or precedes its start, or comes from before the last rejected call.
TimerIsLatestExecution ==
    /\ \A i \in OfThisLife :
           \E e \in globalTimeouts :
               e.name = executions[i].bucket /\ e.timeout >= executions[i].at
    /\ \A e \in globalTimeouts :
           \E i \in OfThisLife :
               executions[i].bucket = e.name /\ executions[i].at = e.timeout

\* What the cooldown really guarantees.  Between two starts in one bucket by one
\* process, by whichever users, more time passes than the later user's period less
\* one second (the age of the timer is rounded up before it is compared), unless
\* a Twitch call was rejected in between: the timers do not survive that.
CooldownSpacing ==
    \A i, j \in DOMAIN executions :
        /\ i < j
        /\ executions[i].bucket = executions[j].bucket
        /\ executions[i].life = executions[j].life
        =>
            LET period == TimeoutPeriod(executions[j].user, executions[j].command)
            IN  period > 0 =>
                    executions[j].at + 1000 > executions[i].at + 500 * period

\* What docs/command-system.md (Cooldown Behavior) says instead: the command
\* is unavailable until the period has expired.
CooldownLastsThePeriod ==
    \A i, j \in DOMAIN executions :
        i < j /\ executions[i].bucket = executions[j].bucket =>
            executions[j].at >=
                executions[i].at
                  + 500 * TimeoutPeriod(executions[j].user, executions[j].command)

\* A command restricted to one state of the stream starts in the other only if
\* the stream changed state while its message was being handled.
RestrictionHoldsUnlessFlipped ==
    \A i \in DOMAIN executions :
        ~executions[i].flipped =>
            Restriction[executions[i].command]
                \in {"always", IF executions[i].live THEN "online" ELSE "offline"}

\* A promise is due when the wait it named is over and nobody has started a
\* command in its bucket since.
Due(p) ==
    /\ now >= p.at + 500 * p.wait
    /\ \A i \in DOMAIN executions : executions[i].bucket = p.bucket => i <= p.seen

\* The cooldown reply ("It will be ready in N second(s)") is honest when the
\* user's period is a whole number of seconds: whoever waits as long as told,
\* with nobody else starting the command, is let in, by the next process too if
\* this one ends.  (Half of an odd timeout is
\* not: the age of the timer is rounded up, the wait is not.)
WholeWaitSuffices ==
    \A p \in promises :
        Due(p) /\ TimeoutPeriod(p.user, p.command) % 2 = 0 =>
            \A e \in EntriesOf(p.bucket) : ~OnCooldown(e, p.user, p.command)
=============================================================================
