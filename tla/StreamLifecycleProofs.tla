------------------------- MODULE StreamLifecycleProofs -------------------------
(***************************************************************************)
(* The invariants of StreamLifecycle, for all values of the constants.     *)
(***************************************************************************)
EXTENDS StreamLifecycle, Integers, SequenceTheorems, FiniteSetTheorems, WellFoundedInduction, TLAPS

-----------------------------------------------------------------------------
(* The latest end.                                                         *)

\* A finite set of integers that is not empty has a greatest element: there is no
\* least such set without one.
LEMMA MaxExists ==
    ASSUME NEW S \in SUBSET Int, IsFiniteSet(S), S # {}
    PROVE  Max(S) \in S /\ \A x \in S : x <= Max(S)
<1> DEFINE HasMax(U) == \E m \in U : \A x \in U : m >= x
           T == {U \in FiniteSubsetsOf(Int) : U # {} /\ ~HasMax(U)}
<1>1. T = {}
  <2> SUFFICES ASSUME T # {} PROVE FALSE
    OBVIOUS
  <2>1. T \subseteq FiniteSubsetsOf(Int)
    OBVIOUS
  <2> HIDE DEF T
  <2>2. PICK U \in T : \A V \in T : ~(<<V, U>> \in StrictSubsetOrdering(Int))
    BY <2>1, FS_StrictSubsetOrderingWellFounded, WFMin
  <2>3. U \in SUBSET Int /\ IsFiniteSet(U) /\ U # {} /\ ~HasMax(U)
    BY DEF T, FiniteSubsetsOf
  <2>4. PICK x \in U : TRUE
    BY <2>3
  <2> DEFINE V == U \ {x}
  <2>5. V \in SUBSET Int /\ IsFiniteSet(V) /\ V \subseteq U /\ V # U
    BY <2>3, <2>4, FS_RemoveElement
  <2>6. V \notin T
    BY <2>2, <2>3, <2>5 DEF StrictSubsetOrdering
  <2>7. CASE V = {}
    <3>1. \A y \in U : x >= y
      BY <2>3, <2>4, <2>7
    <3> QED
      BY <2>3, <2>4, <3>1
  <2>8. CASE V # {}
    <3>1. PICK m \in V : \A y \in V : m >= y
      BY <2>5, <2>6, <2>8 DEF T, FiniteSubsetsOf
    <3>2. m \in Int /\ x \in Int /\ m \in U
      BY <2>3, <2>4, <2>5, <3>1
    <3>3. CASE m >= x
      BY <2>3, <3>1, <3>2, <3>3
    <3>4. CASE x >= m
      <4>1. \A y \in U : x >= y
        BY <2>3, <3>1, <3>2, <3>4
      <4> QED
        BY <2>3, <2>4, <4>1
    <3> QED
      BY <3>2, <3>3, <3>4
  <2> QED
    BY <2>7, <2>8
<1>2. HasMax(S)
  BY <1>1 DEF FiniteSubsetsOf
<1> QED
  BY <1>2 DEF Max

-----------------------------------------------------------------------------
(* The inductive invariant.                                                *)

Lurk == [user : Users, createdAt : Times, endTime : Ends]
Flying(h) == event[h] # Idle

\* Each lurk command in flight may still write a row.
LurksCounted == IsFiniteSet(InFlight) /\ Len(lurks) + Cardinality(InFlight) <= MaxLurks

\* Beyond the timers left from before, a spell in which the bot is offline has one
\* grace timer at most, the last of them, and one that is live has none.
Grace ==
    /\ Len(pending) + spell.clears \in {spell.left, spell.left + 1}
    /\ isLive => Len(pending) + spell.clears = spell.left
    /\ Len(pending) + spell.clears = spell.left + 1 =>
           /\ pending # <<>> => pending[Len(pending)] = spell.since + GracePeriod
           /\ pending = <<>> => now >= spell.since + GracePeriod

Latest == IF live THEN "online" ELSE "offline"

\* In order, the last notice is of what Twitch is now; with none to deliver, the one
\* handler in flight is about to make it so, or it is so.
Orderly ==
    inOrder =>
        /\ \A g, h \in Handlers : Flying(g) /\ Flying(h) => g = h
        /\ notices # <<>> => notices[Len(notices)] = Latest
        /\ notices = <<>> =>
               /\ \A h \in Handlers : Flying(h) => (event[h].at = "saveEnd" <=> ~live)
               /\ (\A h \in Handlers : ~Flying(h)) => (isLive <=> live)

\* No stream ends later than now, nor has a handler taken such an end.
EndsPast ==
    /\ \A j \in DOMAIN streams : streams[j] <= now
    /\ \A h \in Handlers : Flying(h) =>
           /\ event[h].endTime <= now
           /\ event[h].at = "cleanup" => event[h].endTime # NoEnd

\* Once the timer referred to has swept there is no lurker left older than an end, nor
\* older than one that is yet to be saved.
Swept ==
    ref \notin armed /\ ref # NoTimer /\ ~sweepFailed =>
        \A i \in OpenLurks :
            /\ \A j \in DOMAIN streams : streams[j] <= lurks[i].createdAt
            /\ \A h \in Handlers : Flying(h) /\ event[h].at = "saveEnd" =>
                   event[h].endTime <= lurks[i].createdAt

LifeInv ==
    /\ TypeOK /\ LurksCounted /\ Grace /\ Orderly /\ EndsPast /\ Swept

LEMMA LifeTypes ==
    ASSUME TypeOK
    PROVE  /\ now \in Nat /\ now >= 1 /\ now # NoEnd /\ now \in Ends
           /\ Ends \subseteq Nat /\ NoEnd \in Ends
           /\ \A t \in Times : t \in Nat /\ t # NoEnd /\ t \in Ends
           /\ Len(streams) \in Nat /\ DOMAIN streams = 1..Len(streams)
           /\ \A j \in DOMAIN streams : streams[j] \in Ends
           /\ lurks \in Seq(Lurk) /\ Len(lurks) \in Nat /\ DOMAIN lurks = 1..Len(lurks)
           /\ \A i \in DOMAIN lurks : /\ lurks[i] \in Lurk /\ lurks[i].createdAt \in Times
                                      /\ lurks[i].createdAt \in Nat
           /\ event \in [Handlers -> Event \cup {Idle}]
           /\ \A h \in Handlers : Flying(h) =>
                  event[h] \in Event /\ event[h].endTime \in Ends /\ event[h].endTime \in Nat
           /\ command \in [Messages -> Command \cup {Idle}]
           /\ spell.since \in Times /\ spell.since \in Nat
           /\ spell.left \in Nat /\ spell.clears \in Nat /\ Len(pending) \in Nat
<1>1. /\ now \in Nat /\ now >= 1 /\ now # NoEnd /\ now \in Ends
      /\ Ends \subseteq Nat /\ NoEnd \in Ends
      /\ \A t \in Times : t \in Nat /\ t # NoEnd /\ t \in Ends
  <2>1. Epoch \in Nat /\ MaxNow \in Nat /\ Epoch >= 1
    BY ConstantsAssumption
  <2>2. \A t \in Times : t \in Nat /\ t >= 1
    BY <2>1 DEF Times
  <2>3. now \in Times
    BY DEF TypeOK
  <2> QED
    BY <2>2, <2>3 DEF Ends, NoEnd
<1>2. /\ Len(streams) \in Nat /\ DOMAIN streams = 1..Len(streams)
      /\ \A j \in DOMAIN streams : streams[j] \in Ends
  <2>1. streams \in Seq(Ends)
    BY DEF TypeOK
  <2> HIDE DEF TypeOK
  <2> QED
    BY <2>1
<1>3. /\ lurks \in Seq(Lurk) /\ Len(lurks) \in Nat /\ DOMAIN lurks = 1..Len(lurks)
      /\ \A i \in DOMAIN lurks : lurks[i] \in Lurk
  <2>1. lurks \in Seq(Lurk)
    BY DEF TypeOK, Lurk
  <2> QED
    BY <2>1
<1>4. \A i \in DOMAIN lurks : lurks[i].createdAt \in Times /\ lurks[i].createdAt \in Nat
  BY <1>1, <1>3 DEF Lurk
<1>5. /\ event \in [Handlers -> Event \cup {Idle}] /\ command \in [Messages -> Command \cup {Idle}]
  BY DEF TypeOK
<1>6. ASSUME NEW h \in Handlers, Flying(h)
      PROVE  event[h] \in Event /\ event[h].endTime \in Ends /\ event[h].endTime \in Nat
  <2>1. event[h] \in Event
    BY <1>5, <1>6 DEF Flying
  <2> QED
    BY <1>1, <2>1 DEF Event
<1>7. /\ spell.since \in Times /\ spell.since \in Nat
      /\ spell.left \in Nat /\ spell.clears \in Nat /\ Len(pending) \in Nat
  <2>1. /\ spell \in [since : Times, left : Nat, clears : Nat] /\ pending \in Seq(Nat)
    BY DEF TypeOK
  <2>2. spell.since \in Times /\ spell.left \in Nat /\ spell.clears \in Nat
    BY <2>1
  <2>3. Len(pending) \in Nat
    BY <2>1
  <2> QED
    BY <1>1, <2>2, <2>3
<1> QED
  BY <1>1, <1>2, <1>3, <1>4, <1>5, <1>6, <1>7

\* The latest end is that of a stream, if any has ended.
LEMMA LastEndIs ==
    ASSUME TypeOK
    PROVE  LastEnd = NoEnd \/ \E j \in DOMAIN streams : LastEnd = streams[j]
<1>1. CASE EndDates = {}
  BY <1>1 DEF LastEnd
<1>2. CASE EndDates # {}
  <2>1. EndDates \in SUBSET Nat /\ \A e \in EndDates : e <= MaxNow
    <3>1. \A j \in DOMAIN streams : streams[j] \in Ends
      BY LifeTypes
    <3>2. \A e \in EndDates : e \in Times
      BY <3>1 DEF EndDates, Ends
    <3> QED
      BY <3>2, ConstantsAssumption DEF Times
  <2>2. IsFiniteSet(EndDates)
    BY <2>1, FS_BoundedSetOfNaturals, ConstantsAssumption
  <2>3. Max(EndDates) \in EndDates
    BY <1>2, <2>1, <2>2, MaxExists
  <2> QED
    BY <1>2, <2>3 DEF LastEnd, EndDates
<1> QED
  BY <1>1, <1>2

LEMMA InitLifeInv == Init => LifeInv
<1> SUFFICES ASSUME Init PROVE LifeInv
  OBVIOUS
<1> USE DEF Init
<1>1. TypeOK
  <2>1. now \in Times /\ Epoch \in Times
    BY ConstantsAssumption DEF Times
  <2>2. live \in BOOLEAN /\ isLive \in BOOLEAN /\ inOrder \in BOOLEAN
    OBVIOUS
  <2>3. /\ notices \in Seq({"online", "offline"}) /\ listener \in {"off", "starting", "up"}
        /\ pending \in Seq(Nat)
    OBVIOUS
  <2>4. event \in [Handlers -> Event \cup {Idle}] /\ command \in [Messages -> Command \cup {Idle}]
    OBVIOUS
  <2>5. streams \in Seq(Ends)
    OBVIOUS
  <2>6. lurks \in Seq([user : Users, createdAt : Times, endTime : Ends]) /\ Len(lurks) <= MaxLurks
    BY ConstantsAssumption
  <2>7. spell \in [since : Times, left : Nat, clears : Nat]
    BY <2>1
  <2>8. used \in [flips : 0..MaxFlips, repeats : 0..MaxRepeats, crashes : 0..MaxCrashes,
                 starts : 0..MaxStarts]
    BY ConstantsAssumption
  <2>9. /\ start \in [Starts -> {"idle", "asking", "live", "offline"}]
        /\ cache \in [stream : BOOLEAN, until : Nat]
    BY DEF NotCached
  <2>10. armed \subseteq Timer /\ ref \in Timer \cup {NoTimer} /\ sweepFailed \in BOOLEAN
    OBVIOUS
  <2> QED
    BY <2>1, <2>2, <2>3, <2>4, <2>5, <2>6, <2>7, <2>8, <2>9, <2>10 DEF TypeOK
<1>2. LurksCounted
  <2>1. InFlight = {}
    BY DEF InFlight
  <2>2. IsFiniteSet(InFlight) /\ Cardinality(InFlight) = 0
    BY <2>1, FS_EmptySet
  <2> QED
    BY <2>2, ConstantsAssumption DEF LurksCounted
<1>3. Grace /\ Orderly /\ EndsPast /\ Swept
  BY DEF Grace, Orderly, EndsPast, Swept, Flying
<1> QED
  BY <1>1, <1>2, <1>3 DEF LifeInv

-----------------------------------------------------------------------------
(* Twitch, the process and the clock.                                      *)

LEMMA FlipKeeps == ASSUME LifeInv, StreamFlips PROVE LifeInv'
<1>1. /\ used.flips < MaxFlips /\ used' = [used EXCEPT !.flips = @ + 1] /\ live' = ~live
      /\ notices' = IF listener = "up" THEN Append(notices, IF live THEN "offline" ELSE "online")
                                       ELSE notices
      /\ inOrder' = (inOrder /\ listener = "up")
      /\ UNCHANGED <<now, listener, start, cache, isLive, pending, spell, ref, armed, sweepFailed,
                     event, command, streams, lurks>>
  BY DEF StreamFlips, bot, service, timers, tables
<1>2. TypeOK'
  <2>1. used' \in [flips : 0..MaxFlips, repeats : 0..MaxRepeats, crashes : 0..MaxCrashes,
                   starts : 0..MaxStarts]
    <3>1. used.flips \in 0..MaxFlips /\ MaxFlips \in Nat
      BY ConstantsAssumption DEF LifeInv, TypeOK
    <3>2. used.flips + 1 \in 0..MaxFlips
      BY <1>1, <3>1
    <3> QED
      BY <1>1, <3>2 DEF LifeInv, TypeOK
  <2>2. notices' \in Seq({"online", "offline"})
    BY <1>1 DEF LifeInv, TypeOK
  <2>3. live' \in BOOLEAN /\ inOrder' \in BOOLEAN
    BY <1>1
  <2> QED
    BY <1>1, <2>1, <2>2, <2>3 DEF LifeInv, TypeOK
<1>3. Orderly'
  <2>1. CASE listener = "up"
    <3>1. notices' # <<>> /\ notices'[Len(notices')] = IF live THEN "offline" ELSE "online"
      <4>1. /\ notices' = Append(notices, IF live THEN "offline" ELSE "online")
            /\ notices \in Seq({"online", "offline"})
        BY <1>1, <2>1 DEF LifeInv, TypeOK
      <4> QED
        BY ONLY <4>1
    <3>2. notices'[Len(notices')] = Latest'
      BY <1>1, <3>1 DEF LifeInv, TypeOK, Latest
    <3> QED
      BY <1>1, <2>1, <3>1, <3>2 DEF LifeInv, Orderly, Flying
  <2>2. CASE listener # "up"
    BY <1>1, <2>2 DEF Orderly
  <2> QED
    BY <2>1, <2>2
<1>4. Grace' /\ EndsPast'
  BY <1>1 DEF LifeInv, Grace, EndsPast, Flying
<1>5. LurksCounted'
  BY <1>1 DEF LifeInv, LurksCounted, InFlight
<1>6. Swept'
  BY <1>1 DEF LifeInv, Swept, Flying, OpenLurks
<1> QED
  BY <1>2, <1>3, <1>4, <1>5, <1>6 DEF LifeInv

\* The process ends, and with it its timers and everything in flight.
LEMMA EndKeeps ==
    ASSUME LifeInv, ProcessEnds,
           used' \in [flips : 0..MaxFlips, repeats : 0..MaxRepeats, crashes : 0..MaxCrashes,
                      starts : 0..MaxStarts]
    PROVE  LifeInv'
<1>1. /\ listener' = "off" /\ notices' = <<>>
      /\ start' = [s \in Starts |-> "idle"] /\ cache' = [stream |-> FALSE, until |-> 0]
      /\ isLive' = FALSE /\ pending' = <<>>
      /\ spell' = [since |-> now, left |-> 0, clears |-> 0]
      /\ ref' = NoTimer /\ armed' = {} /\ sweepFailed' = FALSE /\ inOrder' = FALSE
      /\ event' = [h \in Handlers |-> Idle] /\ command' = [m \in Messages |-> Idle]
      /\ UNCHANGED <<now, live, streams, lurks>>
  BY DEF ProcessEnds, tables, NotCached
<1>2. TypeOK'
  <2>1. spell' \in [since : Times, left : Nat, clears : Nat]
    BY <1>1 DEF LifeInv, TypeOK
  <2>2. event' \in [Handlers -> Event \cup {Idle}] /\ command' \in [Messages -> Command \cup {Idle}]
    BY <1>1
  <2>3. notices' \in Seq({"online", "offline"}) /\ pending' \in Seq(Nat)
    BY <1>1
  <2>4. /\ listener' \in {"off", "starting", "up"} /\ isLive' \in BOOLEAN
        /\ armed' \subseteq Timer /\ ref' \in Timer \cup {NoTimer}
        /\ sweepFailed' \in BOOLEAN /\ inOrder' \in BOOLEAN
    BY <1>1
  <2>5. /\ start' \in [Starts -> {"idle", "asking", "live", "offline"}]
        /\ cache' \in [stream : BOOLEAN, until : Nat]
    BY <1>1
  <2> QED
    BY <1>1, <2>1, <2>2, <2>3, <2>4, <2>5 DEF LifeInv, TypeOK
<1>3. \A h \in Handlers : event'[h] = Idle
  BY <1>1
<1>4. Orderly' /\ Swept'
  BY <1>1 DEF Orderly, Swept
<1>5. Grace'
  <2>1. spell'.clears = 0 /\ spell'.left = 0 /\ ~isLive' /\ Len(pending') = 0
    BY <1>1
  <2> QED
    BY <2>1 DEF Grace
<1>6. EndsPast'
  BY <1>1, <1>3 DEF LifeInv, EndsPast, Flying
<1>7. LurksCounted'
  <2>1. InFlight' = {}
    BY <1>1 DEF InFlight
  <2>2. IsFiniteSet(InFlight') /\ Cardinality(InFlight') = 0
    BY <2>1, FS_EmptySet
  <2>3. Len(lurks) <= MaxLurks /\ Len(lurks) \in Nat
    BY LifeTypes DEF LifeInv, TypeOK
  <2> QED
    BY <1>1, <2>2, <2>3 DEF LurksCounted
<1> QED
  BY <1>2, <1>4, <1>5, <1>6, <1>7 DEF LifeInv

LEMMA CrashKeeps == ASSUME LifeInv, Crash PROVE LifeInv'
<1>1. used.crashes < MaxCrashes /\ used' = [used EXCEPT !.crashes = @ + 1, !.starts = 0]
  BY DEF Crash
<1>2. used.crashes \in 0..MaxCrashes /\ MaxCrashes \in Nat /\ 0 \in 0..MaxStarts
  BY ConstantsAssumption DEF LifeInv, TypeOK
<1>3. used.crashes + 1 \in 0..MaxCrashes
  BY <1>1, <1>2
<1>4. used' \in [flips : 0..MaxFlips, repeats : 0..MaxRepeats, crashes : 0..MaxCrashes,
                 starts : 0..MaxStarts]
  BY <1>1, <1>2, <1>3 DEF LifeInv, TypeOK
<1> QED
  BY <1>4, EndKeeps DEF Crash

-----------------------------------------------------------------------------
(* ChatBot.start.                                                          *)

\* What a start leaves alone keeps its part of the invariant.
LEMMA StartFrame ==
    ASSUME LifeInv,
           UNCHANGED <<now, live, ref, armed, sweepFailed, event, command, streams, lurks, pending>>,
           notices' \in Seq({"online", "offline"}), listener' \in {"off", "starting", "up"},
           start' \in [Starts -> {"idle", "asking", "live", "offline"}],
           cache' \in [stream : BOOLEAN, until : Nat],
           isLive' \in BOOLEAN, inOrder' \in BOOLEAN,
           spell' \in [since : Times, left : Nat, clears : Nat],
           used' \in [flips : 0..MaxFlips, repeats : 0..MaxRepeats, crashes : 0..MaxCrashes,
                      starts : 0..MaxStarts]
    PROVE  TypeOK' /\ LurksCounted' /\ EndsPast' /\ Swept'
<1>1. TypeOK'
  BY DEF LifeInv, TypeOK
<1>2. LurksCounted' /\ EndsPast' /\ Swept'
  BY DEF LifeInv, LurksCounted, InFlight, EndsPast, Swept, Flying, OpenLurks
<1> QED
  BY <1>1, <1>2

\* The grace timers there are belong to no spell that initialize begins, and only the
\* state Twitch is in counts as taken in order.
LEMMA InitializedKeeps ==
    ASSUME LifeInv, NEW stream \in BOOLEAN, Initialized(stream),
           UNCHANGED <<now, live, notices, event>>
    PROVE  /\ isLive' \in BOOLEAN /\ inOrder' \in BOOLEAN /\ UNCHANGED pending
           /\ listener' \in {"off", "starting", "up"}
           /\ spell' \in [since : Times, left : Nat, clears : Nat]
           /\ Grace' /\ Orderly'
<1>1. /\ isLive' = stream /\ UNCHANGED pending
      /\ spell' = IF stream = isLive THEN spell
                  ELSE [since |-> now, left |-> Len(pending), clears |-> 0]
      /\ listener' = IF listener = "off" THEN "starting" ELSE listener
      /\ inOrder' = (stream = live /\ (inOrder \/ NothingHandled))
  BY DEF Initialized
<1>2. isLive' \in BOOLEAN /\ inOrder' \in BOOLEAN /\ listener' \in {"off", "starting", "up"}
  BY <1>1 DEF LifeInv, TypeOK
<1>3. now \in Times /\ Len(pending) \in Nat
  BY LifeTypes DEF LifeInv, TypeOK
<1>4. spell' \in [since : Times, left : Nat, clears : Nat] /\ Grace'
  <2>1. CASE stream = isLive
    BY <1>1, <2>1 DEF LifeInv, TypeOK, Grace
  <2>2. CASE stream # isLive
    <3>1. spell' = [since |-> now, left |-> Len(pending), clears |-> 0]
      BY <1>1, <2>2
    <3>2. spell'.left = Len(pending) /\ spell'.clears = 0
      BY <3>1
    <3>3. Len(pending') + spell'.clears = spell'.left /\ spell'.left # spell'.left + 1
      BY <1>1, <1>3, <3>2
    <3>4. Grace'
      BY <3>3 DEF Grace
    <3> QED
      BY <1>3, <3>1, <3>4
  <2> QED
    BY <2>1, <2>2
<1>5. Orderly'
  <2> SUFFICES ASSUME inOrder' PROVE Orderly'
    BY DEF Orderly
  <2>1. (isLive' <=> live) /\ (inOrder \/ NothingHandled)
    BY <1>1 DEF LifeInv, TypeOK
  <2>2. CASE NothingHandled
    BY <2>1, <2>2 DEF NothingHandled, Orderly, Flying
  <2>3. CASE inOrder
    BY <2>1, <2>3 DEF LifeInv, Orderly, Flying, Latest
  <2> QED
    BY <2>1, <2>2, <2>3
<1> QED
  BY <1>1, <1>2, <1>4, <1>5

LEMMA StartBeginsKeeps == ASSUME LifeInv, NEW s \in Starts, StartBegins(s) PROVE LifeInv'
<1>1. /\ used.starts < MaxStarts /\ used' = [used EXCEPT !.starts = @ + 1]
      /\ UNCHANGED <<now, live, notices, cache, ref, armed, sweepFailed, event, command, streams, lurks>>
  BY DEF StartBegins, timers, tables
<1>2. used' \in [flips : 0..MaxFlips, repeats : 0..MaxRepeats, crashes : 0..MaxCrashes,
                 starts : 0..MaxStarts]
  <2>1. used.starts \in 0..MaxStarts /\ MaxStarts \in Nat
    BY ConstantsAssumption DEF LifeInv, TypeOK
  <2>2. used.starts + 1 \in 0..MaxStarts
    BY <1>1, <2>1
  <2> QED
    BY <1>1, <2>2 DEF LifeInv, TypeOK
<1>3. notices' \in Seq({"online", "offline"}) /\ cache' \in [stream : BOOLEAN, until : Nat]
  BY <1>1 DEF LifeInv, TypeOK
<1>4. CASE cache = NotCached /\ start' = [start EXCEPT ![s] = "asking"]
           /\ UNCHANGED <<listener, service, inOrder>>
  <2>1. UNCHANGED <<listener, isLive, pending, spell, inOrder>>
    BY <1>4 DEF service
  <2>2. start' \in [Starts -> {"idle", "asking", "live", "offline"}]
    BY <1>4 DEF LifeInv, TypeOK
  <2>3. /\ isLive \in BOOLEAN /\ inOrder \in BOOLEAN /\ listener \in {"off", "starting", "up"}
        /\ spell \in [since : Times, left : Nat, clears : Nat]
    BY DEF LifeInv, TypeOK
  <2>4. TypeOK' /\ LurksCounted' /\ EndsPast' /\ Swept'
    BY <1>1, <1>2, <1>3, <2>1, <2>2, <2>3, StartFrame
  <2>5. Grace' /\ Orderly'
    BY <1>1, <2>1 DEF LifeInv, Grace, Orderly, Flying, Latest
  <2> QED
    BY <2>4, <2>5 DEF LifeInv
<1>5. CASE Initialized(cache.stream) /\ UNCHANGED start
  <2>1. /\ cache.stream \in BOOLEAN
        /\ start' \in [Starts -> {"idle", "asking", "live", "offline"}]
    BY <1>5 DEF LifeInv, TypeOK
  <2>2. /\ isLive' \in BOOLEAN /\ inOrder' \in BOOLEAN /\ UNCHANGED pending
        /\ listener' \in {"off", "starting", "up"}
        /\ spell' \in [since : Times, left : Nat, clears : Nat]
        /\ Grace' /\ Orderly'
    BY <1>1, <1>5, <2>1, InitializedKeeps
  <2>3. TypeOK' /\ LurksCounted' /\ EndsPast' /\ Swept'
    BY <1>1, <1>2, <1>3, <2>1, <2>2, StartFrame
  <2> QED
    BY <2>2, <2>3 DEF LifeInv
<1> QED
  BY <1>4, <1>5 DEF StartBegins

LEMMA InitializeKeeps == ASSUME LifeInv, NEW s \in Starts, Initialize(s) PROVE LifeInv'
<1> DEFINE stream == start[s] = "live"
<1>1. /\ start' = [start EXCEPT ![s] = "idle"]
      /\ cache' = [stream |-> stream, until |-> now + CacheTime] /\ Initialized(stream)
      /\ UNCHANGED <<now, live, notices, used, ref, armed, sweepFailed, event, command, streams, lurks>>
  BY DEF Initialize, timers, tables
<1>2. stream \in BOOLEAN
  OBVIOUS
<1> HIDE DEF stream
<1>3. /\ isLive' \in BOOLEAN /\ inOrder' \in BOOLEAN /\ UNCHANGED pending
      /\ listener' \in {"off", "starting", "up"}
      /\ spell' \in [since : Times, left : Nat, clears : Nat]
      /\ Grace' /\ Orderly'
  BY <1>1, <1>2, InitializedKeeps
<1>4. /\ start' \in [Starts -> {"idle", "asking", "live", "offline"}]
      /\ used' \in [flips : 0..MaxFlips, repeats : 0..MaxRepeats, crashes : 0..MaxCrashes,
                    starts : 0..MaxStarts]
      /\ notices' \in Seq({"online", "offline"})
  BY <1>1 DEF LifeInv, TypeOK
<1>5. cache' \in [stream : BOOLEAN, until : Nat]
  <2>1. now + CacheTime \in Nat
    BY LifeTypes DEF LifeInv, CacheTime
  <2> QED
    BY <1>1, <1>2, <2>1
<1>6. TypeOK' /\ LurksCounted' /\ EndsPast' /\ Swept'
  BY <1>1, <1>3, <1>4, <1>5, StartFrame
<1> QED
  BY <1>3, <1>6 DEF LifeInv

\* The steps on the way to initialize and from it, and those of Broadcaster's cache.
LEMMA AroundStartKeeps ==
    ASSUME LifeInv,
           \/ \E s \in Starts : TwitchAnswers(s) \/ StartRejects(s)
           \/ Listen \/ Shutdown \/ StreamFetched \/ CacheExpires
    PROVE  LifeInv'
<1>1. UNCHANGED <<now, live, used, isLive, pending, spell, ref, armed, sweepFailed, event, command,
                  streams, lurks>>
  BY DEF TwitchAnswers, StartRejects, Listen, Shutdown, StreamFetched, CacheExpires, twitch, service,
         timers, tables, bot
<1>2. start' \in [Starts -> {"idle", "asking", "live", "offline"}]
  <2>1. start \in [Starts -> {"idle", "asking", "live", "offline"}]
    BY DEF LifeInv, TypeOK
  <2>2. CASE \E s \in Starts : TwitchAnswers(s) \/ StartRejects(s)
    BY <2>1, <2>2 DEF TwitchAnswers, StartRejects
  <2>3. CASE Listen \/ Shutdown \/ StreamFetched \/ CacheExpires
    BY <2>1, <2>3 DEF Listen, Shutdown, StreamFetched, CacheExpires, bot
  <2> QED
    BY <2>2, <2>3
<1>3. cache' \in [stream : BOOLEAN, until : Nat]
  <2>1. cache \in [stream : BOOLEAN, until : Nat] /\ live \in BOOLEAN
    BY DEF LifeInv, TypeOK
  <2>2. CASE StreamFetched
    <3>1. now + CacheTime \in Nat
      BY LifeTypes DEF LifeInv, CacheTime
    <3> QED
      BY <2>1, <2>2, <3>1 DEF StreamFetched
  <2>3. CASE CacheExpires
    BY <2>3 DEF CacheExpires, NotCached
  <2>4. CASE UNCHANGED cache
    BY <2>1, <2>4
  <2> QED
    BY <2>2, <2>3, <2>4 DEF TwitchAnswers, StartRejects, Listen, Shutdown, bot
<1>4. /\ listener' \in {"off", "starting", "up"}
      /\ inOrder' \in BOOLEAN /\ (inOrder' => inOrder /\ UNCHANGED notices)
      /\ notices' \in Seq({"online", "offline"})
  <2>1. /\ listener \in {"off", "starting", "up"} /\ inOrder \in BOOLEAN
        /\ notices \in Seq({"online", "offline"})
    BY DEF LifeInv, TypeOK
  <2>2. CASE Shutdown
    <3>1. listener' = "off" /\ notices' = <<>> /\ inOrder' = (inOrder /\ notices = <<>>)
      BY <2>2 DEF Shutdown
    <3>2. notices' \in Seq({"online", "offline"})
      BY <3>1
    <3>3. inOrder' => inOrder /\ UNCHANGED notices
      BY <2>1, <3>1
    <3>4. inOrder' \in BOOLEAN
      BY <3>1
    <3> QED
      BY <3>1, <3>2, <3>3, <3>4
  <2>3. CASE Listen
    BY <2>1, <2>3 DEF Listen
  <2>4. CASE UNCHANGED <<listener, notices, inOrder>>
    BY <2>1, <2>4
  <2> QED
    BY <2>2, <2>3, <2>4 DEF TwitchAnswers, StartRejects, StreamFetched, CacheExpires, twitch
<1>5. /\ isLive \in BOOLEAN
      /\ spell \in [since : Times, left : Nat, clears : Nat]
      /\ used \in [flips : 0..MaxFlips, repeats : 0..MaxRepeats, crashes : 0..MaxCrashes,
                   starts : 0..MaxStarts]
  BY DEF LifeInv, TypeOK
<1>6. TypeOK' /\ LurksCounted' /\ EndsPast' /\ Swept'
  BY <1>1, <1>2, <1>3, <1>4, <1>5, StartFrame
<1>7. Grace' /\ Orderly'
  BY <1>1, <1>4 DEF LifeInv, Grace, Orderly, Flying, Latest
<1> QED
  BY <1>6, <1>7 DEF LifeInv

-----------------------------------------------------------------------------
(* The clock and the grace timers.                                         *)

LEMMA TickKeeps == ASSUME LifeInv, Tick PROVE LifeInv'
<1>1. /\ now < MaxNow /\ now' = now + 1
      /\ UNCHANGED <<live, notices, listener, start, cache, used, isLive, pending, spell, ref, armed,
                     sweepFailed, event, command, streams, lurks, inOrder>>
  BY DEF Tick, twitch, bot, service, timers, tables
<1>2. now \in Nat /\ now' \in Nat /\ now' >= now /\ now' \in Times
  <2>1. now \in Times /\ Epoch \in Nat /\ MaxNow \in Nat
    BY ConstantsAssumption DEF LifeInv, TypeOK
  <2> QED
    BY <1>1, <2>1 DEF Times
<1>3. TypeOK'
  <2>1. TypeOK
    BY DEF LifeInv
  <2> QED
    BY <1>1, <1>2, <2>1 DEF TypeOK
<1>4. EndsPast'
  <2>1. \A e \in Nat : e <= now => e <= now'
    BY <1>2
  <2>2. \A j \in DOMAIN streams : streams[j] \in Nat
    BY LifeTypes DEF LifeInv
  <2>3. \A h \in Handlers : Flying(h) => event[h].endTime \in Nat
    BY LifeTypes DEF LifeInv
  <2> QED
    BY <1>1, <2>1, <2>2, <2>3 DEF LifeInv, EndsPast, Flying
<1>5. Grace'
  <2>1. spell.since \in Nat
    BY LifeTypes DEF LifeInv
  <2>2. now >= spell.since + GracePeriod => now' >= spell.since + GracePeriod
    BY <1>2, <2>1 DEF GracePeriod
  <2> QED
    BY <1>1, <2>2 DEF LifeInv, Grace
<1>6. Orderly'
  BY <1>1 DEF LifeInv, Orderly, Flying, Latest
<1>7. LurksCounted' /\ Swept'
  BY <1>1 DEF LifeInv, LurksCounted, InFlight, Swept, Flying, OpenLurks
<1> QED
  BY <1>3, <1>4, <1>5, <1>6, <1>7 DEF LifeInv

\* The oldest grace timer clears the session: one left from before the spell, or the
\* last there is.
LEMMA SessionKeeps == ASSUME LifeInv, SessionCleared PROVE LifeInv'
<1>1. /\ pending # <<>> /\ Head(pending) <= now /\ pending' = Tail(pending)
      /\ spell' = [spell EXCEPT !.clears = @ + 1]
      /\ UNCHANGED <<now, live, notices, listener, start, cache, used, isLive, ref, armed, sweepFailed,
                     event, command, streams, lurks, inOrder>>
  BY DEF SessionCleared, twitch, bot, timers, tables
<1>2. /\ pending \in Seq(Nat) /\ spell \in [since : Times, left : Nat, clears : Nat]
      /\ spell.since \in Nat /\ spell.left \in Nat /\ spell.clears \in Nat /\ now \in Nat
  BY LifeTypes DEF LifeInv, TypeOK
<1>3. /\ pending' \in Seq(Nat) /\ Len(pending') = Len(pending) - 1 /\ Len(pending) \in Nat \ {0}
      /\ pending' # <<>> => pending'[Len(pending')] = pending[Len(pending)]
      /\ pending' = <<>> => Len(pending) = 1 /\ pending[Len(pending)] <= now
  <2>1. pending' \in Seq(Nat) /\ Len(pending') = Len(pending) - 1 /\ Len(pending) \in Nat \ {0}
    BY <1>1, <1>2, HeadTailProperties, EmptySeq
  <2>2. \A i \in 1..Len(pending') : pending'[i] = pending[i + 1]
    BY <1>1, <1>2
  <2>3. pending' # <<>> => pending'[Len(pending')] = pending[Len(pending)]
    <3>1. SUFFICES ASSUME pending' # <<>> PROVE pending'[Len(pending')] = pending[Len(pending)]
      OBVIOUS
    <3>2. Len(pending') # 0
      BY <2>1, <3>1, EmptySeq
    <3>3. Len(pending') \in 1..Len(pending') /\ Len(pending') + 1 = Len(pending)
      BY <2>1, <3>2
    <3> QED
      BY <2>2, <3>3
  <2>4. pending' = <<>> => Len(pending) = 1
    <3>1. pending' = <<>> => Len(pending') = 0
      BY EmptySeq
    <3> QED
      BY <2>1, <3>1
  <2>5. Head(pending) = pending[1]
    BY <1>1, <1>2
  <2> QED
    BY <1>1, <2>1, <2>3, <2>4, <2>5
<1>4. /\ spell' \in [since : Times, left : Nat, clears : Nat]
      /\ spell'.since = spell.since /\ spell'.left = spell.left
      /\ spell'.clears = spell.clears + 1
  <2>1. spell' = [since |-> spell.since, left |-> spell.left, clears |-> spell.clears + 1]
    BY <1>1, <1>2
  <2>2. spell.since \in Times /\ spell.clears + 1 \in Nat
    BY <1>2
  <2> QED
    BY <1>2, <2>1, <2>2
<1>5. TypeOK'
  BY <1>1, <1>3, <1>4 DEF LifeInv, TypeOK
<1>6. Grace'
  <2>1. Len(pending') + spell'.clears = Len(pending) + spell.clears
    BY <1>2, <1>3, <1>4
  <2>2. Len(pending) + spell.clears = spell.left + 1 =>
            pending[Len(pending)] = spell.since + GracePeriod
    BY <1>1 DEF LifeInv, Grace
  <2>3. Len(pending') + spell'.clears = spell'.left + 1 =>
            /\ pending' # <<>> => pending'[Len(pending')] = spell'.since + GracePeriod
            /\ pending' = <<>> => now >= spell'.since + GracePeriod
    BY <1>2, <1>3, <1>4, <2>1, <2>2 DEF GracePeriod
  <2>4. /\ Len(pending) + spell.clears \in {spell.left, spell.left + 1}
        /\ isLive => Len(pending) + spell.clears = spell.left
    BY DEF LifeInv, Grace
  <2> QED
    BY <1>1, <1>4, <2>1, <2>3, <2>4 DEF Grace
<1>7. Orderly' /\ EndsPast'
  BY <1>1 DEF LifeInv, Orderly, EndsPast, Flying, Latest
<1>8. LurksCounted' /\ Swept'
  BY <1>1 DEF LifeInv, LurksCounted, InFlight, Swept, Flying, OpenLurks
<1> QED
  BY <1>5, <1>6, <1>7, <1>8 DEF LifeInv


-----------------------------------------------------------------------------
(* StreamEventHandler.                                                     *)

\* A delivery puts an idle handler in flight for the oldest notice.
LEMMA DeliveryKeeps ==
    ASSUME LifeInv, NEW h \in Handlers, NEW kind \in {"online", "offline"}, NEW again \in BOOLEAN,
           Delivered(h, kind, again),
           NEW at, NEW endTime, Proceed(h, at, endTime), [at |-> at, endTime |-> endTime] \in Event,
           endTime <= now, at # "cleanup", at = "saveEnd" <=> kind = "offline",
           armed' \subseteq Timer, ref' \in armed' \cup {NoTimer}, sweepFailed' \in BOOLEAN
    PROVE  LifeInv'
<1>1. /\ event[h] = Idle /\ notices # <<>> /\ Head(notices) = kind
      /\ again => used.repeats < MaxRepeats
      /\ notices' = IF again THEN notices ELSE Tail(notices)
      /\ used' = [used EXCEPT !.repeats = IF again THEN @ + 1 ELSE @]
      /\ inOrder' = (inOrder /\ \A g \in Handlers : event[g] = Idle)
      /\ UNCHANGED <<now, live, listener, start, cache, isLive, pending, spell, command, streams,
                     lurks>>
  BY DEF Delivered, bot, service, tables
<1> DEFINE flight == [at |-> at, endTime |-> endTime]
<1>2. /\ event' = [event EXCEPT ![h] = flight] /\ event \in [Handlers -> Event \cup {Idle}]
      /\ flight \in Event /\ flight # Idle /\ flight.at = at /\ flight.endTime = endTime
  BY LifeTypes, SlotsAssumption DEF Proceed, LifeInv
<1> HIDE DEF flight
<1>3. event'[h] = flight /\ \A g \in Handlers : g # h => event'[g] = event[g]
  BY <1>2
<1>4. TypeOK'
  <2>1. used' \in [flips : 0..MaxFlips, repeats : 0..MaxRepeats, crashes : 0..MaxCrashes,
                 starts : 0..MaxStarts]
    <3>1. used.repeats \in 0..MaxRepeats /\ MaxRepeats \in Nat
      BY ConstantsAssumption DEF LifeInv, TypeOK
    <3>2. again => used.repeats + 1 \in 0..MaxRepeats
      BY <1>1, <3>1
    <3>3. CASE again
      BY <1>1, <3>2, <3>3 DEF LifeInv, TypeOK
    <3>4. CASE ~again
      <4>1. used' = [used EXCEPT !.repeats = @]
        BY <1>1, <3>4
      <4> QED
        BY <4>1 DEF LifeInv, TypeOK
    <3> QED
      BY <3>3, <3>4
  <2>2. notices' \in Seq({"online", "offline"})
    BY <1>1 DEF LifeInv, TypeOK
  <2>3. event' \in [Handlers -> Event \cup {Idle}]
    BY <1>2
  <2>4. inOrder' \in BOOLEAN
    BY <1>1
  <2> QED
    BY <1>1, <2>1, <2>2, <2>3, <2>4 DEF LifeInv, TypeOK
<1>5. Orderly'
  <2> SUFFICES ASSUME inOrder' PROVE Orderly'
    BY DEF Orderly
  <2>1. inOrder /\ \A g \in Handlers : event[g] = Idle
    BY <1>1
  <2>2. notices[Len(notices)] = Latest
    BY <1>1, <2>1 DEF LifeInv, Orderly
  <2>3. \A g \in Handlers : Flying(g)' => g = h
    BY <1>3, <2>1 DEF Flying
  <2>4. notices' # <<>> => notices'[Len(notices')] = Latest'
    <3>1. notices \in Seq({"online", "offline"})
      BY DEF LifeInv, TypeOK
    <3>2. notices' # <<>> => notices'[Len(notices')] = notices[Len(notices)]
      BY <1>1, <3>1
    <3> QED
      BY <1>1, <2>2, <3>2 DEF Latest
  <2>5. notices' = <<>> => (at = "saveEnd" <=> ~live)
    <3>1. notices \in Seq({"online", "offline"})
      BY DEF LifeInv, TypeOK
    <3>2. ASSUME notices' = <<>> PROVE Head(notices) = notices[Len(notices)]
      <4>1. Len(Tail(notices)) = Len(notices) - 1 /\ Len(notices) \in Nat /\ Head(notices) = notices[1]
        BY <1>1, <3>1
      <4>2. Tail(notices) = <<>>
        BY <1>1, <3>2
      <4>3. Len(Tail(notices)) = 0
        BY <1>1, <3>1, <4>2, EmptySeq, HeadTailProperties
      <4>4. Len(notices) = 1
        BY <4>1, <4>3
      <4> QED
        BY <4>1, <4>4
    <3>3. notices' = <<>> => kind = Latest
      BY <1>1, <2>2, <3>2
    <3> QED
      BY <3>3 DEF Latest
  <2>6. Flying(h)'
    BY <1>2, <1>3 DEF Flying
  <2> QED
    BY <1>1, <1>2, <1>3, <2>3, <2>4, <2>5, <2>6 DEF Orderly
<1>6. EndsPast'
  BY <1>1, <1>2, <1>3 DEF LifeInv, EndsPast, Flying
<1>7. Swept'
  BY <1>1, <1>2, <1>3 DEF LifeInv, Swept, Flying, OpenLurks
<1>8. Grace' /\ LurksCounted'
  BY <1>1 DEF LifeInv, Grace, LurksCounted, InFlight
<1> QED
  BY <1>4, <1>5, <1>6, <1>7, <1>8 DEF LifeInv

LEMMA OnlineKeeps ==
    ASSUME LifeInv, NEW h \in Handlers, NEW again \in BOOLEAN, OnlineArrives(h, again)
    PROVE  LifeInv'
<1>1. /\ NoEnd <= now /\ armed \subseteq Timer /\ sweepFailed \in BOOLEAN
      /\ [at |-> "saveStart", endTime |-> NoEnd] \in Event
      /\ [at |-> "lookup", endTime |-> NoEnd] \in Event
  BY LifeTypes DEF LifeInv, TypeOK, Event, NoEnd
<1>2. CASE ref # NoTimer
  <2>1. armed' \subseteq Timer /\ ref' \in armed' \cup {NoTimer} /\ sweepFailed' \in BOOLEAN
    BY <1>1, <1>2 DEF OnlineArrives
  <2> QED
    BY <1>1, <1>2, <2>1, DeliveryKeeps DEF OnlineArrives
<1>3. CASE ref = NoTimer
  <2>1. armed' \subseteq Timer /\ ref' \in armed' \cup {NoTimer} /\ sweepFailed' \in BOOLEAN
    BY <1>1, <1>3 DEF OnlineArrives, timers
  <2> QED
    BY <1>1, <1>3, <2>1, DeliveryKeeps DEF OnlineArrives
<1> QED
  BY <1>2, <1>3

LEMMA OfflineKeeps ==
    ASSUME LifeInv, NEW h \in Handlers, NEW again \in BOOLEAN, OfflineArrives(h, again)
    PROVE  LifeInv'
<1>1. NewTimer \in Timer
  <2>1. (CHOOSE id \in FreshIds : TRUE) \in 1..MaxTimers
    BY DEF OfflineArrives, FreshIds
  <2>2. DueAfter(now + UnlurkDelay) \in Nat
    BY LifeTypes DEF LifeInv, DueAfter, UnlurkDelay
  <2> QED
    BY <2>1, <2>2 DEF LifeInv, TypeOK, NewTimer, Timer
<1>2. now <= now /\ [at |-> "saveEnd", endTime |-> now] \in Event
  BY LifeTypes DEF LifeInv, Event
<1>3. armed' \subseteq Timer /\ ref' \in armed' \cup {NoTimer} /\ sweepFailed' \in BOOLEAN
  BY <1>1 DEF OfflineArrives, LifeInv, TypeOK
<1> QED
  BY <1>2, <1>3, DeliveryKeeps DEF OfflineArrives


\* A handler between its awaits stays in flight, and not to end a stream.
LEMMA MoveKeeps ==
    ASSUME LifeInv, NEW h \in Handlers, Flying(h), event[h].at # "saveEnd",
           NEW at \in {"cleanup", "saveStart"}, NEW endTime \in Ends, Proceed(h, at, endTime),
           endTime <= now, at = "cleanup" => endTime # NoEnd,
           UNCHANGED <<now, twitch, bot, service, timers, streams, inOrder>>
    PROVE  /\ event' \in [Handlers -> Event \cup {Idle}]
           /\ \A g \in Handlers : Flying(g)' <=> Flying(g)
           /\ \A g \in Handlers : Flying(g) =>
                  /\ event'[g].at = "saveEnd" <=> event[g].at = "saveEnd"
                  /\ event'[g].at = "saveEnd" => event'[g].endTime = event[g].endTime
           /\ Orderly' /\ EndsPast'
<1> DEFINE flight == [at |-> at, endTime |-> endTime]
<1>1. /\ event' = [event EXCEPT ![h] = flight] /\ event \in [Handlers -> Event \cup {Idle}]
      /\ flight \in Event /\ flight # Idle /\ flight.at = at /\ flight.endTime = endTime
  BY LifeTypes, SlotsAssumption DEF Proceed, LifeInv, Event
<1>2. UNCHANGED <<now, live, notices, listener, start, cache, used, isLive, pending, spell, ref,
                  armed, sweepFailed, streams, inOrder>>
  BY DEF twitch, bot, service, timers
<1> HIDE DEF flight
<1>3. event'[h] = flight /\ \A g \in Handlers : g # h => event'[g] = event[g]
  BY <1>1
<1>4. /\ event' \in [Handlers -> Event \cup {Idle}]
      /\ \A g \in Handlers : Flying(g)' <=> Flying(g)
  BY <1>1, <1>3 DEF Flying
<1>5. \A g \in Handlers : Flying(g) =>
          /\ event'[g].at = "saveEnd" <=> event[g].at = "saveEnd"
          /\ event'[g].at = "saveEnd" => event'[g].endTime = event[g].endTime
  BY <1>1, <1>3
<1>6. Orderly'
  BY <1>2, <1>4, <1>5 DEF LifeInv, Orderly, Latest
<1>7. EndsPast'
  BY <1>1, <1>2, <1>3, <1>4 DEF LifeInv, EndsPast
<1> QED
  BY <1>4, <1>5, <1>6, <1>7

\* The clean-up takes the latest end, which is not later than now.
LEMMA LookUpKeeps == ASSUME LifeInv, NEW h \in Handlers, LookUp(h) PROVE LifeInv'
<1>1. /\ Flying(h) /\ event[h].at = "lookup"
      /\ UNCHANGED <<now, twitch, bot, service, timers, command, streams, lurks, inOrder>>
  BY DEF LookUp, Flying, tables
<1>2. LastEnd \in Ends /\ LastEnd <= now /\ NoEnd \in Ends /\ NoEnd <= now
  <2>1. NoEnd \in Ends /\ NoEnd <= now
    BY LifeTypes DEF LifeInv, NoEnd
  <2>2. \A j \in DOMAIN streams : streams[j] \in Ends /\ streams[j] <= now
    BY LifeTypes DEF LifeInv, EndsPast
  <2> QED
    BY <2>1, <2>2, LastEndIs DEF LifeInv
<1>3. PICK at \in {"cleanup", "saveStart"}, endTime \in Ends :
          Proceed(h, at, endTime) /\ endTime <= now /\ (at = "cleanup" => endTime # NoEnd)
  BY <1>2 DEF LookUp
<1>4. /\ event' \in [Handlers -> Event \cup {Idle}]
      /\ \A g \in Handlers : Flying(g)' <=> Flying(g)
      /\ \A g \in Handlers : Flying(g) =>
             /\ event'[g].at = "saveEnd" <=> event[g].at = "saveEnd"
             /\ event'[g].at = "saveEnd" => event'[g].endTime = event[g].endTime
      /\ Orderly' /\ EndsPast'
  BY <1>1, <1>3, MoveKeeps
<1>5. UNCHANGED <<now, live, notices, listener, start, cache, used, isLive, pending, spell, ref,
                  armed, sweepFailed, command,
                  streams, lurks, inOrder>>
  BY <1>1 DEF twitch, bot, service, timers
<1>6. TypeOK' /\ LurksCounted' /\ Grace'
  BY <1>4, <1>5 DEF LifeInv, TypeOK, LurksCounted, InFlight, Grace
<1>7. Swept'
  BY <1>4, <1>5 DEF LifeInv, Swept, OpenLurks
<1> QED
  BY <1>4, <1>6, <1>7 DEF LifeInv

-----------------------------------------------------------------------------
(* The updates of the lurking users.                                       *)

\* Ending some rows at a time closes them and leaves the rest as it was.
LEMMA LurksEnded ==
    ASSUME TypeOK, NEW ids \in SUBSET (DOMAIN lurks), NEW endTime \in Times, EndLurks(ids, endTime)
    PROVE  /\ lurks' \in Seq(Lurk) /\ Len(lurks') = Len(lurks)
           /\ OpenLurks' = OpenLurks \ ids
           /\ \A i \in OpenLurks' : lurks'[i] = lurks[i]
<1>1. lurks \in Seq(Lurk) /\ endTime \in Ends /\ endTime # NoEnd
  BY LifeTypes
<1> DEFINE Ended(i) == [lurks[i] EXCEPT !.endTime = endTime]
<1>2. \A i \in DOMAIN lurks : Ended(i) \in Lurk /\ Ended(i).endTime = endTime
  <2>1. ASSUME NEW l \in Lurk
        PROVE  [l EXCEPT !.endTime = endTime] \in Lurk /\ [l EXCEPT !.endTime = endTime].endTime = endTime
    BY <1>1 DEF Lurk
  <2>2. \A i \in DOMAIN lurks : lurks[i] \in Lurk
    BY <1>1
  <2> QED
    BY <2>1, <2>2
<1>3. lurks' = [i \in DOMAIN lurks |-> IF i \in ids THEN Ended(i) ELSE lurks[i]]
  BY DEF EndLurks
<1> HIDE DEF Ended
<1>4. lurks' \in Seq(Lurk) /\ Len(lurks') = Len(lurks) /\ DOMAIN lurks' = DOMAIN lurks
  BY <1>1, <1>2, <1>3
<1>5. \A i \in DOMAIN lurks : lurks'[i] = IF i \in ids THEN Ended(i) ELSE lurks[i]
  BY <1>3
<1> QED
  BY <1>1, <1>2, <1>4, <1>5 DEF OpenLurks


LEMMA CleanUpKeeps == ASSUME LifeInv, NEW h \in Handlers, CleanUp(h) PROVE LifeInv'
<1>1. /\ Flying(h) /\ event[h].at = "cleanup" /\ Proceed(h, "saveStart", NoEnd)
      /\ EndLurks(OpenLurks, event[h].endTime)
      /\ UNCHANGED <<now, twitch, bot, service, timers, command, streams, inOrder>>
  BY DEF CleanUp, Flying
<1>2. event[h].endTime \in Times /\ NoEnd \in Ends /\ NoEnd <= now
  BY <1>1, LifeTypes DEF LifeInv, EndsPast, Ends, NoEnd
<1>3. event' \in [Handlers -> Event \cup {Idle}] /\ Orderly' /\ EndsPast'
  BY <1>1, <1>2, MoveKeeps
<1>4. OpenLurks \in SUBSET (DOMAIN lurks)
  BY DEF OpenLurks
<1>5. lurks' \in Seq(Lurk) /\ Len(lurks') = Len(lurks) /\ OpenLurks' = {}
  BY <1>1, <1>2, <1>4, LurksEnded DEF LifeInv
<1>6. UNCHANGED <<now, live, notices, listener, start, cache, used, isLive, pending, spell, ref,
                  armed, sweepFailed, command,
                  streams, inOrder>>
  BY <1>1 DEF twitch, bot, service, timers
<1>7. TypeOK'
  BY <1>3, <1>5, <1>6 DEF LifeInv, TypeOK, Lurk
<1>8. LurksCounted' /\ Grace' /\ Swept'
  BY <1>5, <1>6 DEF LifeInv, LurksCounted, InFlight, Grace, Swept
<1> QED
  BY <1>3, <1>7, <1>8 DEF LifeInv

LEMMA CleanUpRejectsKeeps == ASSUME LifeInv, NEW h \in Handlers, CleanUpRejects(h) PROVE LifeInv'
<1>1. used' = [used EXCEPT !.starts = 0] /\ 0 \in 0..MaxStarts
  BY ConstantsAssumption DEF CleanUpRejects
<1>2. used' \in [flips : 0..MaxFlips, repeats : 0..MaxRepeats, crashes : 0..MaxCrashes,
                 starts : 0..MaxStarts]
  BY <1>1 DEF LifeInv, TypeOK
<1> QED
  BY <1>2, EndKeeps DEF CleanUpRejects

-----------------------------------------------------------------------------
(* A handler's end, with StreamStateService told.                          *)

LEMMA SaveKeeps ==
    ASSUME LifeInv, NEW h \in Handlers, Flying(h), Done(h),
           event[h].at \in {"saveStart", "saveEnd"},
           event[h].at = "saveStart" => SetOnline, event[h].at = "saveEnd" => SetOffline,
           streams' \in Seq(Ends),
           \A j \in DOMAIN streams' :
               \/ streams'[j] = NoEnd
               \/ \E k \in DOMAIN streams : streams'[j] = streams[k]
               \/ event[h].at = "saveEnd" /\ streams'[j] = event[h].endTime,
           UNCHANGED <<now, twitch, bot, timers, command, lurks, inOrder>>
    PROVE  LifeInv'
<1>1. /\ event' = [event EXCEPT ![h] = Idle]
      /\ UNCHANGED <<now, live, notices, listener, start, cache, used, ref, armed, sweepFailed, command,
                     lurks, inOrder>>
  BY DEF Done, twitch, bot, timers
<1>2. \A g \in Handlers : event'[g] = IF g = h THEN Idle ELSE event[g]
  BY <1>1, LifeTypes DEF LifeInv
<1>3. \A g \in Handlers : (Flying(g)' <=> Flying(g) /\ g # h) /\ (Flying(g)' => event'[g] = event[g])
  BY <1>2 DEF Flying
<1>5. now \in Nat /\ now \in Times /\ now >= 1
  BY LifeTypes DEF LifeInv, TypeOK
<1>6. /\ isLive' <=> event[h].at = "saveStart"
      /\ isLive' \in BOOLEAN /\ pending' \in Seq(Nat)
      /\ spell' \in [since : Times, left : Nat, clears : Nat]
      /\ Grace'
  <2>1. CASE event[h].at = "saveStart"
    <3>1. isLive' = TRUE /\ pending' = <<>> /\ spell' = [since |-> now, left |-> 0, clears |-> 0]
      BY <2>1 DEF SetOnline
    <3>2. /\ spell' \in [since : Times, left : Nat, clears : Nat]
          /\ spell'.left = 0 /\ spell'.clears = 0
      BY <1>5, <3>1
    <3>3. pending' \in Seq(Nat) /\ Len(pending') = 0
      BY <3>1
    <3> QED
      BY <2>1, <3>1, <3>2, <3>3 DEF Grace
  <2>2. CASE event[h].at = "saveEnd" /\ ~isLive
    <3>1. UNCHANGED <<isLive, pending, spell>>
      BY <2>2 DEF SetOffline, service
    <3>2. isLive' \in BOOLEAN /\ ~isLive' /\ event[h].at # "saveStart"
      BY <2>2, <3>1 DEF LifeInv, TypeOK
    <3>3. pending' \in Seq(Nat) /\ spell' \in [since : Times, left : Nat, clears : Nat]
      BY <3>1 DEF LifeInv, TypeOK
    <3>4. Grace'
      BY <1>1, <3>1 DEF LifeInv, Grace
    <3> QED
      BY <3>2, <3>3, <3>4
  <2>3. CASE event[h].at = "saveEnd" /\ isLive
    <3>1. /\ isLive' = FALSE /\ pending' = Append(pending, now + GracePeriod)
          /\ spell' = [since |-> now, left |-> Len(pending), clears |-> 0]
      BY <2>3 DEF SetOffline
    <3>2. pending \in Seq(Nat) /\ Len(pending) \in Nat /\ now + GracePeriod \in Nat
      BY <1>5 DEF LifeInv, TypeOK, GracePeriod
    <3>3. /\ pending' \in Seq(Nat) /\ Len(pending') = Len(pending) + 1
          /\ pending'[Len(pending')] = now + GracePeriod /\ pending' # <<>>
      BY <3>1, <3>2
    <3>4. /\ spell' \in [since : Times, left : Nat, clears : Nat]
          /\ spell'.clears = 0 /\ spell'.since = now /\ spell'.left = Len(pending)
      BY <1>5, <3>1, <3>2
    <3>5. Grace'
      <4>1. Len(pending') + spell'.clears = spell'.left + 1
        BY <3>2, <3>3, <3>4
      <4> QED
        BY <3>1, <3>3, <3>4, <4>1 DEF Grace
    <3> QED
      BY <2>3, <3>1, <3>3, <3>4, <3>5
  <2> QED
    BY <2>1, <2>2, <2>3
<1>7. TypeOK'
  <2>1. event' \in [Handlers -> Event \cup {Idle}]
    BY <1>1 DEF LifeInv, TypeOK
  <2> QED
    BY <1>1, <1>6, <2>1 DEF LifeInv, TypeOK
<1>9. Orderly'
  <2> SUFFICES ASSUME inOrder PROVE Orderly'
    BY <1>1 DEF Orderly
  <2>1. \A g \in Handlers : ~Flying(g)'
    BY <1>3 DEF LifeInv, Orderly
  <2>2. notices # <<>> => notices[Len(notices)] = Latest
    BY DEF LifeInv, Orderly
  <2>3. notices = <<>> => (event[h].at = "saveEnd" <=> ~live)
    BY DEF LifeInv, Orderly
  <2>4. notices = <<>> => (isLive' <=> live)
    BY <1>6, <2>3 DEF LifeInv, TypeOK
  <2> QED
    BY <1>1, <2>1, <2>2, <2>4 DEF Orderly, Latest
<1>10. EndsPast'
  <2>1. \A j \in DOMAIN streams' : streams'[j] <= now
    BY <1>5 DEF LifeInv, EndsPast, NoEnd
  <2> QED
    BY <1>1, <1>3, <2>1 DEF LifeInv, EndsPast
<1>11. Swept'
  <2> SUFFICES ASSUME ref \notin armed, ref # NoTimer, ~sweepFailed, NEW i \in OpenLurks
               PROVE  /\ \A j \in DOMAIN streams' : streams'[j] <= lurks[i].createdAt
                      /\ \A g \in Handlers : Flying(g)' /\ event'[g].at = "saveEnd" =>
                             event'[g].endTime <= lurks[i].createdAt
    BY <1>1 DEF Swept, OpenLurks
  <2>1. /\ \A k \in DOMAIN streams : streams[k] <= lurks[i].createdAt
        /\ \A g \in Handlers : Flying(g) /\ event[g].at = "saveEnd" =>
               event[g].endTime <= lurks[i].createdAt
    BY DEF LifeInv, Swept
  <2>2. NoEnd <= lurks[i].createdAt
    BY LifeTypes DEF LifeInv, OpenLurks, NoEnd
  <2> QED
    BY <1>3, <2>1, <2>2
<1>12. LurksCounted'
  BY <1>1 DEF LifeInv, LurksCounted, InFlight
<1> QED
  BY <1>7, <1>6, <1>9, <1>10, <1>11, <1>12 DEF LifeInv


LEMMA SaveStartKeeps == ASSUME LifeInv, NEW h \in Handlers, SaveStart(h) PROVE LifeInv'
<1>1. /\ Flying(h) /\ Done(h) /\ event[h].at = "saveStart" /\ SetOnline
      /\ streams' = Append(streams, NoEnd)
      /\ UNCHANGED <<now, twitch, bot, timers, command, lurks, inOrder>>
  BY DEF SaveStart, Flying
<1>2. streams \in Seq(Ends) /\ NoEnd \in Ends
  BY LifeTypes DEF LifeInv, TypeOK
<1>3. /\ streams' \in Seq(Ends)
      /\ \A j \in DOMAIN streams' :
             streams'[j] = NoEnd \/ \E k \in DOMAIN streams : streams'[j] = streams[k]
  BY <1>1, <1>2
<1> QED
  BY <1>1, <1>3, SaveKeeps

LEMMA SaveEndKeeps == ASSUME LifeInv, NEW h \in Handlers, SaveEnd(h) PROVE LifeInv'
<1>1. /\ Flying(h) /\ Done(h) /\ event[h].at = "saveEnd" /\ SetOffline
      /\ streams' = [i \in DOMAIN streams |->
                        IF streams[i] = NoEnd THEN event[h].endTime ELSE streams[i]]
      /\ UNCHANGED <<now, twitch, bot, timers, command, lurks, inOrder>>
  BY DEF SaveEnd, Flying
<1>2. streams \in Seq(Ends) /\ event[h].endTime \in Ends
  BY <1>1, LifeTypes DEF LifeInv, TypeOK
<1>3. streams' \in Seq(Ends)
  BY <1>1, <1>2
<1>4. \A j \in DOMAIN streams' :
          \/ \E k \in DOMAIN streams : streams'[j] = streams[k]
          \/ streams'[j] = event[h].endTime
  BY <1>1
<1> QED
  BY <1>1, <1>3, <1>4, SaveKeeps

LEMMA SaveRejectsKeeps == ASSUME LifeInv, NEW h \in Handlers, SaveRejects(h) PROVE LifeInv'
<1>1. /\ Flying(h) /\ Done(h) /\ event[h].at \in {"saveStart", "saveEnd"}
      /\ event[h].at = "saveStart" => SetOnline
      /\ event[h].at = "saveEnd" => SetOffline
      /\ UNCHANGED <<now, twitch, bot, timers, command, streams, lurks, inOrder>>
  BY DEF SaveRejects, Flying, tables
<1>2. streams' \in Seq(Ends)
  BY <1>1 DEF LifeInv, TypeOK
<1>3. \A j \in DOMAIN streams' : \E k \in DOMAIN streams : streams'[j] = streams[k]
  BY <1>1
<1> QED
  BY <1>1, <1>2, <1>3, SaveKeeps

\* unlurkUsers leaves no lurk open.
LEMMA TimerKeeps == ASSUME LifeInv, NEW t \in armed, TimerFires(t) PROVE LifeInv'
<1>1. /\ armed' = armed \ {t} /\ EndLurks(OpenLurks, t.endTime)
      /\ UNCHANGED <<now, live, notices, listener, start, cache, used, isLive, pending, spell, ref,
                     sweepFailed, event, command, streams, inOrder>>
  BY DEF TimerFires, twitch, bot, service
<1>2. t.endTime \in Times /\ armed' \subseteq Timer
  BY <1>1 DEF LifeInv, TypeOK, Timer
<1>3. OpenLurks \in SUBSET (DOMAIN lurks)
  BY DEF OpenLurks
<1>4. lurks' \in Seq(Lurk) /\ Len(lurks') = Len(lurks) /\ OpenLurks' = {}
  BY <1>1, <1>2, <1>3, LurksEnded DEF LifeInv
<1>5. TypeOK'
  BY <1>1, <1>2, <1>4 DEF LifeInv, TypeOK, Lurk
<1>6. Orderly' /\ EndsPast'
  BY <1>1 DEF LifeInv, Orderly, EndsPast, Flying, Latest
<1>7. LurksCounted' /\ Grace' /\ Swept'
  BY <1>1, <1>4 DEF LifeInv, LurksCounted, InFlight, Grace, Swept
<1> QED
  BY <1>5, <1>6, <1>7 DEF LifeInv

\* A sweep that was rejected is that of the timer referred to, or of an older one.
LEMMA SweepRejectsKeeps == ASSUME LifeInv, NEW t \in armed, SweepRejects(t) PROVE LifeInv'
<1>1. /\ armed' = armed \ {t} /\ sweepFailed' = (sweepFailed \/ t = ref)
      /\ UNCHANGED <<now, live, notices, listener, start, cache, used, isLive, pending, spell, ref,
                     event, command, streams, lurks, inOrder>>
  BY DEF SweepRejects, twitch, bot, service, tables
<1>2. TypeOK'
  <2>1. armed' \subseteq Timer /\ sweepFailed' \in BOOLEAN
    BY <1>1 DEF LifeInv, TypeOK
  <2> QED
    BY <1>1, <2>1 DEF LifeInv, TypeOK
<1>3. Orderly' /\ EndsPast'
  BY <1>1 DEF LifeInv, Orderly, EndsPast, Flying, Latest
<1>4. LurksCounted' /\ Grace'
  BY <1>1 DEF LifeInv, LurksCounted, InFlight, Grace
<1>5. Swept'
  BY <1>1 DEF LifeInv, Swept, OpenLurks, Flying
<1> QED
  BY <1>2, <1>3, <1>4, <1>5 DEF LifeInv

-----------------------------------------------------------------------------
(* The lurk commands.                                                      *)

\* What a command's step leaves alone keeps its part of the invariant.
LEMMA CommandFrame ==
    ASSUME LifeInv, UNCHANGED <<now, twitch, bot, service, timers, event, streams, inOrder>>,
           command' \in [Messages -> Command \cup {Idle}],
           lurks' \in Seq(Lurk), LurksCounted'
    PROVE  TypeOK' /\ Orderly' /\ EndsPast' /\ Grace'
<1>1. UNCHANGED <<now, live, notices, listener, start, cache, used, isLive, pending, spell, ref,
                  armed, sweepFailed, event,
                  streams, inOrder>>
  BY DEF twitch, bot, service, timers
<1>2. Len(lurks') <= MaxLurks
  <2>1. Cardinality(InFlight') \in Nat /\ Len(lurks') \in Nat
    BY FS_CardinalityType DEF LurksCounted
  <2> QED
    BY <2>1, ConstantsAssumption DEF LurksCounted
<1>3. TypeOK'
  BY <1>1, <1>2 DEF LifeInv, TypeOK, Lurk
<1>4. Orderly' /\ EndsPast' /\ Grace'
  BY <1>1 DEF LifeInv, Orderly, EndsPast, Grace, Flying, Latest
<1> QED
  BY <1>3, <1>4

\* A command that ends is in flight no more.
LEMMA CommandEnds ==
    ASSUME LifeInv, NEW m \in Messages, command[m] # Idle, command' = [command EXCEPT ![m] = Idle]
    PROVE  /\ command' \in [Messages -> Command \cup {Idle}]
           /\ IsFiniteSet(InFlight') /\ Cardinality(InFlight') \in Nat
           /\ Cardinality(InFlight) = Cardinality(InFlight') + 1
<1>1. command \in [Messages -> Command \cup {Idle}]
  BY LifeTypes DEF LifeInv
<1>2. InFlight' = InFlight \ {m} /\ m \in InFlight
  BY <1>1 DEF InFlight
<1>3. /\ IsFiniteSet(InFlight') /\ Cardinality(InFlight') = Cardinality(InFlight) - 1
      /\ Cardinality(InFlight) \in Nat /\ Cardinality(InFlight') \in Nat
  BY <1>2, FS_RemoveElement, FS_CardinalityType DEF LifeInv, LurksCounted
<1> QED
  BY <1>1, <1>3

LEMMA AdmitKeeps ==
    ASSUME LifeInv, NEW m \in Messages, NEW u \in Users, Admit(m, u)
    PROVE  LifeInv'
<1>1. PICK at \in {"find", "unlurk"} : command' = [command EXCEPT ![m] = [at |-> at, user |-> u]]
  BY DEF Admit
<1>2. /\ command[m] = Idle /\ Len(lurks) + Cardinality(InFlight) < MaxLurks
      /\ UNCHANGED <<now, twitch, bot, service, timers, event, streams, lurks, inOrder>>
  BY DEF Admit, tables
<1> DEFINE call == [at |-> at, user |-> u]
<1>3. call \in Command /\ call # Idle
  BY SlotsAssumption DEF Command
<1>4. command \in [Messages -> Command \cup {Idle}] /\ command' = [command EXCEPT ![m] = call]
  BY <1>1, LifeTypes DEF LifeInv
<1> HIDE DEF call
<1>5. command' \in [Messages -> Command \cup {Idle}] /\ InFlight' = InFlight \cup {m}
  BY <1>3, <1>4 DEF InFlight
<1>6. m \notin InFlight
  BY <1>2 DEF InFlight
<1>7. LurksCounted'
  <2>1. /\ IsFiniteSet(InFlight') /\ Cardinality(InFlight') = Cardinality(InFlight) + 1
        /\ Cardinality(InFlight) \in Nat /\ Len(lurks) \in Nat
    BY <1>5, <1>6, FS_AddElement, FS_CardinalityType, LifeTypes DEF LifeInv, LurksCounted
  <2> QED
    BY <1>2, <2>1, ConstantsAssumption DEF LurksCounted
<1>8. TypeOK' /\ Orderly' /\ EndsPast' /\ Grace'
  <2>1. lurks' \in Seq(Lurk)
    BY <1>2, LifeTypes DEF LifeInv
  <2> QED
    BY <1>2, <1>5, <1>7, <2>1, CommandFrame
<1>9. Swept'
  BY <1>2 DEF LifeInv, Swept, Flying, OpenLurks, timers
<1> QED
  BY <1>7, <1>8, <1>9 DEF LifeInv

LEMMA FindKeeps == ASSUME LifeInv, NEW m \in Messages, LurkFind(m) PROVE LifeInv'
<1>1. /\ command[m] # Idle /\ command[m].at = "find"
      /\ command' = [command EXCEPT ![m] =
                        IF LurksOf(command[m].user) = {} THEN [@ EXCEPT !.at = "create"] ELSE Idle]
      /\ UNCHANGED <<now, twitch, bot, service, timers, event, streams, lurks, inOrder>>
  BY DEF LurkFind, tables
<1>2. lurks' \in Seq(Lurk) /\ command \in [Messages -> Command \cup {Idle}] /\ Len(lurks) \in Nat
  BY <1>1, LifeTypes DEF LifeInv
<1>3. Swept'
  BY <1>1 DEF LifeInv, Swept, Flying, OpenLurks, timers
<1>4. CASE LurksOf(command[m].user) = {}
  <2> DEFINE call == [command[m] EXCEPT !.at = "create"]
  <2>1. command[m] \in Command
    BY <1>1, <1>2
  <2>2. call \in Command /\ call # Idle
    BY <2>1, SlotsAssumption DEF Command
  <2>3. command' = [command EXCEPT ![m] = call]
    BY <1>1, <1>4
  <2> HIDE DEF call
  <2>4. command' \in [Messages -> Command \cup {Idle}] /\ InFlight' = InFlight
    BY <1>1, <1>2, <2>2, <2>3 DEF InFlight
  <2>5. LurksCounted'
    BY <1>1, <2>4 DEF LifeInv, LurksCounted
  <2> QED
    BY <1>1, <1>2, <1>3, <2>4, <2>5, CommandFrame DEF LifeInv
<1>5. CASE LurksOf(command[m].user) # {}
  <2>1. command' = [command EXCEPT ![m] = Idle]
    BY <1>1, <1>5
  <2>2. LurksCounted'
    BY <1>1, <1>2, <2>1, CommandEnds, ConstantsAssumption DEF LifeInv, LurksCounted
  <2>3. command' \in [Messages -> Command \cup {Idle}]
    BY <1>1, <2>1, CommandEnds
  <2> QED
    BY <1>1, <1>2, <1>3, <2>2, <2>3, CommandFrame DEF LifeInv
<1> QED
  BY <1>4, <1>5


\* A new row is not older than any end there is.
LEMMA CreateKeeps == ASSUME LifeInv, NEW m \in Messages, LurkCreate(m) PROVE LifeInv'
<1> DEFINE row == [user |-> command[m].user, createdAt |-> now, endTime |-> NoEnd]
<1>1. /\ command[m] # Idle /\ lurks' = Append(lurks, row)
      /\ command' = [command EXCEPT ![m] = Idle]
      /\ UNCHANGED <<now, twitch, bot, service, timers, event, streams, inOrder>>
  BY DEF LurkCreate
<1>2. command \in [Messages -> Command \cup {Idle}] /\ lurks \in Seq(Lurk) /\ Len(lurks) \in Nat
  BY LifeTypes DEF LifeInv
<1>3. command[m].user \in Users
  BY <1>1, <1>2 DEF Command
<1>4. row \in Lurk /\ row.createdAt = now
  BY <1>3, LifeTypes DEF LifeInv, TypeOK, Lurk
<1> HIDE DEF row
<1>5. lurks' \in Seq(Lurk) /\ Len(lurks') = Len(lurks) + 1
  BY <1>1, <1>2, <1>4
<1>6. \A i \in OpenLurks' : (i \in OpenLurks /\ lurks'[i] = lurks[i]) \/ lurks'[i] = row
  BY <1>1, <1>2, <1>4 DEF OpenLurks
<1>7. LurksCounted'
  <2>1. /\ IsFiniteSet(InFlight') /\ Cardinality(InFlight') \in Nat
        /\ Cardinality(InFlight) = Cardinality(InFlight') + 1
    BY <1>1, CommandEnds
  <2>2. Len(lurks) + Cardinality(InFlight) <= MaxLurks /\ MaxLurks \in Nat
    BY ConstantsAssumption DEF LifeInv, LurksCounted
  <2>3. Len(lurks') + Cardinality(InFlight') <= MaxLurks
    BY <1>2, <1>5, <2>1, <2>2
  <2> QED
    BY <2>1, <2>3 DEF LurksCounted
<1>8. TypeOK' /\ Orderly' /\ EndsPast' /\ Grace'
  BY <1>1, <1>5, <1>7, CommandEnds, CommandFrame
<1>9. Swept'
  <2> SUFFICES ASSUME ref \notin armed, ref # NoTimer, ~sweepFailed, NEW i \in OpenLurks'
               PROVE  /\ \A j \in DOMAIN streams : streams[j] <= lurks'[i].createdAt
                      /\ \A h \in Handlers : Flying(h) /\ event[h].at = "saveEnd" =>
                             event[h].endTime <= lurks'[i].createdAt
    BY <1>1 DEF Swept, Flying, timers
  <2>1. CASE i \in OpenLurks /\ lurks'[i] = lurks[i]
    BY <2>1 DEF LifeInv, Swept
  <2>2. CASE lurks'[i] = row
    BY <1>4, <2>2 DEF LifeInv, EndsPast
  <2> QED
    BY <1>6, <2>1, <2>2
<1> QED
  BY <1>7, <1>8, <1>9 DEF LifeInv

LEMMA UnlurkKeeps == ASSUME LifeInv, NEW m \in Messages, Unlurk(m) PROVE LifeInv'
<1>1. /\ command[m] # Idle /\ EndLurks(LurksOf(command[m].user), now)
      /\ command' = [command EXCEPT ![m] = Idle]
      /\ UNCHANGED <<now, twitch, bot, service, timers, event, streams, inOrder>>
  BY DEF Unlurk
<1>2. LurksOf(command[m].user) \in SUBSET (DOMAIN lurks) /\ now \in Times
  BY DEF LurksOf, OpenLurks, LifeInv, TypeOK
<1>3. /\ lurks' \in Seq(Lurk) /\ Len(lurks') = Len(lurks)
      /\ OpenLurks' \subseteq OpenLurks
      /\ \A i \in OpenLurks' : lurks'[i] = lurks[i]
  BY <1>1, <1>2, LurksEnded DEF LifeInv
<1>4. Len(lurks) \in Nat
  BY LifeTypes DEF LifeInv
<1>5. LurksCounted'
  <2>1. /\ IsFiniteSet(InFlight') /\ Cardinality(InFlight') \in Nat
        /\ Cardinality(InFlight) = Cardinality(InFlight') + 1
    BY <1>1, CommandEnds
  <2>2. Len(lurks) + Cardinality(InFlight) <= MaxLurks /\ MaxLurks \in Nat
    BY ConstantsAssumption DEF LifeInv, LurksCounted
  <2>3. Len(lurks') + Cardinality(InFlight') <= MaxLurks
    BY <1>3, <1>4, <2>1, <2>2
  <2> QED
    BY <2>1, <2>3 DEF LurksCounted
<1>6. TypeOK' /\ Orderly' /\ EndsPast' /\ Grace'
  BY <1>1, <1>3, <1>5, CommandEnds, CommandFrame
<1>7. Swept'
  BY <1>1, <1>3 DEF LifeInv, Swept, Flying, timers
<1> QED
  BY <1>5, <1>6, <1>7 DEF LifeInv

-----------------------------------------------------------------------------
(* The theorems.                                                           *)

LEMMA LifeStep == LifeInv /\ [Next]_vars => LifeInv'
<1> SUFFICES ASSUME LifeInv, [Next]_vars PROVE LifeInv'
  OBVIOUS
<1>1. CASE StreamFlips \/ Crash \/ Listen \/ Shutdown \/ Tick
  BY <1>1, FlipKeeps, CrashKeeps, AroundStartKeeps, TickKeeps
<1>6. CASE \E s \in Starts : StartStep(s)
  BY <1>6, StartBeginsKeeps, InitializeKeeps, AroundStartKeeps DEF StartStep
<1>7. CASE StreamFetched \/ CacheExpires \/ SessionCleared
  BY <1>7, AroundStartKeeps, SessionKeeps
<1>2. CASE \E h \in Handlers : HandlerStep(h)
  <2>1. PICK h \in Handlers : HandlerStep(h)
    BY <1>2
  <2>2. CASE \E again \in BOOLEAN : OnlineArrives(h, again) \/ OfflineArrives(h, again)
    BY <2>2, OnlineKeeps, OfflineKeeps
  <2>3. CASE LookUp(h) \/ CleanUp(h) \/ CleanUpRejects(h)
    BY <2>3, LookUpKeeps, CleanUpKeeps, CleanUpRejectsKeeps
  <2>4. CASE SaveStart(h) \/ SaveEnd(h) \/ SaveRejects(h)
    BY <2>4, SaveStartKeeps, SaveEndKeeps, SaveRejectsKeeps
  <2> QED
    BY <2>1, <2>2, <2>3, <2>4 DEF HandlerStep
<1>3. CASE \E t \in armed : TimerFires(t) \/ SweepRejects(t)
  BY <1>3, TimerKeeps, SweepRejectsKeeps
<1>4. CASE \E m \in Messages : CommandStep(m)
  BY <1>4, AdmitKeeps, FindKeeps, CreateKeeps, UnlurkKeeps DEF CommandStep
<1>5. CASE UNCHANGED vars
  <2>1. /\ UNCHANGED <<now, live, notices, listener, start, cache, used, isLive, pending, spell>>
        /\ UNCHANGED <<ref, armed, sweepFailed, event, command, streams, lurks, inOrder>>
    BY <1>5 DEF vars, twitch, bot, service, timers, tables
  <2>2. TypeOK' /\ Grace' /\ EndsPast'
    BY <2>1 DEF LifeInv, TypeOK, Grace, EndsPast, Flying
  <2>3. LurksCounted' /\ Orderly' /\ Swept'
    BY <2>1 DEF LifeInv, LurksCounted, InFlight, Orderly, Latest, Swept, Flying, OpenLurks
  <2> QED
    BY <2>2, <2>3 DEF LifeInv
<1> QED
  BY <1>1, <1>2, <1>3, <1>4, <1>5, <1>6, <1>7 DEF Next

LEMMA LifeAlways == Spec => []LifeInv
<1>1. LifeInv /\ [Next]_vars => LifeInv'
  BY LifeStep
<1> QED
  BY InitLifeInv, <1>1, PTL DEF Spec

\* The rows, the timers and the handlers keep their types, and the bound on the lurking
\* users is kept though a row is only written after its command was admitted.
THEOREM LifeTyped == Spec => []TypeOK
<1>1. LifeInv => TypeOK
  BY DEF LifeInv
<1> QED
  BY <1>1, LifeAlways, PTL

\* setOffline, setOnline and initialize: beyond the grace timers a start has left
\* running, a greeting session is cleared only when isLive has been false for the whole
\* grace period, and once per outage, however the handlers of the events and the starts
\* interleave and whatever the database rejects.
THEOREM GraceKept == Spec => []ClearsFollowGrace
<1>1. LifeInv => ClearsFollowGrace
  <2> SUFFICES ASSUME LifeInv, spell.clears > spell.left
               PROVE  /\ ~isLive /\ spell.clears = spell.left + 1
                      /\ now >= spell.since + GracePeriod
    BY DEF ClearsFollowGrace
  <2>1. /\ Len(pending) + spell.clears \in {spell.left, spell.left + 1}
        /\ spell.left \in Nat /\ spell.clears \in Nat /\ Len(pending) \in Nat
    BY LifeTypes DEF LifeInv, Grace
  <2>2. Len(pending) = 0 /\ spell.clears = spell.left + 1
    BY <2>1
  <2>3. pending = <<>>
    BY <2>2, EmptySeq DEF LifeInv, TypeOK
  <2>4. Len(pending) + spell.clears = spell.left + 1 /\ spell.left # spell.left + 1
    BY <2>1, <2>2
  <2> QED
    BY <2>2, <2>3, <2>4 DEF LifeInv, Grace
<1> QED
  BY <1>1, LifeAlways, PTL

\* streamOnline and streamOffline: for a lurker older than the last stream's end the timer
\* that is referred to is still to fire, or the next streamOnline cleans up, unless the
\* very sweep of that timer was rejected.
THEOREM LurkersSwept == Spec => []OldLurkersWillBeSwept
<1>1. LifeInv => OldLurkersWillBeSwept
  <2> SUFFICES ASSUME LifeInv, ref \notin armed, ref # NoTimer, ~sweepFailed,
                      NEW i \in OpenLurks, lurks[i].createdAt < LastEnd
               PROVE  FALSE
    BY DEF OldLurkersWillBeSwept, OldLurks
  <2>1. lurks[i].createdAt \in Nat /\ i \in DOMAIN lurks
    BY LifeTypes DEF LifeInv, OpenLurks
  <2>2. CASE LastEnd = NoEnd
    BY <2>1, <2>2 DEF NoEnd
  <2>3. CASE \E j \in DOMAIN streams : LastEnd = streams[j]
    <3>1. PICK j \in DOMAIN streams : LastEnd = streams[j]
      BY <2>3
    <3>2. streams[j] \in Nat /\ streams[j] <= lurks[i].createdAt
      BY LifeTypes DEF LifeInv, Swept
    <3> QED
      BY <2>1, <3>1, <3>2
  <2> QED
    BY <2>2, <2>3, LastEndIs DEF LifeInv
<1> QED
  BY <1>1, LifeAlways, PTL

\* The callbacks of onStreamOnline and onStreamOffline, and initialize: when the last start
\* took the state Twitch was in, and the events since came one after another, isLive is what
\* Twitch says as soon as the last of them is handled.
THEOREM QuietAgrees == Spec => []QuietStateAgrees
<1>1. LifeInv => QuietStateAgrees
  <2> SUFFICES ASSUME LifeInv, Quiet, inOrder PROVE isLive = live
    BY DEF QuietStateAgrees
  <2>1. isLive <=> live
    BY DEF LifeInv, Orderly, Quiet, NothingHandled, Flying
  <2> QED
    BY <2>1 DEF LifeInv, TypeOK
<1> QED
  BY <1>1, LifeAlways, PTL
=============================================================================
